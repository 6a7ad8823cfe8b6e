------------------------------ MODULE MCWalks ------------------------------
(* The two walks of the program for TLC, side by side: that of the extractor *)
(* over a syntax tree, and those over the finished graph.  They share no     *)
(* state, and a behaviour is of one of them; the other rests where it began. *)
(*                                                                           *)
(* Syntax: all files of four nodes, and larger ones below an exported call   *)
(* and below a class of either language, where the extractors nest.  Graphs: *)
(* four nodes and few edges, each question at depths 1, 2 and as many as     *)
(* there are nodes.                                                          *)
EXTENDS Traversal, Extraction, FiniteSetsExt
CONSTANTS w1, w2, w3, w4, MaxUses, MaxSyntax

VARIABLE walk

FewNodes == {w1, w2, w3, w4}
Pairs == {p \in FewNodes \X FewNodes : p[1] # p[2]}
UpTo(k) == UNION {kSubset(i, Pairs) : i \in 0 .. k}
FewEdges == {[uses |-> u, holds |-> h] : u \in UpTo(MaxUses), 
                h \in {{}, {<<w1, w2>>, <<w1, w3>>}, {<<w1, w2>>, <<w2, w1>>}, {<<w2, w3>>}}}

Ask(what, depth, limit) ==
  [what |-> what, depth |-> depth, limit |-> limit, direction |-> "outgoing", goal |-> w4]
Questions ==
  {Ask("bfs", 2, 3), Ask("bfs", 4, 10), Ask("dfs", 2, 3), Ask("dfs", 4, 10),
   [Ask("bfs", 2, 10) EXCEPT !.direction = "both"], [Ask("dfs", 1, 10) EXCEPT !.direction = "incoming"],
   Ask("callers", 1, 10), Ask("callers", 2, 10), Ask("callees", 4, 10),
   Ask("impact", 1, 10), Ask("impact", 2, 10), Ask("impact", 4, 10),
   Ask("hierarchy", 0, 10), Ask("path", 0, 10), Ask("ancestors", 0, 10), Ask("cycles", 0, 10)}

-----------------------------------------------------------------------------
Files   == UNION {Grown(Chain(<<"file">>), lang, MaxSyntax) : lang \in Languages}
Stores  == Grown(Chain(<<"file", "exported", "call">>), {"call", "arrow", "object", "pair", "shorthand"}, MaxSyntax + 2)
Classes == UNION {Grown(Chain(<<"file", "class">>), members, MaxSyntax + 1) :
                    members \in {{"field", "call", "arrow", "method"}, {"javaField", "call", "method", "anon"}}}

Parsed  == Files \cup Stores \cup Classes

-----------------------------------------------------------------------------
NoTree == Chain(<<"file">>)
NoQuestion == Ask("bfs", 0, 0)

BothInit ==
  \/ walk = "graph" /\ Init
     /\ tree = NoTree /\ todo = <<>> /\ nodeStack = <<>> /\ nodes = <<>>
     /\ contains = {} /\ refs = <<>> /\ result = "none"
  \/ walk = "syntax" /\ WalkInit
     /\ graph = [uses |-> {}, holds |-> {}] /\ asked = NoQuestion
     /\ queue = <<>> /\ stack = <<>> /\ visited = {} /\ found = {} /\ links = {}
     /\ reports = {} /\ leg = "up" /\ answered = FALSE

GraphNext == walk = "graph" /\ Next /\ UNCHANGED <<walk, syntax>>
BothNext ==
  \/ GraphNext
  \/ walk = "syntax" /\ WalkNext /\ UNCHANGED <<walk, vars>>

BothVars == <<walk, vars, syntax>>
BothSpec == BothInit /\ [][BothNext]_BothVars /\ WF_BothVars(GraphNext)

-----------------------------------------------------------------------------
(* Properties *)

\* Whatever the order of the rows, each answer is within reach and complete as
\* far as its walk is bound to be, a path that is found is a shortest one, the
\* cycles reported are cycles, and every tangle of files has one of them.
AnswersAreSound == walk = "graph" => AnswersAreRight /\ PathIsShortest /\ TanglesAreFound

\* Traversal's: a walk ends, on graphs with cycles of calls and of containment.
GraphWalkEnds == walk = "graph" => WalkEnds
=============================================================================
