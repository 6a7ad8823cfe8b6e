----------------------------- MODULE Traversal -----------------------------
(***************************************************************************)
(* The walks over the finished graph: graph/traversal.ts and the cycle     *)
(* search of graph/queries.ts.  A question is chosen with a graph, and     *)
(* the walk answers it one row at a time.  The database returns the rows   *)
(* of a node in an order no code relies on, so each order is a behaviour.  *)
(*                                                                         *)
(* `uses` stands for the edges the question asks for (calls, extends, ...  *)
(* as the case may be), `holds` for the contains edges; several edges of   *)
(* one pair and kind are one.                                              *)
(***************************************************************************)
EXTENDS Integers, FiniteSets, Sequences, SequencesExt

CONSTANTS
  Nodes,        \* the symbols, or for "cycles" the files
  Containers,   \* those of a kind whose members getImpactRecursive enters
  Start,        \* the node asked about
  Graphs,       \* the graphs to walk: [uses, holds : SUBSET (Nodes \X Nodes)]
  Asked         \* the questions to ask: [what, depth, limit, direction, goal]

Walks == {"dfs", "callers", "callees", "impact", "hierarchy"}

ASSUME AskedAssumption ==
  /\ IsFiniteSet(Nodes) /\ Start \in Nodes /\ Containers \subseteq Nodes
  /\ Graphs \subseteq [uses : SUBSET (Nodes \X Nodes), holds : SUBSET (Nodes \X Nodes)]
  /\ \A a \in Asked : /\ a.what \in Walks \cup {"bfs", "path", "ancestors", "cycles"}
                      /\ a.depth \in Nat /\ a.limit \in Nat /\ a.goal \in Nodes
                      /\ a.direction \in {"outgoing", "incoming", "both"}

VARIABLES
  graph,     \* the tables nodes and edges; a walk only reads them
  asked,     \* the call: which method, and its options
  queue,     \* bfs, path: the steps still to take, each with its path
  stack,     \* the recursive walks: one frame per pending call, innermost first
  visited,   \* the set `visited` of the call
  found,     \* the nodes of the answer
  links,     \* the edges of the answer, in the direction walked
  reports,   \* path: the path found; cycles: the cycles found
  leg,       \* hierarchy: "up" for the ancestors, "down" for the descendants
  answered   \* the call has returned

vars == <<graph, asked, queue, stack, visited, found, links, reports, leg, answered>>

----------------------------------------------------------------------------
(* Rows *)

Used(n)  == {m \in Nodes : <<n, m>> \in graph.uses}
Users(n) == {m \in Nodes : <<m, n>> \in graph.uses}
Held(n)  == {m \in Nodes : <<n, m>> \in graph.holds}
Above(n) == {m \in Nodes : <<m, n>> \in graph.holds}

\* getAdjacentEdges: the neighbours through contains edges and through the others
Side(n, out, in) == CASE asked.direction = "outgoing" -> out
                      [] asked.direction = "incoming" -> in
                      [] asked.direction = "both"     -> out \cup in
AdjacentHeld(n) == Side(n, Held(n), Above(n))
AdjacentUsed(n) == Side(n, Used(n), Users(n))
Adjacent(n)     == AdjacentHeld(n) \cup AdjacentUsed(n)

\* the rows a recursive walk reads for n
Rows(n) == CASE asked.what = "dfs"                          -> Adjacent(n)
             [] asked.what \in {"callers", "impact"}        -> Users(n)
             [] asked.what = "hierarchy" /\ leg = "down"    -> Users(n)
             [] asked.what = "hierarchy" /\ leg = "up"      -> Used(n)
             [] asked.what \in {"callees", "cycles"}        -> Used(n)

\* the members getImpactRecursive enters first, at the depth of their container
Members(n) == IF asked.what = "impact" /\ n \in Containers THEN Held(n) ELSE {}

----------------------------------------------------------------------------
(* Breadth first: traverseBFS and findPath *)

Hop(p, order) == [i \in DOMAIN order |-> Append(p, order[i])]

\* contains edges first, so that a node's own members come before what they use
StructureFirst(n, seen) ==
  UNION {{a \o b : b \in SetToSeqs(AdjacentUsed(n) \ seen)} : a \in SetToSeqs(AdjacentHeld(n) \ seen)}

Behind(p) == IF Len(p) > 1 THEN {<<p[Len(p) - 1], p[Len(p)]>>} ELSE {}

\* mutants: the limit of depth is tested one step late, or one step early
DeepEnoughLate(p) == Len(p) - 1 > asked.depth
DeepEnoughSoon(p) == Len(p) >= asked.depth
DeepEnough(p)     == Len(p) - 1 >= asked.depth

\* one turn of the loop of traverseBFS
BfsStep ==
  /\ asked.what = "bfs" /\ ~answered
  /\ queue # <<>> /\ Cardinality(found) < asked.limit
  /\ LET p == Head(queue)
         n == Last(p)
         seen == visited \cup {n}
     IN IF n \in visited
        THEN /\ queue' = Tail(queue)
             /\ UNCHANGED <<visited, found, links>>
        ELSE /\ visited' = seen
             /\ links' = links \cup Behind(p)
             /\ IF DeepEnough(p)
                THEN queue' = Tail(queue) /\ UNCHANGED found
                ELSE /\ \E order \in StructureFirst(n, seen) :
                          queue' = Tail(queue) \o Hop(p, order)
                     /\ found' = found \cup (Adjacent(n) \ seen)
  /\ UNCHANGED <<graph, asked, stack, reports, leg, answered>>

BfsEnd ==
  /\ asked.what = "bfs" /\ ~answered
  /\ queue = <<>> \/ Cardinality(found) >= asked.limit
  /\ answered' = TRUE
  /\ UNCHANGED <<graph, asked, queue, stack, visited, found, links, reports, leg>>

\* mutant: the newest path is taken first
PathNewest(q) == Last(q)
PathNext(q)   == Head(q)
\* what is left of the queue
PathRest(q)   == LET i == CHOOSE i \in DOMAIN q : q[i] = PathNext(q) IN RemoveAt(q, i)

\* one turn of the loop of findPath
PathStep ==
  /\ asked.what = "path" /\ ~answered /\ queue # <<>>
  /\ LET p == PathNext(queue)
         n == Last(p)
         seen == visited \cup {n}
     IN \/ /\ n = asked.goal
           /\ reports' = {p} /\ answered' = TRUE
           /\ UNCHANGED <<queue, visited>>
        \/ /\ n # asked.goal /\ n \in visited
           /\ queue' = PathRest(queue)
           /\ UNCHANGED <<visited, reports, answered>>
        \/ /\ n # asked.goal /\ n \notin visited
           /\ visited' = seen
           /\ \E order \in SetToSeqs((Used(n) \cup Held(n)) \ seen) :
                queue' = PathRest(queue) \o Hop(p, order)
           /\ UNCHANGED <<reports, answered>>
  /\ UNCHANGED <<graph, asked, stack, found, links, leg>>

PathEnd ==
  /\ asked.what = "path" /\ ~answered /\ queue = <<>>
  /\ answered' = TRUE
  /\ UNCHANGED <<graph, asked, queue, stack, visited, found, links, reports, leg>>

----------------------------------------------------------------------------
(* Depth first: the recursive walks *)

\* mutant: for a container only the members are walked
FrameOfMembersOnly(n, d) ==
  [at |-> n, depth |-> d, members |-> Members(n), rows |-> IF Members(n) = {} THEN Rows(n) ELSE {}]
Frame(n, d) == [at |-> n, depth |-> d, members |-> Members(n), rows |-> Rows(n)]

\* the test at the top of dfsRecursive, getCallersRecursive, ..., given the
\* nodes found so far; getTypeAncestors and getTypeDescendants know no depth
Enters(n, d, nodes) ==
  /\ n \notin visited
  /\ asked.what # "hierarchy" => d < asked.depth
  /\ asked.what = "dfs" => Cardinality(nodes) < asked.limit

\* mutant: the node entered is not marked
EnterUnmarked(s, n, d, nodes) ==
  /\ stack' = IF Enters(n, d, nodes) THEN <<Frame(n, d)>> \o s ELSE s
  /\ UNCHANGED visited
\* the recursive call on n, from the frames s
Enter(s, n, d, nodes) ==
  IF Enters(n, d, nodes)
  THEN stack' = <<Frame(n, d)>> \o s /\ visited' = visited \cup {n}
  ELSE stack' = s /\ UNCHANGED visited

Top == stack[1]
Under(frame) == <<frame>> \o Tail(stack)

\* whether a member is passed over.  Mutant: by the answer, not by `visited`
PassedByAnswer(m) == m \in found
PassedMember(m) == m \in visited

\* the row to m leads to a node that is new to the answer
Take(s, m, d) ==
  /\ found' = found \cup {m} /\ links' = links \cup {<<Top.at, m>>}
  /\ Enter(s, m, d, found')
PassOver(s) == stack' = s /\ UNCHANGED <<visited, found, links>>

\* the next member of a container, in getImpactRecursive
TakeMember(m) ==
  /\ asked.what = "impact" /\ stack # <<>> /\ m \in Top.members
  /\ LET s == Under([Top EXCEPT !.members = @ \ {m}])
     IN IF PassedMember(m) THEN PassOver(s) ELSE Take(s, m, Top.depth)
  /\ UNCHANGED <<graph, asked, queue, reports, leg, answered>>

\* the next row of a walk that tests `visited`
TakeUnvisited(m) ==
  /\ asked.what \in {"dfs", "callers", "callees"} /\ stack # <<>> /\ m \in Top.rows
  /\ LET s == Under([Top EXCEPT !.rows = @ \ {m}])
     IN IF m \in visited THEN PassOver(s) ELSE Take(s, m, Top.depth + 1)
  /\ UNCHANGED <<graph, asked, queue, reports, leg, answered>>

\* the next row of a walk that tests the answer; an impact has done its members
TakeUnknown(m) ==
  /\ asked.what \in {"impact", "hierarchy"}
  /\ stack # <<>> /\ Top.members = {} /\ m \in Top.rows
  /\ LET s == Under([Top EXCEPT !.rows = @ \ {m}])
     IN IF m \in found THEN PassOver(s) ELSE Take(s, m, Top.depth + 1)
  /\ UNCHANGED <<graph, asked, queue, reports, leg, answered>>

\* the innermost call is out of rows
Return ==
  /\ stack # <<>> /\ Top.members = {} /\ Top.rows = {}
  /\ stack' = Tail(stack)
  /\ UNCHANGED <<graph, asked, queue, visited, found, links, reports, leg, answered>>

\* getTypeHierarchy goes on to the descendants, with the same `visited`
Descend ==
  /\ asked.what = "hierarchy" /\ leg = "up" /\ stack = <<>>
  /\ leg' = "down"
  /\ Enter(<<>>, Start, 0, found)
  /\ UNCHANGED <<graph, asked, queue, found, links, reports, answered>>

\* the outermost call has returned
WalkEnd ==
  /\ asked.what \in Walks /\ ~answered /\ stack = <<>>
  /\ asked.what = "hierarchy" => leg = "down"
  /\ answered' = TRUE
  /\ UNCHANGED <<graph, asked, queue, stack, visited, found, links, reports, leg>>

----------------------------------------------------------------------------
(* The chain of containers: getAncestors *)

\* mutant: the chain is not tested for a node seen before
SeenNothing(n) == FALSE
SeenBefore(n)  == n \in visited

\* one turn of the loop; `currentId` is the end of the only path in the queue
Climb ==
  /\ asked.what = "ancestors" /\ ~answered
  /\ LET n == Last(Head(queue))
     IN /\ visited' = visited \cup {n}
        /\ IF SeenBefore(n) \/ Above(n) = {}
           THEN answered' = TRUE /\ UNCHANGED <<queue, found, links>>
           ELSE /\ \E m \in Above(n) : /\ queue' = <<<<m>>>>
                                      /\ found' = found \cup {m}
                                      /\ links' = links \cup {<<n, m>>}
                /\ UNCHANGED answered
  /\ UNCHANGED <<graph, asked, stack, reports, leg>>

----------------------------------------------------------------------------
(* Cycles of file dependencies: findCircularDependencies *)

OnStack == {stack[i].at : i \in DOMAIN stack}
\* mutant: the path is not cut at n
PathFromRoot(n) == Reverse([k \in DOMAIN stack |-> stack[k].at])
\* the path from n to the innermost call, outermost first
PathFrom(n) ==
  LET i == CHOOSE i \in DOMAIN stack : stack[i].at = n
  IN [k \in 1 .. i |-> stack[i + 1 - k].at]

\* mutant: a file seen before is passed over first, the stack looked at next
ClosesIfNew(m) == m \in OnStack /\ m \notin visited
Closes(m)      == m \in OnStack

\* the outer loop: the next file that no search has visited
NextFile(n) ==
  /\ asked.what = "cycles" /\ stack = <<>> /\ n \notin visited
  /\ stack' = <<Frame(n, 0)>> /\ visited' = visited \cup {n}
  /\ UNCHANGED <<graph, asked, queue, found, links, reports, leg, answered>>

\* the next dependency of the innermost file
TakeDependency(m) ==
  /\ asked.what = "cycles" /\ stack # <<>> /\ m \in Top.rows
  /\ LET s == Under([Top EXCEPT !.rows = @ \ {m}])
     IN \/ /\ Closes(m)
           /\ reports' = reports \cup {PathFrom(m)}
           /\ stack' = s /\ UNCHANGED visited
        \/ /\ ~Closes(m) /\ m \in visited
           /\ stack' = s /\ UNCHANGED <<visited, reports>>
        \/ /\ ~Closes(m) /\ m \notin visited
           /\ stack' = <<Frame(m, 0)>> \o s /\ visited' = visited \cup {m}
           /\ UNCHANGED reports
  /\ UNCHANGED <<graph, asked, queue, found, links, leg, answered>>

CyclesEnd ==
  /\ asked.what = "cycles" /\ ~answered /\ stack = <<>> /\ visited = Nodes
  /\ answered' = TRUE
  /\ UNCHANGED <<graph, asked, queue, stack, visited, found, links, reports, leg>>

----------------------------------------------------------------------------
Init ==
  /\ graph \in Graphs /\ asked \in Asked
  /\ queue = IF asked.what \in {"bfs", "path", "ancestors"} THEN <<<<Start>>>> ELSE <<>>
  /\ leg = "up"
  /\ IF /\ asked.what \in Walks
        /\ asked.what = "hierarchy" \/ asked.depth > 0
        /\ asked.what = "dfs" => asked.limit > 1
     THEN stack = <<Frame(Start, 0)>> /\ visited = {Start}
     ELSE stack = <<>> /\ visited = {}
  /\ found = IF asked.what \in {"bfs", "dfs", "impact", "hierarchy"} THEN {Start} ELSE {}
  /\ links = {} /\ reports = {} /\ answered = FALSE

Next ==
  \/ BfsStep \/ BfsEnd \/ PathStep \/ PathEnd
  \/ \E m \in Nodes : TakeMember(m) \/ TakeUnvisited(m) \/ TakeUnknown(m) \/ NextFile(m) \/ TakeDependency(m)
  \/ Return \/ Descend \/ WalkEnd \/ Climb \/ CyclesEnd

Spec == Init /\ [][Next]_vars /\ WF_vars(Next)

----------------------------------------------------------------------------
(* What the walks are measured against *)

Neighbours(n) == CASE asked.what \in {"bfs", "dfs"}                -> Adjacent(n)
                   [] asked.what \in {"callers", "impact"}         -> Users(n)
                   [] asked.what \in {"callees", "hierarchy", "cycles"} -> Used(n)
                   [] asked.what = "path"                          -> Used(n) \cup Held(n)
                   [] asked.what = "ancestors"                     -> Above(n)

\* S and all that its nodes lead to in k steps
Spread(S, F(_), k) ==
  LET near[j \in 0 .. k] ==
        IF j = 0 THEN S ELSE LET T == near[j - 1] IN T \cup UNION {F(n) : n \in T}
  IN near[k]

\* S with all that its containers hold, at any depth; only an impact adds any
WithMembers(S) == IF asked.what = "impact" THEN Spread(S, Members, Cardinality(Nodes)) ELSE S

\* the nodes k steps from n or nearer; members come with their container
Step(n) == WithMembers(Neighbours(n))
Within(n, k) == Spread(WithMembers({n}), Step, k)

Whole == Within(Start, Cardinality(Nodes))
Descendants == Spread({Start}, Users, Cardinality(Nodes))
Unlimited == asked.what \in {"bfs", "dfs"} => Cardinality(found) < asked.limit
Bounded == asked.what \in {"bfs", "dfs", "callers", "callees", "impact"}

----------------------------------------------------------------------------
(* Properties *)

\* Each variable has its type; frames are of distinct nodes, no deeper than asked.
TypeOK ==
  /\ graph \in [uses : SUBSET (Nodes \X Nodes), holds : SUBSET (Nodes \X Nodes)]
  /\ asked \in Asked /\ leg \in {"up", "down"} /\ answered \in BOOLEAN
  /\ visited \subseteq Nodes /\ found \subseteq Nodes /\ links \subseteq Nodes \X Nodes
  /\ \A i \in DOMAIN queue : queue[i] \in Seq(Nodes) /\ queue[i] # <<>>
  /\ \A r \in reports : r \in Seq(Nodes)
  /\ \A i \in DOMAIN stack :
       /\ stack[i].at \in visited /\ stack[i].depth \in 0 .. Cardinality(Nodes)
       /\ stack[i].members \subseteq Nodes /\ stack[i].rows \subseteq Nodes
       /\ \A j \in DOMAIN stack : stack[i].at = stack[j].at => i = j

\* Nothing farther than the depth asked for is in an answer, at any moment of
\* the walk: the members of a container count at its own depth, and a longer
\* way to a node never carries the walk beyond the limit.
AnswerIsInReach ==
  Bounded => found \subseteq Within(Start, asked.depth) \cup {Start}

\* traverseBFS, unless its limit cut it short, finds all nodes within the
\* depth and each by one edge: the subgraph it returns is a tree on them.
BfsIsExact ==
  answered /\ asked.what = "bfs" /\ Unlimited =>
    /\ found = Within(Start, asked.depth)
    /\ \A n \in found \ {Start} : Cardinality({l \in links : l[2] = n}) = 1
    /\ \A l \in links : l[1] \in found

\* Whatever order the rows came in, an answer holds all that is one step away
\* (for an impact, from the node or from any member of it): the depth first
\* walks mark nodes that they meet at the limit, and may not lose these.
NearestAreComplete ==
  answered /\ asked.what \in Walks /\ asked.depth > 0 /\ Unlimited =>
    LET near == WithMembers({Start})
    IN near \cup UNION {Neighbours(n) : n \in near} \subseteq found \cup {Start}

\* A walk that no limit stops finds all there is to find: all callers, all
\* that depends on a symbol or its members, all ancestors of a type, and all
\* containers where each node has at most one.  It adds nothing else, save that
\* a type hierarchy may hold descendants: which of them, SubclassesAppear says.
WholeWhenDeep ==
  /\ answered /\ asked.what \in Walks \cup {"ancestors"} /\ Unlimited
  /\ Bounded => asked.depth >= Cardinality(Nodes)
  /\ asked.what = "ancestors" => \A n \in Nodes : Cardinality(Above(n)) <= 1
  => /\ Whole \subseteq found \cup {Start}
     /\ found \subseteq IF asked.what = "hierarchy" THEN Whole \cup Descendants ELSE Whole \cup {Start}

\* findPath returns a path iff there is one, each step of it an edge, and no
\* path is shorter, though it marks nodes only when they leave the queue.
PathIsShortest ==
  answered /\ asked.what = "path" =>
    /\ reports = {} <=> asked.goal \notin Whole
    /\ \A p \in reports :
         /\ Head(p) = Start /\ Last(p) = asked.goal
         /\ \A i \in 1 .. Len(p) - 1 : p[i + 1] \in Neighbours(p[i])
         /\ \A k \in 0 .. Len(p) - 2 : asked.goal \notin Within(Start, k)

\* Each reported cycle is one: every file depends on the next, the last on
\* the first, and none comes twice.
CyclesAreReal ==
  asked.what = "cycles" =>
    \A c \in reports :
      /\ IsInjective(c)
      /\ \A i \in DOMAIN c : c[IF i = Len(c) THEN 1 ELSE i + 1] \in Used(c[i])

\* No tangle of files goes unreported: for each file that depends on itself
\* through others, a cycle among the files it is tangled with is reported,
\* wherever the search entered the tangle and in whatever order.
EveryTangleReported ==
  answered /\ asked.what = "cycles" =>
    LET after(n) == UNION {Within(m, Cardinality(Nodes)) : m \in Used(n)}
        tangle(n) == {m \in after(n) : n \in after(m)}
    IN \A n \in Nodes : n \in after(n) =>
         \E c \in reports : \A i \in DOMAIN c : c[i] \in tangle(n)

\* Every walk ends, on graphs with cycles of calls and of containment too.
WalkEnds == <>answered

\* A type hierarchy holds "both ancestors (types this extends/implements) and
\* descendants (types that extend/implement this)", as getTypeHierarchy of
\* src/index.ts documents; the code finds no descendant but by chance, since
\* Descend meets Start in `visited`.
SubclassesAppear ==
  answered /\ asked.what = "hierarchy" => Users(Start) \subseteq found

\* An answer is within reach and complete as far as its walk is bound to be,
\* whatever the order of the rows.
AnswersAreRight ==
  TypeOK /\ AnswerIsInReach /\ BfsIsExact /\ NearestAreComplete /\ WholeWhenDeep

\* The cycles reported are cycles, and every tangle of files has one of them.
TanglesAreFound == CyclesAreReal /\ EveryTangleReported
=============================================================================
