----------------------------- MODULE Extraction -----------------------------
(***************************************************************************)
(* The walk of TreeSitterExtractor over one parsed file, of TypeScript or  *)
(* of Java (its classes, named and anonymous, and their members).  Two     *)
(* walkers share the work, one for declarations (visitNode) and one for    *)
(* the bodies of functions (visitFunctionBody); each extractor decides     *)
(* which of them goes on below its node, and may leave parts to neither.   *)
(* What is being declared is nodeStack, whose top owns what is met next.   *)
(*                                                                         *)
(* Names, lines and texts are left out: a node of the graph is known by    *)
(* the syntax it comes from.                                               *)
(***************************************************************************)
EXTENDS Syntax, SequencesExt

CONSTANTS
  Trees,       \* the files to extract
  MaxNesting   \* findInitializerReturnedObject looks into so many nested calls: 4

ASSUME TreesAssumption == \A t \in Trees : IsTree(t)
ASSUME NestingAssumption == MaxNesting \in Nat

VARIABLES
  tree,       \* this.tree, which the walk only reads
  todo,       \* the pending calls of the two walkers, innermost first
  nodeStack,  \* nodeStack
  nodes,      \* this.nodes: [at, kind]
  contains,   \* this.edges of kind contains: [source, target]
  refs,       \* unresolvedReferences of calls and instantiations: [from, at]
  result      \* extract() has returned "all", or after a throw "part"

syntax == <<tree, todo, nodeStack, nodes, contains, refs, result>>

-----------------------------------------------------------------------------
(* The syntax around a node *)

Syntaxes    == DOMAIN tree.type
Type(n)     == tree.type[n]
Parent(n)   == tree.parent[n]
Around(n)   == tree.around[n]
InOrder(S)  == CHOOSE s \in SetToSeqs(S) : \A i, j \in DOMAIN s : i < j => s[i] < s[j]
Inside(n)   == {m \in Syntaxes : Parent(m) = n}
Children(n) == InOrder(Inside(n))
Those(n, types) == InOrder({m \in Inside(n) : Type(m) \in types})

\* resolveBody of a field: the function that is its value, or the first one
\* among the arguments of a call that is its value
Callables(n) == LET v == Children(n)
                IN IF v = <<>> THEN <<>>
                   ELSE IF Type(v[1]) \in CallTypes THEN Those(v[1], FunctionTypes) ELSE Those(n, FunctionTypes)

\* findInitializerReturnedObject: the object literal that a function argument of
\* the call returns, or one of a call among its arguments, and so on to a depth
Returned(call) ==
  InOrder({o \in Syntaxes :
             /\ Type(o) = "object" /\ Type(Parent(o)) \in FunctionTypes
             /\ call \in Around(Parent(o))
             /\ \A m \in Around(Parent(o)) : m = call \/ call \in Around(m) => Type(m) \in CallTypes
             /\ Cardinality({m \in Around(Parent(o)) : call \in Around(m)}) <= MaxNesting})

\* the object literal a variable is initialised with, directly or by a call
ObjectOf(v) == CASE Type(v) = "object" -> <<v>>
                 [] Type(v) = "call"   -> Returned(v)
                 [] OTHER              -> <<>>

\* its members that are functions: key: () => ..., or key() {...}
FunctionsOf(obj) ==
  InOrder({m \in Inside(obj) : Type(m) = "shorthand"} \cup
          UNION {{f \in Inside(m) : Type(f) \in FunctionTypes} : m \in {k \in Inside(obj) : Type(k) # "shorthand"}})

\* extractObjectMethods: an exported object with inline functions
MethodsOf(n, v) == IF Type(n) = "exported" /\ ObjectOf(v) # <<>> THEN FunctionsOf(ObjectOf(v)[1]) ELSE <<>>

-----------------------------------------------------------------------------
(* The walkers: "visit" is visitNode, "scan" the body walker, "function" a  *)
(* call of extractFunction that gives the name, "leave" the nodeStack.pop() *)
(* that follows a body.                                                     *)

Each(how, ns) == [i \in DOMAIN ns |-> [how |-> how, at |-> ns[i]]]
Visits(n) == Each("visit", Children(n))
Scans(n)  == Each("scan", Children(n))
Leave(n)  == <<[how |-> "leave", at |-> n]>>

Owner == Last(nodeStack)
Is(n, kind) == \E i \in DOMAIN nodes : nodes[i] = [at |-> n, kind |-> kind]
InsideClassLike == Is(Owner, "class")

At  == todo[1].at
How == todo[1].how
Busy(how) == result = "none" /\ todo # <<>> /\ How \in how
Walking   == Busy({"visit", "scan"})
Goes(work) == todo' = work \o Tail(todo)

\* createNode
Create(n, kind) == /\ nodes' = Append(nodes, [at |-> n, kind |-> kind])
                   /\ contains' = contains \cup {[source |-> Owner, target |-> n]}

\* mutant: the declaration is not popped when its body is done
DeclareForGood(n, kind, work) ==
  Create(n, kind) /\ nodeStack' = Append(nodeStack, n) /\ Goes(work)
\* a declaration whose body is walked with it on the stack
Declare(n, kind, work) ==
  Create(n, kind) /\ nodeStack' = Append(nodeStack, n) /\ Goes(work \o Leave(n))

Unnamed(work) == Goes(work) /\ UNCHANGED <<nodeStack, nodes, contains>>

\* extractFunction: an arrow is named by its key, or by the variable it is the
\* value of; one without a name is walked for what its owner does in it
Named(n) == Type(n) = "func" \/ How = "function" \/ Type(Parent(n)) \in VariableTypes
\* mutant: one without a name is given up with all that is in it
NamedFunction(n) == IF Named(n) THEN Declare(n, "function", Scans(n)) ELSE Unnamed(<<>>)
Function(n) == IF Named(n) THEN Declare(n, "function", Scans(n)) ELSE Unnamed(Scans(n))

ExtractFunction ==
  /\ \/ Busy({"function"})
     \/ Busy({"visit"}) /\ Type(At) \in FunctionTypes
     \/ Busy({"scan"}) /\ Type(At) = "func"
  /\ Function(At)
  /\ UNCHANGED <<tree, refs, result>>

ExtractClass ==
  /\ Walking /\ Type(At) = "class"
  /\ Declare(At, "class", Visits(At))
  /\ UNCHANGED <<tree, refs, result>>

\* extractMethod: of a class, or of a callable field; that of an object literal
\* is no node
ExtractMethod ==
  /\ Busy({"visit"})
  /\ Type(At) = "field" => Callables(At) # <<>>
  /\ Type(At) \in {"method", "shorthand", "field"}
  /\ LET body == IF Type(At) = "field" THEN Scans(Callables(At)[1]) ELSE Scans(At)
     IN IF InsideClassLike THEN Declare(At, "method", body) ELSE Unnamed(body)
  /\ UNCHANGED <<tree, refs, result>>

\* mutant: the initializer is walked for the class
PropertyOfClass(n) == Create(n, "property") /\ Goes(Scans(n)) /\ UNCHANGED nodeStack
Property(n)        == Declare(n, "property", Scans(n))

ExtractProperty ==
  /\ Busy({"visit"}) /\ Type(At) = "field" /\ Callables(At) = <<>>
  /\ Property(At)
  /\ UNCHANGED <<tree, refs, result>>

\* extractField, of Java: the initializer is not walked; "field" is also the
\* constant that a static final one is made
ExtractField ==
  /\ Busy({"visit"}) /\ Type(At) = "javaField" /\ InsideClassLike
  /\ Create(At, "field") /\ Goes(<<>>)
  /\ UNCHANGED <<tree, nodeStack, refs, result>>

\* mutant: a call whose returned object is extracted is walked as well
InitializerAlways(v, methods) == IF Type(v) = "object" THEN <<>> ELSE Each("scan", <<v>>)
\* what extractVariable walks of an initializer, given the methods it extracts
Initializer(v, methods) ==
  IF Type(v) = "object" \/ (methods # <<>> /\ Type(v) = "call") THEN <<>> ELSE Each("scan", <<v>>)

\* extractVariable, for the one declarator: a function, a component, or a
\* constant whose initializer belongs to what encloses it; a pattern is skipped
Declarator(vs) ==
  CASE vs = <<>> -> Create(At, "constant") /\ Goes(<<>>) /\ UNCHANGED nodeStack
    [] vs # <<>> /\ Type(vs[1]) \in FunctionTypes -> Unnamed(Each("function", vs))
    [] vs # <<>> /\ Type(vs[1]) = "hoc" ->
         LET inner == Those(vs[1], FunctionTypes)
         IN IF inner = <<>> THEN Create(At, "component") /\ Goes(<<>>) /\ UNCHANGED nodeStack
            ELSE Declare(At, "component", Scans(inner[1]))
    [] OTHER -> LET methods == MethodsOf(At, vs[1])
                IN /\ Create(At, "constant") /\ UNCHANGED nodeStack
                   /\ Goes(Initializer(vs[1], methods) \o Each("function", methods))

ExtractVariable ==
  /\ Busy({"visit"}) /\ Type(At) \in VariableTypes /\ ~InsideClassLike
  /\ \/ Type(At) = "pattern" /\ Unnamed(<<>>)
     \/ Type(At) # "pattern" /\ Declarator(Children(At))
  /\ UNCHANGED <<tree, refs, result>>

\* extractCall and extractInstantiation; both walkers go on below
Record(n) == refs' = Append(refs, [from |-> Owner, at |-> n])

ExtractCall ==
  /\ Walking /\ Type(At) \in CallTypes \cup {"new"}
  /\ Record(At) /\ Goes(Each(How, Children(At)))
  /\ UNCHANGED <<tree, nodeStack, nodes, contains, result>>

\* extractAnonymousClass: the instantiation, then a class of its members
ExtractAnonymous ==
  /\ Walking /\ Type(At) = "anon"
  /\ Record(At) /\ Declare(At, "class", Each("visit", Those(At, MemberTypes)))
  /\ UNCHANGED <<tree, result>>

\* a node of no handler: its children, by the same walker
WalkOn ==
  /\ \/ /\ Busy({"visit"})
        /\ Type(At) \in {"object", "pair", "other"} \cup (IF InsideClassLike THEN VariableTypes ELSE {})
     \/ Busy({"scan"}) /\ Type(At) \in {"arrow", "object", "pair", "shorthand", "other"} \cup VariableTypes
  /\ Unnamed(Each(How, Children(At)))
  /\ UNCHANGED <<tree, refs, result>>

LeaveBody ==
  /\ Busy({"leave"})
  /\ nodeStack' = Front(nodeStack) /\ Goes(<<>>)
  /\ UNCHANGED <<tree, nodes, contains, refs, result>>

\* the end of extract(): the file node is popped
Returns ==
  /\ result = "none" /\ todo = <<>>
  /\ nodeStack' = Front(nodeStack) /\ result' = "all"
  /\ UNCHANGED <<tree, todo, nodes, contains, refs>>

\* anything throws (a stack overflow, say, but not the memory of WASM, which is
\* thrown on): extract() returns what it has
Throws ==
  /\ result = "none" /\ result' = "part"
  /\ UNCHANGED <<tree, todo, nodeStack, nodes, contains, refs>>

WalkInit == /\ tree \in Trees
            /\ todo = Visits(1) /\ nodeStack = <<1>>
            /\ nodes = <<[at |-> 1, kind |-> "file"]>>
            /\ contains = {} /\ refs = <<>> /\ result = "none"

WalkNext == \/ ExtractFunction \/ ExtractClass \/ ExtractMethod \/ ExtractProperty \/ ExtractField
            \/ ExtractVariable \/ ExtractCall \/ ExtractAnonymous \/ WalkOn \/ LeaveBody \/ Returns \/ Throws

WalkSpec == WalkInit /\ [][WalkNext]_syntax

-----------------------------------------------------------------------------
(* Properties *)

Known  == {nodes[i].at : i \in DOMAIN nodes}

\* Whatever extract() returns can be stored: the ends of every edge, and the
\* owner of every reference, are nodes already made.  It holds at each step, for
\* a throw returns what there is, and the tables have foreign keys (#42).
EndsExist ==
  /\ \A i \in DOMAIN nodes :
       nodes[i].kind \in {"file", "class", "function", "method", "property", "field", "component", "constant"}
  /\ \A e \in contains : e.source \in Known /\ e.target \in Known
  /\ \A i \in DOMAIN refs : refs[i].from \in Known
  /\ ToSet(nodeStack) \subseteq Known

\* the innermost declaration around n that can own what is in it; a constant
\* leaves its initializer to its own owner
Homes(n) == {m \in Around(n) : \E i \in DOMAIN nodes : nodes[i].at = m /\ nodes[i].kind # "constant"}
Home(n)  == Max(Homes(n))

\* Every call is its innermost declaration's, and every declaration is
\* contained in the innermost one around it, whichever walker met them: a stack
\* that is left too high or too low by one branch gives all that follows to a
\* wrong caller (tree-sitter.ts:2470, "mis-attribute their inner calls").
OwnersAreInnermost ==
  /\ \A i \in DOMAIN refs : refs[i].from = Home(refs[i].at)
  /\ \A e \in contains : e.source = Home(e.target)

\* Nothing is extracted twice, though two walkers and three special cases of
\* extractVariable go below the same syntax (tree-sitter.ts:1072-1080).
OnceEach == /\ \A i, j \in DOMAIN nodes : nodes[i].at = nodes[j].at => i = j
            /\ \A i, j \in DOMAIN refs : refs[i].at = refs[j].at => i = j

First(ms) == IF ms = <<>> THEN <<>> ELSE <<Head(ms)>>
\* n is in one of ms
In(n, ms) == \E m \in ToSet(ms) : m = n \/ m \in Around(n)

\* n is below a node whose extractor walks some of its parts, and not n's
LeftOut(n) ==
  \E m \in Around(n) :
    \/ Is(m, "component") /\ ~In(n, First(Those(Children(m)[1], FunctionTypes)))
    \/ /\ Is(m, "constant") /\ ~In(n, MethodsOf(m, Children(m)[1]))
       /\ Type(Children(m)[1]) = "object" \/ MethodsOf(m, Children(m)[1]) # <<>>
    \/ Type(m) = "pattern" /\ \A k \in Around(m) : Type(k) \in {"file", "other"}
    \/ Type(m) = "field" /\ Callables(m) # <<>> /\ ~In(n, First(Callables(m)))
    \/ Type(m) = "anon" /\ ~In(n, Those(m, MemberTypes))
    \/ Type(m) = "javaField"

\* A finished walk has recorded every call and every `new`, except those that
\* lie in an object literal or a store outside of its functions, in the value of
\* a pattern outside of all functions, in the call around the function of a
\* component or of a field, in the arguments of an anonymous class, or in the
\* initializer of a field of Java (tree-sitter.ts:963, "Field initializers
\* aren't walked"); nothing else falls between the two walkers.
CallsAreSeen ==
  result = "all" => \A n \in Syntaxes :
    Type(n) \in CallTypes \cup {"new", "anon"} =>
      (LeftOut(n) <=> \A i \in DOMAIN refs : refs[i].at # n)

\* The walk leaves a sound result behind, however it ends.
ExtractionIsSound ==
  EndsExist /\ OwnersAreInnermost /\ OnceEach /\ (result = "all" => nodeStack = <<>>)
=============================================================================
