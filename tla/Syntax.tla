------------------------------- MODULE Syntax -------------------------------
(***************************************************************************)
(* The syntax trees of TypeScript, as far as the extractor tells them      *)
(* apart, and of Java around its anonymous classes.  A tree is [type,      *)
(* parent, around], its nodes numbered in source order from the file, 1;   *)
(* around[n] are the nodes n lies in.  Statements, blocks and operators    *)
(* without a handler of their own are "other".                             *)
(***************************************************************************)
EXTENDS Naturals, Sequences, FiniteSets

FunctionTypes == {"func", "arrow"}     \* with a name and without
CallTypes     == {"call", "hoc"}       \* a call of what has a name; forwardRef(...), memo(...)
VariableTypes == {"var", "exported", "pattern"}   \* const x = ..., export const x = ..., const {x} = ...
Expressions   == FunctionTypes \cup CallTypes \cup {"object", "new", "anon"}
Statements    == Expressions \cup {"var", "pattern", "class", "other"}
MemberTypes   == {"method", "field", "javaField", "other"}   \* javaField: field_declaration
Types         == Statements \cup MemberTypes \cup {"exported", "pair", "shorthand"}
JavaTypes     == {"class", "method", "javaField", "call", "new", "anon", "other"}
Languages     == {JavaTypes, Types \ {"javaField", "anon"}}

\* what may stand below each type, and how much of it
Below(t) == CASE t = "file"   -> Statements \cup {"exported"}
              [] t \in FunctionTypes \cup {"method", "shorthand", "other"} -> Statements
              [] t = "class"  -> MemberTypes
              [] t = "object" -> {"pair", "shorthand"}
              [] t = "anon"   -> Expressions \cup {"method", "javaField"}
              [] OTHER        -> Expressions
MayHold(t, k) == t \in {"field", "javaField", "pair"} \cup VariableTypes => k = 0

\* t is one of the syntax trees the grammar allows
IsTree(t) ==
  LET All   == 1 .. Len(t.type)
      Inner == 2 .. Len(t.type)
  IN /\ \E lang \in Languages : t.type \in Seq(lang \cup {"file"})
     /\ Len(t.type) > 0
     /\ DOMAIN t.parent = All /\ DOMAIN t.around = All
     /\ t.type[1] = "file" /\ t.parent[1] = 0 /\ t.around[1] = {}
     /\ \A n \in Inner :
          /\ t.parent[n] \in 1 .. n - 1
          /\ t.around[n] = {t.parent[n]} \cup t.around[t.parent[n]]
          /\ t.type[n] \in Below(t.type[t.parent[n]])
     /\ \A n, m \in Inner :
          t.parent[n] = t.parent[m] /\ ~MayHold(t.type[t.parent[n]], 1) => n = m

\* the tree in which each node is below the one before it
Chain(types) == [type |-> types, parent |-> [n \in DOMAIN types |-> n - 1],
                 around |-> [n \in DOMAIN types |-> 1 .. n - 1]]

\* base, and the trees of at most `more` nodes of the given types added below
\* its last node, in source order
Grown(base, types, more) ==
  LET b == Len(base.type)
      spine(t) == LET n == Len(t.type) IN {m \in {n} \cup t.around[n] : m >= b}
      held(t, p) == Cardinality({m \in DOMAIN t.type : t.parent[m] = p})
      open(t) == {p \in spine(t) : MayHold(t.type[p], held(t, p))}
      sprouts(t) == UNION {{[type |-> Append(t.type, k), parent |-> Append(t.parent, p),
                             around |-> Append(t.around, {p} \cup t.around[p])] :
                              k \in types \cap Below(t.type[p])} : p \in open(t)}
      of[k \in 0 .. more] ==
        IF k = 0 THEN {base}
        ELSE LET less == of[k - 1]
             IN less \cup UNION {sprouts(t) : t \in {u \in less : Len(u.type) = b + k - 1}}
  IN of[more]
=============================================================================
