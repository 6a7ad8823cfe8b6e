------------------------------ MODULE MCLinks ------------------------------
(* Links for TLC: two files that use each other's names; the definitions of   *)
(* `callee` move, double, change their name and disappear.  m is an         *)
(* inherited member; the resolver renames q.                               *)
EXTENDS Links, TLC
CONSTANTS caller, callee, p, q, m

Content(defs, uses) == [defs |-> defs, uses |-> uses]

CallerVersions == {Content({<<q, 1>>}, {p, m}), Content({<<q, 2>>}, {})}
CalleeVersions == {Content({<<p, 1>>}, {}), Content({<<p, 1>>, <<p, 2>>, <<m, 1>>}, {q}),
                   Content({<<m, 2>>}, {}), Gone}
FileVersions   == (caller :> CallerVersions) @@ (callee :> CalleeVersions)
=============================================================================
