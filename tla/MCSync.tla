------------------------------- MODULE MCSync -------------------------------
(* For TLC, side by side: what a sync makes of the files, and the watches on  *)
(* Linux that call for one.  They share no state: a behaviour is of one       *)
(* `part`, and the other rests where it began.                               *)
(*                                                                           *)
(* Sync: a file with three writes and one with fewer; files meet only in the *)
(* sets a sync collects, and c1 and c2 may be swapped.  Watches: root/a/b    *)
(* and root/c.                                                              *)
EXTENDS SyncReconcile, WatchTree, TLC
CONSTANTS f1, f2, c1, c2, bad, root, a, b, c

VARIABLE part

Writes   == (f1 :> 4) @@ (f2 :> 2)
Symmetry == Permutations({c1, c2})
ParentOf == (a :> root) @@ (b :> a) @@ (c :> root)

-----------------------------------------------------------------------------
BothInit ==
  \/ part = "tree" /\ TreeInit
     /\ disk = [f \in Files |-> Absent] /\ Init
  \/ part = "sync" /\ Init
     /\ dirs = {root} /\ file = {} /\ TreeInit

BothNext == /\ UNCHANGED part
            /\ \/ part = "sync" /\ Next /\ UNCHANGED tree
               \/ part = "tree" /\ TreeNext /\ UNCHANGED vars

BothSpec == BothInit /\ [][BothNext]_<<part, vars, tree>>
=============================================================================
