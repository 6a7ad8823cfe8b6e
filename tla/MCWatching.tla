----------------------------- MODULE MCWatching -----------------------------
(* For TLC, side by side: the index gate and the watcher.  They share no      *)
(* state here: a behaviour is of one `part`, and the other rests where it     *)
(* began.                                                                    *)
(*                                                                           *)
(* Gate: three calls on the object of one process, and a call of another     *)
(* process, which contends for the file.  Watcher: two files, so that a sync *)
(* may be done with one and not with the other.                              *)
EXTENDS IndexGate, Watcher, TLC
CONSTANTS a, b, p1, p2, c1, c2, c3, c4

VARIABLE part

Homes  == (a :> p1) @@ (b :> p2)
Owners == (c1 :> a) @@ (c2 :> a) @@ (c3 :> a) @@ (c4 :> b)
Mixed  == (c1 :> "sync") @@ (c2 :> "indexFiles") @@ (c3 :> "indexAll") @@ (c4 :> "sync")

-----------------------------------------------------------------------------
BothInit == /\ part \in {"gate", "watcher"}
            /\ GateInit /\ Init /\ (part = "gate" => stale = {})

BothNext == /\ UNCHANGED part
            /\ \/ part = "gate" /\ GateNext /\ UNCHANGED vars
               \/ part = "watcher" /\ Next /\ UNCHANGED gateVars

BothSpec == BothInit /\ [][BothNext]_<<part, vars, gateVars>> /\ Fairness /\ GateFairness
=============================================================================
