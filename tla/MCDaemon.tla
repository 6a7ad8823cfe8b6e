------------------------------ MODULE MCDaemon ------------------------------
(* The daemon's main thread and its pool of query threads for TLC, side by   *)
(* side: a behaviour is of one of them, while the other is at an end where   *)
(* nothing moves (the process exited; the pool destroyed, its calls          *)
(* answered).  Two connections, two opens, two failures between or before    *)
(* them; two calls, two workers at a time, three crashes.                    *)
EXTENDS QueryPool, Daemon
CONSTANTS j1, j2

-----------------------------------------------------------------------------
Exited ==
  /\ phase = "exited" /\ conn = [s \in Sessions |-> "none"] /\ clients = {}
  /\ peer = [s \in Sessions |-> TRUE] /\ known = [s \in Sessions |-> FALSE]
  /\ idleTimer = FALSE /\ fresh = FALSE /\ EngineInit

Destroyed ==
  /\ workers = {} /\ pending = {} /\ idlers = {} /\ queue = <<>> /\ late = {}
  /\ crashes = 0 /\ destroyed = TRUE /\ retries = [j \in Jobs |-> 0]
  /\ job = [w \in Threads |-> NoJob] /\ posted = [w \in Threads |-> NoJob]
  /\ mail = [w \in Threads |-> "none"] /\ thread = [w \in Threads |-> "none"]
  /\ outcome = [j \in Jobs |-> "answered"]

EitherInit == \/ Init /\ Destroyed
              \/ PoolInit /\ Exited
EitherNext == \/ Next /\ UNCHANGED poolVars
              \/ PoolNext /\ UNCHANGED vars

EitherSpec == /\ EitherInit /\ [][EitherNext]_<<poolVars, vars>>
              /\ Fairness
=============================================================================
