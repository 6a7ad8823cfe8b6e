------------------------------ MODULE MCLocks ------------------------------
(* For TLC, side by side: the lock of the database and that of the daemon,    *)
(* the two that are files.  They share no state, and a behaviour is of one   *)
(* `part`; the other rests where it began.                                   *)
(*                                                                           *)
(* Database: three processes with an object each.  Daemon: two processes of  *)
(* two attempts each, one crash and one `codegraph stop`.                    *)
EXTENDS FileLock, DaemonLock, TLC
CONSTANTS a, b, c, p1, p2, p3

VARIABLE part

Homes == (a :> p1) @@ (b :> p2) @@ (c :> p3)

-----------------------------------------------------------------------------
BothInit == /\ part \in {"database", "daemon"}
            /\ FileInit /\ LockInit
            /\ part = "database" => links /\ hosts /\ lock = Absent

DatabaseTurn == part = "database" /\ FileNext /\ UNCHANGED <<part, lockVars>>
DaemonTurn   == part = "daemon" /\ LockNext /\ UNCHANGED <<part, fileVars>>

Daemon(A) == part = "daemon" /\ A

(* DaemonLock's fairness in its part.  In the other a synchronous call runs   *)
(* to its end, and as long as a process is alive somebody tries for the lock *)
(* again: the watcher re-arms its debounce, the CLI is run again.            *)
BothSpec ==
  /\ BothInit /\ [][DatabaseTurn \/ DaemonTurn]_<<part, lockVars, fileVars>>
  /\ WF_fileVars(part = "database" /\ \E i \in Inst : LockStep(i))
  /\ \A p \in Procs : WF_lockVars(Daemon(Candidate(p))) /\ WF_lockVars(Daemon(Orphan(p)))
  /\ WF_lockVars(Daemon(\E p \in Procs : Spawn(p)))
  /\ WF_lockVars(Daemon(StopTest \/ StopWait \/ StopUnlock \/ StopUnsock \/ StopDereg))

-----------------------------------------------------------------------------
(* Properties *)

(* DaemonLock's: a project that no daemon serves is served again.            *)
ServedAgain == part = "daemon" => DaemonComesBack
=============================================================================
