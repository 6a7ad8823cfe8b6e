-------------------------- MODULE StalenessPromise --------------------------
(***************************************************************************)
(* What the watcher promises the readers of the index (the staleness       *)
(* banner of the MCP tools): while watching is on, a file whose index lags  *)
(* behind the disk is flagged, or its change event has yet to arrive.       *)
(* Excused are files changed while watching was off, and files that could  *)
(* not be read or parsed when their turn came.                             *)
(***************************************************************************)
CONSTANT Files

VARIABLES
  on,       \* watching is on
  lag,      \* files whose indexed content is not the one on disk
  queue,    \* files with a change event on its way
  flag,     \* files reported as stale
  excused   \* files the promise leaves out

vars == <<on, lag, queue, flag, excused>>

Init == /\ on = FALSE /\ queue = {} /\ flag = {}
        /\ lag \in SUBSET Files /\ excused = lag

Edit(f) == /\ lag' = lag \cup {f}
           /\ IF on THEN queue' = queue \cup {f} /\ excused' = excused \ {f}
              ELSE excused' = excused \cup {f} /\ UNCHANGED queue
           /\ UNCHANGED <<on, flag>>

Notice(f) == /\ on /\ f \in queue
             /\ queue' = queue \ {f} /\ flag' = flag \cup {f}
             /\ UNCHANGED <<on, lag, excused>>

Index(f) == /\ lag' = lag \ {f} /\ excused' = excused \ {f}
            /\ UNCHANGED <<on, queue, flag>>

(* The file would not read or parse. *)
Excuse(f) == /\ excused' = excused \cup {f}
             /\ UNCHANGED <<on, lag, queue, flag>>

(* Flags are withdrawn only from files that are not silently stale then. *)
Unflag == /\ flag' \subseteq flag
          /\ \A f \in flag \ flag' : ~on \/ f \notin lag \/ f \in queue \/ f \in excused
          /\ UNCHANGED <<on, lag, queue, excused>>

Switch == /\ on' \in BOOLEAN
          /\ queue' = {} /\ flag' = {} /\ excused' = lag
          /\ UNCHANGED lag

Next == \/ \E f \in Files : Edit(f) \/ Notice(f) \/ Index(f) \/ Excuse(f)
        \/ Unflag \/ Switch

Spec == Init /\ [][Next]_vars
=============================================================================
