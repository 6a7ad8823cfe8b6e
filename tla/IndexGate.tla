------------------------------ MODULE IndexGate ------------------------------
(***************************************************************************)
(* Who may write the index: the in-process Mutex of src/utils.ts and the   *)
(* cross-process file lock, as indexAll, indexFiles, sync and close of     *)
(* src/index.ts use them.  An object of FileLock is here the lock of one    *)
(* CodeGraph object, whose calls make its system calls.                    *)
(***************************************************************************)
EXTENDS FileLock, Sequences

CONSTANTS
  Calls,      \* calls of the API, each made once
  Owner,      \* the CodeGraph object each call is made on
  OpOf        \* its operation

Operations == {"indexAll", "indexFiles", "sync"}

ASSUME IndexGateAssumption == Owner \in [Calls -> Inst] /\ OpOf \in [Calls -> Operations]

VARIABLES
  locked,   \* indexMutex.locked, per object
  queue,    \* indexMutex.waitQueue, per object
  open,     \* objects whose database is open
  closing,  \* objects that release their lock in close()
  pc        \* where each call is

mutex    == <<locked, queue>>
database == <<open, closing>>
gateVars == <<mutex, database, pc, fileVars>>

(* While a call is at one of these, acquire() or release() runs: both are    *)
(* synchronous, and no other code of the process does.                       *)
Synchronous == {"locking", "unlocking"}
Places == Synchronous \cup
          {"idle", "queued", "woken", "entered", "refused", "working", "leaving", "done", "dead"}

GateTypeOK == /\ FileTypeOK
              /\ locked \in [Inst -> BOOLEAN]
              /\ queue \in [Inst -> Seq(Calls)]
              /\ open \subseteq Inst /\ closing \subseteq Inst
              /\ pc \in [Calls -> Places]

GateInit == /\ FileInit
            /\ locked = [i \in Inst |-> FALSE] /\ queue = [i \in Inst |-> <<>>]
            /\ open = Inst /\ closing = {}
            /\ pc = [t \in Calls |-> "idle"]

(* The event loop of i's process is free. *)
Runs(i) == /\ PidOf[i] \in alive
           /\ \A t \in Calls : PidOf[Owner[t]] = PidOf[i] => pc[t] \notin Synchronous
           /\ \A j \in closing : PidOf[j] # PidOf[i]

MoveTo(t, place) == pc' = [pc EXCEPT ![t] = place]

-----------------------------------------------------------------------------
(* Mutex.acquire(): take the mutex or wait; a woken waiter tests again       *)
(* and, if a newcomer was faster, queues up behind the others.               *)
EnterUnlessWoken(t) ==
  LET i == Owner[t] IN
  IF locked[i] /\ pc[t] # "woken"
  THEN /\ queue' = [queue EXCEPT ![i] = Append(@, t)]
       /\ MoveTo(t, "queued")
       /\ UNCHANGED locked
  ELSE /\ locked' = [locked EXCEPT ![i] = TRUE]
       /\ MoveTo(t, "entered")
       /\ UNCHANGED queue

Enter(t) ==
  LET i == Owner[t] IN
  IF locked[i]
  THEN /\ queue' = [queue EXCEPT ![i] = Append(@, t)]
       /\ MoveTo(t, "queued")
       /\ UNCHANGED locked
  ELSE /\ locked' = [locked EXCEPT ![i] = TRUE]
       /\ MoveTo(t, "entered")
       /\ UNCHANGED queue

Call(t) == /\ pc[t] = "idle" /\ Runs(Owner[t]) /\ Enter(t)
           /\ UNCHANGED <<database, fileVars>>

Wake(t) == /\ pc[t] = "woken" /\ Runs(Owner[t]) /\ Enter(t)
           /\ UNCHANGED <<database, fileVars>>

(* fileLock.acquire(), from its first system call ...                        *)
TryFileLock(t) == /\ pc[t] = "entered" /\ Runs(Owner[t])
                  /\ Exists(Owner[t])
                  /\ MoveTo(t, "locking")
                  /\ UNCHANGED <<mutex, database>>

(* indexFiles returns the promise of its work without awaiting it, so its    *)
(* finally block gives the file back before the work has gone far.           *)
ReturnsPromise(t) == OpOf[t] = "indexFiles"

(* ... to its last, after which the work begins                              *)
Locks(t) ==
  LET i == Owner[t] IN
  /\ pc[t] = "locking"
  /\ ReadPid(i) \/ Stat(i) \/ UnlinkStale(i) \/ UnlinkAgain(i) \/ Create(i) \/ WritePid(i)
  /\ MoveTo(t, IF syscall'[i] = "idle" THEN "refused"
               ELSE IF syscall'[i] = "held" /\ ~ReturnsPromise(t) THEN "working"
               ELSE "locking")
  /\ UNCHANGED <<mutex, database>>

YieldsAtOnce(t) == /\ pc[t] = "locking" /\ Release(Owner[t])
                   /\ MoveTo(t, "unlocking")
                   /\ UNCHANGED <<mutex, database>>

RefuseRethrows(t) == /\ pc[t] = "refused" /\ Runs(Owner[t])
                     /\ MoveTo(t, "thrown")
                     /\ UNCHANGED <<mutex, database, fileVars>>

(* The catch block: a refused call returns counts of zero. *)
Refuse(t) == /\ pc[t] = "refused" /\ Runs(Owner[t])
             /\ MoveTo(t, "leaving")
             /\ UNCHANGED <<mutex, database, fileVars>>

(* The work ends, or throws because the database was closed, and the finally *)
(* block releases the file lock ...                                          *)
GiveBack(t) == /\ pc[t] = "working" /\ Runs(Owner[t])
               /\ Release(Owner[t])
               /\ MoveTo(t, "unlocking")
               /\ UNCHANGED <<mutex, database>>

Unlocks(t) ==
  LET i == Owner[t] IN
  /\ pc[t] = "unlocking"
  /\ RelRead(i) \/ RelUnlink(i)
  /\ MoveTo(t, IF syscall'[i] # "idle" THEN "unlocking"
               ELSE IF ReturnsPromise(t) THEN "working" ELSE "leaving")
  /\ UNCHANGED <<mutex, database>>

(* ... if it still is `held` *)
Finish(t) == /\ pc[t] = "working" /\ Runs(Owner[t])
             /\ syscall[Owner[t]] = "idle"
             /\ MoveTo(t, "leaving")
             /\ UNCHANGED <<mutex, database, fileVars>>

LeaveNoWake(t) == /\ pc[t] = "leaving" /\ Runs(Owner[t])
                  /\ MoveTo(t, "done")
                  /\ locked' = [locked EXCEPT ![Owner[t]] = FALSE]
                  /\ UNCHANGED <<queue, database, fileVars>>

(* The mutex's release function: unlock, and resolve the first waiter *)
Leave(t) ==
  LET i == Owner[t] IN
  /\ pc[t] = "leaving" /\ Runs(i)
  /\ locked' = [locked EXCEPT ![i] = FALSE]
  /\ IF queue[i] = <<>>
     THEN /\ MoveTo(t, "done")
          /\ UNCHANGED queue
     ELSE /\ pc' = [pc EXCEPT ![t] = "done", ![Head(queue[i])] = "woken"]
          /\ queue' = [queue EXCEPT ![i] = Tail(@)]
  /\ UNCHANGED <<database, fileVars>>

(* close(): release the file lock if it is held, close the database; calls   *)
(* go on                                                                     *)
Close(i) ==
  /\ Runs(i)
  /\ \/ /\ Release(i)
        /\ closing' = closing \cup {i}
        /\ UNCHANGED open
     \/ /\ syscall[i] = "idle" /\ i \in open
        /\ open' = open \ {i}
        /\ UNCHANGED <<closing, fileVars>>
  /\ UNCHANGED <<mutex, pc>>

CloseKeepsDb(i) ==
  /\ i \in closing
  /\ RelRead(i) \/ RelUnlink(i)
  /\ closing' = IF syscall'[i] = "idle" THEN closing \ {i} ELSE closing
  /\ UNCHANGED <<mutex, open, pc>>

CloseGoesOn(i) ==
  /\ i \in closing
  /\ RelRead(i) \/ RelUnlink(i)
  /\ IF syscall'[i] = "idle"
     THEN closing' = closing \ {i} /\ open' = open \ {i}
     ELSE UNCHANGED database
  /\ UNCHANGED <<mutex, pc>>

(* A process dies with its objects and their calls. *)
Die(p) ==
  LET gone == {i \in Inst : PidOf[i] = p} IN
  /\ Crash(p)
  /\ locked' = [i \in Inst |-> i \notin gone /\ locked[i]]
  /\ queue' = [i \in Inst |-> IF i \in gone THEN <<>> ELSE queue[i]]
  /\ open' = open \ gone /\ closing' = closing \ gone
  /\ pc' = [t \in Calls |-> IF Owner[t] \in gone THEN "dead" ELSE pc[t]]

Step(t) == \/ Wake(t) \/ TryFileLock(t) \/ Locks(t) \/ YieldsAtOnce(t) \/ Refuse(t)
           \/ GiveBack(t) \/ Unlocks(t) \/ Finish(t) \/ Leave(t)

GateNext == \/ \E t \in Calls : Call(t) \/ Step(t)
            \/ \E i \in Inst : Close(i) \/ CloseGoesOn(i)
            \/ Age /\ UNCHANGED <<mutex, database, pc>>
            \/ \E p \in Pids : Die(p)

(* Microtasks and system calls run, and the work of a call ends. *)
GateSpec     == GateInit /\ [][GateNext]_gateVars
GateFairness == /\ \A t \in Calls : WF_gateVars(Step(t))
                /\ WF_gateVars(\E i \in closing : CloseGoesOn(i))
GateLiveSpec == GateSpec /\ GateFairness

-----------------------------------------------------------------------------
(* A call that can write to the database: it has its turn when the process   *)
(* is not inside close()                                                     *)
Writing(t) == pc[t] = "working" /\ Owner[t] \in open \ closing

InMutex(t) == pc[t] \in Synchronous \cup {"entered", "refused", "working", "leaving"}

(* The mutex admits one call of an instance at a time, whatever the order in *)
(* which waiters wake and newcomers arrive (index.ts:376).                   *)
OneCallPerInstance ==
  \A t, u \in Calls : InMutex(t) /\ InMutex(u) /\ Owner[t] = Owner[u] => t = u

(* index.ts:376 and utils.ts:220: who writes does so under its lock, which   *)
(* it has till its work is over, or till the database is closed; and once    *)
(* the file is settled nobody takes it from under the writer before the two  *)
(* minutes of STALE_TIMEOUT_MS are over.  indexFiles writes without it.      *)
WriterKeepsFile ==
  [][\A t \in Calls : Writing(t) /\ OpOf[t] # "indexFiles" =>
       /\ syscall[Owner[t]] = "held"
       /\ Settled(Owner[t]) => Settled(Owner[t])' \/ ~Writing(t)' \/ Age]_gateVars

(* No wake-up is lost between the release and the waiter's second look. *)
WaitersHaveWaker ==
  \A i \in Inst : queue[i] # <<>> =>
     locked[i] \/ \E t \in Calls : Owner[t] = i /\ pc[t] = "woken"

(* Whoever waits for the mutex gets in, and every call returns in the end,   *)
(* unless its process dies.                                                  *)
CallsReturn ==
  (\E t \in Calls : pc[t] = "queued") ~> \A t \in Calls : pc[t] \in {"idle", "done", "dead"}

(* The promise mutex: one call of an object is inside, and whoever waits has *)
(* somebody who will wake it.                                                *)
GateIsSound == GateTypeOK /\ OneCallPerInstance /\ WaitersHaveWaker
=============================================================================
