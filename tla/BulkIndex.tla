------------------------------ MODULE BulkIndex ------------------------------
(***************************************************************************)
(* indexAll() of src/extraction/index.ts over the pool of ParsePool: files  *)
(* are read in batches, parsed in a rolling window and committed in file    *)
(* order, then files whose worker died are tried again.  A pool event and   *)
(* the loop never overlap: an event comes while indexAll awaits, and the    *)
(* continuations of the promises it settles run before anything else does.  *)
(***************************************************************************)
EXTENDS ParsePool, Sequences

CONSTANTS
  N,       \* files found by the scan; a job is the number of its file
  Batch,   \* FILE_IO_BATCH_SIZE
  Window   \* windowSize

ASSUME BulkAssumption == N \in Nat \ {0} /\ Jobs = 1..N
                         /\ Batch \in Nat \ {0} /\ Window \in Nat \ {0}

VARIABLES
  phase,    \* where indexAll awaits or is about to go on
  next,     \* the next file
  fed,      \* the file of each sequence number: nextSeq is Len(fed) + 1
  arrived,  \* sequence numbers whose parse has settled; those not below the
            \* cursor are the keys of `completed`, the others of fed inFlight
  cursor,   \* nextToStore
  db,       \* files in the order they were stored; NoJob for one that failed
  errs,     \* files with an entry in `errors`
  signal,   \* signal.aborted
  held,     \* sequence numbers some Promise.race has listened to
  again, still, stage,   \* the retry passes
  lost      \* history: files whose store threw

loop == <<phase, next, fed, arrived, cursor, db, errs, signal, held, again, still, stage, lost>>
vars == <<pool, loop>>

Over == {"done", "aborted", "rejected", "dead"}

BulkTypeOK ==
  /\ phase \in {"read", "feed", "room", "drain", "drained", "tidy", "retry", "await", "abort"} \cup Over
  /\ next \in 1..(N + 1) /\ fed \in Seq(Jobs) /\ db \in Seq(Jobs \cup {NoJob})
  /\ arrived \subseteq DOMAIN fed /\ held \subseteq DOMAIN fed /\ cursor \in 1..(Len(fed) + 1)
  /\ errs \subseteq Jobs /\ lost \subseteq Jobs /\ again \subseteq errs /\ still \subseteq errs
  /\ signal \in BOOLEAN /\ stage \in 0..2

Init == /\ PoolInit
        /\ phase = "read" /\ next = 1 /\ fed = <<>> /\ db = <<>> /\ cursor = 1 /\ stage = 0
        /\ arrived = {} /\ held = {} /\ errs = {} /\ again = {} /\ still = {} /\ lost = {}
        /\ signal = FALSE

InFlight == DOMAIN fed \ arrived

(* Promises that are settled and whose continuation has not run *)
Ripe == {k \in InFlight : outcome[fed[k]] # "waiting"}

-----------------------------------------------------------------------------
(* flushOrdered(): the parses from the cursor on, up to the first that has   *)
(* not settled, unless a store throws on the way; then `failing` is what     *)
(* becomes of indexAll.                                                      *)
Commit(to) ==
  LET part == SubSeq(fed, cursor, to - 1)
      bad  == {part[k] : k \in {i \in DOMAIN part : outcome[part[i]] # "ok"}}
  IN /\ db' = db \o [k \in DOMAIN part |-> IF part[k] \in bad THEN NoJob ELSE part[k]]
     /\ errs' = errs \cup bad

Reaches(to, settled) == to \notin settled /\ cursor..(to - 1) \subseteq settled

FlushOrdered(settled, fine, failing) ==
  \E to \in cursor..(Len(fed) + 1) :
    /\ Reaches(to, settled)
    /\ \/ Commit(to) /\ cursor' = to /\ phase' = fine /\ UNCHANGED lost
       \/ \E k \in cursor..(to - 1) :
            /\ outcome[fed[k]] = "ok" /\ lost' = lost \cup {fed[k]}
            /\ Commit(k) /\ cursor' = k + 1 /\ phase' = failing

(* The parse of number k has settled.  If the store throws, indexAll rejects *)
(* when it awaits the window; else the rejection is lost on a race that is   *)
(* over, or has no handler and ends the process.                             *)
ArriveUnordered(k) ==
  /\ k \in Ripe /\ arrived' = arrived \cup {k}
  /\ IF phase = "aborted" THEN UNCHANGED <<phase, cursor, db, errs, lost>>
     ELSE /\ UNCHANGED <<phase, lost>>
          /\ \E to \in cursor..(Len(fed) + 1) : Reaches(to, arrived') /\ cursor' = to
          /\ db' = IF outcome[fed[k]] = "ok" THEN Append(db, fed[k]) ELSE db
          /\ errs' = IF outcome[fed[k]] = "ok" THEN errs ELSE errs \cup {fed[k]}
  /\ UNCHANGED <<pool, next, fed, signal, held, again, still, stage>>

ArriveAlways(k) ==
  /\ k \in Ripe /\ arrived' = arrived \cup {k}
  /\ FlushOrdered(arrived', phase, "rejected")
  /\ UNCHANGED <<pool, next, fed, signal, held, again, still, stage>>

Arrive(k) ==
  /\ k \in Ripe /\ arrived' = arrived \cup {k}
  /\ IF phase = "aborted" THEN UNCHANGED <<phase, cursor, db, errs, lost>>
     ELSE FlushOrdered(arrived', phase,
            IF phase \in {"room", "drain"} THEN "rejected"
            ELSE IF phase = "rejected" \/ k \in held THEN phase ELSE "dead")
  /\ UNCHANGED <<pool, next, fed, signal, held, again, still, stage>>

-----------------------------------------------------------------------------
(* The dispatch loop                                                        *)

After(n) == IF n = N THEN "drain" ELSE IF signal THEN "abort"
            ELSE IF n % Batch = 0 THEN "read" ELSE "feed"

ReadBatch == /\ phase = "read" /\ Ripe = {}
             /\ phase' = IF signal THEN "abort" ELSE "feed"
             /\ UNCHANGED <<pool, next, fed, arrived, cursor, db, errs, signal, held, again, still, stage, lost>>

(* The file could not be read, or is too large. *)
Skip == /\ phase = "feed" /\ Ripe = {}
        /\ errs' = errs \cup {next} /\ next' = next + 1 /\ phase' = After(next)
        /\ UNCHANGED <<pool, fed, arrived, cursor, db, signal, held, again, still, stage, lost>>

FeedUnbounded ==
  /\ phase = "feed" /\ Ripe = {} /\ Request(next)
  /\ fed' = Append(fed, next) /\ next' = next + 1 /\ phase' = After(next)
  /\ UNCHANGED <<arrived, cursor, db, errs, signal, held, again, still, stage, lost>>

Full(given) == Len(given) + 1 - cursor >= Window

(* feed() *)
Feed == /\ phase = "feed" /\ Ripe = {} /\ Request(next)
        /\ fed' = Append(fed, next) /\ next' = next + 1
        /\ IF Full(fed') THEN phase' = "room" /\ held' = held \cup (DOMAIN fed' \ arrived)
           ELSE phase' = After(next) /\ UNCHANGED held
        /\ UNCHANGED <<arrived, cursor, db, errs, signal, again, still, stage, lost>>

Room == /\ phase = "room" /\ Ripe = {} /\ (Full(fed) => InFlight = {})
        /\ phase' = After(next - 1)
        /\ UNCHANGED <<pool, next, fed, arrived, cursor, db, errs, signal, held, again, still, stage, lost>>

DrainedAtOnce == /\ phase = "drain"
                 /\ FlushOrdered(arrived, "drained", "rejected")
                 /\ UNCHANGED <<pool, next, fed, arrived, signal, held, again, still, stage>>

(* Promise.all(inFlight), and the last flushOrdered() *)
Drained == /\ phase = "drain" /\ InFlight = {}
           /\ FlushOrdered(arrived, "drained", "rejected")
           /\ UNCHANGED <<pool, next, fed, arrived, signal, held, again, still, stage>>

Checked == /\ phase = "drained" /\ phase' = IF signal THEN "abort" ELSE "tidy"
           /\ UNCHANGED <<pool, next, fed, arrived, cursor, db, errs, signal, held, again, still, stage, lost>>

Abort == /\ phase = "abort" /\ Destroy /\ phase' = "aborted"
         /\ UNCHANGED <<next, fed, arrived, cursor, db, errs, signal, held, again, still, stage, lost>>

-----------------------------------------------------------------------------
(* The retry passes: on a fresh worker, then with comments stripped         *)

Retryable == {f \in errs : outcome[f] = "exited"}

RetryBegin == /\ phase = "tidy" /\ Retryable # {} /\ RecycleAll
              /\ phase' = "retry" /\ again' = Retryable /\ stage' = 1
              /\ UNCHANGED <<next, fed, arrived, cursor, db, errs, signal, held, still, lost>>

RetryStripped == /\ phase = "retry" /\ again = {} /\ still # {} /\ RecycleAll
                 /\ again' = still /\ still' = {} /\ stage' = 2
                 /\ UNCHANGED <<phase, next, fed, arrived, cursor, db, errs, signal, held, lost>>

RetryStop == /\ phase = "retry" /\ signal /\ again # {} /\ again' = {}
             /\ UNCHANGED <<pool, phase, next, fed, arrived, cursor, db, errs, signal, held, still, stage, lost>>

RetryUnreadable ==
  /\ phase = "retry" /\ ~signal /\ \E f \in again : IsFirst(f, again) /\ again' = again \ {f}
  /\ UNCHANGED <<pool, phase, next, fed, arrived, cursor, db, errs, signal, held, still, stage, lost>>

RetryAsk == /\ phase = "retry" /\ ~signal /\ phase' = "await"
            /\ \E f \in again : IsFirst(f, again) /\ Request(f)
            /\ UNCHANGED <<next, fed, arrived, cursor, db, errs, signal, held, again, still, stage, lost>>

RetryBackAgain ==
  /\ phase = "await" /\ phase' = "retry"
  /\ \E f \in again : /\ IsFirst(f, again) /\ outcome[f] = "ok"
                      /\ db' = Append(db, f) /\ errs' = errs \ {f}
  /\ UNCHANGED <<pool, next, fed, arrived, cursor, signal, held, again, still, stage, lost>>

(* A stat or a store that throws rejects indexAll. *)
RetryBack ==
  /\ phase = "await"
  /\ \E f \in again :
       /\ IsFirst(f, again) /\ outcome[f] # "waiting" /\ again' = again \ {f}
       /\ \/ /\ outcome[f] = "ok" /\ phase' = "retry" /\ UNCHANGED <<still, lost>>
             /\ db' = Append(db, f) /\ errs' = errs \ {f}
          \/ /\ outcome[f] = "ok" /\ phase' = "rejected" /\ lost' = lost \cup {f}
             /\ UNCHANGED <<db, errs, still>>
          \/ /\ outcome[f] # "ok" /\ phase' = "retry" /\ UNCHANGED <<db, errs, lost>>
             /\ still' = IF outcome[f] = "bad" \/ stage = 2 THEN still ELSE still \cup {f}
  /\ UNCHANGED <<pool, next, fed, arrived, cursor, signal, held, stage>>

Finish == /\ \/ phase = "tidy" /\ Retryable = {}
             \/ phase = "retry" /\ again = {} /\ still = {}
          /\ Destroy /\ phase' = "done"
          /\ UNCHANGED <<next, fed, arrived, cursor, db, errs, signal, held, again, still, stage, lost>>

-----------------------------------------------------------------------------
(* The caller aborts *)
Signal == /\ phase \in {"read", "room", "drain", "tidy", "await"} /\ Ripe = {}
          /\ ~signal /\ signal' = TRUE
          /\ UNCHANGED <<pool, phase, next, fed, arrived, cursor, db, errs, held, again, still, stage, lost>>

(* The event loop is free.  A rejected indexAll leaves the pool and the      *)
(* parses in flight behind.                                                  *)
Awaiting == phase \in {"read", "room", "drain", "tidy", "await", "rejected"} /\ Ripe = {}

Event(w) == Awaiting /\ PoolEvent(w) /\ UNCHANGED loop

Step == \/ \E k \in DOMAIN fed : Arrive(k)
        \/ ReadBatch \/ Skip \/ Feed \/ Room \/ Drained \/ Checked \/ Abort
        \/ RetryBegin \/ RetryStripped \/ RetryStop \/ RetryUnreadable \/ RetryAsk \/ RetryBack \/ Finish

Next == Step \/ Signal \/ \E w \in Threads : Event(w)

Spec == Init /\ [][Next]_vars

(* The event loop does not stop while it has something to do: a thread that  *)
(* starts reports or dies, messages are delivered and timers fire.  A parse  *)
(* may hang.                                                                 *)
Due(w) == Load(w) \/ OnLoaded(w) \/ OnResult(w) \/ OnTimeout(w)

Fairness == WF_vars(Step \/ \E w \in Threads : Awaiting /\ Due(w) /\ UNCHANGED loop)

LiveSpec == Spec /\ Fairness
-----------------------------------------------------------------------------
(* index.ts:1196-1200: files enter the database in file order, however their *)
(* parses finish, and each of them once; retried files come after them.      *)
StoredInOrder ==
  \A i, k \in DOMAIN db : i < k /\ db[i] # NoJob /\ db[k] # NoJob =>
    IF stage = 0 THEN db[i] < db[k] ELSE db[i] # db[k]

(* index.ts:1201, 1296: what runs ahead of the cursor is bounded by the      *)
(* window, and unless a store threw, a full window has its cursor in flight. *)
WindowIsBounded == /\ Len(fed) + 1 - cursor <= Window
                   /\ lost = {} /\ phase = "room" /\ Full(fed) => cursor \in InFlight

(* An index that returns has stored or reported every file, but those whose  *)
(* store threw.                                                              *)
EveryFileAccounted ==
  phase = "done" => \A f \in Jobs : f \in lost \/ f \in errs \/ \E k \in DOMAIN db : db[k] = f

(* After an abort nothing more is stored, though parses still settle.        *)
AbortIsFinal == [][(phase \in {"aborted", "done"}) => db' = db /\ errs' = errs]_vars

(* indexAll returns, whatever its workers do. *)
IndexReturns == <>(phase \in Over)

(* The loop in good order: files stored in theirs and once, the pool as large *)
(* as its queue asks, results ahead of the cursor within the window, no file  *)
(* forgotten at the end.                                                      *)
FilesAccounted ==
  BulkTypeOK /\ StoredInOrder /\ GrowthIsDone /\ WindowIsBounded /\ EveryFileAccounted
=============================================================================
