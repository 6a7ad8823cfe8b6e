------------------------------- MODULE Watcher -------------------------------
(***************************************************************************)
(* The file watcher of src/sync/watcher.ts: change events become per-file  *)
(* pending entries, a debounce timer turns them into a sync of the index,  *)
(* and entries are dropped only when a sync that began after them commits. *)
(*                                                                         *)
(* Times are compared only with the start of the sync in flight, so a      *)
(* pending entry is "before" (lastSeenMs <= syncStartedMs) or "after" it.  *)
(* The model needs no counter: any number of edits, syncs and restarts.    *)
(***************************************************************************)
EXTENDS Naturals

CONSTANTS
  Files,           \* source files inside the watched scope
  MaxLockRetries,  \* MAX_LOCK_RETRIES
  CoarseClock      \* may two Date.now() readings of one sync be equal or run backwards?

ASSUME WatcherAssumption == MaxLockRetries \in Nat /\ CoarseClock \in BOOLEAN

VARIABLES
  (* the FileWatcher object *)
  installed,   \* recursiveWatcher, dirWatchers or inert is set
  stopped,     \* the stopped flag
  degraded,    \* degradedReason is set
  timer,       \* debounceTimer: off, debounce or retry
  pending,     \* pendingFiles
  retries,     \* lockRetryCount
  syncing,     \* the syncing flag: a flush() awaits syncFn
  (* the sync in flight and the world around the object *)
  progress,    \* what the sync in flight has done with each file
  ticked,      \* the clock has moved since syncStartedMs
  stale,       \* files whose indexed content is not the one on disk
  events,      \* files with a change the OS has not delivered yet
  excused      \* files the watcher does not answer for: changed while unwatched,
               \* or passed over by a sync because they would not read or parse

object == <<installed, stopped, degraded, timer, pending, retries, syncing>>
world  == <<progress, ticked, stale, events, excused>>
vars   == <<object, world>>

Retries  == 0 .. MaxLockRetries + 1
Marks    == {"no", "before", "after"}
Progress == {"todo", "read", "dirty", "done"}

TypeOK == /\ installed \in BOOLEAN /\ stopped \in BOOLEAN /\ degraded \in BOOLEAN
          /\ timer \in {"off", "debounce", "retry"}
          /\ pending \in [Files -> Marks]
          /\ retries \in Retries
          /\ syncing \in BOOLEAN
          /\ progress \in [Files -> Progress]
          /\ ticked \in BOOLEAN
          /\ stale \subseteq Files /\ events \subseteq Files /\ excused \subseteq Files

(* isActive(); `ready` is true exactly then *)
Active == installed /\ ~stopped

Init == /\ installed = FALSE /\ stopped = FALSE /\ degraded = FALSE
        /\ timer = "off" /\ retries = 0 /\ syncing = FALSE
        /\ pending = [f \in Files |-> "no"]
        /\ progress = [f \in Files |-> "todo"] /\ ticked = FALSE
        /\ stale \in SUBSET Files /\ events = {} /\ excused = stale

HasPending(p) == \E f \in Files : p[f] # "no"

-----------------------------------------------------------------------------
(* start() and stop()                                                      *)

(* start() where watching is possible.  What changed before is the          *)
(* business of the catch-up sync, not of the watcher.                       *)
Start == /\ ~installed
         /\ installed' = TRUE /\ stopped' = FALSE /\ degraded' = FALSE
         /\ retries' = 0
         /\ pending' = [f \in Files |-> "no"]
         /\ events' = {} /\ excused' = stale
         /\ UNCHANGED <<timer, syncing, progress, ticked, stale>>

(* The effects of stop(), with every pending entry forgotten. *)
StopEffects == /\ installed' = FALSE /\ stopped' = TRUE
               /\ timer' = "off" /\ retries' = 0
               /\ pending' = [f \in Files |-> "no"]
               /\ events' = {} /\ excused' = stale

Stop == /\ StopEffects
        /\ UNCHANGED <<degraded, syncing, progress, ticked, stale>>

(* start() where watchDisabledReason() names a reason: nothing is installed *)
StartDisabled == /\ ~installed
                 /\ stopped' = FALSE /\ degraded' = FALSE /\ retries' = 0
                 /\ UNCHANGED <<installed, timer, pending, syncing, world>>

(* start() whose setup fails for another reason: stop() *)
StartFails == /\ ~installed /\ StopEffects
              /\ degraded' = FALSE
              /\ UNCHANGED <<syncing, progress, ticked, stale>>

(* degrade() by EMFILE/ENFILE, in start() or from a live handle *)
Exhaust == /\ StopEffects
           /\ degraded' = TRUE
           /\ UNCHANGED <<syncing, progress, ticked, stale>>

-----------------------------------------------------------------------------
(* Changes on disk and their events                                        *)

(* Somebody writes f.  Undelivered events of one file coalesce. *)
Edit(f) == /\ stale' = stale \cup {f}
           /\ progress' = IF syncing /\ progress[f] = "read"
                          THEN [progress EXCEPT ![f] = "dirty"] ELSE progress
           /\ IF Active
              THEN events' = events \cup {f} /\ excused' = excused \ {f}
              ELSE excused' = excused \cup {f} /\ UNCHANGED events
           /\ UNCHANGED <<object, ticked>>

StampsEarly == {"before"}

(* Is an event handled now stamped later than syncStartedMs? *)
Stamps == IF syncing /\ ticked
          THEN IF CoarseClock THEN {"before", "after"} ELSE {"after"}
          ELSE {"before"}

(* handleChange: mark the file pending and (re)arm the debounce timer *)
HandleChange(f) == /\ Active /\ f \in events
                   /\ events' = events \ {f}
                   /\ \E m \in Stamps : pending' = [pending EXCEPT ![f] = m]
                   /\ timer' = "debounce"
                   /\ UNCHANGED <<installed, stopped, degraded, retries, syncing>>
                   /\ UNCHANGED <<progress, ticked, stale, excused>>

-----------------------------------------------------------------------------
(* flush()                                                                 *)

(* The timer fires while a sync is in flight: flush() returns at once. *)
FlushSkipped == /\ timer # "off" /\ (syncing \/ stopped)
                /\ timer' = "off"
                /\ UNCHANGED <<installed, stopped, degraded, pending, retries, syncing>>
                /\ UNCHANGED world

(* The timer fires and flush() calls syncFn: every entry predates it now. *)
FlushBegin == /\ timer # "off" /\ ~syncing /\ ~stopped
              /\ timer' = "off" /\ syncing' = TRUE
              /\ pending' = [f \in Files |-> IF pending[f] = "no" THEN "no" ELSE "before"]
              /\ progress' = [f \in Files |-> "todo"] /\ ticked' = FALSE
              /\ UNCHANGED <<installed, stopped, degraded, retries>>
              /\ UNCHANGED <<stale, events, excused>>

Tick == /\ syncing /\ ~ticked /\ ticked' = TRUE
        /\ UNCHANGED <<object, progress, stale, events, excused>>

(* sync() reads a file from disk, then stores what it read.  It takes the   *)
(* file lock and lists the project first, which costs it a millisecond.     *)
SyncReads(f) == /\ syncing /\ ticked /\ progress[f] = "todo"
                /\ progress' = [progress EXCEPT ![f] = "read"]
                /\ UNCHANGED <<object, ticked, stale, events, excused>>

SyncStores(f) == /\ syncing /\ progress[f] \in {"read", "dirty"}
                 /\ progress' = [progress EXCEPT ![f] = "done"]
                 /\ IF progress[f] = "read"
                    THEN stale' = stale \ {f} /\ excused' = excused \ {f}
                    ELSE UNCHANGED <<stale, excused>>
                 /\ UNCHANGED <<object, ticked, events>>

(* Another sync stores f: that of a git hook, of the command line, or the    *)
(* catch-up of the engine.  It has the locks, so ours is yet to begin.       *)
OtherStores(f) == /\ syncing => \A g \in Files : progress[g] = "todo"
                  /\ stale' = stale \ {f} /\ excused' = excused \ {f}
                  /\ UNCHANGED <<object, progress, ticked, events>>

(* A file that cannot be read or parsed is passed over, not an error: its    *)
(* entry will be dropped though the index still lags.                        *)
SyncSkips(f) == /\ syncing /\ ticked /\ progress[f] = "todo"
                /\ progress' = [progress EXCEPT ![f] = "done"]
                /\ excused' = excused \cup {f}
                /\ UNCHANGED <<object, ticked, stale, events>>

SurvivorsNone == [f \in Files |-> "no"]

(* Entries that outlive a committed sync: those stamped after its start. *)
Survivors == [f \in Files |-> IF pending[f] = "after" THEN "after" ELSE "no"]

RearmNever(p, failed)   == timer' = timer
RearmIfClean(p, failed) ==
  timer' = IF HasPending(p) /\ ~stopped /\ ~failed THEN "debounce" ELSE timer

(* the finally block: another pass while entries remain *)
Rearm(p, failed) ==
  timer' = IF HasPending(p) /\ ~stopped THEN (IF failed THEN "retry" ELSE "debounce")
           ELSE timer

(* syncFn resolves *)
SyncCommits == /\ syncing /\ \A f \in Files : progress[f] = "done"
               /\ syncing' = FALSE /\ retries' = 0
               /\ pending' = Survivors
               /\ Rearm(Survivors, FALSE)
               /\ UNCHANGED <<installed, stopped, degraded, world>>

SyncLockedForEver == /\ syncing /\ \A f \in Files : progress[f] = "todo"
                     /\ syncing' = FALSE
                     /\ retries' = retries + 1
                     /\ Rearm(pending, TRUE)
                     /\ UNCHANGED <<installed, stopped, degraded, pending, world>>

(* syncFn throws LockUnavailableError: nothing was read *)
SyncLocked == /\ syncing /\ \A f \in Files : progress[f] = "todo"
              /\ syncing' = FALSE
              /\ UNCHANGED <<progress, ticked, stale>>
              /\ IF retries + 1 > MaxLockRetries /\ ~degraded
                 THEN StopEffects /\ degraded' = TRUE
                 ELSE /\ retries' = retries + 1
                      /\ Rearm(pending, TRUE)
                      /\ UNCHANGED <<installed, stopped, degraded, pending, events, excused>>

(* syncFn throws anything else, at any point of its work *)
SyncFails == /\ syncing
             /\ syncing' = FALSE /\ retries' = 0
             /\ Rearm(pending, FALSE)
             /\ UNCHANGED <<installed, stopped, degraded, pending, world>>

Next == \/ Start \/ StartDisabled \/ StartFails \/ Stop \/ Exhaust
        \/ \E f \in Files : \/ Edit(f) \/ HandleChange(f)
                            \/ SyncReads(f) \/ SyncStores(f) \/ SyncSkips(f)
                            \/ OtherStores(f)
        \/ FlushSkipped \/ FlushBegin \/ Tick
        \/ SyncCommits \/ SyncLocked \/ SyncFails

(* Timers fire, the OS delivers events, and a sync that began goes on to    *)
(* some end: it commits when it has stored everything.                      *)
Fairness == /\ WF_vars(FlushSkipped \/ FlushBegin)
            /\ \A f \in Files : /\ WF_vars(HandleChange(f))
                                /\ WF_vars(SyncReads(f) \/ SyncStores(f) \/ SyncSkips(f))
            /\ WF_vars(Tick) /\ WF_vars(SyncCommits)

Spec     == Init /\ [][Next]_vars
LiveSpec == Spec /\ Fairness

-----------------------------------------------------------------------------
(* An edit the watcher must account for: made while it was active, to a      *)
(* file that no sync has had to pass over since.                             *)
Owed(f) == Active /\ f \in stale /\ f \notin excused

(* No answer is silently stale (watcher.ts:766-771, "we prefer false        *)
(* positives over false negatives"): a file whose index lags behind the     *)
(* disk is in pendingFiles, or its event is still in the OS queue.          *)
NoSilentStale == \A f \in Files : Owed(f) => f \in events \/ pending[f] # "no"

(* getPendingFiles reports indexing = true (watcher.ts:836) only for edits  *)
(* the sync in flight absorbs: once that sync is past the file, the index   *)
(* is fresh or a newer change is on its way.                                *)
IndexingIsAbsorbed ==
  \A f \in Files : /\ syncing /\ pending[f] = "before"
                   /\ progress[f] \in {"dirty", "done"} /\ Owed(f)
                   => f \in events

(* No wake-up is lost between events, the skipped flush, failures and the   *)
(* post-sync check: pending work always has a timer or a sync behind it.    *)
PendingHasTrigger == HasPending(pending) => Active /\ (timer # "off" \/ syncing)

(* The watcher keeps the promise the tools rely on. *)
Promise == INSTANCE StalenessPromise
             WITH on <- Active, lag <- stale, queue <- events,
                  flag <- {f \in Files : pending[f] # "no"}
KeepsPromise == Promise!Spec

(* Once edits pause and syncs stop failing, every owed file is indexed or   *)
(* the watcher has declared itself off.                                     *)
Quiet == <>[](events = {}) /\ <>[][~SyncFails]_vars
CatchesUp == Quiet => \A f \in Files : Owed(f) ~> ~Owed(f)

(* What the watcher says of the index is true, and pending work goes on: no  *)
(* edit is silently missing, "indexing" is not said in vain, and a timer or  *)
(* a sync stands behind every pending entry.                                 *)
WatcherIsSound == TypeOK /\ NoSilentStale /\ IndexingIsAbsorbed /\ PendingHasTrigger
=============================================================================
