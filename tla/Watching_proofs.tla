--------------------------- MODULE Watching_proofs ---------------------------
(***************************************************************************)
(* The watcher, the tool calls that cite its index and the two locks in     *)
(* front of the index, for any files, retry budget, cache, processes and    *)
(* calls.                                                                  *)
(*                                                                         *)
(* NoSilentStale is not inductive: that a committing sync may drop its     *)
(* entries depends on where it is with each file (IndexingIsAbsorbed), and *)
(* that in turn on an event being stamped "before" only while the sync has *)
(* read nothing (NothingReadYet).  The watcher goes its way whatever the    *)
(* calls do, so that what is proved of it holds when a call's notice is     *)
(* made; and what a call shows old lags behind the disk until the notice,   *)
(* unless `passed` says why not.                                           *)
(***************************************************************************)
EXTENDS ToolCalls, IndexGate, TLAPS

(* Until the clock has moved, the sync in flight has read no file. *)
NothingReadYet == syncing /\ ~ticked => \A f \in Files : progress[f] = "todo"

InstalledRuns == installed => ~stopped

IInv == /\ TypeOK
        /\ InstalledRuns
        /\ NothingReadYet
        /\ IndexingIsAbsorbed
        /\ NoSilentStale

(* A degraded watcher is stopped; at most the sync that was in flight then  *)
(* still counts a retry.                                                    *)
LatchInv == degraded => /\ stopped /\ retries \in {0, 1}
                        /\ syncing => retries = 0

LEMMA RetryBudget ==
  /\ 0 \in Retries /\ 1 \in Retries
  /\ \A n \in Retries : ~(n + 1 > MaxLockRetries) => n + 1 \in Retries
BY WatcherAssumption DEF Retries

(* The variables keep their types in every step of the watcher; the retry   *)
(* counter never passes its budget, a degraded watcher included.            *)
THEOREM Typing == Spec => []TypeOK
<1>1. Init => TypeOK /\ LatchInv
  BY RetryBudget DEF Init, TypeOK, Marks, Progress, LatchInv
<1>2. ASSUME TypeOK, LatchInv, [Next]_vars
      PROVE  TypeOK' /\ LatchInv'
  <2> USE <1>2 DEF TypeOK, Marks, Progress, LatchInv, object, world
  <2>1. CASE Start
    BY <2>1, RetryBudget DEF Start
  <2>2. CASE StartDisabled
    BY <2>2, RetryBudget DEF StartDisabled
  <2>3. CASE StartFails
    BY <2>3, RetryBudget DEF StartFails, StopEffects
  <2>4. CASE Stop \/ Exhaust
    BY <2>4, RetryBudget DEF Stop, Exhaust, StopEffects
  <2>5. ASSUME NEW f \in Files, Edit(f)
        PROVE  TypeOK' /\ LatchInv'
    BY <2>5 DEF Edit
  <2>6. ASSUME NEW f \in Files, HandleChange(f)
        PROVE  TypeOK' /\ LatchInv'
    BY <2>6 DEF HandleChange, Stamps
  <2>7. ASSUME NEW f \in Files,
               SyncReads(f) \/ SyncStores(f) \/ SyncSkips(f) \/ OtherStores(f)
        PROVE  TypeOK' /\ LatchInv'
    BY <2>7 DEF SyncReads, SyncStores, SyncSkips, OtherStores
  <2>8. CASE FlushSkipped \/ Tick
    <3>1. CASE FlushSkipped
      BY <3>1 DEF FlushSkipped
    <3>2. CASE Tick
      BY <3>2 DEF Tick
    <3> QED
      BY <2>8, <3>1, <3>2
  <2>9. CASE FlushBegin
    BY <2>9 DEF FlushBegin
  <2>10. CASE SyncCommits \/ SyncFails
    <3>1. CASE SyncCommits
      BY <3>1, RetryBudget DEF SyncCommits, Survivors, Rearm
    <3>2. CASE SyncFails
      BY <3>2, RetryBudget DEF SyncFails, Rearm
    <3> QED
      BY <2>10, <3>1, <3>2
  <2>11. CASE SyncLocked
    <3>1. CASE retries + 1 > MaxLockRetries /\ ~degraded
      BY <2>11, <3>1, RetryBudget DEF SyncLocked, StopEffects
    <3>2. CASE ~(retries + 1 > MaxLockRetries) /\ ~degraded
      <4>1. retries' \in Retries
        BY <2>11, <3>2, RetryBudget DEF SyncLocked
      <4> QED
        BY <2>11, <3>2, <4>1 DEF SyncLocked, Rearm
    <3>3. CASE degraded
      <4>1. retries' = 1
        BY <2>11, <3>3 DEF SyncLocked
      <4> QED
        BY <2>11, <3>3, <4>1, RetryBudget DEF SyncLocked, Rearm
    <3> QED
      BY <3>1, <3>2, <3>3
  <2>12. CASE UNCHANGED vars
    BY <2>12 DEF vars
  <2> QED
    BY <1>2, <2>1, <2>2, <2>3, <2>4, <2>5, <2>6, <2>7, <2>8, <2>9, <2>10,
       <2>11, <2>12 DEF Next
<1> QED
  BY <1>1, <1>2, PTL DEF Spec

LEMMA InitInv == Init => IInv
<1> SUFFICES ASSUME Init PROVE IInv
  OBVIOUS
<1>1. TypeOK
  BY RetryBudget DEF Init, TypeOK, Marks, Progress
<1> QED
  BY <1>1 DEF Init, IInv, InstalledRuns, NothingReadYet, IndexingIsAbsorbed,
              NoSilentStale, Owed, Active

(* The watch set is installed or torn down: whatever lags is excused. *)
LEMMA SwitchKeepsInv ==
  ASSUME IInv, TypeOK', Start \/ StartDisabled \/ StartFails \/ Stop \/ Exhaust
  PROVE  IInv'
<1> USE DEF IInv, TypeOK, InstalledRuns, NothingReadYet, IndexingIsAbsorbed,
            NoSilentStale, Owed, Active, object, world
<1>1. CASE Start
  BY <1>1 DEF Start
<1>2. CASE StartDisabled
  BY <1>2 DEF StartDisabled
<1>3. CASE StartFails \/ Stop \/ Exhaust
  BY <1>3 DEF StartFails, Stop, Exhaust, StopEffects
<1> QED
  BY <1>1, <1>2, <1>3

(* A change on disk: while watching, its event is on the way. *)
LEMMA EditKeepsInv ==
  ASSUME IInv, TypeOK', NEW g \in Files, Edit(g)
  PROVE  IInv'
<1> USE DEF IInv, TypeOK, Edit, Active, object
<1>1. InstalledRuns'
  BY DEF InstalledRuns
<1>2. NothingReadYet'
  BY DEF NothingReadYet
<1>3. IndexingIsAbsorbed'
  BY DEF IndexingIsAbsorbed, Owed
<1>4. NoSilentStale'
  BY DEF NoSilentStale, Owed
<1> QED
  BY <1>1, <1>2, <1>3, <1>4

(* An event handled while the sync has begun to read is stamped "after" it. *)
LEMMA HandleKeepsInv ==
  ASSUME ~CoarseClock, IInv, TypeOK', NEW g \in Files, HandleChange(g)
  PROVE  IInv'
<1> USE DEF IInv, TypeOK, HandleChange, Active
<1>1. InstalledRuns'
  BY DEF InstalledRuns
<1>2. NothingReadYet'
  BY DEF NothingReadYet
<1>3. IndexingIsAbsorbed'
  <2>1. syncing /\ pending'[g] = "before" => progress[g] = "todo"
    BY DEF Stamps, NothingReadYet
  <2> QED
    BY <2>1 DEF IndexingIsAbsorbed, Owed
<1>4. NoSilentStale'
  <2>1. pending'[g] # "no"
    BY DEF Stamps
  <2> QED
    BY <2>1 DEF NoSilentStale, Owed
<1> QED
  BY <1>1, <1>2, <1>3, <1>4

(* The sync in flight reads and stores its files, or another stores one. *)
LEMMA SyncStepKeepsInv ==
  ASSUME IInv, TypeOK', NEW g \in Files,
         SyncReads(g) \/ SyncStores(g) \/ SyncSkips(g) \/ OtherStores(g)
  PROVE  IInv'
<1> USE DEF IInv, TypeOK, Active, object
<1>1. CASE SyncReads(g)
  BY <1>1 DEF SyncReads, InstalledRuns, NothingReadYet, IndexingIsAbsorbed,
              NoSilentStale, Owed
<1>2. CASE SyncStores(g)
  <2> USE <1>2 DEF SyncStores
  <2>1. InstalledRuns' /\ NothingReadYet'
    BY DEF InstalledRuns, NothingReadYet
  <2>2. IndexingIsAbsorbed'
    BY DEF IndexingIsAbsorbed, Owed
  <2>3. NoSilentStale'
    BY DEF NoSilentStale, Owed
  <2> QED
    BY <2>1, <2>2, <2>3
<1>3. CASE SyncSkips(g)
  <2> USE <1>3 DEF SyncSkips
  <2>1. InstalledRuns' /\ NothingReadYet'
    BY DEF InstalledRuns, NothingReadYet
  <2>2. IndexingIsAbsorbed'
    BY DEF IndexingIsAbsorbed, Owed
  <2>3. NoSilentStale'
    BY DEF NoSilentStale, Owed
  <2> QED
    BY <2>1, <2>2, <2>3
<1>4. CASE OtherStores(g)
  BY <1>4 DEF OtherStores, InstalledRuns, NothingReadYet, IndexingIsAbsorbed,
              NoSilentStale, Owed
<1> QED
  BY <1>1, <1>2, <1>3, <1>4

(* flush() begins, is skipped, or ends in one of its three ways. *)
LEMMA FlushKeepsInv ==
  ASSUME IInv, TypeOK',
         FlushSkipped \/ FlushBegin \/ Tick \/ SyncCommits \/ SyncLocked \/ SyncFails
  PROVE  IInv'
<1> USE DEF IInv, TypeOK, Active, object, world
<1>1. CASE FlushSkipped \/ Tick
  BY <1>1 DEF FlushSkipped, Tick, InstalledRuns, NothingReadYet,
              IndexingIsAbsorbed, NoSilentStale, Owed
<1>2. CASE FlushBegin
  BY <1>2 DEF FlushBegin, InstalledRuns, NothingReadYet, IndexingIsAbsorbed,
              NoSilentStale, Owed
<1>3. CASE SyncCommits
  <2> USE <1>3 DEF SyncCommits, Survivors
  <2>1. InstalledRuns' /\ NothingReadYet' /\ IndexingIsAbsorbed'
    BY DEF InstalledRuns, NothingReadYet, IndexingIsAbsorbed
  <2>2. ASSUME NEW f \in Files, Owed(f), pending[f] # "after"
        PROVE  f \in events
    BY <2>2 DEF IndexingIsAbsorbed, NoSilentStale, Marks
  <2>3. NoSilentStale'
    BY <2>2 DEF NoSilentStale, Owed
  <2> QED
    BY <2>1, <2>3
<1>4. CASE SyncLocked
  BY <1>4 DEF SyncLocked, StopEffects, InstalledRuns, NothingReadYet,
              IndexingIsAbsorbed, NoSilentStale, Owed
<1>5. CASE SyncFails
  BY <1>5 DEF SyncFails, InstalledRuns, NothingReadYet, IndexingIsAbsorbed,
              NoSilentStale, Owed
<1> QED
  BY <1>1, <1>2, <1>3, <1>4, <1>5

LEMMA NextInv ==
  ASSUME ~CoarseClock, IInv, TypeOK', [Next]_vars
  PROVE  IInv'
<1>1. CASE UNCHANGED vars
  BY <1>1 DEF vars, object, world, IInv, TypeOK, InstalledRuns, NothingReadYet,
              IndexingIsAbsorbed, NoSilentStale, Owed, Active
<1> QED
  BY <1>1, SwitchKeepsInv, EditKeepsInv, HandleKeepsInv, SyncStepKeepsInv,
     FlushKeepsInv DEF Next

THEOREM Invariance == ~CoarseClock => (Spec => []IInv)
<1> SUFFICES ASSUME ~CoarseClock PROVE Spec => []IInv
  OBVIOUS
<1>1. IInv /\ TypeOK' /\ [Next]_vars => IInv'
  BY NextInv
<1> QED
  BY <1>1, InitInv, Typing, PTL DEF Spec

(* As long as the clock tells a mid-sync event from the sync's start, an    *)
(* active watcher never forgets an edit: a lagging file is pending or its   *)
(* event is still to come.                                                  *)
THEOREM NeverSilentlyStale == ~CoarseClock => (Spec => []NoSilentStale)
<1>1. IInv => NoSilentStale
  BY DEF IInv
<1> QED
  BY <1>1, Invariance, PTL

(* A file reported as being indexed is absorbed by the sync in flight. *)
THEOREM IndexingFlagIsTrue == ~CoarseClock => (Spec => []IndexingIsAbsorbed)
<1>1. IInv => IndexingIsAbsorbed
  BY DEF IInv
<1> QED
  BY <1>1, Invariance, PTL

-----------------------------------------------------------------------------
(* A timer, or the sync in flight and its finally block, stands behind every *)
(* pending entry: the flush that is skipped during a sync loses nothing.     *)
THEOREM NoLostWakeup == Spec => []PendingHasTrigger
<1> DEFINE J == InstalledRuns /\ PendingHasTrigger
<1>1. Init => J
  BY DEF Init, InstalledRuns, PendingHasTrigger, HasPending
<1>2. ASSUME TypeOK, J, [Next]_vars
      PROVE  J'
  <2> USE <1>2 DEF TypeOK, InstalledRuns, PendingHasTrigger, Active, object, world
  <2>1. CASE Start \/ StartDisabled
    BY <2>1 DEF Start, StartDisabled, HasPending
  <2>2. CASE StartFails \/ Stop \/ Exhaust
    BY <2>2 DEF StartFails, Stop, Exhaust, StopEffects, HasPending
  <2>3. ASSUME NEW f \in Files,
               \/ Edit(f) \/ HandleChange(f)
               \/ SyncReads(f) \/ SyncStores(f) \/ SyncSkips(f) \/ OtherStores(f)
        PROVE  J'
    BY <2>3 DEF Edit, HandleChange, SyncReads, SyncStores, SyncSkips, OtherStores, HasPending
  <2>4. CASE FlushSkipped \/ FlushBegin \/ Tick
    BY <2>4 DEF FlushSkipped, FlushBegin, Tick, HasPending
  <2>5. CASE SyncCommits
    BY <2>5 DEF SyncCommits, Survivors, Rearm, HasPending
  <2>6. CASE SyncLocked
    <3>1. CASE StopEffects
      BY <3>1 DEF StopEffects, HasPending
    <3>2. CASE ~StopEffects
      BY <2>6, <3>2 DEF SyncLocked, Rearm, HasPending
    <3> QED
      BY <3>1, <3>2
  <2>7. CASE SyncFails
    BY <2>7 DEF SyncFails, Rearm, HasPending
  <2>8. CASE UNCHANGED vars
    BY <2>8 DEF vars, HasPending
  <2> QED
    BY <1>2, <2>1, <2>2, <2>3, <2>4, <2>5, <2>6, <2>7, <2>8 DEF Next
<1>3. J => PendingHasTrigger
  OBVIOUS
<1> QED
  BY <1>1, <1>2, <1>3, Typing, PTL DEF Spec

-----------------------------------------------------------------------------
(* Refinement of StalenessPromise: each step is one of its steps or a stutter. *)

LEMMA SwitchIsSwitch ==
  ASSUME IInv, Start \/ StartDisabled \/ StartFails \/ Stop \/ Exhaust
  PROVE  [Promise!Next]_(Promise!vars)
<1> USE DEF Promise!Next, Promise!Switch, Promise!vars, Active, object, world
<1>1. CASE StartDisabled
  BY <1>1 DEF StartDisabled
<1>2. CASE Start \/ StartFails \/ Stop \/ Exhaust
  BY <1>2 DEF Start, StartFails, Stop, Exhaust, StopEffects
<1> QED
  BY <1>1, <1>2

LEMMA FileStepIsFileStep ==
  ASSUME IInv, NEW g \in Files,
         \/ Edit(g) \/ HandleChange(g)
         \/ SyncReads(g) \/ SyncStores(g) \/ SyncSkips(g) \/ OtherStores(g)
  PROVE  [Promise!Next]_(Promise!vars)
<1> USE DEF Promise!Next, Promise!vars, Active, object, IInv, TypeOK
<1>1. CASE Edit(g)
  BY <1>1 DEF Edit, Promise!Edit
<1>2. CASE HandleChange(g)
  <2>1. {f \in Files : pending'[f] # "no"} = {f \in Files : pending[f] # "no"} \cup {g}
    BY <1>2 DEF HandleChange, Stamps
  <2> QED
    BY <1>2, <2>1 DEF HandleChange, Promise!Notice
<1>3. CASE SyncReads(g)
  BY <1>3 DEF SyncReads
<1>4. CASE SyncStores(g)
  BY <1>4 DEF SyncStores, Promise!Index
<1>5. CASE SyncSkips(g)
  BY <1>5 DEF SyncSkips, Promise!Excuse
<1>6. CASE OtherStores(g)
  BY <1>6 DEF OtherStores, Promise!Index
<1> QED
  BY <1>1, <1>2, <1>3, <1>4, <1>5, <1>6

(* The one step that withdraws flags; by the invariant it may. *)
LEMMA CommitIsUnflag ==
  ASSUME IInv, SyncCommits
  PROVE  Promise!Next
<1>1. \A f \in Files : pending[f] # "no" /\ pending'[f] = "no" /\ Owed(f) => f \in events
  BY DEF IInv, TypeOK, SyncCommits, Survivors, Marks, IndexingIsAbsorbed
<1>2. \A f \in Files : pending'[f] # "no" => pending[f] # "no"
  BY DEF IInv, TypeOK, SyncCommits, Survivors
<1>3. Promise!Unflag
  BY <1>1, <1>2 DEF SyncCommits, Promise!Unflag, Owed, Active, world
<1> QED
  BY <1>3 DEF Promise!Next

LEMMA FlushIsPromised ==
  ASSUME IInv,
         FlushSkipped \/ FlushBegin \/ Tick \/ SyncCommits \/ SyncLocked \/ SyncFails
  PROVE  [Promise!Next]_(Promise!vars)
<1> USE DEF Promise!vars, Active, object, world, IInv, TypeOK
<1>1. CASE FlushSkipped \/ Tick \/ SyncFails
  BY <1>1 DEF FlushSkipped, Tick, SyncFails
<1>2. CASE FlushBegin
  BY <1>2 DEF FlushBegin
<1>3. CASE SyncCommits
  BY <1>3, CommitIsUnflag
<1>4. CASE SyncLocked
  BY <1>4 DEF SyncLocked, StopEffects, Promise!Next, Promise!Switch
<1> QED
  BY <1>1, <1>2, <1>3, <1>4

(* The watcher implements the promise its readers rely on. *)
THEOREM WatcherKeepsPromise == ~CoarseClock => (Spec => KeepsPromise)
<1> SUFFICES ASSUME ~CoarseClock PROVE Spec => KeepsPromise
  OBVIOUS
<1>1. Init => Promise!Init
  BY DEF Init, Promise!Init, Active
<1>2. IInv /\ [Next]_vars => [Promise!Next]_(Promise!vars)
  <2> SUFFICES ASSUME IInv, [Next]_vars
               PROVE  [Promise!Next]_(Promise!vars)
    OBVIOUS
  <2>1. CASE UNCHANGED vars
    BY <2>1 DEF vars, object, world, Promise!vars, Active
  <2> QED
    BY <2>1, SwitchIsSwitch, FileStepIsFileStep, FlushIsPromised DEF Next
<1> QED
  BY <1>1, <1>2, Invariance, PTL DEF Spec, KeepsPromise, Promise!Spec

(* What the watcher says of the index is true and pending work goes on, for  *)
(* any files and retry budget, while the clock tells a sync's start from its *)
(* first read.                                                               *)
THEOREM WatcherStaysSound == ~CoarseClock => (Spec => []WatcherIsSound)
<1> SUFFICES ASSUME ~CoarseClock
             PROVE  Spec => []WatcherIsSound
  OBVIOUS
<1>1. Spec => []NoSilentStale
  BY NeverSilentlyStale
<1>2. Spec => []IndexingIsAbsorbed
  BY IndexingFlagIsTrue
<1> QED
  BY <1>1, <1>2, Typing, NoLostWakeup, PTL DEF WatcherIsSound

-----------------------------------------------------------------------------
(* The tool calls                                                          *)

(* What is aged in a cache was replaced by others. *)
OthersAged == \A a \in aged : a[2] # Self

OldIsCited == old \subseteq cited /\ cited \subseteq Files

(* What is shown old is so by the disk, and not by the cache alone. *)
OldLags == \A f \in old \ passed : f \in stale

CallInv == OthersAged /\ OldIsCited /\ OldLags

(* To the watcher a call is nothing. *)
LEMMA CallsLeaveTheWatcher == ToolSpec => Spec
<1>1. ToolInit => Init
  BY DEF ToolInit
<1>2. ASSUME [ToolNext]_every
      PROVE  [Next]_vars
  BY <1>2 DEF ToolNext, CallBegins, CallLooksUp, CallQueries, CallAnswers, Respawn,
              Elsewhere, every
<1> QED
  BY <1>1, <1>2, PTL DEF ToolSpec, Spec

(* A connection forgets what it writes, so nothing is aged by itself. *)
LEMMA ReplaceKeepsOthersAged ==
  ASSUME OthersAged, NEW w \in Writers, Replace(w)
  PROVE  OthersAged'
<1>1. CASE w = Self
  <2>1. cache' = cache \ Rewritten
    BY <1>1 DEF Replace, Forget
  <2>2. (Rewritten \cap cache') \X {w} = {}
    BY <2>1
  <2> QED
    BY <2>2 DEF Replace, OthersAged, AgedIn
<1>2. CASE w # Self
  BY <1>2 DEF Replace, OthersAged, AgedIn
<1> QED
  BY <1>1, <1>2

LEMMA ElsewhereKeepsInv ==
  ASSUME CallInv, Elsewhere
  PROVE  CallInv'
<1>1. OthersAged'
  BY ReplaceKeepsOthersAged DEF CallInv, Elsewhere
<1>2. OldIsCited'
  BY DEF CallInv, OldIsCited, Elsewhere
<1>3. OldLags'
  BY DEF CallInv, OldLags, Elsewhere
<1> QED
  BY <1>1, <1>2, <1>3 DEF CallInv

LEMMA CallInvAlways == ToolSpec => []CallInv
<1>1. ToolInit => CallInv
  BY DEF ToolInit, CallInv, OthersAged, OldIsCited, OldLags
<1>2. ASSUME CallInv, [ToolNext]_every
      PROVE  CallInv'
  <2> USE <1>2 DEF CallInv, OthersAged, OldIsCited, OldLags, vars, world, kept
  <2>1. CASE CallBegins \/ CallAnswers \/ Respawn
    BY <2>1 DEF CallBegins, CallAnswers, Respawn
  <2>2. ASSUME NEW f \in Files, CallLooksUp(f)
        PROVE  CallInv'
    <3>1. OthersAged'
      BY <2>2 DEF CallLooksUp, AgedIn
    <3>2. OldIsCited'
      BY <2>2 DEF CallLooksUp
    <3>3. f \in old' => f \in stale \/ f \in passed' \/ f \in old
      BY <2>2 DEF CallLooksUp, AgedBy, Self, Other
    <3>4. OldLags'
      BY <2>2, <3>3 DEF CallLooksUp
    <3> QED
      BY <3>1, <3>2, <3>4
  <2>3. ASSUME NEW f \in Files, CallQueries(f)
        PROVE  CallInv'
    BY <2>3 DEF CallQueries
  <2>4. CASE Elsewhere
    BY <2>4, ElsewhereKeepsInv
  <2>5. CASE UNCHANGED every
    BY <2>5 DEF every, call
  <2> QED
    BY <2>1, <2>2, <2>3, <2>4, <2>5 DEF ToolNext
<1> QED
  BY <1>1, <1>2, PTL DEF ToolSpec

(* Every answer warns of the old rows it shows (tools.ts:1216-1219), however *)
(* reads, edits, events, syncs and the writes of others were ordered, and of *)
(* all of them once the watcher gave up, but for what `passed` stands for.   *)
THEOREM EveryAnswerWarns == ~CoarseClock => (ToolSpec => AnswersWarn)
<1> SUFFICES ASSUME ~CoarseClock
             PROVE  ToolSpec => AnswersWarn
  OBVIOUS
<1> DEFINE Warns == \A f \in old \ (Warned \cup passed) :
                      ~degraded /\ (Active => f \in events \/ f \in excused)
<1>1. ASSUME NoSilentStale, CallInv, CallAnswers
      PROVE  Warns
  <2> SUFFICES ASSUME NEW f \in old, f \notin Warned, f \notin passed
               PROVE  ~degraded /\ (Active => f \in events \/ f \in excused)
    OBVIOUS
  <2>1. f \in Files /\ f \in stale
    BY <1>1 DEF CallInv, OldIsCited, OldLags
  <2>2. ~degraded /\ pending[f] = "no"
    BY <2>1 DEF Warned
  <2> QED
    BY <1>1, <2>1, <2>2 DEF NoSilentStale, Owed
<1>2. NoSilentStale /\ CallInv /\ [ToolNext]_every => [CallAnswers => Warns]_every
  BY <1>1
<1>3. Spec => []NoSilentStale
  BY NeverSilentlyStale
<1> QED
  BY <1>2, <1>3, CallsLeaveTheWatcher, CallInvAlways, PTL DEF ToolSpec, AnswersWarn

-----------------------------------------------------------------------------
(* The lock file, for any number of objects and processes                  *)

LEMMA LockStepKeepsTypes ==
  ASSUME FileTypeOK, [FileNext]_fileVars
  PROVE  FileTypeOK'
<1> USE DEF FileTypeOK, LockPlaces, MidCall, LockFiles, NoFile, SyscallIs
<1>1. ASSUME NEW i \in Inst, LockStep(i)
      PROVE  FileTypeOK'
  <2> PidOf[i] \in Pids
    BY DEF Pids
  <2>1. CASE Exists(i) \/ ReadPid(i)
    BY <2>1 DEF Exists, ReadPid
  <2>2. CASE Stat(i)
    BY <2>2 DEF Stat
  <2>3. CASE UnlinkStale(i) \/ UnlinkAgain(i) \/ RelUnlink(i)
    BY <2>3 DEF UnlinkStale, UnlinkAgain, RelUnlink
  <2>4. CASE Create(i)
    <3>1. [by |-> {i}, pid |-> NoPid, old |-> FALSE] \in LockFiles
      OBVIOUS
    <3>2. file' \in LockFiles \cup {NoFile}
      BY <2>4, <3>1 DEF Create
    <3>3. syscall' \in [Inst -> LockPlaces]
      BY <2>4 DEF Create
    <3> QED
      BY <2>4, <3>2, <3>3 DEF Create
  <2>5. CASE WritePid(i)
    BY <2>5 DEF WritePid
  <2>6. CASE Release(i) \/ RelRead(i)
    BY <2>6 DEF Release, RelRead
  <2> QED
    BY <1>1, <2>1, <2>2, <2>3, <2>4, <2>5, <2>6 DEF LockStep
<1>2. CASE Age
  BY <1>2 DEF Age, Present
<1>3. ASSUME NEW p \in Pids, Crash(p)
      PROVE  FileTypeOK'
  BY <1>3 DEF Crash
<1>4. CASE UNCHANGED fileVars
  BY <1>4 DEF fileVars
<1> QED
  BY <1>1, <1>2, <1>3, <1>4 DEF FileNext

(* Every system call of acquire() and release(), a crash and the timeout    *)
(* leave the variables within their types.                                  *)
THEOREM LockTyping == FileLockSpec => []FileTypeOK
<1>1. FileInit => FileTypeOK
  BY DEF FileInit, FileTypeOK, LockPlaces
<1> QED
  BY <1>1, LockStepKeepsTypes, PTL DEF FileLockSpec

(* A step of another object j leaves i settled: whatever j is doing, it     *)
(* finds the file, reads i's PID, sees a live process and gives up.          *)
LEMMA OthersGiveUp ==
  ASSUME FileTypeOK, NEW i \in Inst, Settled(i), NEW j \in Inst \ {i}, LockStep(j)
  PROVE  Settled(i)'
<1> USE DEF Settled, FileTypeOK
<1>1. Present /\ file.pid = PidOf[i] /\ PidOf[i] # NoPid /\ ~file.old
  BY FileLockAssumption DEF Present, NoFile, Pids
<1>2. syscall[j] \in {"idle", "read", "create", "dead", "stat"}
  OBVIOUS
<1>3. CASE Exists(j)
  BY <1>1, <1>3 DEF Exists, SyscallIs
<1>4. CASE ReadPid(j)
  BY <1>1, <1>4 DEF ReadPid, SyscallIs
<1>5. CASE Stat(j)
  BY <1>1, <1>5 DEF Stat, SyscallIs, Respected
<1>6. CASE Create(j)
  BY <1>1, <1>6 DEF Create, SyscallIs
<1> QED
  BY <1>2, <1>3, <1>4, <1>5, <1>6
     DEF LockStep, UnlinkStale, UnlinkAgain, WritePid, Release, RelRead, RelUnlink

LEMMA SettledStep ==
  ASSUME FileTypeOK, [FileNext]_fileVars, NEW i \in Inst, Settled(i)
  PROVE  Settled(i)' \/ Release(i) \/ Age \/ Crash(PidOf[i])
<1>1. ASSUME NEW j \in Inst \ {i}, LockStep(j)
      PROVE  Settled(i)'
  BY <1>1, OthersGiveUp
<1>2. CASE LockStep(i)
  BY <1>2 DEF Settled, LockStep, Exists, ReadPid, Stat, UnlinkStale, UnlinkAgain,
              Create, WritePid, RelRead, RelUnlink
<1>3. ASSUME NEW p \in Pids, Crash(p), p # PidOf[i]
      PROVE  Settled(i)'
  BY <1>3 DEF Settled, FileTypeOK, Crash
<1>4. CASE UNCHANGED fileVars
  BY <1>4 DEF Settled, fileVars
<1> QED
  BY <1>1, <1>2, <1>3, <1>4 DEF FileNext

(* A settled holder is not robbed: only its own release, its death or the   *)
(* two-minute timeout ends the tenure, whatever the other processes do.     *)
THEOREM SettledHolderKeepsLock == FileLockSpec => SettledIsStable
<1>1. FileTypeOK /\ [FileNext]_fileVars =>
        [\A i \in Inst : Settled(i) =>
           Settled(i)' \/ Release(i) \/ Age \/ Crash(PidOf[i])]_fileVars
  BY SettledStep
<1> QED
  BY <1>1, LockTyping, PTL DEF FileLockSpec, SettledIsStable

-----------------------------------------------------------------------------
(* The index gate: the mutex of an object and the lock file                *)

(* Every system call of the gate is one of the lock of some object. *)
LEMMA GateCallsTheLock ==
  ASSUME [GateNext]_gateVars
  PROVE  [FileNext]_fileVars
<1>1. ASSUME NEW t \in Calls, Call(t) \/ Step(t)
      PROVE  LockStep(Owner[t]) \/ UNCHANGED fileVars
  BY <1>1 DEF Step, Call, Wake, TryFileLock, Locks, YieldsAtOnce, Refuse, GiveBack,
              Unlocks, Finish, Leave, LockStep
<1>2. ASSUME NEW i \in Inst, Close(i) \/ CloseGoesOn(i)
      PROVE  LockStep(i) \/ UNCHANGED fileVars
  BY <1>2 DEF Close, CloseGoesOn, LockStep
<1>3. ASSUME NEW p \in Pids, Die(p)
      PROVE  Crash(p)
  BY <1>3 DEF Die
<1>4. CASE UNCHANGED gateVars
  BY <1>4 DEF gateVars
<1> QED
  BY <1>1, <1>2, <1>3, <1>4, IndexGateAssumption DEF GateNext, FileNext

(* A waiter is queued once, at the object it calls, and is nowhere else. *)
QueueInv ==
  \A p \in Inst : \A i \in 1 .. Len(queue[p]) :
     /\ pc[queue[p][i]] = "queued" /\ Owner[queue[p][i]] = p
     /\ \A j \in 1 .. Len(queue[p]) : queue[p][i] = queue[p][j] => i = j

MutexInv == \A t \in Calls : InMutex(t) => locked[Owner[t]]

GateInv == GateTypeOK /\ QueueInv /\ MutexInv /\ OneCallPerInstance

LEMMA EnterKeepsInv ==
  ASSUME GateInv, FileTypeOK', NEW t \in Calls, pc[t] \in {"idle", "woken"}, Enter(t),
         UNCHANGED <<database, fileVars>>
  PROVE  GateInv'
<1> DEFINE p == Owner[t]
<1> p \in Inst
  BY IndexGateAssumption
<1> USE DEF GateInv, GateTypeOK, Enter, MoveTo, Places, Synchronous, database
<1>1. CASE locked[p]
  <2>1. pc' = [pc EXCEPT ![t] = "queued"] /\ locked' = locked
        /\ queue' = [queue EXCEPT ![p] = Append(queue[p], t)]
    BY <1>1
  <2>2. GateTypeOK'
    BY <2>1
  <2>3. \A i \in 1 .. Len(queue[p]) : queue[p][i] \in Calls /\ queue[p][i] # t
    BY DEF QueueInv
  <2>4. ASSUME NEW r \in Inst, NEW i \in 1 .. Len(queue'[r])
        PROVE  /\ pc'[queue'[r][i]] = "queued" /\ Owner[queue'[r][i]] = r
               /\ \A j \in 1 .. Len(queue'[r]) : queue'[r][i] = queue'[r][j] => i = j
    <3>1. CASE r # p
      <4>1. queue'[r] = queue[r] /\ queue[r] \in Seq(Calls)
        BY <2>1, <3>1
      <4>2. queue[r][i] \in Calls /\ queue[r][i] # t
        BY <4>1 DEF QueueInv
      <4> QED
        BY <2>1, <4>1, <4>2 DEF QueueInv
    <3>2. CASE r = p
      <4>1. queue'[r] = Append(queue[p], t) /\ Len(queue'[r]) = Len(queue[p]) + 1
        BY <2>1, <3>2
      <4>2. \A j \in 1 .. Len(queue'[r]) :
               queue'[r][j] = IF j = Len(queue[p]) + 1 THEN t ELSE queue[p][j]
        BY <4>1
      <4>3. CASE i = Len(queue[p]) + 1
        <5>1. queue'[r][i] = t /\ pc'[t] = "queued" /\ Owner[t] = r
          BY <2>1, <3>2, <4>2, <4>3
        <5>2. ASSUME NEW j \in 1 .. Len(queue'[r]), j # i
              PROVE  queue'[r][j] # t
          <6>1. queue[p] \in Seq(Calls) /\ Len(queue[p]) \in Nat
            OBVIOUS
          <6>2. j \in 1 .. Len(queue[p]) /\ queue'[r][j] = queue[p][j]
            BY <4>1, <4>2, <4>3, <5>2, <6>1
          <6> QED
            BY <2>3, <6>2
        <5> QED
          BY <5>1, <5>2
      <4>4. CASE i # Len(queue[p]) + 1
        BY <2>1, <2>3, <3>2, <4>1, <4>2, <4>4 DEF QueueInv
      <4> QED
        BY <4>3, <4>4
    <3> QED
      BY <3>1, <3>2
  <2>5. QueueInv'
    BY <2>4 DEF QueueInv
  <2>6. MutexInv' /\ OneCallPerInstance'
    BY <2>1 DEF MutexInv, OneCallPerInstance, InMutex
  <2> QED
    BY <2>2, <2>5, <2>6
<1>2. CASE ~locked[p]
  <2>1. pc' = [pc EXCEPT ![t] = "entered"] /\ locked' = [locked EXCEPT ![p] = TRUE]
        /\ queue' = queue
    BY <1>2
  <2>2. GateTypeOK'
    BY <2>1
  <2>3. \A r \in Inst : \A i \in 1 .. Len(queue[r]) : queue[r][i] \in Calls /\ queue[r][i] # t
    BY DEF QueueInv
  <2>4. QueueInv'
    BY <2>1, <2>3 DEF QueueInv
  <2>5. MutexInv'
    BY <2>1, IndexGateAssumption DEF MutexInv, InMutex
  <2>6. \A u \in Calls : InMutex(u) => Owner[u] # p
    BY <1>2 DEF MutexInv
  <2>7. OneCallPerInstance'
    BY <2>1, <2>6 DEF OneCallPerInstance, InMutex
  <2> QED
    BY <2>2, <2>4, <2>5, <2>7
<1> QED
  BY <1>1, <1>2

(* A step inside the mutex moves one call among the places it covers. *)
Inside(t) == \/ TryFileLock(t) \/ Locks(t) \/ YieldsAtOnce(t) \/ Refuse(t)
             \/ GiveBack(t) \/ Unlocks(t) \/ Finish(t)

LEMMA InsideMoves ==
  ASSUME NEW t \in Calls, Inside(t)
  PROVE  /\ InMutex(t) /\ UNCHANGED <<locked, queue, open, closing>>
         /\ \E s \in Synchronous \cup {"refused", "working", "leaving"} : MoveTo(t, s)
<1>1. CASE TryFileLock(t) \/ YieldsAtOnce(t) \/ Refuse(t) \/ GiveBack(t) \/ Finish(t)
  BY <1>1 DEF TryFileLock, YieldsAtOnce, Refuse, GiveBack, Finish, InMutex, Synchronous,
              mutex, database
<1>2. CASE Locks(t)
  BY <1>2 DEF Locks, InMutex, Synchronous, mutex, database
<1>3. CASE Unlocks(t)
  BY <1>3 DEF Unlocks, InMutex, Synchronous, mutex, database
<1> QED
  BY <1>1, <1>2, <1>3 DEF Inside

LEMMA InsideKeepsInv ==
  ASSUME GateInv, FileTypeOK', NEW t \in Calls, Inside(t)
  PROVE  GateInv'
<1> USE DEF GateInv, GateTypeOK, Places, Synchronous
<1>1. PICK s \in Synchronous \cup {"refused", "working", "leaving"} :
        pc' = [pc EXCEPT ![t] = s]
  BY InsideMoves DEF MoveTo
<1>2. InMutex(t) /\ UNCHANGED <<locked, queue, open, closing>>
  BY InsideMoves
<1>3. GateTypeOK'
  BY <1>1, <1>2
<1>4. QueueInv'
  <2> SUFFICES ASSUME NEW r \in Inst, NEW i \in 1 .. Len(queue[r])
               PROVE  /\ pc'[queue[r][i]] = "queued" /\ Owner[queue[r][i]] = r
                      /\ \A j \in 1 .. Len(queue[r]) : queue[r][i] = queue[r][j] => i = j
    BY <1>2 DEF QueueInv
  <2>1. queue[r][i] \in Calls /\ queue[r][i] # t
    BY <1>2 DEF QueueInv, InMutex
  <2>2. pc'[queue[r][i]] = pc[queue[r][i]]
    BY <1>1, <2>1
  <2> QED
    BY <2>2 DEF QueueInv
<1>5. MutexInv' /\ OneCallPerInstance'
  BY <1>1, <1>2 DEF MutexInv, OneCallPerInstance, InMutex
<1> QED
  BY <1>3, <1>4, <1>5

(* The release wakes the first waiter, which is outside the mutex. *)
LEMMA LeaveKeepsInv ==
  ASSUME GateInv, FileTypeOK', NEW t \in Calls, Leave(t)
  PROVE  GateInv'
<1> DEFINE p == Owner[t]
<1> p \in Inst
  BY IndexGateAssumption
<1> USE DEF GateInv, GateTypeOK, Leave, MoveTo, Places, Synchronous, database
<1>0. queue[p] \in Seq(Calls) /\ InMutex(t)
  BY DEF InMutex
<1>1. CASE queue[p] = <<>>
  <2>1. pc' = [pc EXCEPT ![t] = "done"] /\ queue' = queue
        /\ locked' = [locked EXCEPT ![p] = FALSE]
    BY <1>1
  <2>2. GateTypeOK'
    BY <2>1
  <2>3. \A r \in Inst : \A i \in 1 .. Len(queue[r]) : queue[r][i] \in Calls /\ queue[r][i] # t
    BY <1>0 DEF QueueInv, InMutex
  <2>4. QueueInv'
    BY <2>1, <2>3 DEF QueueInv
  <2>5. MutexInv' /\ OneCallPerInstance'
    BY <2>1, <1>0, IndexGateAssumption DEF MutexInv, OneCallPerInstance, InMutex
  <2> QED
    BY <2>2, <2>4, <2>5
<1>2. CASE queue[p] # <<>>
  <2> DEFINE h == Head(queue[p])
  <2>0. h \in Calls /\ h = queue[p][1] /\ Len(queue[p]) \in Nat /\ Len(queue[p]) >= 1
    BY <1>0, <1>2
  <2>1. pc[h] = "queued" /\ Owner[h] = p /\ h # t
    BY <2>0, <1>0 DEF QueueInv, InMutex
  <2>2. pc' = [pc EXCEPT ![t] = "done", ![h] = "woken"]
        /\ queue' = [queue EXCEPT ![p] = Tail(queue[p])]
        /\ locked' = [locked EXCEPT ![p] = FALSE]
    BY <1>2
  <2>7. /\ pc'[t] = "done" /\ pc'[h] = "woken"
        /\ \A x \in Calls : x # t /\ x # h => pc'[x] = pc[x]
    BY <2>0, <2>1, <2>2
  <2>3. GateTypeOK'
    <3>1. Tail(queue[p]) \in Seq(Calls)
      BY <1>0, <1>2
    <3> QED
      BY <2>2, <3>1
  <2>4. ASSUME NEW r \in Inst, NEW i \in 1 .. Len(queue'[r])
        PROVE  /\ pc'[queue'[r][i]] = "queued" /\ Owner[queue'[r][i]] = r
               /\ \A j \in 1 .. Len(queue'[r]) : queue'[r][i] = queue'[r][j] => i = j
    <3>1. CASE r # p
      <4>1. queue'[r] = queue[r] /\ queue[r] \in Seq(Calls)
        BY <2>2, <3>1
      <4>2. pc[queue[r][i]] = "queued" /\ Owner[queue[r][i]] = r /\ queue[r][i] \in Calls
        BY <4>1 DEF QueueInv
      <4>3. queue[r][i] # t /\ queue[r][i] # h
        BY <1>0, <2>1, <3>1, <4>2 DEF InMutex
      <4> QED
        BY <2>2, <4>1, <4>2, <4>3 DEF QueueInv
    <3>2. CASE r = p
      <4>1. queue'[r] = Tail(queue[p]) /\ Len(queue'[r]) = Len(queue[p]) - 1
        BY <1>0, <1>2, <2>2, <3>2
      <4>2. \A j \in 1 .. Len(queue'[r]) :
               queue'[r][j] = queue[p][j + 1] /\ j + 1 \in 1 .. Len(queue[p]) /\ j + 1 # 1
        BY <1>0, <1>2, <2>0, <4>1
      <4> DEFINE k == i + 1
      <4>7. queue'[r][i] = queue[p][k] /\ k \in 1 .. Len(queue[p]) /\ k # 1
        BY <4>2
      <4>8. /\ pc[queue[p][k]] = "queued" /\ Owner[queue[p][k]] = p
            /\ queue[p][k] # queue[p][1]
        BY <2>0, <4>7 DEF QueueInv
      <4>9. queue[p][k] \in Calls
        BY <1>0, <4>7
      <4>3. queue'[r][i] \in Calls /\ pc[queue'[r][i]] = "queued"
            /\ Owner[queue'[r][i]] = p /\ queue'[r][i] # h
        BY <2>0, <4>7, <4>8, <4>9
      <4>4. queue'[r][i] # t
        BY <1>0, <4>3 DEF InMutex
      <4>5. ASSUME NEW j \in 1 .. Len(queue'[r]), queue'[r][i] = queue'[r][j]
            PROVE  i = j
        <5>1. queue[p][k] = queue[p][j + 1] /\ j + 1 \in 1 .. Len(queue[p])
          BY <4>2, <4>5, <4>7
        <5>2. k = j + 1
          BY <4>7, <5>1 DEF QueueInv
        <5>3. i \in Nat /\ j \in Nat
          BY <4>1
        <5> QED
          BY <5>2, <5>3
      <4>6. pc'[queue'[r][i]] = pc[queue'[r][i]]
        BY <2>7, <4>3, <4>4
      <4> QED
        BY <3>2, <4>3, <4>5, <4>6
    <3> QED
      BY <3>1, <3>2
  <2>5. QueueInv'
    BY <2>4 DEF QueueInv
  <2>6. \A x \in Calls : InMutex(x)' => InMutex(x) /\ x # t
    BY <2>0, <2>1, <2>7 DEF InMutex
  <2>8. \A x \in Calls : InMutex(x)' => Owner[x] # p
    BY <1>0, <2>6 DEF OneCallPerInstance
  <2>9. MutexInv'
    BY <2>2, <2>6, <2>8, IndexGateAssumption DEF MutexInv
  <2>10. OneCallPerInstance'
    BY <2>6 DEF OneCallPerInstance
  <2> QED
    BY <2>3, <2>5, <2>9, <2>10
<1> QED
  BY <1>1, <1>2

(* Nobody waits in a dead process, and no other one is touched. *)
LEMMA DieKeepsInv ==
  ASSUME GateInv, FileTypeOK', NEW p \in Pids, Die(p)
  PROVE  GateInv'
<1> DEFINE gone == {i \in Inst : PidOf[i] = p}
<1> USE IndexGateAssumption DEF GateInv, GateTypeOK, Places, Synchronous
<1>1. /\ locked' = [i \in Inst |-> i \notin gone /\ locked[i]]
      /\ queue' = [i \in Inst |-> IF i \in gone THEN <<>> ELSE queue[i]]
      /\ open' = open \ gone /\ closing' = closing \ gone
      /\ pc' = [t \in Calls |-> IF Owner[t] \in gone THEN "dead" ELSE pc[t]]
  BY DEF Die
<1> HIDE DEF gone
<1>2. \A i \in Inst \ gone : queue'[i] = queue[i] /\ locked'[i] = locked[i]
  BY <1>1
<1>3. \A i \in Inst \cap gone : queue'[i] = <<>> /\ Len(queue'[i]) = 0
  BY <1>1
<1>4. \A t \in Calls : InMutex(t)' => InMutex(t) /\ Owner[t] \notin gone
  BY <1>1 DEF InMutex
<1>5. GateTypeOK'
  <2>1. locked' \in [Inst -> BOOLEAN] /\ pc' \in [Calls -> Places]
    BY <1>1
  <2>2. queue' \in [Inst -> Seq(Calls)]
    BY <1>1
  <2> QED
    BY <1>1, <2>1, <2>2
<1>6. QueueInv'
  <2> SUFFICES ASSUME NEW i \in Inst, NEW k \in 1 .. Len(queue'[i])
               PROVE  /\ pc'[queue'[i][k]] = "queued" /\ Owner[queue'[i][k]] = i
                      /\ \A j \in 1 .. Len(queue'[i]) : queue'[i][k] = queue'[i][j] => k = j
    BY DEF QueueInv
  <2>1. i \notin gone /\ queue'[i] = queue[i] /\ queue[i] \in Seq(Calls)
    BY <1>2, <1>3
  <2>2. queue[i][k] \in Calls /\ pc[queue[i][k]] = "queued" /\ Owner[queue[i][k]] = i
    BY <2>1 DEF QueueInv
  <2>3. \A j \in 1 .. Len(queue[i]) : queue[i][k] = queue[i][j] => k = j
    BY <2>1 DEF QueueInv
  <2> QED
    BY <1>1, <2>1, <2>2, <2>3
<1>7. MutexInv' /\ OneCallPerInstance'
  BY <1>2, <1>4 DEF MutexInv, OneCallPerInstance
<1> QED
  BY <1>5, <1>6, <1>7

LEMMA GateStep ==
  ASSUME GateInv, [GateNext]_gateVars
  PROVE  GateInv'
<1>1. FileTypeOK'
  BY GateCallsTheLock, LockStepKeepsTypes DEF GateInv, GateTypeOK
<1>2. ASSUME NEW t \in Calls, Call(t) \/ Wake(t)
      PROVE  GateInv'
  <2>1. pc[t] \in {"idle", "woken"} /\ Enter(t) /\ UNCHANGED <<database, fileVars>>
    BY <1>2 DEF Call, Wake
  <2> QED
    BY <1>1, <2>1, EnterKeepsInv
<1>3. ASSUME NEW t \in Calls, Inside(t) \/ Leave(t)
      PROVE  GateInv'
  BY <1>1, <1>3, InsideKeepsInv, LeaveKeepsInv
<1>4. CASE UNCHANGED <<locked, queue, pc>> /\ open' \subseteq Inst /\ closing' \subseteq Inst
  BY <1>1, <1>4 DEF GateInv, GateTypeOK, QueueInv, MutexInv, OneCallPerInstance, InMutex
<1>5. ASSUME NEW i \in Inst, Close(i) \/ CloseGoesOn(i)
      PROVE  GateInv'
  <2>1. UNCHANGED <<locked, queue, pc>> /\ open' \subseteq Inst /\ closing' \subseteq Inst
    BY <1>5 DEF Close, CloseGoesOn, mutex, database, GateInv, GateTypeOK
  <2> QED
    BY <1>4, <2>1
<1>6. CASE Age /\ UNCHANGED <<mutex, database, pc>>
  BY <1>4, <1>6 DEF mutex, database, GateInv, GateTypeOK
<1>7. ASSUME NEW p \in Pids, Die(p)
      PROVE  GateInv'
  BY <1>1, <1>7, DieKeepsInv
<1>8. CASE UNCHANGED gateVars
  BY <1>4, <1>8 DEF gateVars, mutex, database, GateInv, GateTypeOK
<1> QED
  BY <1>2, <1>3, <1>5, <1>6, <1>7, <1>8 DEF GateNext, Step, Inside

LEMMA GateInvariance == GateSpec => []GateInv
<1>1. GateInit => GateInv
  <2> SUFFICES ASSUME GateInit PROVE GateInv
    OBVIOUS
  <2>1. \A i \in Inst : queue[i] = <<>> /\ Len(queue[i]) = 0
    BY DEF GateInit
  <2>2. FileTypeOK
    BY DEF GateInit, FileInit, FileTypeOK, LockPlaces
  <2> QED
    BY <2>1, <2>2 DEF GateInit, GateInv, GateTypeOK, Places, QueueInv, MutexInv,
                      OneCallPerInstance, InMutex, Synchronous
<1> QED
  BY <1>1, GateStep, PTL DEF GateSpec

(* The mutex admits one call of an instance at a time. *)
THEOREM MutexExcludes == GateSpec => []OneCallPerInstance
<1>1. GateInv => OneCallPerInstance
  BY DEF GateInv
<1> QED
  BY <1>1, GateInvariance, PTL

(* A wake-up is not lost: the release hands it to a waiter of the same       *)
(* process, and a waiter that finds the mutex taken leaves it locked.        *)
LEMMA WakeStep ==
  ASSUME GateInv, WaitersHaveWaker, [GateNext]_gateVars
  PROVE  WaitersHaveWaker'
<1> USE IndexGateAssumption DEF WaitersHaveWaker, GateInv, GateTypeOK
<1>1. ASSUME NEW t \in Calls, pc[t] \in {"idle", "woken"}, Enter(t)
      PROVE  WaitersHaveWaker'
  <2> DEFINE p == Owner[t]
  <2>1. locked'[p] /\ p \in Inst
    BY <1>1 DEF Enter, MoveTo
  <2>2. \A r \in Inst \ {p} : queue'[r] = queue[r] /\ locked'[r] = locked[r]
    BY <1>1 DEF Enter
  <2>3. \A u \in Calls : Owner[u] # p => pc'[u] = pc[u]
    BY <1>1 DEF Enter, MoveTo
  <2>4. ASSUME NEW r \in Inst, queue'[r] # <<>>
        PROVE  locked'[r] \/ \E u \in Calls : Owner[u] = r /\ pc'[u] = "woken"
    <3>1. CASE r = p
      BY <2>1, <3>1
    <3>2. CASE r # p
      <4>1. queue[r] # <<>> /\ locked'[r] = locked[r]
        BY <2>2, <2>4, <3>2
      <4>2. locked[r] \/ \E u \in Calls : Owner[u] = r /\ pc[u] = "woken"
        BY <4>1
      <4> QED
        BY <2>3, <3>2, <4>1, <4>2
    <3> QED
      BY <3>1, <3>2
  <2> QED
    BY <2>4
<1>2. ASSUME NEW t \in Calls, Inside(t)
      PROVE  WaitersHaveWaker'
  <2>1. locked' = locked /\ queue' = queue /\ pc[t] # "woken"
    BY <1>2, InsideMoves DEF InMutex, Synchronous
  <2>2. \A u \in Calls : pc[u] = "woken" => pc'[u] = "woken"
    BY <1>2, <2>1, InsideMoves DEF MoveTo
  <2>3. ASSUME NEW r \in Inst, queue'[r] # <<>>
        PROVE  locked'[r] \/ \E u \in Calls : Owner[u] = r /\ pc'[u] = "woken"
    BY <2>1, <2>2, <2>3
  <2> QED
    BY <2>3
<1>3. ASSUME NEW t \in Calls, Leave(t)
      PROVE  WaitersHaveWaker'
  <2> DEFINE p == Owner[t]
  <2>1. \A r \in Inst \ {p} : queue'[r] = queue[r] /\ locked'[r] = locked[r]
    BY <1>3 DEF Leave
  <2>2. \A u \in Calls : pc[u] = "woken" => pc'[u] = "woken"
    BY <1>3 DEF Leave, MoveTo
  <2>3. CASE queue[p] = <<>>
    <3>1. queue' = queue
      BY <1>3, <2>3 DEF Leave
    <3>2. ASSUME NEW r \in Inst, queue'[r] # <<>>
          PROVE  locked'[r] \/ \E u \in Calls : Owner[u] = r /\ pc'[u] = "woken"
      BY <2>1, <2>2, <2>3, <3>1, <3>2
    <3> QED
      BY <3>2
  <2>4. CASE queue[p] # <<>>
    <3> DEFINE h == Head(queue[p])
    <3>1. p \in Inst /\ queue[p] \in Seq(Calls)
      OBVIOUS
    <3>2. h = queue[p][1] /\ h \in Calls /\ 1 \in 1 .. Len(queue[p])
      BY <2>4, <3>1
    <3>3. Owner[h] = p
      BY <3>1, <3>2 DEF QueueInv
    <3>4. pc'[h] = "woken"
      BY <1>3, <2>4, <3>2 DEF Leave
    <3>5. ASSUME NEW r \in Inst, queue'[r] # <<>>
          PROVE  locked'[r] \/ \E u \in Calls : Owner[u] = r /\ pc'[u] = "woken"
      <4>1. CASE r = p
        BY <3>2, <3>3, <3>4, <4>1
      <4>2. CASE r # p
        BY <2>1, <2>2, <3>5, <4>2
      <4> QED
        BY <4>1, <4>2
    <3> QED
      BY <3>5
  <2> QED
    BY <2>3, <2>4
<1>4. CASE UNCHANGED <<locked, queue, pc>>
  BY <1>4
<1>5. ASSUME NEW p \in Pids, Die(p)
      PROVE  WaitersHaveWaker'
  <2> SUFFICES ASSUME NEW i \in Inst, queue'[i] # <<>>
               PROVE  locked'[i] \/ \E u \in Calls : Owner[u] = i /\ pc'[u] = "woken"
    OBVIOUS
  <2>1. PidOf[i] # p /\ queue[i] # <<>> /\ locked'[i] = locked[i]
    BY <1>5 DEF Die
  <2>2. \A u \in Calls : Owner[u] = i => pc'[u] = pc[u]
    BY <1>5, <2>1 DEF Die
  <2> QED
    BY <2>1, <2>2
<1> QED
  BY <1>1, <1>2, <1>3, <1>4, <1>5
     DEF GateNext, Step, Inside, Call, Wake, Close, CloseGoesOn, gateVars, mutex

(* The promise mutex is sound for any processes and calls: one call inside,  *)
(* and whoever waits has somebody to wake it.                                *)
THEOREM GateStaysSound == GateSpec => []GateIsSound
<1>1. GateInit => WaitersHaveWaker
  BY DEF GateInit, WaitersHaveWaker
<1>2. GateInv /\ WaitersHaveWaker /\ [GateNext]_gateVars => WaitersHaveWaker'
  BY WakeStep
<1>3. GateInv /\ WaitersHaveWaker => GateIsSound
  BY DEF GateInv, GateIsSound
<1> QED
  BY <1>1, <1>2, <1>3, GateInvariance, PTL DEF GateSpec

(* A call works for an open database only while its object has the file. *)
WriterHolds == \A t \in Calls : Writing(t) /\ OpOf[t] # "indexFiles" => syscall[Owner[t]] = "held"

LEMMA WriterHoldsStep ==
  ASSUME GateInv, WriterHolds, [GateNext]_gateVars
  PROVE  WriterHolds'
<1> SUFFICES ASSUME NEW t \in Calls, Writing(t)', OpOf[t] # "indexFiles"
             PROVE  syscall'[Owner[t]] = "held"
  BY DEF WriterHolds
<1> DEFINE i == Owner[t]
<1> i \in Inst
  BY IndexGateAssumption
<1> USE IndexGateAssumption
    DEF WriterHolds, Writing, GateInv, GateTypeOK, FileTypeOK, database, mutex, SyscallIs, MoveTo
<1>1. ASSUME NEW u \in Calls, Call(u) \/ Wake(u) \/ Refuse(u) \/ Leave(u) \/ Finish(u)
      PROVE  syscall'[i] = "held"
  <2>1. UNCHANGED <<open, closing, syscall>>
    BY <1>1 DEF Call, Wake, Refuse, Leave, Finish, fileVars
  <2>2. ASSUME NEW x \in Calls, pc'[x] = "working"
        PROVE  pc[x] = "working"
    <3>1. CASE Call(u) \/ Wake(u)
      BY <2>2, <3>1 DEF Call, Wake, Enter
    <3>2. CASE Refuse(u) \/ Finish(u)
      BY <2>2, <3>2 DEF Refuse, Finish
    <3>3. CASE Leave(u)
      BY <2>2, <3>3 DEF Leave
    <3> QED
      BY <1>1, <3>1, <3>2, <3>3
  <2> QED
    BY <2>1, <2>2
<1>2. ASSUME NEW u \in Calls, TryFileLock(u) \/ Locks(u) \/ YieldsAtOnce(u) \/ GiveBack(u) \/ Unlocks(u)
      PROVE  syscall'[i] = "held"
  <2>0. Inside(u) /\ InMutex(u) /\ UNCHANGED <<open, closing>>
    BY <1>2, InsideMoves DEF Inside
  <2>1. /\ \A x \in Calls \ {u} : pc'[x] = pc[x]
        /\ \A j \in Inst \ {Owner[u]} : syscall'[j] = syscall[j]
    BY <1>2 DEF TryFileLock, Locks, YieldsAtOnce, GiveBack, Unlocks, Exists, ReadPid, Stat,
                UnlinkStale, UnlinkAgain, Create, WritePid, Release, RelRead, RelUnlink
  <2>2. CASE u = t
    <3>1. CASE Locks(u)
      BY <2>2, <3>1 DEF Locks
    <3>2. CASE Unlocks(u)
      BY <2>2, <3>2 DEF Unlocks, ReturnsPromise
    <3> QED
      BY <1>2, <2>2, <3>1, <3>2 DEF TryFileLock, YieldsAtOnce, GiveBack
  <2>3. CASE u # t
    <3>1. InMutex(t) /\ pc[t] = "working"
      BY <2>1, <2>3 DEF InMutex
    <3>2. Owner[u] # i
      BY <2>0, <2>3, <3>1 DEF OneCallPerInstance
    <3> QED
      BY <2>0, <2>1, <2>3, <3>1, <3>2
  <2> QED
    BY <2>2, <2>3
<1>3. ASSUME NEW j \in Inst, Close(j)
      PROVE  syscall'[i] = "held"
  <2>1. CASE Release(j) /\ closing' = closing \cup {j} /\ open' = open /\ pc' = pc
    BY <2>1 DEF Release
  <2>2. CASE open' = open \ {j} /\ UNCHANGED <<closing, fileVars, pc>>
    BY <2>2 DEF fileVars
  <2> QED
    BY <1>3, <2>1, <2>2 DEF Close
<1>4. ASSUME NEW j \in Inst, CloseGoesOn(j)
      PROVE  syscall'[i] = "held"
  <2>1. /\ j \in closing /\ pc' = pc /\ \A k \in Inst \ {j} : syscall'[k] = syscall[k]
    BY <1>4 DEF CloseGoesOn, RelRead, RelUnlink
  <2>2. i # j /\ i \in open \ closing
    BY <1>4 DEF CloseGoesOn
  <2> QED
    BY <2>1, <2>2
<1>5. CASE Age /\ UNCHANGED <<mutex, database, pc>>
  BY <1>5 DEF Age
<1>6. ASSUME NEW p \in Pids, Die(p)
      PROVE  syscall'[i] = "held"
  <2>1. PidOf[i] # p /\ pc[t] = "working" /\ i \in open
    BY <1>6 DEF Die
  <2>2. i \notin closing
    BY <1>6, <2>1 DEF Die
  <2>3. syscall'[i] = syscall[i]
    BY <1>6, <2>1 DEF Die, Crash
  <2> QED
    BY <2>1, <2>2, <2>3
<1>7. CASE UNCHANGED gateVars
  BY <1>7 DEF gateVars, fileVars
<1> QED
  BY <1>1, <1>2, <1>3, <1>4, <1>5, <1>6, <1>7 DEF GateNext, Step

(* Of all the ways in which a settled holder's tenure ends, only the timeout *)
(* meets it while its call is still at work.                                 *)
LEMMA TenureStep ==
  ASSUME GateInv, [GateNext]_gateVars,
         NEW t \in Calls, Writing(t), OpOf[t] # "indexFiles", Settled(Owner[t])
  PROVE  Settled(Owner[t])' \/ ~Writing(t)' \/ Age
<1> DEFINE i == Owner[t]
<1> i \in Inst
  BY IndexGateAssumption
<1> USE DEF Writing
<1>1. FileTypeOK
  BY DEF GateInv, GateTypeOK
<1>2. Settled(i)' \/ Release(i) \/ Age \/ Crash(PidOf[i])
  BY <1>1, GateCallsTheLock, SettledStep
<1>3. CASE Release(i)
  <2>1. syscall' # syscall /\ syscall[i] = "held" /\ syscall'[i] = "relRead"
    BY <1>1, <1>3 DEF Release, SyscallIs, FileTypeOK
  <2>2. ASSUME NEW u \in Calls, Call(u) \/ Wake(u) \/ Refuse(u) \/ Leave(u) \/ Finish(u)
        PROVE  ~Writing(t)'
    BY <2>1, <2>2 DEF Call, Wake, Refuse, Leave, Finish, fileVars
  <2>3. ASSUME NEW u \in Calls, TryFileLock(u) \/ Locks(u) \/ YieldsAtOnce(u) \/ GiveBack(u) \/ Unlocks(u)
        PROVE  ~Writing(t)'
    <3>1. InMutex(u) /\ Inside(u)
      BY <2>3, InsideMoves DEF Inside
    <3>2. Owner[u] = i
      BY <1>1, <2>1, <2>3, IndexGateAssumption
         DEF FileTypeOK, TryFileLock, Locks, YieldsAtOnce, GiveBack, Unlocks, Exists, ReadPid,
             Stat, UnlinkStale, UnlinkAgain, Create, WritePid, Release, RelRead, RelUnlink, SyscallIs
    <3>3. u = t
      BY <3>1, <3>2 DEF GateInv, OneCallPerInstance, InMutex
    <3>4. GiveBack(t)
      BY <2>1, <2>3, <3>3 DEF TryFileLock, Locks, YieldsAtOnce, Unlocks
    <3> QED
      BY <3>4 DEF GiveBack, MoveTo, GateInv, GateTypeOK
  <2>4. ASSUME NEW j \in Inst, Close(j)
        PROVE  ~Writing(t)'
    <3>1. Release(j) /\ closing' = closing \cup {j}
      BY <2>1, <2>4 DEF Close, fileVars
    <3>2. j = i
      BY <1>1, <2>1, <3>1 DEF Release, SyscallIs, FileTypeOK
    <3> QED
      BY <3>1, <3>2
  <2>5. ASSUME NEW j \in Inst, CloseGoesOn(j)
        PROVE  ~Writing(t)'
    <3>1. syscall[j] \in {"relRead", "relUnlink"} /\ \A k \in Inst \ {j} : syscall'[k] = syscall[k]
      BY <1>1, <2>5 DEF CloseGoesOn, RelRead, RelUnlink, SyscallIs, FileTypeOK
    <3> QED
      BY <2>1, <3>1
  <2>6. ASSUME NEW p \in Pids, Die(p)
        PROVE  ~Writing(t)'
    BY <1>1, <2>1, <2>6 DEF Die, Crash, FileTypeOK
  <2>7. ~(Age \/ UNCHANGED gateVars)
    BY <2>1 DEF Age, gateVars, fileVars
  <2> QED
    BY <2>2, <2>3, <2>4, <2>5, <2>6, <2>7 DEF GateNext, Step
<1>4. CASE Crash(PidOf[i])
  <2>1. PidOf[i] \in alive /\ alive' = alive \ {PidOf[i]}
    BY <1>4 DEF Crash
  <2>2. PICK p \in Pids : Die(p)
    <3>1. ASSUME NEW j \in Inst, LockStep(j)
          PROVE  alive' = alive
      BY <3>1 DEF LockStep, Exists, ReadPid, Stat, UnlinkStale, UnlinkAgain, Create, WritePid,
                  Release, RelRead, RelUnlink
    <3>2. ASSUME NEW u \in Calls, Call(u) \/ Step(u)
          PROVE  alive' = alive
      <4>1. LockStep(Owner[u]) \/ UNCHANGED fileVars
        BY <3>2 DEF Step, Call, Wake, TryFileLock, Locks, YieldsAtOnce, Refuse, GiveBack,
                    Unlocks, Finish, Leave, LockStep
      <4> QED
        BY <3>1, <4>1, IndexGateAssumption DEF fileVars
    <3>3. ASSUME NEW j \in Inst, Close(j) \/ CloseGoesOn(j)
          PROVE  alive' = alive
      <4>1. LockStep(j) \/ UNCHANGED fileVars
        BY <3>3 DEF Close, CloseGoesOn, LockStep
      <4> QED
        BY <3>1, <4>1 DEF fileVars
    <3>4. ~(Age \/ UNCHANGED gateVars)
      BY <2>1 DEF Age, gateVars, fileVars
    <3> QED
      BY <2>1, <3>2, <3>3, <3>4 DEF GateNext
  <2>3. p = PidOf[i]
    BY <2>1, <2>2 DEF Die, Crash
  <2> QED
    BY <2>2, <2>3, IndexGateAssumption DEF Die
<1> QED
  BY <1>2, <1>3, <1>4

(* Whoever writes, indexFiles apart, does so under its lock, for any objects *)
(* and calls; once the file is settled, nobody takes it from the writer      *)
(* before the two minutes are over.                                          *)
THEOREM WriterStaysLockHolder == GateSpec => WriterKeepsFile
<1>1. GateInit => WriterHolds
  BY DEF GateInit, WriterHolds, Writing
<1>2. GateInv /\ WriterHolds /\ [GateNext]_gateVars => WriterHolds'
  BY WriterHoldsStep
<1>3. GateInv /\ WriterHolds /\ [GateNext]_gateVars =>
        [\A t \in Calls : Writing(t) /\ OpOf[t] # "indexFiles" =>
           /\ syscall[Owner[t]] = "held"
           /\ Settled(Owner[t]) => Settled(Owner[t])' \/ ~Writing(t)' \/ Age]_gateVars
  BY TenureStep DEF WriterHolds
<1> QED
  BY <1>1, <1>2, <1>3, GateInvariance, PTL DEF GateSpec, WriterKeepsFile
=============================================================================
