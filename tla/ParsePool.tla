------------------------------ MODULE ParsePool ------------------------------
(***************************************************************************)
(* ParseWorkerPool of src/extraction/parse-pool.ts: worker threads that    *)
(* parse files for indexAll().  The pool's handlers run on one thread; a   *)
(* worker's messages and its exit reach it in any order, also after the     *)
(* worker was removed.  Jobs are numbered in the order they are asked for.  *)
(***************************************************************************)
EXTENDS Naturals, FiniteSets

CONSTANTS
  Threads,    \* bound: worker threads that may exist at a time
  Jobs,
  NoJob,
  Size,       \* maxSize
  MaxSpawn,   \* MAX_CONCURRENT_SPAWN
  Budget,     \* CRASH_BUDGET
  Recycle     \* recycleInterval

ASSUME PoolAssumption == /\ IsFiniteSet(Threads) /\ Jobs \subseteq Nat /\ NoJob \notin Jobs
                         /\ Size \in Nat \ {0} /\ MaxSpawn \in Nat \ {0}
                         /\ Budget \in Nat \ {0} /\ Recycle \in Nat \ {0}

VARIABLES
  workers, pending, idle,
  job,        \* inflight: the job of each busy worker
  count,      \* parseCounts
  queue,      \* jobs that wait for a worker
  outcome,    \* what became of each job's promise
  crashes,    \* totalCrashes
  destroyed,
  sent        \* the message of a thread that has not been delivered yet

pool == <<workers, pending, idle, job, count, queue, outcome, crashes, destroyed, sent>>

Outcomes == {"none", "waiting", "ok", "bad", "exited", "failed"}

PoolTypeOK == /\ workers \subseteq Threads /\ pending \subseteq Threads /\ idle \subseteq Threads
              /\ job \in [Threads -> Jobs \cup {NoJob}] /\ count \in [Threads -> 0..Recycle]
              /\ queue \subseteq Jobs /\ outcome \in [Jobs -> Outcomes]
              /\ crashes \in Nat /\ destroyed \in BOOLEAN
              /\ sent \in [Threads -> {"none", "loaded", "result"}]

Busy == {w \in Threads : job[w] # NoJob}

(* The queue is served in the order of the requests. *)
IsFirst(j, q) == j \in q /\ \A k \in q : j <= k

(* A thread that is neither a worker nor has a message under way *)
Fresh(ws) == LET free == {w \in Threads \ ws : sent[w] = "none" /\ job[w] = NoJob}
             IN IF free = {} THEN {} ELSE {CHOOSE w \in free : TRUE}

-----------------------------------------------------------------------------
(* spawnOne() and drain().  A crew is what they change of the workers.     *)

Crew(ws, ps, c) == [workers |-> ws, pending |-> ps, crashes |-> c]

Born(crew, c) == {Crew(crew.workers \cup {w}, crew.pending \cup {w}, c) : w \in Fresh(crew.workers)}

(* The constructor of a thread may throw, which counts as a crash. *)
Spawned(crew) ==
  IF destroyed \/ Cardinality(crew.workers) >= Size \/ crew.crashes >= Budget
  THEN {crew}
  ELSE Born(crew, crew.crashes) \cup {Crew(crew.workers, crew.pending, crew.crashes + 1)}

(* The growth loop: throws until a thread starts or the budget is spent.  *)
(* One new thread ends the need for more (GrowthIsDone).                   *)
Wanting(crew, is, q) == /\ Cardinality(q) > Cardinality(is) + Cardinality(crew.pending)
                        /\ Cardinality(crew.workers) < Size
                        /\ Cardinality(crew.pending) < MaxSpawn
                        /\ ~destroyed /\ crew.crashes < Budget

GrownNever(crew, is, q) == {crew}

Grown(crew, is, q) ==
  IF Wanting(crew, is, q)
  THEN {Crew(crew.workers, crew.pending, Budget)} \cup UNION {Born(crew, c) : c \in crew.crashes..(Budget - 1)}
  ELSE {crew}

DrainHopeful(crew, is, jb, n, q, out) ==
  \E grown \in Grown(crew, is, q) :
    /\ workers' = grown.workers /\ pending' = grown.pending /\ crashes' = grown.crashes
    /\ IF is = {} \/ q = {}
       THEN idle' = is /\ job' = jb /\ count' = n /\ queue' = q /\ outcome' = out
       ELSE \E w \in is, j \in q :
              /\ IsFirst(j, q) /\ idle' = is \ {w} /\ queue' = q \ {j}
              /\ job' = [jb EXCEPT ![w] = j] /\ count' = [n EXCEPT ![w] = @ + 1]
              /\ outcome' = out
    /\ UNCHANGED destroyed

(* drain() after a handler that left this crew, these idle workers `is`,    *)
(* assignments jb, parse counts n, queue q and outcomes out                  *)
Drain(crew, is, jb, n, q, out) ==
  \E grown \in Grown(crew, is, q) :
    /\ workers' = grown.workers /\ pending' = grown.pending /\ crashes' = grown.crashes
    /\ IF is = {} \/ q = {}
       THEN LET hopeless == IF is \cup grown.pending \cup grown.workers = {} THEN q ELSE {}
            IN /\ idle' = is /\ job' = jb /\ count' = n /\ queue' = q \ hopeless
               /\ outcome' = [j \in Jobs |-> IF j \in hopeless THEN "failed" ELSE out[j]]
       ELSE \E w \in is, j \in q :
              /\ IsFirst(j, q) /\ idle' = is \ {w} /\ queue' = q \ {j}
              /\ job' = [jb EXCEPT ![w] = j] /\ count' = [n EXCEPT ![w] = @ + 1]
              /\ outcome' = out
    /\ UNCHANGED destroyed

-----------------------------------------------------------------------------
PoolInit == /\ idle = {} /\ queue = {} /\ destroyed = FALSE
            /\ job = [w \in Threads |-> NoJob] /\ count = [w \in Threads |-> 0]
            /\ outcome = [j \in Jobs |-> "none"] /\ sent = [w \in Threads |-> "none"]
            /\ \E crew \in Spawned(Crew({}, {}, 0)) :
                 workers = crew.workers /\ pending = crew.pending /\ crashes = crew.crashes

(* requestParse() *)
Request(j) ==
  /\ outcome[j] # "waiting" /\ UNCHANGED sent
  /\ IF destroyed
     THEN outcome' = [outcome EXCEPT ![j] = "failed"]
          /\ UNCHANGED <<workers, pending, idle, job, count, queue, crashes, destroyed>>
     ELSE Drain(Crew(workers, pending, crashes), idle, job, count, queue \cup {j},
                [outcome EXCEPT ![j] = "waiting"])

(* A thread has loaded its grammars and says so, or has parsed its file. *)
Load(w) == /\ sent[w] = "none" /\ w \in pending
           /\ sent' = [sent EXCEPT ![w] = "loaded"]
           /\ UNCHANGED <<workers, pending, idle, job, count, queue, outcome, crashes, destroyed>>

Parse(w) == /\ sent[w] = "none" /\ w \in Busy
            /\ sent' = [sent EXCEPT ![w] = "result"]
            /\ UNCHANGED <<workers, pending, idle, job, count, queue, outcome, crashes, destroyed>>

(* onMessage(): grammars-loaded *)
OnLoadedUnchecked(w) ==
  /\ sent[w] = "loaded" /\ sent' = [sent EXCEPT ![w] = "none"]
  /\ Drain(Crew(workers, pending \ {w}, crashes), idle \cup {w}, job, count, queue, outcome)

OnLoaded(w) ==
  /\ sent[w] = "loaded" /\ sent' = [sent EXCEPT ![w] = "none"]
  /\ IF w \notin workers
     THEN UNCHANGED <<workers, pending, idle, job, count, queue, outcome, crashes, destroyed>>
     ELSE Drain(Crew(workers, pending \ {w}, crashes), idle \cup {w}, job, count, queue, outcome)

(* onMessage(): parse-result.  A worker that has done its share is replaced. *)
OnResult(w) ==
  /\ sent[w] = "result" /\ sent' = [sent EXCEPT ![w] = "none"]
  /\ IF w \notin Busy
     THEN UNCHANGED <<workers, pending, idle, job, count, queue, outcome, crashes, destroyed>>
     ELSE \E value \in {"ok", "bad"} :
            LET out == [outcome EXCEPT ![job[w]] = value]
                jb  == [job EXCEPT ![w] = NoJob]
            IN IF count[w] >= Recycle
               THEN \E crew \in Spawned(Crew(workers \ {w}, pending, crashes)) :
                      Drain(crew, idle, jb, [count EXCEPT ![w] = 0], queue, out)
               ELSE Drain(Crew(workers, pending, crashes), idle \cup {w}, jb, count, queue, out)

LoseKeepingCount(w, charge, reason) ==
  LET out == IF w \in Busy THEN [outcome EXCEPT ![job[w]] = reason] ELSE outcome
  IN \E crew \in Spawned(Crew(workers \ {w}, pending \ {w}, crashes + charge)) :
       Drain(crew, idle \ {w}, [job EXCEPT ![w] = NoJob], count, queue, out)

(* A worker is removed, its job rejected and a replacement started. *)
Lose(w, charge, reason) ==
  LET out == IF w \in Busy THEN [outcome EXCEPT ![job[w]] = reason] ELSE outcome
  IN \E crew \in Spawned(Crew(workers \ {w}, pending \ {w}, crashes + charge)) :
       Drain(crew, idle \ {w}, [job EXCEPT ![w] = NoJob], [count EXCEPT ![w] = 0], queue, out)

(* onWorkerGone(): `exit` with a code, or `error` *)
OnWorkerGone(w) == /\ w \in workers /\ UNCHANGED sent
                   /\ \E reason \in {"exited", "failed"} : Lose(w, 1, reason)

(* onTimeout() *)
OnTimeout(w) == /\ w \in Busy \cap workers /\ UNCHANGED sent
                /\ Lose(w, 0, "failed")

(* recycleAll(): every idle worker is replaced, one after the other *)
RecycleAll ==
  \E born \in SUBSET {w \in Threads \ workers : sent[w] = "none"}, thrown \in 0..Budget :
    /\ Cardinality(born) + thrown <= Cardinality(idle)
    /\ IF crashes + thrown < Budget THEN Cardinality(born) + thrown = Cardinality(idle)
       ELSE thrown = IF crashes < Budget THEN Budget - crashes ELSE 0
    /\ crashes >= Budget => born = {}
    /\ workers' = (workers \ idle) \cup born /\ pending' = pending \cup born
    /\ idle' = {} /\ crashes' = crashes + thrown
    /\ count' = [w \in Threads |-> IF w \in idle THEN 0 ELSE count[w]]
    /\ UNCHANGED <<job, queue, outcome, destroyed, sent>>

DestroyKeepingQueue ==
  /\ workers' = {} /\ pending' = {} /\ idle' = {} /\ destroyed' = TRUE /\ queue' = {}
  /\ job' = [w \in Threads |-> NoJob] /\ count' = [w \in Threads |-> 0]
  /\ outcome' = [j \in Jobs |-> IF \E w \in Busy : job[w] = j THEN "failed" ELSE outcome[j]]
  /\ UNCHANGED <<crashes, sent>>

(* destroy() *)
Destroy ==
  /\ workers' = {} /\ pending' = {} /\ idle' = {} /\ destroyed' = TRUE /\ queue' = {}
  /\ job' = [w \in Threads |-> NoJob] /\ count' = [w \in Threads |-> 0]
  /\ outcome' = [j \in Jobs |-> IF j \in queue \/ \E w \in Busy : job[w] = j
                                THEN "failed" ELSE outcome[j]]
  /\ UNCHANGED <<crashes, sent>>

PoolEvent(w) == Load(w) \/ Parse(w) \/ OnLoaded(w) \/ OnResult(w) \/ OnWorkerGone(w) \/ OnTimeout(w)

PoolNext == (\E j \in Jobs : Request(j)) \/ (\E w \in Threads : PoolEvent(w)) \/ RecycleAll \/ Destroy

PoolSpec == PoolInit /\ [][PoolNext]_pool
-----------------------------------------------------------------------------
(* Every worker is starting, idle or busy, and nobody else is: no worker     *)
(* leaks, and no job is given to a thread that was removed.                  *)
WorkersAccounted == /\ workers = pending \cup idle \cup Busy
                    /\ pending \cap idle = {} /\ Busy \cap (pending \cup idle) = {}

(* A promise that is not settled belongs to a job in the queue or with       *)
(* exactly one worker: no request is lost or parsed twice at a time.         *)
JobsAccounted ==
  /\ \A j \in Jobs : outcome[j] = "waiting" <=> j \in queue \/ \E w \in Busy : job[w] = j
  /\ \A w \in Busy : job[w] \notin queue /\ \A x \in Busy : job[x] = job[w] => x = w

(* parse-pool.ts:319: no handler leaves a worker without the work there is,  *)
(* nor queued work that nobody is alive to run.                              *)
PoolIsServing == (idle = {} \/ queue = {}) /\ (queue # {} => workers # {})

(* parse-pool.ts:299: nor does one stop before the pool has grown as far as   *)
(* the queue asks for and its limits allow.                                  *)
GrowthIsDone == ~Wanting(Crew(workers, pending, crashes), idle, queue)

(* No worker leaks, no job is lost, and no work waits for nobody.            *)
PoolIsSound == PoolTypeOK /\ WorkersAccounted /\ JobsAccounted /\ PoolIsServing
=============================================================================
