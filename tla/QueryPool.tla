------------------------------ MODULE QueryPool ------------------------------
(***************************************************************************)
(* QueryPool of src/mcp/query-pool.ts: the daemon's threads for read tools. *)
(* The pool's handlers run on the daemon's event loop; a thread answers one *)
(* call at a time (query-worker.ts).  The error of a thread and its last    *)
(* message come over different ports: the message may be the later one.    *)
(***************************************************************************)
EXTENDS Naturals, Sequences, FiniteSets, FiniteSetsExt, Functions

CONSTANTS
  Threads,     \* bound: threads that may exist
  Jobs,
  NoJob,
  Size,        \* maxSize
  MaxSpawn,    \* MAX_CONCURRENT_SPAWN
  Budget,      \* CRASH_BUDGET
  MaxRetries

ASSUME QueryPoolAssumption ==
  /\ IsFiniteSet(Threads) /\ NoJob \notin Jobs
  /\ \A j \in Jobs : j \notin {"none", "ready", "unopened"}
  /\ Size \in Nat \ {0} /\ MaxSpawn \in Nat \ {0} /\ Budget \in Nat \ {0} /\ MaxRetries \in Nat

VARIABLES
  workers, pending, idlers,
  job,        \* inflight: the call each worker has
  queue,
  outcome,    \* of each call: new, waiting, or answered, with whatever text
  retries,
  crashes,    \* totalCrashes
  destroyed,
  (* the threads *)
  thread,     \* none, starting, serving, or dying: its error is under way
  posted,     \* the call in the thread's port
  mail,       \* the message it has sent: ready, unopened (ok: false) or a
              \* result, by its call
  (* history *)
  late        \* workers whose message came after they were removed

pool == <<workers, pending, idlers, job, queue, outcome, retries, crashes, destroyed>>
poolVars == <<pool, thread, posted, mail, late>>

Outcomes == {"new", "waiting", "answered"}

PoolTypeOK == /\ workers \subseteq Threads /\ pending \subseteq workers /\ idlers \subseteq Threads
              /\ job \in [Threads -> Jobs \cup {NoJob}] /\ queue \in Seq(Jobs)
              /\ outcome \in [Jobs -> Outcomes] /\ retries \in [Jobs -> 0..MaxRetries]
              /\ crashes \in Nat /\ destroyed \in BOOLEAN
              /\ thread \in [Threads -> {"none", "starting", "serving", "dying"}]
              /\ posted \in [Threads -> Jobs \cup {NoJob}]
              /\ mail \in [Threads -> Jobs \cup {"none", "ready", "unopened"}]
              /\ late \subseteq Threads

Waiting(j) == outcome[j] = "waiting"
Healthy(c) == ~destroyed /\ c < Budget

OneOf(S) == IF S = {} THEN {} ELSE {{CHOOSE w \in S : TRUE}}

(* A thread object that is nowhere to be found any more *)
Unused(ws) == {w \in Threads \ (ws \cup idlers) :
                 thread[w] = "none" /\ mail[w] = "none" /\ job[w] = NoJob}

-----------------------------------------------------------------------------
WantMoreLate(n, is, ps, ws, c, b, t) ==
  /\ n > Cardinality(is) + Cardinality(ps) + b + 1
  /\ Cardinality(ws) + b < Size /\ Cardinality(ps) + b < MaxSpawn
  /\ Healthy(c + t)

(* drain().  Its growth loop starts b threads while t constructors throw:   *)
(* each is a crash.                                                        *)
WantMore(n, is, ps, ws, c, b, t) ==
  /\ n > Cardinality(is) + Cardinality(ps) + b
  /\ Cardinality(ws) + b < Size /\ Cardinality(ps) + b < MaxSpawn
  /\ Healthy(c + t)

Grown(n, is, ps, ws, c) ==
  LET Want(b, t) == WantMore(n, is, ps, ws, c, b, t) IN
  {g \in (0..Size) \X (0..Budget) :
     /\ ~Want(g[1], g[2])
     /\ \/ g = <<0, 0>>
        \/ g[1] > 0 /\ Want(g[1] - 1, g[2])
        \/ g[2] > 0 /\ Want(g[1], g[2] - 1)}

(* Which of the queue's places are served by n idle workers: the first n      *)
(* whose calls have no answer yet                                          *)
Unanswered(q, out) == {i \in DOMAIN q : out[q[i]] = "waiting"}
Served(q, out, n) == LET live == Unanswered(q, out)
                     IN {i \in live : Cardinality({k \in live : k <= i}) <= n}

(* Answered calls are dropped on the way to one that is not. *)
RestOf(q, out, n) == IF n > Cardinality(Unanswered(q, out)) THEN <<>>
                     ELSE SubSeq(q, Max(Served(q, out, n) \cup {0}) + 1, Len(q))

(* Postings to a thread that is dead go nowhere. *)
HandOut(is, jb, q, out) ==
  LET served == Served(q, out, Cardinality(is)) IN
  \E chosen \in kSubset(Cardinality(served), is) : \E at \in Bijection(chosen, served) :
    /\ idlers' = is \ chosen /\ queue' = RestOf(q, out, Cardinality(is))
    /\ job' = [w \in Threads |-> IF w \in chosen THEN q[at[w]] ELSE jb[w]]
    /\ posted' = [w \in Threads |-> IF w \in chosen /\ thread[w] = "serving"
                                     THEN q[at[w]] ELSE posted[w]]

(* drain() after a handler left these workers, idle ones, calls and count.  *)
(* `extra` are the threads the handler itself started, `gone` those it ended *)
Drain(ws, ps, is, jb, q, out, c, extra, gone) ==
  \E g \in Grown(Len(q), is, ps \cup extra, ws \cup extra, c) :
    LET crews == kSubset(g[1], Unused(ws \cup extra \cup gone))
        born  == CHOOSE S \in crews : TRUE
    IN /\ crews # {}
       /\ workers' = ws \cup extra \cup born /\ pending' = ps \cup extra \cup born
       /\ crashes' = c + g[2]
       /\ HandOut(is, jb, q, out)
       /\ thread' = [w \in Threads |-> IF w \in extra \cup born THEN "starting"
                                        ELSE IF w \in gone THEN "none" ELSE thread[w]]

-----------------------------------------------------------------------------
(* The constructor starts one worker, or counts its failure. *)
PoolInit == /\ \E S \in {{}} \cup OneOf(Threads) :
                 /\ workers = S /\ pending = S /\ crashes = 1 - Cardinality(S)
                 /\ thread = [w \in Threads |-> IF w \in S THEN "starting" ELSE "none"]
            /\ idlers = {} /\ queue = <<>> /\ destroyed = FALSE /\ late = {}
            /\ job = [w \in Threads |-> NoJob] /\ posted = [w \in Threads |-> NoJob]
            /\ mail = [w \in Threads |-> "none"]
            /\ outcome = [j \in Jobs |-> "new"] /\ retries = [j \in Jobs |-> 0]

(* A read tool: through run(), or in the daemon if the pool is not healthy *)
Run(j) ==
  /\ outcome[j] = "new"
  /\ IF Healthy(crashes)
     THEN LET out == [outcome EXCEPT ![j] = "waiting"] IN
          /\ outcome' = out
          /\ Drain(workers, pending, idlers, job, Append(queue, j), out, crashes, {}, {})
          /\ UNCHANGED <<retries, destroyed, mail, late>>
     ELSE /\ outcome' = [outcome EXCEPT ![j] = "answered"]
          /\ UNCHANGED <<workers, pending, idlers, job, queue, retries, crashes, destroyed,
                         thread, posted, mail, late>>

(* query-worker.ts: the database is opened, or not; a call is answered. *)
OpenDatabase(w) == /\ thread[w] = "starting"
                   /\ thread' = [thread EXCEPT ![w] = "serving"]
                   /\ \E m \in {"ready", "unopened"} : mail' = [mail EXCEPT ![w] = m]
                   /\ UNCHANGED <<pool, posted, late>>

Serve(w) == /\ thread[w] = "serving" /\ posted[w] # NoJob /\ mail[w] = "none"
            /\ mail' = [mail EXCEPT ![w] = posted[w]]
            /\ posted' = [posted EXCEPT ![w] = NoJob]
            /\ UNCHANGED <<pool, thread, late>>

Crash(w) == /\ thread[w] \in {"starting", "serving"}
            /\ thread' = [thread EXCEPT ![w] = "dying"]
            /\ posted' = [posted EXCEPT ![w] = NoJob]
            /\ UNCHANGED <<pool, mail, late>>

Noted(w) == late' = IF w \in workers THEN late ELSE late \cup {w}

OnReadyNotIdle(w) ==
  /\ mail[w] \in {"ready", "unopened"} /\ mail' = [mail EXCEPT ![w] = "none"] /\ Noted(w)
  /\ Drain(workers, pending \ {w}, idlers, job, queue, outcome,
           crashes + (IF mail[w] = "unopened" THEN 1 ELSE 0), {}, {})
  /\ UNCHANGED <<outcome, retries, destroyed>>

(* onMessage(): ready, also of a worker that could not open the database *)
OnReady(w) ==
  /\ mail[w] \in {"ready", "unopened"} /\ mail' = [mail EXCEPT ![w] = "none"] /\ Noted(w)
  /\ Drain(workers, pending \ {w}, idlers \cup {w}, job, queue, outcome,
           crashes + (IF mail[w] = "unopened" THEN 1 ELSE 0), {}, {})
  /\ UNCHANGED <<outcome, retries, destroyed>>

(* onMessage(): a result answers the worker's call, if it still has one. *)
OnResult(w) ==
  /\ mail[w] \in Jobs /\ mail' = [mail EXCEPT ![w] = "none"] /\ Noted(w)
  /\ LET out == [j \in Jobs |-> IF j = job[w] /\ Waiting(j) THEN "answered" ELSE outcome[j]]
     IN /\ outcome' = out
        /\ Drain(workers, pending, idlers \cup {w}, [job EXCEPT ![w] = NoJob],
                 queue, out, crashes, {}, {})
  /\ UNCHANGED <<retries, destroyed>>

(* onWorkerGone(): a replacement, and one more try for the call it had.     *)
(* The exit that follows the error finds no worker to remove.              *)
Bury(w, ps, is, jb) ==
  /\ thread[w] = "dying" /\ w \in workers
  /\ LET c     == crashes + 1
         j     == job[w]
         again == j # NoJob /\ retries[j] < MaxRetries
     IN \E extra \in {{}} \cup OneOf(Unused(workers)) :
        LET c2  == IF Healthy(c) /\ extra = {} THEN c + 1 ELSE c
            try == again /\ Healthy(c2)
            out == IF j # NoJob /\ ~try /\ Waiting(j)
                   THEN [outcome EXCEPT ![j] = "answered"] ELSE outcome
        IN /\ extra # {} => Healthy(c)
           /\ outcome' = out
           /\ retries' = IF try THEN [retries EXCEPT ![j] = @ + 1] ELSE retries
           /\ Drain(workers \ {w}, ps, is, jb, IF try THEN <<j>> \o queue ELSE queue,
                    out, c2, extra, {w})
  /\ UNCHANGED <<destroyed, mail, late>>

OnGoneStillPending(w)  == Bury(w, pending, idlers \ {w}, [job EXCEPT ![w] = NoJob])
OnGoneStillIdle(w)     == Bury(w, pending \ {w}, idlers, [job EXCEPT ![w] = NoJob])
OnGoneStillInFlight(w) == Bury(w, pending \ {w}, idlers \ {w}, job)

OnGone(w) == Bury(w, pending \ {w}, idlers \ {w}, [job EXCEPT ![w] = NoJob])

SoftTimeoutFreeing(j) ==
  /\ Waiting(j)
  /\ LET out  == [outcome EXCEPT ![j] = "answered"]
         has  == {w \in workers : job[w] = j}
         rest == [w \in Threads |-> IF w \in has THEN NoJob ELSE job[w]]
     IN /\ outcome' = out
        /\ Drain(workers, pending, idlers \cup has, rest, queue, out, crashes, {}, {})
  /\ UNCHANGED <<retries, destroyed, mail, late>>

(* The soft timer answers a call, wherever it is. *)
SoftTimeout(j) == /\ Waiting(j)
                  /\ outcome' = [outcome EXCEPT ![j] = "answered"]
                  /\ UNCHANGED <<workers, pending, idlers, job, queue, retries, crashes, destroyed,
                                 thread, posted, mail, late>>

(* What its threads still send only fills a list nobody reads. *)
Destroy ==
  /\ ~destroyed /\ destroyed' = TRUE
  /\ workers' = {} /\ pending' = {} /\ idlers' = {} /\ queue' = <<>>
  /\ job' = [w \in Threads |-> NoJob]
  /\ outcome' = [j \in Jobs |-> IF Waiting(j) THEN "answered" ELSE outcome[j]]
  /\ thread' = [w \in Threads |-> IF w \in workers THEN "none" ELSE thread[w]]
  /\ posted' = [w \in Threads |-> NoJob] /\ mail' = [w \in Threads |-> "none"]
  /\ UNCHANGED <<retries, crashes, late>>

PoolNext == \/ \E j \in Jobs : Run(j) \/ SoftTimeout(j)
            \/ \E w \in Threads : \/ OpenDatabase(w) \/ Serve(w) \/ Crash(w)
                                  \/ OnReady(w) \/ OnResult(w) \/ OnGone(w)
            \/ Destroy

PoolSpec == PoolInit /\ [][PoolNext]_poolVars

-----------------------------------------------------------------------------
(* onMessage() does not look at a result's id: a worker has one call, and   *)
(* what it sends is that call's result or comes too late for any.          *)
AnswerIsItsOwn == \A w \in Threads : mail[w] \in Jobs => job[w] \in {NoJob, mail[w]}

(* A call without an answer is in the queue or with one worker, never in    *)
(* both, never twice, never nowhere, however its workers died.             *)
EveryCallInOnePlace ==
  \A j \in Jobs : Waiting(j) =>
    Cardinality({i \in DOMAIN queue : queue[i] = j}) + Cardinality({w \in Threads : job[w] = j}) = 1

(* While the pool is healthy a waiting call has a worker to wait for, and   *)
(* none is idle.                                                           *)
WaitersHaveWorkers ==
  Healthy(crashes) /\ Unanswered(queue, outcome) # {} => workers # {} /\ idlers = {}

(* A call is handed to a worker of the pool.  One that was removed gets one *)
(* only if its last message overtook nothing: it came after its removal    *)
(* and put it back among the idle ones (query-pool.ts:214).                *)
HandedToTheLiving == \A w \in Threads : job[w] # NoJob /\ w \notin workers => w \in late

(* A thread has something to do, or to say that is not heard yet. *)
Moving(w) == thread[w] \in {"starting", "dying"} \/ posted[w] # NoJob \/ mail[w] # "none"

(* A call without an answer is on its way to one, without the soft timer:   *)
(* the worker it was handed to is moving, or it is queued and some worker of *)
(* the pool is, whose next message or death will drain the queue.  Only a    *)
(* spent budget leaves queued calls to their soft timers, and a late message *)
(* a call that it handed to a dead thread (query-pool.ts:281).               *)
NoCallIsStranded ==
  \A j \in Jobs : Waiting(j) =>
    \/ \E w \in workers : Moving(w) /\ (job[w] = j \/ j \in Range(queue))
    \/ j \in Range(queue) /\ ~Healthy(crashes)
    \/ \E w \in late : job[w] = j

(* No call is dropped, doubled or left to workers that are gone: it is in   *)
(* one place, there is somebody to serve it, and only a removed thread's    *)
(* late message can hand it to a dead one.                                  *)
CallsAccounted == PoolTypeOK /\ EveryCallInOnePlace /\ WaitersHaveWorkers /\ HandedToTheLiving
=============================================================================
