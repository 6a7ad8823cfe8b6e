-------------------------- MODULE BulkIndex_proofs --------------------------
(***************************************************************************)
(* For any number of threads, files, jobs and any budget, batch and window: *)
(* the pool loses neither a worker nor a job and never leaves work that     *)
(* nobody will run; indexAll() stores files in their order, bounds what     *)
(* runs ahead of the commit and forgets no file.                            *)
(* Every handler of the pool changes it a little and then calls drain(); so *)
(* there is one lemma about Drain and one small step per handler.           *)
(***************************************************************************)
EXTENDS BulkIndex, FiniteSetTheorems, SequenceTheorems, TLAPS

(* A worker that is not parsing has done less than its share. *)
Rested == \A w \in Threads : job[w] = NoJob => count[w] < Recycle

(* `grammars-loaded` under way: from a starting worker, or from a removed one *)
Heard == \A w \in workers : sent[w] = "loaded" => w \in pending

PoolInv == PoolTypeOK /\ WorkersAccounted /\ JobsAccounted /\ PoolIsServing /\ Rested /\ Heard

Crews == [workers : SUBSET Threads, pending : SUBSET Threads, crashes : Nat]

(* A crew with these idle workers, assignments and messages under way has    *)
(* every worker accounted for                                                *)
Whole(crew, is, jb, s) ==
  LET busy == {w \in Threads : jb[w] # NoJob}
  IN /\ crew \in Crews /\ crew.workers = crew.pending \cup is \cup busy
     /\ crew.pending \cap is = {} /\ busy \cap (crew.pending \cup is) = {}
     /\ \A w \in crew.workers : s[w] = "loaded" => w \in crew.pending

(* ... and these jobs are those whose promise is not settled *)
Kept(jb, q, out) ==
  /\ \A j \in Jobs : out[j] = "waiting" <=> j \in q \/ \E w \in Threads : jb[w] # NoJob /\ jb[w] = j
  /\ \A w \in Threads : jb[w] # NoJob =>
       jb[w] \notin q /\ \A x \in Threads : jb[x] # NoJob /\ jb[x] = jb[w] => x = w

(* What the arguments of Drain are before the loops of drain() *)
Data(is, jb, n, q, out) ==
  /\ is \subseteq Threads /\ jb \in [Threads -> Jobs \cup {NoJob}]
  /\ n \in [Threads -> 0..Recycle] /\ q \subseteq Jobs /\ out \in [Jobs -> Outcomes]
  /\ \A w \in Threads : job[w] = NoJob => jb[w] = NoJob
  /\ \A w \in Threads : jb[w] = NoJob => n[w] < Recycle
  /\ is = {} \/ q = {} \/ (\E x : is \subseteq {x}) \/ (\E x : q \subseteq {x})

LEMMA FreshIsFree ==
  ASSUME NEW ws, NEW w \in Fresh(ws)
  PROVE  w \in Threads /\ w \notin ws /\ job[w] = NoJob
<1> DEFINE free == {x \in Threads \ ws : sent[x] = "none" /\ job[x] = NoJob}
<1>1. free # {} /\ w = CHOOSE x \in free : TRUE
  BY DEF Fresh
<1>2. w \in free
  BY <1>1
<1> QED BY <1>2

LEMMA BornIsWhole ==
  ASSUME NEW crew, NEW is, NEW jb, NEW s, Whole(crew, is, jb, s),
         \A w \in Threads : job[w] = NoJob => jb[w] = NoJob,
         NEW c \in Nat, NEW crew2 \in Born(crew, c)
  PROVE  Whole(crew2, is, jb, s)
<1>1. PICK w \in Fresh(crew.workers) :
        crew2 = Crew(crew.workers \cup {w}, crew.pending \cup {w}, c)
  BY DEF Born
<1>2. w \in Threads /\ w \notin crew.workers /\ jb[w] = NoJob
  BY FreshIsFree
<1> QED BY <1>1, <1>2 DEF Whole, Crews, Crew

LEMMA SpawnedIsWhole ==
  ASSUME NEW crew, NEW is, NEW jb, NEW s, Whole(crew, is, jb, s),
         \A w \in Threads : job[w] = NoJob => jb[w] = NoJob,
         NEW crew2 \in Spawned(crew)
  PROVE  Whole(crew2, is, jb, s)
<1>1. CASE crew2 = crew
  BY <1>1
<1>2. CASE crew2 \in Born(crew, crew.crashes)
  <2>1. crew.crashes \in Nat
    BY DEF Whole, Crews
  <2> QED BY <1>2, <2>1, BornIsWhole
<1>3. CASE crew2 = Crew(crew.workers, crew.pending, crew.crashes + 1)
  BY <1>3 DEF Whole, Crews, Crew
<1> QED BY <1>1, <1>2, <1>3 DEF Spawned

LEMMA GrownIsWhole ==
  ASSUME NEW crew, NEW is, NEW jb, NEW s, NEW q, Whole(crew, is, jb, s),
         \A w \in Threads : job[w] = NoJob => jb[w] = NoJob,
         NEW crew2 \in Grown(crew, is, q)
  PROVE  Whole(crew2, is, jb, s)
<1>1. CASE crew2 = crew
  BY <1>1
<1>2. CASE crew2 = Crew(crew.workers, crew.pending, Budget)
  BY <1>2, PoolAssumption DEF Whole, Crews, Crew
<1>3. ASSUME NEW c \in crew.crashes..(Budget - 1), crew2 \in Born(crew, c)
      PROVE  Whole(crew2, is, jb, s)
  <2>1. c \in Nat
    BY PoolAssumption DEF Whole, Crews
  <2> QED BY <1>3, <2>1, BornIsWhole
<1> QED BY <1>1, <1>2, <1>3 DEF Grown

LEMMA DrainStep ==
  ASSUME NEW crew, NEW is, NEW jb, NEW n, NEW q, NEW out,
         Whole(crew, is, jb, sent'), Kept(jb, q, out), Data(is, jb, n, q, out),
         destroyed \in BOOLEAN, sent' \in [Threads -> {"none", "loaded", "result"}],
         Drain(crew, is, jb, n, q, out)
  PROVE  PoolInv'
<1>1. PICK grown \in Grown(crew, is, q) :
        /\ workers' = grown.workers /\ pending' = grown.pending /\ crashes' = grown.crashes
        /\ destroyed' = destroyed
        /\ IF is = {} \/ q = {}
           THEN LET hopeless == IF is \cup grown.pending \cup grown.workers = {} THEN q ELSE {}
                IN /\ idle' = is /\ job' = jb /\ count' = n /\ queue' = q \ hopeless
                   /\ outcome' = [j \in Jobs |-> IF j \in hopeless THEN "failed" ELSE out[j]]
           ELSE \E w \in is, j \in q :
                  /\ IsFirst(j, q) /\ idle' = is \ {w} /\ queue' = q \ {j}
                  /\ job' = [jb EXCEPT ![w] = j] /\ count' = [n EXCEPT ![w] = @ + 1]
                  /\ outcome' = out
  BY DEF Drain
<1>2. Whole(grown, is, jb, sent')
  BY GrownIsWhole DEF Data
<1>3. /\ workers' \subseteq Threads /\ pending' \subseteq Threads /\ crashes' \in Nat
      /\ destroyed' \in BOOLEAN /\ sent' \in [Threads -> {"none", "loaded", "result"}]
  BY <1>1, <1>2 DEF Whole, Crews
<1>4. CASE is = {} \/ q = {}
  <2> DEFINE hopeless == IF is \cup grown.pending \cup grown.workers = {} THEN q ELSE {}
  <2>1. /\ idle' = is /\ job' = jb /\ count' = n /\ queue' = q \ hopeless
        /\ outcome' = [j \in Jobs |-> IF j \in hopeless THEN "failed" ELSE out[j]]
    BY <1>1, <1>4
  <2>2. PoolTypeOK'
    <3>1. outcome' \in [Jobs -> Outcomes]
      BY <2>1 DEF Data, Outcomes
    <3> QED BY <1>3, <2>1, <3>1 DEF PoolTypeOK, Data
  <2>3. WorkersAccounted'
    BY <1>1, <1>2, <2>1 DEF WorkersAccounted, Whole, Busy
  <2>4. JobsAccounted'
    <3>1. CASE is \cup grown.pending \cup grown.workers = {}
      <4>1. \A w \in Threads : jb[w] = NoJob
        BY <1>2, <3>1 DEF Whole
      <4>2. hopeless = q
        BY <3>1
      <4> QED BY <2>1, <4>1, <4>2 DEF Kept, JobsAccounted, Busy
    <3>2. CASE is \cup grown.pending \cup grown.workers # {}
      <4>1. hopeless = {}
        BY <3>2
      <4>2. \A j \in Jobs : outcome'[j] = out[j]
        BY <2>1, <4>1
      <4>3. queue' = q /\ job' = jb
        BY <2>1, <4>1
      <4> HIDE DEF hopeless
      <4> QED BY <4>2, <4>3 DEF Kept, JobsAccounted, Busy
    <3> QED BY <3>1, <3>2
  <2>5. PoolIsServing'
    BY <1>1, <1>2, <1>4, <2>1 DEF PoolIsServing, Whole
  <2>6. Rested' /\ Heard'
    BY <1>1, <1>2, <2>1 DEF Rested, Heard, Data, Whole
  <2> QED BY <2>2, <2>3, <2>4, <2>5, <2>6 DEF PoolInv
<1>5. CASE ~(is = {} \/ q = {})
  <2>1. PICK w \in is, j \in q :
          /\ idle' = is \ {w} /\ queue' = q \ {j}
          /\ job' = [jb EXCEPT ![w] = j] /\ count' = [n EXCEPT ![w] = @ + 1] /\ outcome' = out
    BY <1>1, <1>5
  <2>2. /\ w \in Threads /\ j \in Jobs /\ j # NoJob /\ jb[w] = NoJob
        /\ \A x \in Threads : job'[x] = IF x = w THEN j ELSE jb[x]
    BY <1>2, <2>1, PoolAssumption DEF Data, Whole
  <2>3. PoolTypeOK'
    <3>1. n[w] \in 0..(Recycle - 1)
      BY <2>2, PoolAssumption DEF Data
    <3>2. count' \in [Threads -> 0..Recycle]
      BY <2>1, <3>1, PoolAssumption DEF Data
    <3>3. job' \in [Threads -> Jobs \cup {NoJob}]
      BY <2>1, <2>2 DEF Data
    <3> QED BY <1>3, <2>1, <3>2, <3>3 DEF PoolTypeOK, Data
  <2>4. WorkersAccounted'
    BY <1>1, <1>2, <2>1, <2>2 DEF WorkersAccounted, Whole, Busy
  <2>5. JobsAccounted'
    <3>1. \A k \in Jobs : out[k] = "waiting" <=>
            k \in q \ {j} \/ \E x \in Threads : job'[x] # NoJob /\ job'[x] = k
      BY <2>1, <2>2 DEF Kept
    <3>2. \A x \in Threads : job'[x] # NoJob =>
            job'[x] \notin q \ {j} /\ \A y \in Threads : job'[y] # NoJob /\ job'[y] = job'[x] => y = x
      BY <2>1, <2>2 DEF Kept
    <3> QED BY <2>1, <3>1, <3>2 DEF JobsAccounted, Busy
  <2>6. PoolIsServing'
    <3>1. is \ {w} = {} \/ q \ {j} = {}
      BY <1>5, <2>1 DEF Data
    <3>2. w \in grown.workers
      BY <1>2, <2>1 DEF Whole
    <3> QED BY <1>1, <2>1, <3>1, <3>2 DEF PoolIsServing
  <2>7. Rested'
    BY <2>1, <2>2 DEF Rested, Data
  <2>8. Heard'
    BY <1>1, <1>2 DEF Heard, Whole
  <2> QED BY <2>3, <2>4, <2>5, <2>6, <2>7, <2>8 DEF PoolInv
<1> QED BY <1>4, <1>5

-----------------------------------------------------------------------------
LEMMA InitHolds == PoolInit => PoolInv
<1> SUFFICES ASSUME PoolInit PROVE PoolInv
  OBVIOUS
<1>1. PICK crew \in Spawned(Crew({}, {}, 0)) :
        workers = crew.workers /\ pending = crew.pending /\ crashes = crew.crashes
  BY DEF PoolInit
<1>2. Whole(Crew({}, {}, 0), {}, job, sent)
  BY DEF Whole, Crews, Crew, PoolInit
<1>3. Whole(crew, {}, job, sent)
  BY <1>2, SpawnedIsWhole
<1>4. PoolTypeOK
  <2>1. workers \subseteq Threads /\ pending \subseteq Threads /\ crashes \in Nat
    BY <1>1, <1>3 DEF Whole, Crews
  <2>2. job \in [Threads -> Jobs \cup {NoJob}] /\ outcome \in [Jobs -> Outcomes]
    BY DEF PoolInit, Outcomes
  <2>3. count \in [Threads -> 0..Recycle] /\ sent \in [Threads -> {"none", "loaded", "result"}]
    BY PoolAssumption DEF PoolInit
  <2> QED BY <2>1, <2>2, <2>3 DEF PoolInit, PoolTypeOK
<1>5. Busy = {}
  BY DEF PoolInit, Busy
<1>6. WorkersAccounted /\ Heard
  BY <1>1, <1>3, <1>5 DEF PoolInit, WorkersAccounted, Heard, Whole
<1>7. JobsAccounted /\ PoolIsServing
  BY <1>5 DEF PoolInit, JobsAccounted, PoolIsServing
<1>8. Rested
  BY PoolAssumption DEF PoolInit, Rested
<1> QED BY <1>4, <1>6, <1>7, <1>8 DEF PoolInv

(* The pool as it is, in the words of the lemmas above *)
LEMMA WholeNow ==
  ASSUME PoolInv
  PROVE  Whole(Crew(workers, pending, crashes), idle, job, sent) /\ Kept(job, queue, outcome)
BY DEF PoolInv, PoolTypeOK, WorkersAccounted, JobsAccounted, Heard, Busy, Whole, Kept, Crews, Crew

LEMMA RequestStep ==
  ASSUME PoolInv, NEW j \in Jobs, Request(j)
  PROVE  PoolInv'
<1>1. CASE destroyed
  <2>1. /\ outcome' = [outcome EXCEPT ![j] = "failed"] /\ outcome[j] # "waiting"
        /\ UNCHANGED <<workers, pending, idle, job, count, queue, crashes, destroyed, sent>>
    BY <1>1 DEF Request
  <2> QED BY <2>1 DEF PoolInv, PoolTypeOK, WorkersAccounted, JobsAccounted, PoolIsServing,
                      Rested, Heard, Busy, Outcomes
<1>2. CASE ~destroyed
  <2> DEFINE out == [outcome EXCEPT ![j] = "waiting"]
             q   == queue \cup {j}
  <2>1. /\ Drain(Crew(workers, pending, crashes), idle, job, count, q, out)
        /\ outcome[j] # "waiting" /\ sent' = sent
    BY <1>2 DEF Request
  <2>2. Kept(job, q, out)
    <3>1. j \notin queue /\ \A w \in Threads : job[w] # NoJob => job[w] # j
      BY <2>1, WholeNow DEF Kept
    <3>2. \A k \in Jobs : out[k] = IF k = j THEN "waiting" ELSE outcome[k]
      BY DEF PoolInv, PoolTypeOK
    <3> QED BY <3>1, <3>2, WholeNow DEF Kept
  <2>3. Data(idle, job, count, q, out)
    BY DEF Data, PoolInv, PoolTypeOK, PoolIsServing, Rested, Outcomes
  <2>4. destroyed \in BOOLEAN /\ sent' \in [Threads -> {"none", "loaded", "result"}]
    BY <2>1 DEF PoolInv, PoolTypeOK
  <2> HIDE DEF out, q
  <2> QED BY <2>1, <2>2, <2>3, <2>4, WholeNow, DrainStep
<1> QED BY <1>1, <1>2

LEMMA LoadedStep ==
  ASSUME PoolInv, NEW w \in Threads, OnLoaded(w)
  PROVE  PoolInv'
<1>1. /\ sent[w] = "loaded" /\ sent' = [sent EXCEPT ![w] = "none"]
      /\ sent' \in [Threads -> {"none", "loaded", "result"}] /\ destroyed \in BOOLEAN
  BY DEF OnLoaded, PoolInv, PoolTypeOK
<1>2. CASE w \notin workers
  BY <1>1, <1>2 DEF OnLoaded, PoolInv, PoolTypeOK, WorkersAccounted, JobsAccounted,
                    PoolIsServing, Rested, Heard, Busy
<1>3. CASE w \in workers
  <2> DEFINE crew == Crew(workers, pending \ {w}, crashes)
             is   == idle \cup {w}
  <2>1. w \in pending
    BY <1>1, <1>3 DEF PoolInv, Heard
  <2>2. Drain(crew, is, job, count, queue, outcome)
    BY <1>3 DEF OnLoaded
  <2>3. Whole(crew, is, job, sent')
    BY <1>1, <2>1 DEF PoolInv, PoolTypeOK, WorkersAccounted, Heard, Busy, Whole, Crews, Crew
  <2>4. Data(is, job, count, queue, outcome)
    BY DEF Data, PoolInv, PoolTypeOK, PoolIsServing, Rested
  <2> HIDE DEF crew, is
  <2> QED BY <1>1, <2>2, <2>3, <2>4, WholeNow, DrainStep
<1> QED BY <1>2, <1>3

(* The promise of the job of w settles, and w has no job any more. *)
LEMMA SettledIsKept ==
  ASSUME PoolInv, NEW w \in Busy, NEW value \in Outcomes, value # "waiting"
  PROVE  Kept([job EXCEPT ![w] = NoJob], queue, [outcome EXCEPT ![job[w]] = value])
<1>1. w \in Threads /\ job[w] \in Jobs /\ job[w] # NoJob /\ job[w] \notin queue
  BY DEF PoolInv, PoolTypeOK, JobsAccounted, Busy
<1>2. \A x \in Threads : [job EXCEPT ![w] = NoJob][x] = IF x = w THEN NoJob ELSE job[x]
  BY DEF PoolInv, PoolTypeOK
<1>3. \A j \in Jobs : [outcome EXCEPT ![job[w]] = value][j] = IF j = job[w] THEN value ELSE outcome[j]
  BY <1>1 DEF PoolInv, PoolTypeOK
<1>4. \A x \in Threads : job[x] # NoJob /\ job[x] = job[w] => x = w
  BY <1>1 DEF PoolInv, JobsAccounted, Busy
<1> QED BY <1>1, <1>2, <1>3, <1>4, WholeNow DEF Kept

LEMMA ResultStep ==
  ASSUME PoolInv, NEW w \in Threads, OnResult(w)
  PROVE  PoolInv'
<1>1. /\ sent[w] = "result" /\ sent' = [sent EXCEPT ![w] = "none"]
      /\ sent' \in [Threads -> {"none", "loaded", "result"}] /\ destroyed \in BOOLEAN
  BY DEF OnResult, PoolInv, PoolTypeOK
<1>2. CASE w \notin Busy
  BY <1>1, <1>2 DEF OnResult, PoolInv, PoolTypeOK, WorkersAccounted, JobsAccounted,
                    PoolIsServing, Rested, Heard, Busy
<1>3. CASE w \in Busy
  <2> DEFINE jb == [job EXCEPT ![w] = NoJob]
  <2>1. PICK value \in {"ok", "bad"} :
          IF count[w] >= Recycle
          THEN \E crew \in Spawned(Crew(workers \ {w}, pending, crashes)) :
                 Drain(crew, idle, jb, [count EXCEPT ![w] = 0], queue, [outcome EXCEPT ![job[w]] = value])
          ELSE Drain(Crew(workers, pending, crashes), idle \cup {w}, jb, count, queue,
                     [outcome EXCEPT ![job[w]] = value])
    BY <1>3 DEF OnResult
  <2> DEFINE out == [outcome EXCEPT ![job[w]] = value]
  <2>2. Kept(jb, queue, out)
    BY <1>3, SettledIsKept DEF Outcomes
  <2>3. /\ out \in [Jobs -> Outcomes] /\ jb \in [Threads -> Jobs \cup {NoJob}]
        /\ \A x \in Threads : jb[x] = IF x = w THEN NoJob ELSE job[x]
    BY DEF PoolInv, PoolTypeOK, Outcomes
  <2>4. CASE count[w] >= Recycle
    <3> DEFINE n == [count EXCEPT ![w] = 0]
    <3>1. PICK crew \in Spawned(Crew(workers \ {w}, pending, crashes)) :
            Drain(crew, idle, jb, n, queue, out)
      BY <2>1, <2>4
    <3>2. Whole(Crew(workers \ {w}, pending, crashes), idle, jb, sent')
      BY <1>1, <1>3, <2>3 DEF PoolInv, PoolTypeOK, WorkersAccounted, Heard, Busy, Whole, Crews, Crew
    <3>3. Whole(crew, idle, jb, sent')
      <4> HIDE DEF jb
      <4> QED BY <2>3, <3>2, SpawnedIsWhole
    <3>4. Data(idle, jb, n, queue, out)
      BY <2>3, PoolAssumption DEF Data, PoolInv, PoolTypeOK, PoolIsServing, Rested
    <3> HIDE DEF jb, n, out
    <3> QED BY <1>1, <2>2, <3>1, <3>3, <3>4, DrainStep
  <2>5. CASE ~(count[w] >= Recycle)
    <3> DEFINE crew == Crew(workers, pending, crashes)
               is   == idle \cup {w}
    <3>1. Drain(crew, is, jb, count, queue, out)
      BY <2>1, <2>5
    <3>2. Whole(crew, is, jb, sent')
      BY <1>1, <1>3, <2>3 DEF PoolInv, PoolTypeOK, WorkersAccounted, Heard, Busy, Whole, Crews, Crew
    <3>3. Data(is, jb, count, queue, out)
      <4>1. count[w] < Recycle
        BY <2>5, PoolAssumption DEF PoolInv, PoolTypeOK
      <4> QED BY <2>3, <4>1 DEF Data, PoolInv, PoolTypeOK, PoolIsServing, Rested
    <3> HIDE DEF crew, is, jb, out
    <3> QED BY <1>1, <2>2, <3>1, <3>2, <3>3, DrainStep
  <2> QED BY <2>4, <2>5
<1> QED BY <1>2, <1>3

LEMMA LoseStep ==
  ASSUME PoolInv, NEW w \in workers, NEW charge \in Nat, NEW reason \in {"exited", "failed"},
         sent' = sent, Lose(w, charge, reason)
  PROVE  PoolInv'
<1> DEFINE jb   == [job EXCEPT ![w] = NoJob]
           n    == [count EXCEPT ![w] = 0]
           is   == idle \ {w}
           out  == IF w \in Busy THEN [outcome EXCEPT ![job[w]] = reason] ELSE outcome
           rest == Crew(workers \ {w}, pending \ {w}, crashes + charge)
<1>1. PICK crew \in Spawned(rest) : Drain(crew, is, jb, n, queue, out)
  BY DEF Lose
<1>2. /\ w \in Threads /\ sent' \in [Threads -> {"none", "loaded", "result"}]
      /\ destroyed \in BOOLEAN
  BY DEF PoolInv, PoolTypeOK
<1>3. /\ out \in [Jobs -> Outcomes] /\ jb \in [Threads -> Jobs \cup {NoJob}]
      /\ \A x \in Threads : jb[x] = IF x = w THEN NoJob ELSE job[x]
  BY DEF PoolInv, PoolTypeOK, Outcomes
<1>4. Kept(jb, queue, out)
  <2>1. CASE w \in Busy
    BY <2>1, SettledIsKept DEF Outcomes
  <2>2. CASE w \notin Busy
    <3>1. out = outcome /\ \A x \in Threads : jb[x] = job[x]
      BY <1>2, <1>3, <2>2 DEF Busy
    <3> HIDE DEF out, jb
    <3> QED BY <3>1, WholeNow DEF Kept
  <2> QED BY <2>1, <2>2
<1>5. Whole(rest, is, jb, sent')
  BY <1>2, <1>3 DEF PoolInv, PoolTypeOK, WorkersAccounted, Heard, Busy, Whole, Crews, Crew
<1>6. Whole(crew, is, jb, sent')
  <2> HIDE DEF rest, is, jb
  <2> QED BY <1>1, <1>3, <1>5, SpawnedIsWhole
<1>7. Data(is, jb, n, queue, out)
  BY <1>2, <1>3, PoolAssumption DEF Data, PoolInv, PoolTypeOK, PoolIsServing, Rested
<1> HIDE DEF is, jb, n, out, rest
<1> QED BY <1>1, <1>2, <1>4, <1>6, <1>7, DrainStep

LEMMA RecycleStep == PoolInv /\ RecycleAll => PoolInv'
<1> SUFFICES ASSUME PoolInv, RecycleAll PROVE PoolInv'
  OBVIOUS
<1>1. PICK born \in SUBSET {w \in Threads \ workers : sent[w] = "none"}, thrown \in 0..Budget :
        /\ workers' = (workers \ idle) \cup born /\ pending' = pending \cup born
        /\ idle' = {} /\ crashes' = crashes + thrown
        /\ count' = [w \in Threads |-> IF w \in idle THEN 0 ELSE count[w]]
        /\ UNCHANGED <<job, queue, outcome, destroyed, sent>>
  BY DEF RecycleAll
<1>2. crashes' \in Nat /\ Busy' = Busy
  BY <1>1, PoolAssumption DEF PoolInv, PoolTypeOK, Busy
<1>3. count' \in [Threads -> 0..Recycle] /\ \A w \in Threads : count'[w] = IF w \in idle THEN 0 ELSE count[w]
  BY <1>1, PoolAssumption DEF PoolInv, PoolTypeOK
<1>4. PoolTypeOK'
  BY <1>1, <1>2, <1>3 DEF PoolInv, PoolTypeOK
<1>5. WorkersAccounted'
  BY <1>1, <1>2 DEF PoolInv, PoolTypeOK, WorkersAccounted
<1>6. JobsAccounted'
  BY <1>1, <1>2 DEF PoolInv, JobsAccounted
<1>7. PoolIsServing'
  BY <1>1 DEF PoolInv, PoolIsServing
<1>8. Rested'
  BY <1>1, <1>3, PoolAssumption DEF PoolInv, Rested
<1>9. Heard'
  BY <1>1 DEF PoolInv, Heard
<1> QED BY <1>4, <1>5, <1>6, <1>7, <1>8, <1>9 DEF PoolInv

LEMMA DestroyStep == PoolInv /\ Destroy => PoolInv'
<1> SUFFICES ASSUME PoolInv, Destroy PROVE PoolInv'
  OBVIOUS
<1>1. Busy' = {}
  BY DEF Destroy, Busy
<1>2. PoolTypeOK'
  BY PoolAssumption DEF Destroy, PoolInv, PoolTypeOK, Outcomes
<1>3. JobsAccounted'
  BY <1>1 DEF Destroy, PoolInv, PoolTypeOK, JobsAccounted
<1>4. WorkersAccounted' /\ PoolIsServing' /\ Heard'
  BY <1>1 DEF Destroy, WorkersAccounted, PoolIsServing, Heard
<1>5. Rested'
  BY PoolAssumption DEF Destroy, Rested
<1> QED BY <1>2, <1>3, <1>4, <1>5 DEF PoolInv

LEMMA StepHolds == PoolInv /\ [PoolNext]_pool => PoolInv'
<1> SUFFICES ASSUME PoolInv, [PoolNext]_pool PROVE PoolInv'
  OBVIOUS
<1>1. ASSUME NEW j \in Jobs, Request(j) PROVE PoolInv'
  BY <1>1, RequestStep
<1>2. ASSUME NEW w \in Threads, Load(w) \/ Parse(w) PROVE PoolInv'
  BY <1>2 DEF Load, Parse, PoolInv, PoolTypeOK, WorkersAccounted, JobsAccounted,
              PoolIsServing, Rested, Heard, Busy
<1>3. ASSUME NEW w \in Threads, OnLoaded(w) PROVE PoolInv'
  BY <1>3, LoadedStep
<1>4. ASSUME NEW w \in Threads, OnResult(w) PROVE PoolInv'
  BY <1>4, ResultStep
<1>5. ASSUME NEW w \in Threads, OnWorkerGone(w) PROVE PoolInv'
  BY <1>5, LoseStep DEF OnWorkerGone
<1>6. ASSUME NEW w \in Threads, OnTimeout(w) PROVE PoolInv'
  BY <1>6, LoseStep DEF OnTimeout
<1>7. CASE UNCHANGED pool
  BY <1>7 DEF pool, PoolInv, PoolTypeOK, WorkersAccounted, JobsAccounted, PoolIsServing,
              Rested, Heard, Busy
<1> QED BY <1>1, <1>2, <1>3, <1>4, <1>5, <1>6, <1>7, RecycleStep, DestroyStep
       DEF PoolNext, PoolEvent

LEMMA Invariance == PoolSpec => []PoolInv
BY InitHolds, StepHolds, PTL DEF PoolSpec

-----------------------------------------------------------------------------
(* ParseWorkerPool's collections are well typed, and no worker does more     *)
(* parses than its recycle interval.                                         *)
THEOREM PoolTyping == PoolSpec => []PoolTypeOK
<1>1. PoolInv => PoolTypeOK
  BY DEF PoolInv
<1> QED BY <1>1, Invariance, PTL

(* onMessage, onWorkerGone, onTimeout, recycle and drain together leak no    *)
(* worker and give no job to a thread that was removed.                      *)
THEOREM NoWorkerLeaks == PoolSpec => []WorkersAccounted
<1>1. PoolInv => WorkersAccounted
  BY DEF PoolInv
<1> QED BY <1>1, Invariance, PTL

(* Every promise of requestParse() is settled, or its job is queued or with  *)
(* exactly one worker.                                                       *)
THEOREM NoJobIsLost == PoolSpec => []JobsAccounted
<1>1. PoolInv => JobsAccounted
  BY DEF PoolInv
<1> QED BY <1>1, Invariance, PTL

(* drain(): the pool never waits with work and idle workers, nor with work    *)
(* and no worker.                                                            *)
THEOREM NoWorkIsStranded == PoolSpec => []PoolIsServing
<1>1. PoolInv => PoolIsServing
  BY DEF PoolInv
<1> QED BY <1>1, Invariance, PTL

(* No worker leaks, no job is lost and no work waits for nobody, for any     *)
(* threads, jobs, limits and crash budget.                                   *)
THEOREM PoolStaysSound == PoolSpec => []PoolIsSound
<1> QED
  BY PoolTyping, NoWorkerLeaks, NoJobIsLost, NoWorkIsStranded, PTL DEF PoolIsSound

-----------------------------------------------------------------------------
(* drain() grows the pool as far as the queue asks: a handler brings at most *)
(* one more worker to be wanted, and the growth loop starts it.              *)

Grows == IsFiniteSet(queue) /\ GrowthIsDone

Near(crew, is, q) ==
  \/ destroyed \/ crew.crashes >= Budget
  \/ Cardinality(q) <= Cardinality(is) + Cardinality(crew.pending) + 1
  \/ Cardinality(crew.workers) + 1 >= Size \/ Cardinality(crew.pending) + 1 >= MaxSpawn

LEMMA ThreadSets ==
  ASSUME NEW S \in SUBSET Threads, NEW x
  PROVE  /\ IsFiniteSet(S) /\ Cardinality(S) \in Nat
         /\ IsFiniteSet(S \cup {x})
         /\ Cardinality(S \cup {x}) = IF x \in S THEN Cardinality(S) ELSE Cardinality(S) + 1
         /\ Cardinality(S \ {x}) = IF x \in S THEN Cardinality(S) - 1 ELSE Cardinality(S)
<1>1. IsFiniteSet(S)
  BY FS_Subset, PoolAssumption
<1> QED BY <1>1, FS_AddElement, FS_RemoveElement, FS_CardinalityType

LEMMA GrownSuffices ==
  ASSUME NEW crew \in Crews, NEW is \in SUBSET Threads, NEW q, IsFiniteSet(q),
         destroyed \in BOOLEAN, Near(crew, is, q), NEW grown \in Grown(crew, is, q),
         crew.pending \subseteq crew.workers
  PROVE  grown \in Crews /\ ~Wanting(grown, is, q)
<1>1. CASE ~Wanting(crew, is, q)
  BY <1>1 DEF Grown
<1>2. CASE grown = Crew(crew.workers, crew.pending, Budget)
  BY <1>2, PoolAssumption DEF Wanting, Crew, Crews
<1>3. ASSUME Wanting(crew, is, q), NEW c \in crew.crashes..(Budget - 1), grown \in Born(crew, c)
      PROVE  grown \in Crews /\ ~Wanting(grown, is, q)
  <2>1. PICK w \in Fresh(crew.workers) :
          grown = Crew(crew.workers \cup {w}, crew.pending \cup {w}, c)
    BY <1>3 DEF Born
  <2>2. /\ grown.workers = crew.workers \cup {w} /\ grown.pending = crew.pending \cup {w}
        /\ w \in Threads /\ w \notin crew.workers
        /\ crew.workers \in SUBSET Threads /\ crew.pending \in SUBSET Threads /\ crew.crashes \in Nat
    BY <2>1, FreshIsFree DEF Crew, Crews
  <2>3. grown \in Crews
    BY <2>1, <2>2, PoolAssumption DEF Crew, Crews
  <2>4. /\ Cardinality(grown.workers) = Cardinality(crew.workers) + 1
        /\ Cardinality(grown.pending) = Cardinality(crew.pending) + 1
    BY <2>2, ThreadSets
  <2>5. /\ Cardinality(q) \in Nat /\ Cardinality(is) \in Nat
        /\ Cardinality(crew.workers) \in Nat /\ Cardinality(crew.pending) \in Nat
    BY <2>2, ThreadSets, FS_CardinalityType
  <2>6. \/ Cardinality(q) <= Cardinality(is) + Cardinality(crew.pending) + 1
        \/ Cardinality(crew.workers) + 1 >= Size \/ Cardinality(crew.pending) + 1 >= MaxSpawn
    BY <1>3, <2>2, PoolAssumption DEF Near, Wanting
  <2>7. \/ ~(Cardinality(q) > Cardinality(is) + Cardinality(grown.pending))
        \/ ~(Cardinality(grown.workers) < Size) \/ ~(Cardinality(grown.pending) < MaxSpawn)
    BY <2>4, <2>5, <2>6, PoolAssumption
  <2> QED BY <2>3, <2>7 DEF Wanting
<1> QED BY <1>1, <1>2, <1>3 DEF Grown

(* drain() leaves no growth undone. *)
LEMMA DrainGrows ==
  ASSUME NEW crew, NEW is, NEW jb, NEW n, NEW q, NEW out,
         Whole(crew, is, jb, sent'), Data(is, jb, n, q, out), IsFiniteSet(q),
         destroyed \in BOOLEAN, Near(crew, is, q), Drain(crew, is, jb, n, q, out)
  PROVE  Grows'
<1>1. PICK grown \in Grown(crew, is, q) :
        /\ workers' = grown.workers /\ pending' = grown.pending /\ crashes' = grown.crashes
        /\ destroyed' = destroyed
        /\ IF is = {} \/ q = {}
           THEN idle' = is /\ queue' \subseteq q
           ELSE \E w \in is, j \in q : idle' = is \ {w} /\ queue' = q \ {j}
  BY DEF Drain
<1>2. crew \in Crews /\ crew.pending \subseteq crew.workers /\ is \in SUBSET Threads
  BY DEF Whole, Data
<1>3. grown \in Crews /\ ~Wanting(grown, is, q)
  BY <1>2, GrownSuffices
<1>4. grown.pending \in SUBSET Threads /\ Cardinality(grown.pending) \in Nat
  BY <1>3, ThreadSets DEF Crews
<1>5. Cardinality(q) \in Nat /\ Cardinality(is) \in Nat
  BY <1>2, ThreadSets, FS_CardinalityType
<1>6. /\ IsFiniteSet(queue') /\ Cardinality(queue') \in Nat /\ Cardinality(idle') \in Nat
      /\ Cardinality(queue') - Cardinality(idle') <= Cardinality(q) - Cardinality(is)
  <2>1. CASE is = {} \/ q = {}
    <3>1. IsFiniteSet(queue') /\ Cardinality(queue') <= Cardinality(q)
      BY <1>1, <2>1, FS_Subset
    <3>2. Cardinality(queue') \in Nat
      BY <3>1, FS_CardinalityType
    <3> QED BY <1>1, <1>5, <2>1, <3>1, <3>2
  <2>2. CASE ~(is = {} \/ q = {})
    <3>1. PICK w \in is, j \in q : idle' = is \ {w} /\ queue' = q \ {j}
      BY <1>1, <2>2
    <3>2. Cardinality(idle') = Cardinality(is) - 1
      BY <1>2, <3>1, ThreadSets
    <3>3. IsFiniteSet(queue') /\ Cardinality(queue') = Cardinality(q) - 1
      BY <3>1, FS_RemoveElement
    <3>4. Cardinality(queue') \in Nat /\ Cardinality(idle') \in Nat
      BY <1>2, <3>1, <3>3, ThreadSets, FS_CardinalityType
    <3> QED BY <1>5, <3>2, <3>3, <3>4
  <2> QED BY <2>1, <2>2
<1>7. ~(Cardinality(queue') > Cardinality(idle') + Cardinality(grown.pending))
      \/ Cardinality(q) > Cardinality(is) + Cardinality(grown.pending)
  BY <1>4, <1>5, <1>6
<1> QED BY <1>1, <1>3, <1>6, <1>7 DEF Wanting, Grows, GrowthIsDone, Crew

(* A crew is near if it wants at most one worker more than the pool did. *)
LEMMA NearNow ==
  ASSUME PoolInv, Grows, NEW crew \in Crews, NEW is \in SUBSET Threads, NEW q, IsFiniteSet(q),
         /\ Cardinality(q) - Cardinality(is) - Cardinality(crew.pending)
              <= Cardinality(queue) - Cardinality(idle) - Cardinality(pending) + 1
         /\ Cardinality(crew.workers) + 1 >= Cardinality(workers)
         /\ Cardinality(crew.pending) + 1 >= Cardinality(pending) /\ crew.crashes >= crashes
  PROVE  Near(crew, is, q)
<1>1. /\ workers \in SUBSET Threads /\ pending \in SUBSET Threads /\ idle \in SUBSET Threads
      /\ crew.workers \in SUBSET Threads /\ crew.pending \in SUBSET Threads
      /\ crashes \in Nat /\ crew.crashes \in Nat
  BY DEF PoolInv, PoolTypeOK, Crews
<1>2. /\ Cardinality(workers) \in Nat /\ Cardinality(pending) \in Nat /\ Cardinality(idle) \in Nat
      /\ Cardinality(crew.workers) \in Nat /\ Cardinality(crew.pending) \in Nat
      /\ Cardinality(is) \in Nat /\ Cardinality(q) \in Nat /\ Cardinality(queue) \in Nat
  BY <1>1, ThreadSets, FS_CardinalityType DEF Grows
<1>3. \/ ~(Cardinality(queue) > Cardinality(idle) + Cardinality(pending))
      \/ ~(Cardinality(workers) < Size) \/ ~(Cardinality(pending) < MaxSpawn)
      \/ destroyed \/ ~(crashes < Budget)
  BY DEF Grows, GrowthIsDone, Wanting, Crew
<1> QED BY <1>1, <1>2, <1>3, PoolAssumption DEF Near

(* ... as it does when a replacement starts, or fails to. *)
LEMMA NearSpawned ==
  ASSUME PoolInv, Grows, NEW rest \in Crews, NEW is \in SUBSET Threads, NEW q, IsFiniteSet(q),
         /\ Cardinality(q) - Cardinality(is) - Cardinality(rest.pending)
              <= Cardinality(queue) - Cardinality(idle) - Cardinality(pending) + 1
         /\ Cardinality(rest.workers) + 1 >= Cardinality(workers)
         /\ Cardinality(rest.pending) + 1 >= Cardinality(pending) /\ rest.crashes >= crashes,
         NEW crew \in Spawned(rest), crew \in Crews
  PROVE  Near(crew, is, q)
<1>1. crew.crashes >= rest.crashes /\ (crew = rest \/ (crew.workers = rest.workers /\ crew.pending = rest.pending)
        \/ \E w : crew.workers = rest.workers \cup {w} /\ crew.pending = rest.pending \cup {w})
  BY DEF Spawned, Born, Crew, Crews
<1>2. /\ rest.workers \in SUBSET Threads /\ rest.pending \in SUBSET Threads
      /\ rest.crashes \in Nat /\ crew.crashes \in Nat
      /\ pending \in SUBSET Threads /\ workers \in SUBSET Threads /\ idle \in SUBSET Threads /\ crashes \in Nat
  BY DEF Crews, PoolInv, PoolTypeOK
<1>3. /\ Cardinality(rest.workers) \in Nat /\ Cardinality(rest.pending) \in Nat
      /\ Cardinality(workers) \in Nat /\ Cardinality(pending) \in Nat /\ Cardinality(idle) \in Nat
      /\ Cardinality(q) \in Nat /\ Cardinality(queue) \in Nat /\ Cardinality(is) \in Nat
      /\ Cardinality(crew.workers) \in Nat /\ Cardinality(crew.pending) \in Nat
  BY <1>2, ThreadSets, FS_CardinalityType DEF Grows, Crews
<1>4. /\ Cardinality(crew.workers) >= Cardinality(rest.workers)
      /\ Cardinality(crew.pending) >= Cardinality(rest.pending)
  <2>1. rest.workers \subseteq crew.workers /\ rest.pending \subseteq crew.pending
    BY <1>1
  <2>2. IsFiniteSet(crew.workers) /\ IsFiniteSet(crew.pending)
    BY ThreadSets DEF Crews
  <2> QED BY <2>1, <2>2, FS_Subset
<1>5. /\ Cardinality(q) - Cardinality(is) - Cardinality(crew.pending)
           <= Cardinality(queue) - Cardinality(idle) - Cardinality(pending) + 1
      /\ Cardinality(crew.workers) + 1 >= Cardinality(workers)
      /\ Cardinality(crew.pending) + 1 >= Cardinality(pending) /\ crew.crashes >= crashes
  BY <1>1, <1>2, <1>3, <1>4
<1> QED BY <1>5, NearNow

LEMMA PoolSets ==
  ASSUME PoolInv, Grows
  PROVE  /\ workers \in SUBSET Threads /\ pending \in SUBSET Threads /\ idle \in SUBSET Threads
         /\ crashes \in Nat /\ destroyed \in BOOLEAN /\ Crew(workers, pending, crashes) \in Crews
         /\ Cardinality(workers) \in Nat /\ Cardinality(pending) \in Nat /\ Cardinality(idle) \in Nat
         /\ IsFiniteSet(queue) /\ Cardinality(queue) \in Nat
<1>1. /\ workers \in SUBSET Threads /\ pending \in SUBSET Threads /\ idle \in SUBSET Threads
      /\ crashes \in Nat /\ destroyed \in BOOLEAN
  BY DEF PoolInv, PoolTypeOK
<1> QED BY <1>1, ThreadSets, FS_CardinalityType DEF Grows, Crew, Crews

LEMMA RequestGrows ==
  ASSUME PoolInv, Grows, NEW j \in Jobs, Request(j)
  PROVE  Grows'
<1>1. CASE destroyed
  BY <1>1 DEF Request, Grows, GrowthIsDone, Wanting
<1>2. CASE ~destroyed
  <2> DEFINE crew == Crew(workers, pending, crashes)
             out == [outcome EXCEPT ![j] = "waiting"]
             q   == queue \cup {j}
  <2>1. Drain(crew, idle, job, count, q, out) /\ outcome[j] # "waiting" /\ sent' = sent
    BY <1>2 DEF Request
  <2>2. Data(idle, job, count, q, out)
    BY DEF Data, PoolInv, PoolTypeOK, PoolIsServing, Rested, Outcomes
  <2>3. Whole(crew, idle, job, sent')
    BY <2>1, WholeNow
  <2>4. IsFiniteSet(q) /\ Cardinality(q) \in Nat /\ Cardinality(q) <= Cardinality(queue) + 1
    <3>1. /\ IsFiniteSet(q)
          /\ Cardinality(q) = IF j \in queue THEN Cardinality(queue) ELSE Cardinality(queue) + 1
      BY PoolSets, FS_AddElement
    <3> HIDE DEF q
    <3> QED BY <3>1, PoolSets
  <2>5. Near(crew, idle, q)
    <3>1. crew.workers = workers /\ crew.pending = pending /\ crew.crashes = crashes
      BY DEF Crew
    <3>2. Cardinality(q) - Cardinality(idle) - Cardinality(crew.pending)
            <= Cardinality(queue) - Cardinality(idle) - Cardinality(pending) + 1
      BY <2>4, <3>1, PoolSets
    <3>3. crew \in Crews /\ Cardinality(crew.workers) + 1 >= Cardinality(workers)
          /\ Cardinality(crew.pending) + 1 >= Cardinality(pending) /\ crew.crashes >= crashes
      BY <3>1, PoolSets
    <3> HIDE DEF crew, q
    <3> QED BY <2>4, <3>2, <3>3, PoolSets, NearNow
  <2> HIDE DEF crew, out, q
  <2> QED BY <2>1, <2>2, <2>3, <2>4, <2>5, PoolSets, DrainGrows
<1> QED BY <1>1, <1>2

LEMMA LoadedGrows ==
  ASSUME PoolInv, Grows, NEW w \in Threads, OnLoaded(w)
  PROVE  Grows'
<1>1. CASE w \notin workers
  BY <1>1 DEF OnLoaded, Grows, GrowthIsDone, Wanting
<1>2. CASE w \in workers
  <2> DEFINE crew == Crew(workers, pending \ {w}, crashes)
             is   == idle \cup {w}
  <2>1. /\ sent[w] = "loaded" /\ sent' = [sent EXCEPT ![w] = "none"]
        /\ w \in pending /\ w \notin idle /\ crew \in Crews
        /\ crew.workers = workers /\ crew.pending = pending \ {w} /\ crew.crashes = crashes
    BY <1>2 DEF OnLoaded, PoolInv, Heard, WorkersAccounted, PoolTypeOK, Crew, Crews
  <2>2. Drain(crew, is, job, count, queue, outcome)
    BY <1>2 DEF OnLoaded
  <2>3. Whole(crew, is, job, sent')
    BY <2>1 DEF PoolInv, PoolTypeOK, WorkersAccounted, Heard, Busy, Whole, Crews, Crew
  <2>4. Data(is, job, count, queue, outcome)
    BY DEF Data, PoolInv, PoolTypeOK, PoolIsServing, Rested
  <2>5. Near(crew, is, queue)
    <3>1. Cardinality(crew.pending) = Cardinality(pending) - 1 /\ Cardinality(is) = Cardinality(idle) + 1
      BY <2>1, PoolSets, ThreadSets
    <3>2. is \in SUBSET Threads
      BY PoolSets
    <3>3. /\ Cardinality(queue) - Cardinality(is) - Cardinality(crew.pending)
              <= Cardinality(queue) - Cardinality(idle) - Cardinality(pending) + 1
          /\ Cardinality(crew.workers) + 1 >= Cardinality(workers)
          /\ Cardinality(crew.pending) + 1 >= Cardinality(pending) /\ crew.crashes >= crashes
      BY <2>1, <3>1, PoolSets
    <3> HIDE DEF crew, is
    <3> QED BY <2>1, <3>2, <3>3, PoolSets, NearNow
  <2> HIDE DEF crew, is
  <2> QED BY <2>2, <2>3, <2>4, <2>5, PoolSets, DrainGrows
<1> QED BY <1>1, <1>2

LEMMA ResultGrows ==
  ASSUME PoolInv, Grows, NEW w \in Threads, OnResult(w)
  PROVE  Grows'
<1>1. sent[w] = "result" /\ sent' = [sent EXCEPT ![w] = "none"]
  BY DEF OnResult
<1>2. CASE w \notin Busy
  BY <1>2 DEF OnResult, Grows, GrowthIsDone, Wanting
<1>3. CASE w \in Busy
  <2> DEFINE jb == [job EXCEPT ![w] = NoJob]
  <2>1. PICK value \in {"ok", "bad"} :
          IF count[w] >= Recycle
          THEN \E crew \in Spawned(Crew(workers \ {w}, pending, crashes)) :
                 Drain(crew, idle, jb, [count EXCEPT ![w] = 0], queue, [outcome EXCEPT ![job[w]] = value])
          ELSE Drain(Crew(workers, pending, crashes), idle \cup {w}, jb, count, queue,
                     [outcome EXCEPT ![job[w]] = value])
    BY <1>3 DEF OnResult
  <2> DEFINE out == [outcome EXCEPT ![job[w]] = value]
  <2>2. /\ out \in [Jobs -> Outcomes] /\ jb \in [Threads -> Jobs \cup {NoJob}]
        /\ \A x \in Threads : jb[x] = IF x = w THEN NoJob ELSE job[x]
        /\ w \in workers /\ w \notin idle /\ w \notin pending
    BY <1>3 DEF PoolInv, PoolTypeOK, Outcomes, WorkersAccounted
  <2>3. CASE count[w] >= Recycle
    <3> DEFINE n    == [count EXCEPT ![w] = 0]
               rest == Crew(workers \ {w}, pending, crashes)
    <3>1. PICK crew \in Spawned(rest) : Drain(crew, idle, jb, n, queue, out)
      BY <2>1, <2>3
    <3>2. Whole(rest, idle, jb, sent')
      BY <1>1, <1>3, <2>2 DEF PoolInv, PoolTypeOK, WorkersAccounted, Heard, Busy, Whole, Crews, Crew
    <3>3. Whole(crew, idle, jb, sent')
      <4> HIDE DEF jb
      <4> QED BY <2>2, <3>2, SpawnedIsWhole
    <3>4. Data(idle, jb, n, queue, out)
      BY <2>2, PoolAssumption DEF Data, PoolInv, PoolTypeOK, PoolIsServing, Rested
    <3>5. Near(crew, idle, queue)
      <4>1. rest.workers = workers \ {w} /\ rest.pending = pending /\ rest.crashes = crashes
        BY DEF Crew
      <4>2. Cardinality(rest.workers) = Cardinality(workers) - 1
        BY <2>2, <4>1, PoolSets, ThreadSets
      <4>3. rest \in Crews /\ crew \in Crews
        BY <3>2, <3>3 DEF Whole
      <4>4. /\ Cardinality(queue) - Cardinality(idle) - Cardinality(rest.pending)
                 <= Cardinality(queue) - Cardinality(idle) - Cardinality(pending) + 1
            /\ Cardinality(rest.workers) + 1 >= Cardinality(workers)
            /\ Cardinality(rest.pending) + 1 >= Cardinality(pending) /\ rest.crashes >= crashes
        BY <4>1, <4>2, PoolSets
      <4> HIDE DEF rest
      <4> QED BY <4>3, <4>4, PoolSets, NearSpawned
    <3> HIDE DEF jb, n, out
    <3> QED BY <3>1, <3>3, <3>4, <3>5, PoolSets, DrainGrows
  <2>4. CASE ~(count[w] >= Recycle)
    <3> DEFINE crew == Crew(workers, pending, crashes)
               is   == idle \cup {w}
    <3>1. Drain(crew, is, jb, count, queue, out)
      BY <2>1, <2>4
    <3>2. Whole(crew, is, jb, sent')
      BY <1>1, <1>3, <2>2 DEF PoolInv, PoolTypeOK, WorkersAccounted, Heard, Busy, Whole, Crews, Crew
    <3>3. Data(is, jb, count, queue, out)
      <4>1. count[w] < Recycle
        BY <2>4, PoolAssumption DEF PoolInv, PoolTypeOK
      <4> QED BY <2>2, <4>1 DEF Data, PoolInv, PoolTypeOK, PoolIsServing, Rested
    <3>4. Near(crew, is, queue)
      <4>1. crew.workers = workers /\ crew.pending = pending /\ crew.crashes = crashes
        BY DEF Crew
      <4>2. Cardinality(is) = Cardinality(idle) + 1 /\ is \in SUBSET Threads
        BY <2>2, PoolSets, ThreadSets
      <4>3. /\ Cardinality(queue) - Cardinality(is) - Cardinality(crew.pending)
                 <= Cardinality(queue) - Cardinality(idle) - Cardinality(pending) + 1
            /\ Cardinality(crew.workers) + 1 >= Cardinality(workers)
            /\ Cardinality(crew.pending) + 1 >= Cardinality(pending) /\ crew.crashes >= crashes
        BY <4>1, <4>2, PoolSets
      <4>4. crew \in Crews
        BY PoolSets
      <4> HIDE DEF crew, is
      <4> QED BY <4>2, <4>3, <4>4, PoolSets, NearNow
    <3> HIDE DEF crew, is, jb, out
    <3> QED BY <3>1, <3>2, <3>3, <3>4, PoolSets, DrainGrows
  <2> QED BY <2>3, <2>4
<1> QED BY <1>2, <1>3

LEMMA LoseGrows ==
  ASSUME PoolInv, Grows, NEW w \in workers, NEW charge \in Nat, NEW reason \in {"exited", "failed"},
         sent' = sent, Lose(w, charge, reason)
  PROVE  Grows'
<1> DEFINE jb   == [job EXCEPT ![w] = NoJob]
           n    == [count EXCEPT ![w] = 0]
           is   == idle \ {w}
           out  == IF w \in Busy THEN [outcome EXCEPT ![job[w]] = reason] ELSE outcome
           rest == Crew(workers \ {w}, pending \ {w}, crashes + charge)
<1>1. PICK crew \in Spawned(rest) : Drain(crew, is, jb, n, queue, out)
  BY DEF Lose
<1>2. w \in Threads /\ ~(w \in idle /\ w \in pending)
  BY DEF PoolInv, PoolTypeOK, WorkersAccounted
<1>3. /\ out \in [Jobs -> Outcomes] /\ jb \in [Threads -> Jobs \cup {NoJob}]
      /\ \A x \in Threads : jb[x] = IF x = w THEN NoJob ELSE job[x]
  BY DEF PoolInv, PoolTypeOK, Outcomes
<1>4. Whole(rest, is, jb, sent')
  BY <1>2, <1>3 DEF PoolInv, PoolTypeOK, WorkersAccounted, Heard, Busy, Whole, Crews, Crew
<1>5. Whole(crew, is, jb, sent')
  <2> HIDE DEF rest, is, jb
  <2> QED BY <1>1, <1>3, <1>4, SpawnedIsWhole
<1>6. Data(is, jb, n, queue, out)
  BY <1>2, <1>3, PoolAssumption DEF Data, PoolInv, PoolTypeOK, PoolIsServing, Rested
<1>7. Near(crew, is, queue)
  <2>1. rest.workers = workers \ {w} /\ rest.pending = pending \ {w} /\ rest.crashes = crashes + charge
    BY DEF Crew
  <2>2. /\ Cardinality(rest.workers) = Cardinality(workers) - 1
        /\ Cardinality(rest.pending) = IF w \in pending THEN Cardinality(pending) - 1 ELSE Cardinality(pending)
        /\ Cardinality(is) = IF w \in idle THEN Cardinality(idle) - 1 ELSE Cardinality(idle)
    <3>1. Cardinality(workers \ {w}) = Cardinality(workers) - 1
      BY PoolSets, ThreadSets
    <3>2. Cardinality(pending \ {w}) = IF w \in pending THEN Cardinality(pending) - 1 ELSE Cardinality(pending)
      BY PoolSets, ThreadSets
    <3>3. Cardinality(idle \ {w}) = IF w \in idle THEN Cardinality(idle) - 1 ELSE Cardinality(idle)
      BY PoolSets, ThreadSets
    <3> QED BY <2>1, <3>1, <3>2, <3>3
  <2>3. rest \in Crews /\ crew \in Crews /\ is \in SUBSET Threads
    BY <1>4, <1>5, PoolSets DEF Whole
  <2> HIDE DEF rest, is
  <2>4. /\ Cardinality(queue) - Cardinality(is) - Cardinality(rest.pending)
             <= Cardinality(queue) - Cardinality(idle) - Cardinality(pending) + 1
        /\ Cardinality(rest.workers) + 1 >= Cardinality(workers)
        /\ Cardinality(rest.pending) + 1 >= Cardinality(pending) /\ rest.crashes >= crashes
    BY <1>2, <2>1, <2>2, PoolSets
  <2> QED BY <1>1, <2>3, <2>4, PoolSets, NearSpawned
<1> HIDE DEF is, jb, n, out, rest
<1> QED BY <1>1, <1>5, <1>6, <1>7, PoolSets, DrainGrows

(* recycleAll() changes the crew only where there are idle workers, and then *)
(* nothing is queued.                                                        *)
LEMMA RecycleGrows ==
  ASSUME PoolInv, Grows, RecycleAll
  PROVE  Grows'
<1>1. PICK born \in SUBSET {w \in Threads \ workers : sent[w] = "none"}, thrown \in 0..Budget :
        /\ Cardinality(born) + thrown <= Cardinality(idle)
        /\ workers' = (workers \ idle) \cup born /\ pending' = pending \cup born
        /\ idle' = {} /\ crashes' = crashes + thrown
        /\ UNCHANGED <<queue, destroyed>>
  BY DEF RecycleAll
<1>2. CASE queue = {}
  <2>1. pending' \in SUBSET Threads
    BY <1>1, PoolSets
  <2>2. Cardinality(queue') = 0 /\ Cardinality(idle') = 0 /\ Cardinality(pending') \in Nat
    BY <1>1, <1>2, <2>1, FS_EmptySet, ThreadSets
  <2>3. ~(Cardinality(queue') > Cardinality(idle') + Cardinality(pending'))
    BY <2>2
  <2> QED BY <1>1, <2>3 DEF Grows, GrowthIsDone, Wanting, Crew
<1>3. CASE queue # {}
  <2>1. idle = {} /\ Cardinality(idle) = 0
    BY <1>3, FS_EmptySet DEF PoolInv, PoolIsServing
  <2>2. IsFiniteSet(born) /\ Cardinality(born) \in Nat
    BY <1>1, ThreadSets
  <2>3. Cardinality(born) = 0 /\ thrown = 0
    BY <1>1, <2>1, <2>2, PoolAssumption
  <2>4. born = {}
    BY <2>2, <2>3, FS_EmptySet
  <2>5. workers' = workers /\ pending' = pending /\ idle' = idle /\ crashes' = crashes
    BY <1>1, <2>1, <2>3, <2>4, PoolSets
  <2> QED BY <1>1, <2>5 DEF Grows, GrowthIsDone, Wanting
<1> QED BY <1>2, <1>3

LEMMA GrowthStep == PoolInv /\ Grows /\ [PoolNext]_pool => Grows'
<1> SUFFICES ASSUME PoolInv, Grows, [PoolNext]_pool PROVE Grows'
  OBVIOUS
<1>1. ASSUME NEW j \in Jobs, Request(j) PROVE Grows'
  BY <1>1, RequestGrows
<1>2. ASSUME NEW w \in Threads, Load(w) \/ Parse(w) PROVE Grows'
  BY <1>2 DEF Load, Parse, Grows, GrowthIsDone, Wanting
<1>3. ASSUME NEW w \in Threads, OnLoaded(w) \/ OnResult(w) PROVE Grows'
  BY <1>3, LoadedGrows, ResultGrows
<1>4. ASSUME NEW w \in Threads, OnWorkerGone(w) \/ OnTimeout(w) PROVE Grows'
  BY <1>4, LoseGrows DEF OnWorkerGone, OnTimeout
<1>5. CASE Destroy
  BY <1>5, FS_EmptySet DEF Destroy, Grows, GrowthIsDone, Wanting
<1>6. CASE UNCHANGED pool
  BY <1>6 DEF pool, Grows, GrowthIsDone, Wanting
<1> QED BY <1>1, <1>2, <1>3, <1>4, <1>5, <1>6, RecycleGrows DEF PoolNext, PoolEvent

LEMMA GrowthInit == PoolInit => Grows
<1> SUFFICES ASSUME PoolInit PROVE Grows
  OBVIOUS
<1>1. PoolInv /\ queue = {} /\ idle = {}
  BY InitHolds DEF PoolInit
<1>2. Cardinality(pending) \in Nat /\ IsFiniteSet(queue) /\ Cardinality(queue) = 0 /\ Cardinality(idle) = 0
  BY <1>1, ThreadSets, FS_EmptySet DEF PoolInv, PoolTypeOK
<1>3. ~(Cardinality(queue) > Cardinality(idle) + Cardinality(pending))
  BY <1>2
<1> QED BY <1>2, <1>3 DEF Grows, GrowthIsDone, Wanting, Crew

(* parse-pool.ts:299: no handler returns before the pool has grown as far as *)
(* its queue asks for and its limits and crash budget allow.                 *)
THEOREM GrowthNeverLags == PoolSpec => []GrowthIsDone
<1>1. Grows => GrowthIsDone
  BY DEF Grows
<1> QED BY <1>1, Invariance, GrowthInit, GrowthStep, PTL DEF PoolSpec

-----------------------------------------------------------------------------
(* indexAll().  Nothing arrives any more once the parses were awaited.      *)
Late == {"drained", "tidy", "retry", "await", "done"}

Dispatched == DOMAIN fed

FedInv == /\ \A k \in Dispatched : fed[k] < next
          /\ \A i, k \in Dispatched : i < k => fed[i] < fed[k]
          /\ phase \in {"read", "feed"} => next <= N
          /\ phase \in Late \cup {"drain"} => next = N + 1

CursorInv == /\ phase \in Late \/ stage > 0 => arrived = Dispatched /\ cursor = Len(fed) + 1
             /\ phase = "room" /\ InFlight = {} => cursor = Len(fed) + 1
             /\ Len(fed) + 1 - cursor <= Window
             /\ phase \in {"read", "feed"} => Len(fed) + 1 - cursor < Window
             /\ lost = {} /\ phase # "aborted" => cursor \notin arrived
             /\ stage > 0 => phase \in {"retry", "await", "rejected", "done"}
             /\ phase \in {"retry", "await"} => stage > 0

(* Where a file is that the dispatch loop has passed: stored, reported, lost *)
(* to a throwing store, or ahead of the cursor; and nowhere twice.           *)
FilesInv == \A f \in Jobs : f < next => \/ f \in errs \/ f \in lost
                                        \/ \E i \in DOMAIN db : db[i] = f
                                        \/ \E k \in Dispatched : k >= cursor /\ fed[k] = f

ErrsInv == /\ \A f \in errs : /\ f < next
                              /\ \A k \in Dispatched : k >= cursor => fed[k] # f
                              /\ \A i \in DOMAIN db : db[i] # f
           /\ again \cap still = {} /\ (stage = 0 => still = {})

DbInv == /\ \A i \in DOMAIN db : db[i] # NoJob =>
              db[i] < next /\ \A k \in Dispatched : k >= cursor => db[i] < fed[k]
         /\ StoredInOrder

LoopInv == BulkTypeOK /\ FedInv /\ CursorInv /\ FilesInv /\ ErrsInv /\ DbInv

(* What flushOrdered() stores and reports of the parses below `to` *)
LEMMA CommitShape ==
  ASSUME BulkTypeOK, NEW to \in cursor..(Len(fed) + 1), Commit(to)
  PROVE  /\ db' \in Seq(Jobs \cup {NoJob}) /\ Len(db') = Len(db) + (to - cursor)
         /\ \A i \in 1..Len(db) : db'[i] = db[i]
         /\ \A i \in (Len(db) + 1)..Len(db') :
              LET k == i - Len(db) + cursor - 1
              IN k \in cursor..(to - 1) /\ db'[i] = IF outcome[fed[k]] = "ok" THEN fed[k] ELSE NoJob
         /\ \A f : f \in errs' <=> f \in errs \/ \E k \in cursor..(to - 1) : fed[k] = f /\ outcome[f] # "ok"
<1> DEFINE part == SubSeq(fed, cursor, to - 1)
           bad  == {part[k] : k \in {i \in DOMAIN part : outcome[part[i]] # "ok"}}
           new  == [k \in DOMAIN part |-> IF part[k] \in bad THEN NoJob ELSE part[k]]
<1>1. fed \in Seq(Jobs) /\ cursor \in Nat \ {0} /\ to \in Nat /\ Len(fed) \in Nat /\ db \in Seq(Jobs \cup {NoJob})
  BY LenProperties DEF BulkTypeOK
<1>2. \A i \in cursor..(to - 1) : fed[i] \in Jobs
  BY <1>1, ElementOfSeq
<1>3. /\ part \in Seq(Jobs) /\ Len(part) = to - cursor
      /\ \A i \in 1..(to - cursor) : part[i] = fed[cursor + i - 1]
  BY <1>1, <1>2, SubSeqProperties
<1>4. DOMAIN part = 1..(to - cursor)
  BY <1>3, LenProperties
<1>5. db' = db \o new /\ errs' = errs \cup bad
  BY DEF Commit
<1> HIDE DEF part
<1>6. \A f : f \in bad <=> \E k \in cursor..(to - 1) : fed[k] = f /\ outcome[f] # "ok"
  <2>1. ASSUME NEW f \in bad PROVE \E k \in cursor..(to - 1) : fed[k] = f /\ outcome[f] # "ok"
    <3>1. PICK i \in DOMAIN part : outcome[part[i]] # "ok" /\ f = part[i]
      BY <2>1
    <3>2. cursor + i - 1 \in cursor..(to - 1) /\ fed[cursor + i - 1] = f
      BY <1>1, <1>3, <1>4, <3>1
    <3> QED BY <3>1, <3>2
  <2>2. ASSUME NEW k \in cursor..(to - 1), outcome[fed[k]] # "ok" PROVE fed[k] \in bad
    <3>1. k - cursor + 1 \in 1..(to - cursor) /\ part[k - cursor + 1] = fed[k]
      BY <1>1, <1>3
    <3> QED BY <1>4, <2>2, <3>1
  <2> HIDE DEF bad
  <2> QED BY <2>1, <2>2
<1>7. \A k \in 1..(to - cursor) :
        LET j == cursor + k - 1
        IN j \in cursor..(to - 1) /\ new[k] = IF outcome[fed[j]] = "ok" THEN fed[j] ELSE NoJob
  <2> TAKE k \in 1..(to - cursor)
  <2>1. cursor + k - 1 \in cursor..(to - 1) /\ part[k] = fed[cursor + k - 1]
    BY <1>1, <1>3
  <2>2. part[k] \in bad <=> outcome[part[k]] # "ok"
    BY <1>6, <2>1
  <2> HIDE DEF bad
  <2> QED BY <1>4, <2>1, <2>2
<1>8. new \in Seq(Jobs \cup {NoJob}) /\ Len(new) = to - cursor
  <2>1. to - cursor \in Nat
    BY <1>1
  <2>2. new = [k \in 1..(to - cursor) |-> new[k]]
    BY <1>4
  <2>3. \A k \in 1..(to - cursor) : new[k] \in Jobs \cup {NoJob}
    BY <1>2, <1>7
  <2> HIDE DEF new
  <2> QED BY <2>1, <2>2, <2>3, IsASeq
<1> HIDE DEF bad, new
<1>9. /\ db' \in Seq(Jobs \cup {NoJob}) /\ Len(db') = Len(db) + (to - cursor)
      /\ \A i \in 1..Len(db) + (to - cursor) : db'[i] = IF i <= Len(db) THEN db[i] ELSE new[i - Len(db)]
  BY <1>1, <1>5, <1>8, ConcatProperties
<1>10. Len(db) \in Nat /\ to - cursor \in Nat
  BY <1>1
<1>11. \A i \in 1..Len(db) : db'[i] = db[i]
  <2> TAKE i \in 1..Len(db)
  <2>1. i \in 1..Len(db) + (to - cursor) /\ i <= Len(db)
    BY <1>10
  <2> QED BY <1>9, <2>1
<1>12. ASSUME NEW i \in (Len(db) + 1)..Len(db')
       PROVE  LET k == i - Len(db) + cursor - 1
              IN k \in cursor..(to - 1) /\ db'[i] = IF outcome[fed[k]] = "ok" THEN fed[k] ELSE NoJob
  <2>1. i \in 1..(Len(db) + (to - cursor)) /\ ~(i <= Len(db)) /\ i - Len(db) \in 1..(to - cursor)
    BY <1>9, <1>10
  <2>2. db'[i] = new[i - Len(db)]
    BY <1>9, <2>1
  <2>3. i - Len(db) + cursor - 1 = cursor + (i - Len(db)) - 1
    BY <1>1, <1>10, <2>1
  <2> QED BY <1>7, <2>1, <2>2, <2>3
<1> QED BY <1>5, <1>6, <1>9, <1>11, <1>12

(* flushOrdered() up to `to`, and past it if the store of `to` threw *)
LEMMA CommitKeeps ==
  ASSUME LoopInv, stage = 0, UNCHANGED <<fed, next, again, still, stage>>,
         NEW to \in cursor..(Len(fed) + 1), Commit(to),
         \/ cursor' = to /\ lost' = lost
         \/ to <= Len(fed) /\ cursor' = to + 1 /\ lost' = lost \cup {fed[to]}
  PROVE  /\ FilesInv' /\ ErrsInv' /\ DbInv'
         /\ cursor' \in cursor..(Len(fed) + 1) /\ db' \in Seq(Jobs \cup {NoJob})
         /\ errs' \subseteq Jobs /\ lost' \subseteq Jobs /\ errs \subseteq errs'
<1>1. BulkTypeOK
  BY DEF LoopInv
<1>2. /\ fed \in Seq(Jobs) /\ db \in Seq(Jobs \cup {NoJob}) /\ cursor \in Nat \ {0} /\ to \in Nat
      /\ Len(fed) \in Nat /\ Len(db) \in Nat /\ DOMAIN fed = 1..Len(fed) /\ DOMAIN db = 1..Len(db)
      /\ next \in Nat /\ Jobs = 1..N /\ N \in Nat /\ NoJob \notin Jobs /\ errs \subseteq Jobs /\ lost \subseteq Jobs
  BY <1>1, LenProperties, BulkAssumption, PoolAssumption DEF BulkTypeOK
<1>3. \A k \in 1..Len(fed) : fed[k] \in Jobs /\ fed[k] \in Nat
  BY <1>2, ElementOfSeq
<1>4. /\ db' \in Seq(Jobs \cup {NoJob}) /\ Len(db') = Len(db) + (to - cursor)
      /\ \A i \in 1..Len(db) : db'[i] = db[i]
      /\ \A i \in (Len(db) + 1)..Len(db') :
           LET k == i - Len(db) + cursor - 1
           IN k \in cursor..(to - 1) /\ db'[i] = IF outcome[fed[k]] = "ok" THEN fed[k] ELSE NoJob
      /\ \A f : f \in errs' <=> f \in errs \/ \E k \in cursor..(to - 1) : fed[k] = f /\ outcome[f] # "ok"
  BY <1>1, CommitShape
<1>5. DOMAIN db' = 1..Len(db') /\ Len(db') \in Nat /\ cursor' \in cursor..(Len(fed) + 1) /\ cursor' >= to
  BY <1>2, <1>4, LenProperties
<1>6. cursor..(to - 1) \subseteq 1..Len(fed) /\ \A i \in DOMAIN db' : i > Len(db) =>
        i - Len(db) + cursor - 1 \in cursor..(to - 1)
        /\ db'[i] = IF outcome[fed[i - Len(db) + cursor - 1]] = "ok"
                    THEN fed[i - Len(db) + cursor - 1] ELSE NoJob
  <2>1. \A i \in DOMAIN db' : i > Len(db) => i \in (Len(db) + 1)..Len(db')
    BY <1>2, <1>5
  <2>2. cursor..(to - 1) \subseteq 1..Len(fed)
    BY <1>2
  <2> QED BY <1>4, <2>1, <2>2
<1>7. /\ \A k \in 1..Len(fed) : fed[k] < next
      /\ \A i, k \in 1..Len(fed) : i < k => fed[i] < fed[k]
  BY <1>2 DEF LoopInv, FedInv, Dispatched
<1>8. errs' \subseteq Jobs /\ lost' \subseteq Jobs /\ lost \subseteq lost' /\ errs \subseteq errs'
  <2>1. errs' \subseteq Jobs /\ errs \subseteq errs'
    <3>1. \A k \in cursor..(to - 1) : fed[k] \in Jobs
      BY <1>3, <1>6
    <3>2. \A f : f \in errs' <=> f \in errs \/ \E k \in cursor..(to - 1) : fed[k] = f /\ outcome[f] # "ok"
      BY <1>4
    <3> QED BY <1>2, <3>1, <3>2
  <2>2. to <= Len(fed) => fed[to] \in Jobs
    BY <1>2, <1>3
  <2>3. lost' \subseteq Jobs /\ lost \subseteq lost'
    BY <1>2, <2>2
  <2> QED BY <2>1, <2>3
<1>9. FilesInv'
  <2> SUFFICES ASSUME NEW f \in Jobs, f < next
               PROVE  \/ f \in errs' \/ f \in lost' \/ \E i \in DOMAIN db' : db'[i] = f
                      \/ \E k \in Dispatched : k >= cursor' /\ fed[k] = f
    BY DEF FilesInv, Dispatched
  <2>1. CASE f \in errs \/ f \in lost
    BY <1>8, <2>1
  <2>2. ASSUME NEW i \in DOMAIN db, db[i] = f PROVE \E x \in DOMAIN db' : db'[x] = f
    <3>1. i \in DOMAIN db' /\ db'[i] = f
      BY <1>2, <1>4, <1>5, <2>2
    <3> QED BY <3>1
  <2>3. ASSUME NEW k \in Dispatched, k >= cursor, fed[k] = f
        PROVE  \/ f \in errs' \/ f \in lost' \/ \E i \in DOMAIN db' : db'[i] = f
               \/ \E x \in Dispatched : x >= cursor' /\ fed[x] = f
    <3>1. k \in 1..Len(fed)
      BY <1>2 DEF Dispatched
    <3>2. CASE k < to
      <4>1. k \in cursor..(to - 1)
        BY <1>2, <2>3, <3>1, <3>2
      <4> DEFINE i == Len(db) + 1 + k - cursor
      <4>2. i \in (Len(db) + 1)..Len(db') /\ i - Len(db) + cursor - 1 = k /\ i \in DOMAIN db'
        BY <1>2, <1>4, <1>5, <4>1
      <4>3. db'[i] = IF outcome[fed[k]] = "ok" THEN fed[k] ELSE NoJob
        BY <1>4, <4>2
      <4> HIDE DEF i
      <4> QED BY <1>4, <2>3, <4>1, <4>2, <4>3
    <3>3. CASE k >= to
      BY <1>2, <2>3, <3>1, <3>3
    <3> QED BY <1>2, <3>1, <3>2, <3>3
  <2> QED BY <2>1, <2>2, <2>3 DEF LoopInv, FilesInv
<1>10. ErrsInv'
  <2>1. ASSUME NEW f \in errs'
        PROVE  /\ f < next /\ \A k \in Dispatched : k >= cursor' => fed[k] # f
               /\ \A i \in DOMAIN db' : db'[i] # f
    <3>1. f \in Jobs
      BY <1>8, <2>1
    <3>2. CASE f \in errs
      <4>1. /\ f < next /\ \A k \in 1..Len(fed) : k >= cursor => fed[k] # f
            /\ \A i \in 1..Len(db) : db[i] # f
        BY <1>2, <3>2 DEF LoopInv, ErrsInv, Dispatched
      <4>2. \A i \in DOMAIN db' : db'[i] # f
        <5> TAKE i \in DOMAIN db'
        <5>1. CASE i <= Len(db)
          BY <1>2, <1>4, <1>5, <4>1, <5>1
        <5>2. CASE i > Len(db)
          <6>1. PICK k \in cursor..(to - 1) : db'[i] \in {fed[k], NoJob}
            BY <1>6, <5>2
          <6> QED BY <1>2, <1>6, <3>1, <4>1, <6>1
        <5> QED BY <1>2, <1>5, <5>1, <5>2
      <4> QED BY <1>2, <1>5, <4>1, <4>2 DEF Dispatched
    <3>3. CASE f \notin errs
      <4>1. PICK k \in cursor..(to - 1) : fed[k] = f /\ outcome[f] # "ok"
        BY <1>4, <2>1, <3>3
      <4>2. k \in 1..Len(fed) /\ f < next
        BY <1>6, <1>7, <4>1
      <4>3. \A j \in 1..Len(fed) : j # k => fed[j] # f
        BY <1>3, <1>7, <4>1, <4>2
      <4>4. \A j \in Dispatched : j >= cursor' => fed[j] # f
        BY <1>2, <1>5, <4>1, <4>2, <4>3 DEF Dispatched
      <4>5. \A i \in DOMAIN db' : db'[i] # f
        <5> TAKE i \in DOMAIN db'
        <5>1. CASE i <= Len(db)
          <6>1. i \in 1..Len(db) /\ db'[i] = db[i]
            BY <1>2, <1>4, <1>5, <5>1
          <6>2. db[i] # NoJob => db[i] < fed[k]
            <7>1. i \in DOMAIN db /\ k \in Dispatched /\ k >= cursor
              BY <1>2, <4>1, <4>2, <6>1 DEF Dispatched
            <7> QED BY <7>1 DEF LoopInv, DbInv
          <6>3. fed[k] \in Nat
            BY <1>3, <4>2
          <6> QED BY <1>2, <3>1, <4>1, <6>1, <6>2, <6>3
        <5>2. CASE i > Len(db)
          <6>1. PICK j \in cursor..(to - 1) :
                  db'[i] = IF outcome[fed[j]] = "ok" THEN fed[j] ELSE NoJob
            BY <1>6, <5>2
          <6>2. j \in 1..Len(fed)
            BY <1>6
          <6> QED BY <1>2, <3>1, <4>1, <4>3, <6>1, <6>2
        <5> QED BY <1>2, <1>5, <5>1, <5>2
      <4> QED BY <4>2, <4>4, <4>5
    <3> QED BY <3>2, <3>3
  <2>2. again' \cap still' = {} /\ still' = {}
    BY DEF LoopInv, ErrsInv
  <2> QED BY <2>1, <2>2 DEF ErrsInv, Dispatched
<1>11. DbInv'
  <2>1. ASSUME NEW i \in DOMAIN db', db'[i] # NoJob
        PROVE  db'[i] < next /\ \A k \in Dispatched : k >= cursor' => db'[i] < fed[k]
    <3>1. CASE i <= Len(db)
      <4>1. i \in 1..Len(db) /\ db'[i] = db[i]
        BY <1>2, <1>4, <1>5, <3>1
      <4>2. db[i] < next /\ \A k \in Dispatched : k >= cursor => db[i] < fed[k]
        BY <1>2, <2>1, <4>1 DEF LoopInv, DbInv
      <4> QED BY <1>2, <1>5, <4>1, <4>2 DEF Dispatched
    <3>2. CASE i > Len(db)
      <4>1. PICK j \in cursor..(to - 1) : db'[i] = fed[j]
        BY <1>6, <2>1, <3>2
      <4>2. j \in 1..Len(fed) /\ db'[i] < next
        BY <1>6, <1>7, <4>1
      <4>3. \A k \in Dispatched : k >= cursor' => j < k
        BY <1>2, <1>5, <4>1 DEF Dispatched
      <4> QED BY <1>2, <1>7, <4>1, <4>2, <4>3 DEF Dispatched
    <3> QED BY <1>2, <1>5, <3>1, <3>2
  <2>2. ASSUME NEW i \in DOMAIN db', NEW k \in DOMAIN db', i < k, db'[i] # NoJob, db'[k] # NoJob
        PROVE  db'[i] < db'[k]
    <3>1. CASE k <= Len(db)
      <4>1. i \in DOMAIN db /\ k \in DOMAIN db /\ db'[i] = db[i] /\ db'[k] = db[k]
        BY <1>2, <1>4, <1>5, <2>2, <3>1
      <4> QED BY <2>2, <4>1 DEF LoopInv, DbInv, StoredInOrder
    <3>2. CASE k > Len(db)
      <4> DEFINE x == k - Len(db) + cursor - 1
      <4>1. x \in cursor..(to - 1) /\ x \in 1..Len(fed) /\ db'[k] = fed[x]
        BY <1>6, <2>2, <3>2
      <4>2. CASE i <= Len(db)
        <5>1. i \in DOMAIN db /\ db'[i] = db[i] /\ x \in Dispatched /\ x >= cursor
          BY <1>2, <1>4, <1>5, <4>1, <4>2 DEF Dispatched
        <5> HIDE DEF x
        <5> QED BY <2>2, <4>1, <5>1 DEF LoopInv, DbInv
      <4>3. CASE i > Len(db)
        <5> DEFINE y == i - Len(db) + cursor - 1
        <5>1. y \in cursor..(to - 1) /\ y \in 1..Len(fed) /\ db'[i] = fed[y]
          BY <1>6, <2>2, <4>3
        <5>2. y < x
          BY <1>2, <1>5, <2>2
        <5> HIDE DEF x, y
        <5> QED BY <1>7, <4>1, <5>1, <5>2
      <4> QED BY <1>2, <1>5, <4>2, <4>3
    <3> QED BY <1>2, <1>5, <3>1, <3>2
  <2> QED BY <2>1, <2>2 DEF DbInv, StoredInOrder, Dispatched
<1> QED BY <1>4, <1>5, <1>8, <1>9, <1>10, <1>11

(* flushOrdered() with these parses settled *)
LEMMA FlushKeeps ==
  ASSUME LoopInv, stage = 0, UNCHANGED <<fed, next, again, still, stage>>,
         NEW settled \in SUBSET Dispatched, NEW fine, NEW failing, FlushOrdered(settled, fine, failing)
  PROVE  /\ FilesInv' /\ ErrsInv' /\ DbInv'
         /\ cursor' \in cursor..(Len(fed) + 1) /\ db' \in Seq(Jobs \cup {NoJob})
         /\ errs' \subseteq Jobs /\ lost' \subseteq Jobs /\ errs \subseteq errs'
         /\ \/ /\ phase' = fine /\ cursor' \notin settled
               /\ (settled = Dispatched => cursor' = Len(fed) + 1)
            \/ phase' = failing /\ lost' # {}
<1>1. PICK to \in cursor..(Len(fed) + 1) :
        /\ Reaches(to, settled)
        /\ \/ Commit(to) /\ cursor' = to /\ phase' = fine /\ UNCHANGED lost
           \/ \E k \in cursor..(to - 1) :
                /\ outcome[fed[k]] = "ok" /\ lost' = lost \cup {fed[k]}
                /\ Commit(k) /\ cursor' = k + 1 /\ phase' = failing
  BY DEF FlushOrdered
<1>2. cursor \in Nat \ {0} /\ Len(fed) \in Nat /\ Dispatched = 1..Len(fed)
  BY LenProperties DEF LoopInv, BulkTypeOK, Dispatched
<1>3. CASE Commit(to) /\ cursor' = to /\ phase' = fine /\ UNCHANGED lost
  <2>1. to \notin settled /\ (settled = Dispatched => to = Len(fed) + 1)
    BY <1>1, <1>2 DEF Reaches
  <2> QED BY <1>3, <2>1, CommitKeeps
<1>4. ASSUME NEW k \in cursor..(to - 1), lost' = lost \cup {fed[k]}, Commit(k), cursor' = k + 1,
             phase' = failing
      PROVE  /\ FilesInv' /\ ErrsInv' /\ DbInv'
             /\ cursor' \in cursor..(Len(fed) + 1) /\ db' \in Seq(Jobs \cup {NoJob})
             /\ errs' \subseteq Jobs /\ lost' \subseteq Jobs /\ errs \subseteq errs'
             /\ phase' = failing /\ lost' # {}
  <2>1. k \in cursor..(Len(fed) + 1) /\ k <= Len(fed)
    BY <1>2
  <2> QED BY <1>4, <2>1, CommitKeeps
<1> QED BY <1>1, <1>3, <1>4

LEMMA LoopTypes ==
  ASSUME LoopInv
  PROVE  /\ fed \in Seq(Jobs) /\ Len(fed) \in Nat /\ Dispatched = 1..Len(fed) /\ DOMAIN fed = 1..Len(fed)
         /\ db \in Seq(Jobs \cup {NoJob}) /\ Len(db) \in Nat /\ DOMAIN db = 1..Len(db)
         /\ next \in 1..(N + 1) /\ cursor \in Nat \ {0} /\ N \in Nat \ {0} /\ Jobs = 1..N /\ NoJob \notin Jobs
         /\ stage \in 0..2 /\ arrived \subseteq Dispatched
BY LenProperties, BulkAssumption, PoolAssumption DEF LoopInv, BulkTypeOK, Dispatched

LEMMA ArriveStep ==
  ASSUME LoopInv, NEW k \in DOMAIN fed, Arrive(k)
  PROVE  LoopInv'
<1>1. /\ k \in Dispatched /\ k \notin arrived /\ arrived' = arrived \cup {k} /\ arrived' \subseteq Dispatched
      /\ UNCHANGED <<next, fed, signal, held, again, still, stage>>
  BY LoopTypes DEF Arrive, Ripe, InFlight, Dispatched
<1>2. phase \notin Late /\ stage = 0
  BY <1>1, LoopTypes DEF LoopInv, CursorInv
<1>3. CASE phase = "aborted"
  <2>1. UNCHANGED <<phase, cursor, db, errs, lost>>
    BY <1>3 DEF Arrive
  <2>2. BulkTypeOK'
    BY <1>1, <2>1 DEF LoopInv, BulkTypeOK, Dispatched
  <2>3. FedInv' /\ FilesInv' /\ ErrsInv' /\ DbInv'
    BY <1>1, <2>1 DEF LoopInv, FedInv, FilesInv, ErrsInv, DbInv, StoredInOrder, Dispatched
  <2>4. CursorInv'
    BY <1>1, <1>2, <1>3, <2>1 DEF LoopInv, CursorInv, Dispatched, Late
  <2> QED BY <2>2, <2>3, <2>4 DEF LoopInv
<1>4. CASE phase # "aborted"
  <2> DEFINE failing == IF phase \in {"room", "drain"} THEN "rejected"
                        ELSE IF phase = "rejected" \/ k \in held THEN phase ELSE "dead"
  <2>1. FlushOrdered(arrived', phase, failing)
    BY <1>4 DEF Arrive
  <2>2. /\ FilesInv' /\ ErrsInv' /\ DbInv'
        /\ cursor' \in cursor..(Len(fed) + 1) /\ db' \in Seq(Jobs \cup {NoJob})
        /\ errs' \subseteq Jobs /\ lost' \subseteq Jobs /\ errs \subseteq errs'
        /\ \/ /\ phase' = phase /\ cursor' \notin arrived'
              /\ (arrived' = Dispatched => cursor' = Len(fed) + 1)
           \/ phase' = failing /\ lost' # {}
    <3> HIDE DEF failing
    <3> QED BY <1>1, <1>2, <2>1, FlushKeeps
  <2>3. /\ phase' = phase \/ phase' \in {"rejected", "dead"}
        /\ phase' = "room" => phase = "room" /\ cursor' \notin arrived'
              /\ (arrived' = Dispatched => cursor' = Len(fed) + 1)
    BY <2>2
  <2>4. BulkTypeOK'
    <3>1. BulkTypeOK /\ cursor' \in 1..(Len(fed) + 1)
      BY <2>2, LoopTypes DEF LoopInv
    <3>2. phase' \in {"read", "feed", "room", "drain", "drained", "tidy", "retry", "await", "abort"} \cup Over
      BY <2>3, <3>1 DEF BulkTypeOK, Over
    <3> QED BY <1>1, <2>2, <3>1, <3>2 DEF BulkTypeOK, Dispatched
  <2>5. FedInv'
    BY <1>1, <2>3 DEF LoopInv, FedInv, Dispatched, Late
  <2>6. CursorInv'
    <3>1. phase' \notin Late /\ stage' = 0
      BY <1>1, <1>2, <2>3 DEF Late
    <3>2. phase' = "room" /\ InFlight' = {} => cursor' = Len(fed') + 1
      BY <1>1, <2>3, LoopTypes DEF InFlight, Dispatched
    <3>3. /\ Len(fed') + 1 - cursor' <= Window
          /\ phase' \in {"read", "feed"} => Len(fed') + 1 - cursor' < Window
      BY <1>1, <2>2, <2>3, LoopTypes, BulkAssumption DEF LoopInv, CursorInv
    <3>4. lost' = {} => cursor' \notin arrived'
      BY <2>2
    <3> QED BY <2>3, <3>1, <3>2, <3>3, <3>4 DEF CursorInv, Late
  <2> QED BY <2>2, <2>4, <2>5, <2>6 DEF LoopInv
<1> QED BY <1>3, <1>4

LEMMA DrainedStep ==
  ASSUME LoopInv, Drained
  PROVE  LoopInv'
<1>1. /\ phase = "drain" /\ InFlight = {} /\ FlushOrdered(arrived, "drained", "rejected")
      /\ UNCHANGED <<next, fed, arrived, signal, held, again, still, stage>>
  BY DEF Drained
<1>2. stage = 0 /\ arrived = Dispatched /\ next = N + 1
  <2>1. stage = 0
    BY <1>1, LoopTypes DEF LoopInv, CursorInv
  <2>2. arrived = Dispatched
    BY <1>1, LoopTypes DEF InFlight
  <2>3. next = N + 1
    BY <1>1 DEF LoopInv, FedInv
  <2> QED BY <2>1, <2>2, <2>3
<1>3. /\ FilesInv' /\ ErrsInv' /\ DbInv'
      /\ cursor' \in cursor..(Len(fed) + 1) /\ db' \in Seq(Jobs \cup {NoJob})
      /\ errs' \subseteq Jobs /\ lost' \subseteq Jobs /\ errs \subseteq errs'
      /\ \/ phase' = "drained" /\ cursor' \notin arrived /\ cursor' = Len(fed) + 1
         \/ phase' = "rejected" /\ lost' # {}
  BY <1>1, <1>2, FlushKeeps
<1>4. BulkTypeOK'
  BY <1>1, <1>3, LoopTypes DEF LoopInv, BulkTypeOK, Over
<1>5. FedInv'
  BY <1>1, <1>2, <1>3 DEF LoopInv, FedInv, Dispatched, Late
<1>6. CursorInv'
  <2>1. Len(fed') + 1 - cursor' <= Window
    BY <1>1, <1>3, LoopTypes, BulkAssumption DEF LoopInv, CursorInv
  <2> QED BY <1>1, <1>2, <1>3, <2>1 DEF CursorInv, Dispatched, Late
<1> QED BY <1>3, <1>4, <1>5, <1>6 DEF LoopInv

-----------------------------------------------------------------------------
(* The steps that store nothing and report nothing *)
LEMMA FilesStay ==
  ASSUME LoopInv, UNCHANGED <<next, fed, cursor, db, errs, lost>>, again' \cap still' = {},
         stage' = 0 => stage = 0 /\ still' = {}
  PROVE  FilesInv' /\ ErrsInv' /\ DbInv'
<1>1. FilesInv' /\ ErrsInv'
  BY DEF LoopInv, FilesInv, ErrsInv, Dispatched
<1>2. ASSUME NEW i \in DOMAIN db, NEW k \in DOMAIN db, i < k, db[i] # NoJob, db[k] # NoJob
      PROVE  IF stage' = 0 THEN db[i] < db[k] ELSE db[i] # db[k]
  <2>1. IF stage = 0 THEN db[i] < db[k] ELSE db[i] # db[k]
    BY <1>2 DEF LoopInv, DbInv, StoredInOrder
  <2>2. db[i] \in Nat /\ db[k] \in Nat
    BY <1>2, LoopTypes, ElementOfSeq
  <2> QED BY <2>1, <2>2
<1> QED BY <1>1, <1>2 DEF LoopInv, DbInv, StoredInOrder, Dispatched

(* ... and leave the dispatch loop where it is *)
LEMMA LoopStays ==
  ASSUME LoopInv, UNCHANGED <<next, fed, arrived, cursor, db, errs, held, lost, stage>>,
         again' \subseteq errs, still' \subseteq still, again' \cap still' = {}, signal' \in BOOLEAN,
         \/ phase' = phase
         \/ phase' \in Late /\ phase \in Late /\ (phase' \in {"retry", "await"} <=> stage > 0)
         \/ phase' = "done" /\ phase \in Late
         \/ phase' \in {"abort", "aborted"} /\ phase # "aborted" /\ stage = 0
  PROVE  LoopInv'
<1>1. BulkTypeOK'
  BY DEF LoopInv, BulkTypeOK, Late, Over
<1>2. FedInv'
  BY DEF LoopInv, FedInv, Dispatched, Late
<1>3. CursorInv'
  <2>1. CursorInv /\ InFlight' = InFlight /\ Dispatched' = Dispatched /\ (stage = 0 \/ stage > 0)
    BY LoopTypes DEF LoopInv, InFlight, Dispatched
  <2>2. phase' \in Late => phase \in Late
    BY <2>1 DEF Late
  <2>3. stage > 0 => phase' \in {"retry", "await", "rejected", "done"}
    BY <2>1 DEF CursorInv, Late
  <2>4. phase' \in {"retry", "await"} => stage > 0
    BY <2>1 DEF CursorInv, Late
  <2>5. phase' \in {"room", "read", "feed"} \/ phase = "aborted" => phase' = phase
    BY <2>1 DEF Late
  <2> QED BY <2>1, <2>2, <2>3, <2>4, <2>5 DEF CursorInv
<1>4. FilesInv' /\ ErrsInv' /\ DbInv'
  BY FilesStay DEF LoopInv, ErrsInv
<1> QED BY <1>1, <1>2, <1>3, <1>4 DEF LoopInv

LEMMA AfterIs ==
  ASSUME NEW n
  PROVE  \/ n = N /\ After(n) = "drain"
         \/ n # N /\ After(n) \in {"abort", "read", "feed"}
BY DEF After

LEMMA ReadBatchStep ==
  ASSUME LoopInv, ReadBatch
  PROVE  LoopInv'
<1>1. /\ phase = "read" /\ phase' \in {"abort", "feed"}
      /\ UNCHANGED <<next, fed, arrived, cursor, db, errs, signal, held, again, still, stage, lost>>
  BY DEF ReadBatch
<1>2. BulkTypeOK' /\ FedInv'
  BY <1>1 DEF LoopInv, BulkTypeOK, FedInv, Dispatched, Late, Over
<1>3. CursorInv'
  BY <1>1, LoopTypes DEF LoopInv, CursorInv, Dispatched, Late, InFlight
<1>4. FilesInv' /\ ErrsInv' /\ DbInv'
  BY <1>1, FilesStay DEF LoopInv, ErrsInv
<1> QED BY <1>2, <1>3, <1>4 DEF LoopInv

LEMMA SkipStep ==
  ASSUME LoopInv, Skip
  PROVE  LoopInv'
<1>1. /\ phase = "feed" /\ errs' = errs \cup {next} /\ next' = next + 1 /\ phase' = After(next)
      /\ UNCHANGED <<fed, arrived, cursor, db, signal, held, again, still, stage, lost>>
  BY DEF Skip
<1>2. next \in Jobs /\ next <= N /\ stage = 0 /\ next' \in 1..(N + 1)
  BY <1>1, LoopTypes DEF LoopInv, FedInv, CursorInv
<1>3. \/ phase' = "drain" /\ next' = N + 1
      \/ phase' \in {"abort", "read", "feed"} /\ next' <= N
  BY <1>1, <1>2, AfterIs, LoopTypes
<1>4. BulkTypeOK'
  BY <1>1, <1>2, <1>3 DEF LoopInv, BulkTypeOK
<1>5. \A k \in Dispatched : fed[k] \in Nat /\ fed[k] < next
  BY LoopTypes, ElementOfSeq DEF LoopInv, FedInv
<1>6. FedInv'
  BY <1>1, <1>3, <1>5, LoopTypes DEF LoopInv, FedInv, Dispatched, Late
<1>7. CursorInv'
  BY <1>1, <1>2, <1>3, LoopTypes DEF LoopInv, CursorInv, Dispatched, Late, InFlight
<1>8. FilesInv'
  <2>1. ASSUME NEW f \in Jobs, f < next' PROVE f < next \/ f = next
    BY <1>1, <2>1, LoopTypes
  <2> QED BY <1>1, <2>1 DEF LoopInv, FilesInv, Dispatched
<1>9. \A i \in DOMAIN db : db[i] # NoJob => db[i] \in Nat /\ db[i] < next
  <2> TAKE i \in DOMAIN db
  <2>1. db[i] \in Jobs \cup {NoJob}
    BY LoopTypes, ElementOfSeq
  <2> QED BY <2>1, LoopTypes DEF LoopInv, DbInv
<1>10. ErrsInv'
  <2>1. ASSUME NEW f \in errs'
        PROVE  /\ f < next' /\ \A k \in Dispatched : k >= cursor => fed[k] # f
               /\ \A i \in DOMAIN db : db[i] # f
    <3>1. CASE f \in errs
      <4>1. f \in Jobs /\ f < next
        BY <3>1 DEF LoopInv, ErrsInv, BulkTypeOK
      <4>2. f < next'
        BY <1>1, <4>1, LoopTypes
      <4> QED BY <3>1, <4>2 DEF LoopInv, ErrsInv
    <3>2. CASE f = next
      BY <1>1, <1>2, <1>5, <1>9, <3>2, LoopTypes
    <3> QED BY <1>1, <2>1, <3>1, <3>2
  <2> QED BY <1>1, <2>1 DEF LoopInv, ErrsInv, Dispatched
<1>11. DbInv'
  <2>1. \A i \in DOMAIN db : db[i] # NoJob => db[i] < next'
    BY <1>1, <1>9, LoopTypes
  <2> QED BY <1>1, <2>1 DEF LoopInv, DbInv, StoredInOrder, Dispatched
<1> QED BY <1>4, <1>6, <1>7, <1>8, <1>10, <1>11 DEF LoopInv

LEMMA FeedStep ==
  ASSUME LoopInv, Feed
  PROVE  LoopInv'
<1>1. /\ phase = "feed" /\ fed' = Append(fed, next) /\ next' = next + 1
      /\ IF Full(fed') THEN phase' = "room" /\ held' = held \cup (DOMAIN fed' \ arrived)
         ELSE phase' = After(next) /\ held' = held
      /\ UNCHANGED <<arrived, cursor, db, errs, signal, again, still, stage, lost>>
  BY DEF Feed
<1>2. next \in Jobs /\ next <= N /\ stage = 0 /\ next' \in 1..(N + 1) /\ next \in Nat /\ next' = next + 1
  BY <1>1, LoopTypes DEF LoopInv, FedInv, CursorInv
<1>3. /\ fed' \in Seq(Jobs) /\ Len(fed') = Len(fed) + 1 /\ DOMAIN fed' = 1..(Len(fed) + 1)
      /\ fed'[Len(fed) + 1] = next /\ \A k \in Dispatched : fed'[k] = fed[k]
  BY <1>1, <1>2, LoopTypes
<1>4. /\ Dispatched' = Dispatched \cup {Len(fed) + 1} /\ Len(fed) + 1 \notin Dispatched
      /\ cursor <= Len(fed) + 1
  BY <1>3, LoopTypes DEF Dispatched, LoopInv, BulkTypeOK
<1>5. \/ phase' = "room"
      \/ ~Full(fed') /\ phase' = "drain" /\ next' = N + 1
      \/ ~Full(fed') /\ phase' \in {"abort", "read", "feed"} /\ next' <= N
  BY <1>1, <1>2, AfterIs, LoopTypes
<1>6. BulkTypeOK'
  <2>1. held' \subseteq DOMAIN fed' /\ arrived' \subseteq DOMAIN fed' /\ cursor' \in 1..(Len(fed') + 1)
    BY <1>1, <1>3, LoopTypes DEF LoopInv, BulkTypeOK
  <2> QED BY <1>1, <1>2, <1>3, <1>5, <2>1 DEF LoopInv, BulkTypeOK
<1>7. \A k \in Dispatched : fed[k] \in Nat /\ fed[k] < next
  BY LoopTypes, ElementOfSeq DEF LoopInv, FedInv
<1>8. FedInv'
  <2>1. ASSUME NEW k \in Dispatched' PROVE fed'[k] < next'
    <3>1. CASE k \in Dispatched
      <4>1. fed'[k] \in Nat /\ fed'[k] < next
        BY <1>3, <1>7, <3>1
      <4> QED BY <1>2, <4>1
    <3>2. CASE k = Len(fed) + 1
      BY <1>1, <1>2, <1>3, <3>2
    <3> QED BY <1>4, <3>1, <3>2
  <2>2. ASSUME NEW i \in Dispatched', NEW k \in Dispatched', i < k PROVE fed'[i] < fed'[k]
    <3>1. i \in Dispatched
      BY <1>4, <2>2, LoopTypes
    <3>2. CASE k \in Dispatched
      BY <1>3, <2>2, <3>1, <3>2 DEF LoopInv, FedInv
    <3>3. CASE k = Len(fed) + 1
      BY <1>3, <1>7, <3>1, <3>3
    <3> QED BY <1>4, <3>2, <3>3
  <2> QED BY <1>5, <2>1, <2>2 DEF FedInv, Late
<1>9. CursorInv'
  <2>1. Len(fed) + 1 \in InFlight'
    BY <1>1, <1>3, <1>4, LoopTypes DEF InFlight
  <2>2. /\ Len(fed') + 1 - cursor' <= Window
        /\ phase' \in {"read", "feed"} => Len(fed') + 1 - cursor' < Window
    BY <1>1, <1>3, <1>5, LoopTypes, BulkAssumption DEF LoopInv, CursorInv, Full
  <2>3. lost' = {} => cursor' \notin arrived'
    BY <1>1 DEF LoopInv, CursorInv
  <2> QED BY <1>1, <1>2, <1>5, <2>1, <2>2, <2>3 DEF CursorInv, Late
<1>10. FilesInv'
  <2> SUFFICES ASSUME NEW f \in Jobs, f < next'
               PROVE  \/ f \in errs \/ f \in lost \/ \E i \in DOMAIN db : db[i] = f
                      \/ \E k \in Dispatched' : k >= cursor /\ fed'[k] = f
    BY <1>1 DEF FilesInv
  <2>1. CASE f = next
    BY <1>3, <1>4, <2>1
  <2>2. CASE f < next
    BY <1>3, <1>4, <2>2 DEF LoopInv, FilesInv
  <2>3. f \in Nat /\ (f < next \/ f = next)
    BY <1>1, <1>2, LoopTypes
  <2> QED BY <2>1, <2>2, <2>3
<1>11. ErrsInv'
  <2>1. ASSUME NEW f \in errs
        PROVE  /\ f < next' /\ \A k \in Dispatched' : k >= cursor => fed'[k] # f
               /\ \A i \in DOMAIN db : db[i] # f
    <3>1. f < next /\ f \in Nat
      BY LoopTypes DEF LoopInv, ErrsInv, BulkTypeOK
    <3>2. f < next' /\ f # next
      BY <1>1, <1>2, <3>1
    <3> QED BY <1>3, <1>4, <3>2 DEF LoopInv, ErrsInv
  <2> QED BY <1>1, <2>1 DEF LoopInv, ErrsInv
<1>12. DbInv'
  <2>1. ASSUME NEW i \in DOMAIN db, db[i] # NoJob
        PROVE  db[i] < next' /\ \A k \in Dispatched' : k >= cursor => db[i] < fed'[k]
    <3>1. db[i] < next /\ db[i] \in Nat /\ \A k \in Dispatched : k >= cursor => db[i] < fed[k]
      BY <2>1, LoopTypes, ElementOfSeq DEF LoopInv, DbInv
    <3>2. db[i] < next'
      BY <1>1, <1>2, <3>1
    <3> QED BY <1>3, <1>4, <3>1, <3>2
  <2> QED BY <1>1, <2>1 DEF LoopInv, DbInv, StoredInOrder
<1> QED BY <1>6, <1>8, <1>9, <1>10, <1>11, <1>12 DEF LoopInv

LEMMA RoomStep ==
  ASSUME LoopInv, Room
  PROVE  LoopInv'
<1>1. /\ phase = "room" /\ (Full(fed) => InFlight = {}) /\ phase' = After(next - 1)
      /\ UNCHANGED <<next, fed, arrived, cursor, db, errs, signal, held, again, still, stage, lost>>
  BY DEF Room
<1>2. \/ phase' = "drain" /\ next = N + 1
      \/ phase' \in {"abort", "read", "feed"} /\ next <= N
  <2>1. next \in Nat /\ N \in Nat /\ next <= N + 1
    BY LoopTypes
  <2>2. IF next - 1 = N THEN next = N + 1 ELSE next <= N
    BY <2>1
  <2> QED BY <1>1, <2>2, AfterIs
<1>3. stage = 0
  BY <1>1, LoopTypes DEF LoopInv, CursorInv
<1>4. Len(fed) + 1 - cursor < Window
  <2>1. CASE Full(fed)
    BY <1>1, <2>1, LoopTypes, BulkAssumption DEF LoopInv, CursorInv
  <2>2. CASE ~Full(fed)
    BY <2>2, LoopTypes, BulkAssumption DEF Full
  <2> QED BY <2>1, <2>2
<1>5. BulkTypeOK' /\ FedInv'
  BY <1>1, <1>2 DEF LoopInv, BulkTypeOK, FedInv, Dispatched, Late, Over
<1>6. CursorInv'
  BY <1>1, <1>2, <1>3, <1>4, LoopTypes DEF LoopInv, CursorInv, Dispatched, Late, InFlight
<1>7. FilesInv' /\ ErrsInv' /\ DbInv'
  BY <1>1, FilesStay DEF LoopInv, ErrsInv
<1> QED BY <1>5, <1>6, <1>7 DEF LoopInv

LEMMA RetryBeginStep ==
  ASSUME LoopInv, RetryBegin
  PROVE  LoopInv'
<1>1. /\ phase = "tidy" /\ phase' = "retry" /\ again' = Retryable /\ stage' = 1
      /\ UNCHANGED <<next, fed, arrived, cursor, db, errs, signal, held, still, lost>>
  BY DEF RetryBegin
<1>2. stage = 0 /\ still = {} /\ arrived = Dispatched /\ cursor = Len(fed) + 1
  BY <1>1, LoopTypes DEF LoopInv, CursorInv, ErrsInv, Late
<1>3. BulkTypeOK' /\ FedInv'
  BY <1>1 DEF LoopInv, BulkTypeOK, FedInv, Dispatched, Late, Over, Retryable
<1>4. CursorInv'
  BY <1>1, <1>2, LoopTypes DEF LoopInv, CursorInv, Dispatched, Late
<1>5. FilesInv' /\ ErrsInv' /\ DbInv'
  BY <1>1, <1>2, FilesStay
<1> QED BY <1>3, <1>4, <1>5 DEF LoopInv

LEMMA RetryStrippedStep ==
  ASSUME LoopInv, RetryStripped
  PROVE  LoopInv'
<1>1. /\ phase = "retry" /\ again' = still /\ still' = {} /\ stage' = 2
      /\ UNCHANGED <<phase, next, fed, arrived, cursor, db, errs, signal, held, lost>>
  BY DEF RetryStripped
<1>2. arrived = Dispatched /\ cursor = Len(fed) + 1
  BY <1>1 DEF LoopInv, CursorInv, Late
<1>3. BulkTypeOK' /\ FedInv'
  BY <1>1 DEF LoopInv, BulkTypeOK, FedInv, Dispatched, Late, Over
<1>4. CursorInv'
  BY <1>1, <1>2, LoopTypes DEF LoopInv, CursorInv, Dispatched, Late
<1>5. FilesInv' /\ ErrsInv' /\ DbInv'
  BY <1>1, FilesStay
<1> QED BY <1>3, <1>4, <1>5 DEF LoopInv

(* A retried file comes back. *)
LEMMA RetryBackStep ==
  ASSUME LoopInv, RetryBack
  PROVE  LoopInv'
<1>1. PICK f \in again :
        /\ again' = again \ {f}
        /\ \/ /\ phase' = "retry" /\ UNCHANGED <<still, lost>>
              /\ db' = Append(db, f) /\ errs' = errs \ {f}
           \/ /\ phase' = "rejected" /\ lost' = lost \cup {f}
              /\ UNCHANGED <<db, errs, still>>
           \/ /\ phase' = "retry" /\ UNCHANGED <<db, errs, lost>>
              /\ still' \in {still, still \cup {f}}
  BY DEF RetryBack
<1>2. phase = "await" /\ UNCHANGED <<next, fed, arrived, cursor, signal, held, stage>>
  BY DEF RetryBack
<1>3. /\ f \in errs /\ f \in Jobs /\ f \notin still /\ f # NoJob /\ f < next
      /\ again \subseteq errs /\ still \subseteq errs /\ again \cap still = {}
  BY LoopTypes DEF LoopInv, BulkTypeOK, ErrsInv
<1>4. stage > 0 /\ arrived = Dispatched /\ cursor = Len(fed) + 1 /\ stage # 0
  BY <1>2, LoopTypes DEF LoopInv, CursorInv, Late
<1>5. \A k \in Dispatched : ~(k >= cursor)
  BY <1>4, LoopTypes
<1>6. FedInv'
  BY <1>1, <1>2 DEF LoopInv, FedInv, Dispatched, Late
<1>7. CursorInv'
  <2>1. lost' = {} => lost = {}
    BY <1>1
  <2> QED BY <1>1, <1>2, <1>4, <2>1, LoopTypes DEF LoopInv, CursorInv, Dispatched, Late
<1>8. CASE db' = Append(db, f) /\ errs' = errs \ {f} /\ still' = still /\ lost' = lost
  <2>1. /\ db' \in Seq(Jobs \cup {NoJob}) /\ DOMAIN db' = 1..(Len(db) + 1)
        /\ db'[Len(db) + 1] = f /\ \A i \in DOMAIN db : i \in DOMAIN db' /\ db'[i] = db[i]
    BY <1>3, <1>8, LoopTypes
  <2>2. \A i \in DOMAIN db' : i \in DOMAIN db \/ i = Len(db) + 1
    BY <2>1, LoopTypes
  <2>3. BulkTypeOK'
    BY <1>1, <1>2, <1>3, <1>8, <2>1 DEF LoopInv, BulkTypeOK, Over
  <2>4. FilesInv'
    <3> SUFFICES ASSUME NEW g \in Jobs, g < next
                 PROVE  \/ g \in errs' \/ g \in lost' \/ \E i \in DOMAIN db' : db'[i] = g
      BY <1>2 DEF FilesInv
    <3>1. CASE g = f
      BY <2>1, <3>1, LoopTypes
    <3>2. CASE g # f
      BY <1>5, <1>8, <2>1, <3>2 DEF LoopInv, FilesInv
    <3> QED BY <3>1, <3>2
  <2>5. ErrsInv'
    BY <1>1, <1>2, <1>3, <1>4, <1>8, <2>1, <2>2 DEF LoopInv, ErrsInv, Dispatched
  <2>6. DbInv'
    <3>1. \A i \in DOMAIN db' : db'[i] # NoJob => db'[i] < next
      BY <1>3, <2>1, <2>2 DEF LoopInv, DbInv
    <3>2. ASSUME NEW i \in DOMAIN db', NEW k \in DOMAIN db', i < k, db'[i] # NoJob, db'[k] # NoJob
          PROVE  db'[i] # db'[k]
      <4>1. i \in DOMAIN db
        BY <2>1, <2>2, <3>2, LoopTypes
      <4>2. CASE k \in DOMAIN db
        BY <1>4, <2>1, <3>2, <4>1, <4>2 DEF LoopInv, DbInv, StoredInOrder
      <4>3. CASE k = Len(db) + 1
        BY <1>3, <2>1, <4>1, <4>3 DEF LoopInv, ErrsInv
      <4> QED BY <2>2, <4>2, <4>3
    <3> QED BY <1>2, <1>4, <1>5, <3>1, <3>2 DEF DbInv, StoredInOrder, Dispatched
  <2> QED BY <1>6, <1>7, <2>3, <2>4, <2>5, <2>6 DEF LoopInv
<1>9. CASE db' = db /\ errs' = errs /\ still' \in {still, still \cup {f}} /\ lost' \in {lost, lost \cup {f}}
  <2>1. again' \subseteq errs /\ still' \subseteq errs /\ again' \cap still' = {} /\ lost' \subseteq Jobs
    BY <1>1, <1>3, <1>9 DEF LoopInv, BulkTypeOK
  <2>2. BulkTypeOK'
    BY <1>1, <1>2, <1>9, <2>1 DEF LoopInv, BulkTypeOK, Over
  <2>3. FilesInv'
    BY <1>2, <1>9 DEF LoopInv, FilesInv, Dispatched
  <2>4. ErrsInv' /\ DbInv'
    BY <1>2, <1>4, <1>9, <2>1 DEF LoopInv, ErrsInv, DbInv, StoredInOrder, Dispatched
  <2> QED BY <1>6, <1>7, <2>2, <2>3, <2>4 DEF LoopInv
<1> QED BY <1>1, <1>8, <1>9

LEMMA LoopStep == LoopInv /\ [Next]_vars => LoopInv'
<1> SUFFICES ASSUME LoopInv, [Next]_vars PROVE LoopInv'
  OBVIOUS
<1> USE DEF LoopInv, CursorInv, ErrsInv, BulkTypeOK, Late
<1>1. ASSUME Checked PROVE LoopInv'
  <2>1. stage = 0
    BY <1>1, LoopTypes DEF Checked
  <2> QED BY <1>1, <2>1, LoopStays DEF Checked
<1>2. ASSUME Abort PROVE LoopInv'
  <2>1. stage = 0
    BY <1>2, LoopTypes DEF Abort
  <2> QED BY <1>2, <2>1, LoopStays DEF Abort
<1>3. ASSUME RetryStop PROVE LoopInv'
  BY <1>3, LoopStays DEF RetryStop
<1>4. ASSUME RetryUnreadable PROVE LoopInv'
  BY <1>4, LoopStays DEF RetryUnreadable
<1>5. ASSUME RetryAsk PROVE LoopInv'
  BY <1>5, LoopStays DEF RetryAsk
<1>6. ASSUME Finish PROVE LoopInv'
  BY <1>6, LoopStays DEF Finish
<1>7. ASSUME Signal PROVE LoopInv'
  BY <1>7, LoopStays DEF Signal
<1>8. ASSUME UNCHANGED loop PROVE LoopInv'
  BY <1>8, LoopStays DEF loop
<1>9. ASSUME NEW w \in Threads, Event(w) PROVE LoopInv'
  BY <1>8, <1>9 DEF Event
<1>10. ASSUME UNCHANGED vars PROVE LoopInv'
  BY <1>8, <1>10 DEF vars
<1> QED BY <1>1, <1>2, <1>3, <1>4, <1>5, <1>6, <1>7, <1>9, <1>10, ArriveStep, ReadBatchStep, SkipStep,
           FeedStep, RoomStep, DrainedStep, RetryBeginStep, RetryStrippedStep, RetryBackStep
        DEF Next, Step

LEMMA LoopInit == Init => LoopInv
<1> SUFFICES ASSUME Init PROVE LoopInv
  OBVIOUS
<1>1. /\ phase = "read" /\ next = 1 /\ cursor = 1 /\ stage = 0 /\ signal = FALSE
      /\ arrived = {} /\ held = {} /\ errs = {} /\ again = {} /\ still = {} /\ lost = {}
  BY DEF Init
<1>2. /\ fed \in Seq(Jobs) /\ db \in Seq(Jobs \cup {NoJob}) /\ Len(fed) = 0
      /\ DOMAIN fed = {} /\ DOMAIN db = {} /\ Dispatched = {}
  BY DEF Init, Dispatched
<1>3. N \in Nat /\ 1 <= N /\ Jobs = 1..N /\ Window \in Nat /\ 0 < Window
  BY BulkAssumption
<1>4. BulkTypeOK
  <2>1. next \in 1..(N + 1) /\ cursor \in 1..(Len(fed) + 1) /\ stage \in 0..2
    BY <1>1, <1>2, <1>3
  <2> QED BY <1>1, <1>2, <2>1 DEF BulkTypeOK
<1>5. FedInv
  <2>1. phase \notin Late \cup {"drain"} /\ next <= N
    BY <1>1, <1>3 DEF Late
  <2> QED BY <1>2, <2>1 DEF FedInv
<1>6. CursorInv
  <2>1. Len(fed) + 1 = cursor /\ Len(fed) + 1 - cursor = 0
    BY <1>1, <1>2
  <2> QED BY <1>1, <1>3, <2>1 DEF CursorInv, Late
<1>7. FilesInv /\ ErrsInv /\ DbInv
  BY <1>1, <1>2, <1>3 DEF FilesInv, ErrsInv, DbInv, StoredInOrder
<1> QED BY <1>4, <1>5, <1>6, <1>7 DEF LoopInv

(* To the pool indexAll() is a client: its steps are calls of the pool or    *)
(* leave it alone.                                                           *)
LEMMA LoopCallsThePool == LoopInv /\ [Next]_vars => [PoolNext]_pool
<1> SUFFICES ASSUME LoopInv, [Next]_vars PROVE [PoolNext]_pool
  OBVIOUS
<1>1. ASSUME Feed PROVE PoolNext
  <2>1. next \in Jobs /\ Request(next)
    BY <1>1, LoopTypes DEF Feed, LoopInv, FedInv
  <2> QED BY <2>1 DEF PoolNext
<1>2. ASSUME RetryAsk PROVE PoolNext
  <2>1. \E f \in Jobs : Request(f)
    BY <1>2 DEF RetryAsk, LoopInv, BulkTypeOK
  <2> QED BY <2>1 DEF PoolNext
<1>3. ASSUME Abort \/ Finish \/ RetryBegin \/ RetryStripped PROVE PoolNext
  BY <1>3 DEF Abort, Finish, RetryBegin, RetryStripped, PoolNext
<1>4. ASSUME NEW w \in Threads, Event(w) PROVE PoolNext
  BY <1>4 DEF Event, PoolNext
<1>5. ASSUME \/ \E k \in DOMAIN fed : Arrive(k)
             \/ ReadBatch \/ Skip \/ Room \/ Drained \/ Checked
             \/ RetryStop \/ RetryUnreadable \/ RetryBack \/ Signal
      PROVE  UNCHANGED pool
  BY <1>5 DEF Arrive, ReadBatch, Skip, Room, Drained, Checked, RetryStop, RetryUnreadable, RetryBack, Signal
<1>6. ASSUME UNCHANGED vars PROVE UNCHANGED pool
  BY <1>6 DEF vars
<1> QED BY <1>1, <1>2, <1>3, <1>4, <1>5, <1>6 DEF Next, Step

BulkInv == LoopInv /\ PoolInv /\ Grows

LEMMA BulkInvariance == Spec => []BulkInv
<1>1. Init => BulkInv
  BY LoopInit, InitHolds, GrowthInit DEF Init, BulkInv
<1>2. BulkInv /\ [Next]_vars => BulkInv'
  BY LoopStep, LoopCallsThePool, StepHolds, GrowthStep DEF BulkInv
<1> QED BY <1>1, <1>2, PTL DEF Spec

(* Whatever indexAll() asks of it, and whenever it aborts or retries, the    *)
(* pool leaks no worker, forgets no promise and leaves no work to nobody.    *)
THEOREM PoolServesTheIndex == Spec => []PoolIsSound
<1>1. BulkInv => PoolIsSound
  BY DEF BulkInv, PoolInv, PoolIsSound
<1> QED BY <1>1, BulkInvariance, PTL

(* indexAll(): files enter the database in their order and once, results     *)
(* ahead of the commit stay within the window, the pool is as large as its    *)
(* queue asks, and an index that returns has stored or reported every file,   *)
(* but those whose store threw.                                              *)
THEOREM FilesStayAccounted == Spec => []FilesAccounted
<1>1. BulkInv => FilesAccounted
  <2> SUFFICES ASSUME BulkInv PROVE FilesAccounted
    OBVIOUS
  <2>1. BulkTypeOK /\ StoredInOrder /\ GrowthIsDone
    BY DEF BulkInv, LoopInv, DbInv, Grows
  <2>2. WindowIsBounded
    <3>1. Len(fed) + 1 - cursor <= Window
      BY DEF BulkInv, LoopInv, CursorInv
    <3>2. ASSUME lost = {}, phase = "room", Full(fed) PROVE cursor \in InFlight
      <4>1. cursor \in Dispatched
        BY <3>2, LoopTypes, BulkAssumption DEF Full, BulkInv, LoopInv, BulkTypeOK
      <4>2. cursor \notin arrived
        BY <3>2 DEF BulkInv, LoopInv, CursorInv
      <4> QED BY <4>1, <4>2 DEF InFlight, Dispatched
    <3> QED BY <3>1, <3>2 DEF WindowIsBounded
  <2>3. EveryFileAccounted
    <3> SUFFICES ASSUME phase = "done", NEW f \in Jobs
                 PROVE  f \in lost \/ f \in errs \/ \E k \in DOMAIN db : db[k] = f
      BY DEF EveryFileAccounted
    <3>1. f < next /\ \A k \in Dispatched : ~(k >= cursor)
      BY LoopTypes DEF BulkInv, LoopInv, FedInv, CursorInv, Late
    <3> QED BY <3>1 DEF BulkInv, LoopInv, FilesInv
  <2> QED BY <2>1, <2>2, <2>3 DEF FilesAccounted
<1> QED BY <1>1, BulkInvariance, PTL

(* flushOrdered(): once indexAll() has given up or returned, nothing more is  *)
(* stored or reported, though parses it started still settle.                *)
THEOREM NothingAfterTheEnd == Spec => AbortIsFinal
<1>1. BulkInv /\ [Next]_vars => [(phase \in {"aborted", "done"}) => db' = db /\ errs' = errs]_vars
  <2> SUFFICES ASSUME BulkInv, Next, phase \in {"aborted", "done"} PROVE db' = db /\ errs' = errs
    BY DEF vars
  <2>1. ASSUME NEW k \in DOMAIN fed, Arrive(k) PROVE db' = db /\ errs' = errs
    <3>1. phase # "done"
      BY <2>1 DEF Arrive, Ripe, InFlight, BulkInv, LoopInv, CursorInv, Dispatched, Late
    <3> QED BY <2>1, <3>1 DEF Arrive
  <2>2. ASSUME Abort \/ Finish \/ Signal PROVE db' = db /\ errs' = errs
    BY <2>2 DEF Abort, Finish, Signal
  <2>3. ASSUME NEW w \in Threads, Event(w) PROVE db' = db /\ errs' = errs
    BY <2>3 DEF Event, loop
  <2>4. ~(ReadBatch \/ Skip \/ Feed \/ Room \/ Drained \/ Checked \/ RetryBegin \/ RetryStripped
          \/ RetryStop \/ RetryUnreadable \/ RetryAsk \/ RetryBack)
    BY DEF ReadBatch, Skip, Feed, Room, Drained, Checked, RetryBegin, RetryStripped,
           RetryStop, RetryUnreadable, RetryAsk, RetryBack
  <2> QED BY <2>1, <2>2, <2>3, <2>4 DEF Next, Step
<1> QED BY <1>1, BulkInvariance, PTL DEF Spec, AbortIsFinal
=============================================================================
