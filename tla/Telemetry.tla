------------------------------ MODULE Telemetry ------------------------------
(***************************************************************************)
(* The queue file of src/telemetry/index.ts, shared by every process of a   *)
(* user: lines are kept in memory, appended to the queue, claimed for        *)
(* sending by a rename, and what did not go out is appended again.  Calls of *)
(* the file system by different processes interleave.                        *)
(*                                                                         *)
(* A line is a usage count or an event; files are bags of lines, in which    *)
(* two stands for many.                                                      *)
(***************************************************************************)
EXTENDS Naturals

CONSTANTS
  Procs,       \* processes, each with a PID of its own
  Lines,       \* what they may record, each once: usage counts of a day
  Events,      \* and, of the lines, the events
  MaxHours     \* bound: hours that pass

ASSUME TelemetryAssumption == Events \subseteq Lines /\ MaxHours \in Nat

VARIABLES
  (* the disk *)
  queue, queueOld,   \* the queue, and whether it was not written for an hour
  claim, claimOld,   \* telemetry-queue.sending.PID, by process
  config,            \* the choice in telemetry.json
  (* the processes *)
  pc,                \* "loop": on the event loop; else the next call of its code
  seen,              \* configCache
  mem,               \* counts and events
  then,              \* where appendLines() returns to
  pay, held,         \* the lines in hand, and what was read from a file
  names, at,         \* the claims yet to look at, and the one that is stale
  air,               \* the flush that awaits send(): the lines that are sent,
                     \* kept for another day, and already there
  (* the endpoint, and history *)
  sent,              \* how often the endpoint got each line
  hours,             \* those that have passed
  born, today,       \* lines recorded, and those that are counts of today
  overruled,         \* whether the default replaced the choice that was made
  twice,             \* lines that a race, a crash or a lost answer may send again
  moved,             \* who is about to remove a claim it read, but not this one
  loose,             \* lines in the air whose claim another flush removed
  gone               \* lines that were dropped

disk  == <<queue, queueOld, claim, claimOld>>
hand  == <<then, pay, held, names, at>>
story == <<hours, born, today, overruled>>
fate  == <<twice, moved, loose, gone>>
vars  == <<disk, config, pc, seen, mem, hand, air, story, sent, fate>>

Bag   == [Lines -> 0 .. 2]
Empty == [l \in Lines |-> 0]
Plus(a, b) == [l \in Lines |-> IF a[l] + b[l] > 2 THEN 2 ELSE a[l] + b[l]]
Once(S)    == [l \in Lines |-> IF l \in S THEN 1 ELSE 0]
In(b)      == {l \in Lines : b[l] > 0}
Only(b, S) == [l \in Lines |-> IF l \in S THEN b[l] ELSE 0]

Grounded  == [send |-> Empty, keep |-> Empty, done |-> {}]
Waits(p)  == air[p].send # Empty
Live(p)   == pc[p] # "dead"
Accompanied(p) == \E q \in Procs \ {p} : Live(q)
Flying(p) == In(air[p].send) \cup In(air[p].keep)

TypeOK == /\ queue \in Bag /\ claim \in [Procs -> Bag]
          /\ queueOld \in BOOLEAN /\ claimOld \in [Procs -> BOOLEAN]
          /\ config \in {"none", "on", "off"} /\ seen \in [Procs -> {"unread", "none", "on", "off"}]
          /\ mem \in [Procs -> SUBSET Lines] /\ pay \in [Procs -> Bag] /\ held \in [Procs -> Bag]
          /\ air \in [Procs -> [send : Bag, keep : Bag, done : SUBSET Lines]]

Init == /\ queue = Empty /\ queueOld = FALSE /\ config = "none"
        /\ claim = [p \in Procs |-> Empty] /\ claimOld = [p \in Procs |-> FALSE]
        /\ pc = [p \in Procs |-> "loop"] /\ seen = [p \in Procs |-> "unread"]
        /\ mem = [p \in Procs |-> {}] /\ then = [p \in Procs |-> "loop"]
        /\ pay = [p \in Procs |-> Empty] /\ held = [p \in Procs |-> Empty]
        /\ names = [p \in Procs |-> {}] /\ at = [p \in Procs |-> p]
        /\ air = [p \in Procs |-> Grounded]
        /\ hours = 0 /\ born = {} /\ today = {} /\ overruled = FALSE /\ sent = Empty
        /\ twice = {} /\ moved = {} /\ loose = {} /\ gone = {}

(* isEnabled(), which reads the file once; without a choice it is on *)
Enabled(p) == (IF seen[p] = "unread" THEN config ELSE seen[p]) # "off"
Asks(p)    == seen' = [seen EXCEPT ![p] = IF @ = "unread" THEN config ELSE @]
Forgets(p) == seen' = [seen EXCEPT ![p] = "unread"]     \* with the process

Goto(p, l) == pc' = [pc EXCEPT ![p] = l]

(* appendLines(b), and where it returns to *)
Appends(p, b, to) == /\ Goto(p, "read")
                     /\ then' = [then EXCEPT ![p] = to] /\ pay' = [pay EXCEPT ![p] = b]

(* recoverStaleClaims() lists the directory *)
Lists(p) == names' = [names EXCEPT ![p] = {q \in Procs : claim[q] # Empty}]

(* The end of a process: of what its flushes sent nobody hears again. *)
EndOf(p) == /\ mem' = [mem EXCEPT ![p] = {}] /\ air' = [air EXCEPT ![p] = Grounded]
            /\ twice' = twice \cup air[p].done
                              \cup (IF then[p] = "claimed" THEN In(claim[p]) ELSE {})

-----------------------------------------------------------------------------
(* recordUsage(), recordLifecycle() *)
Record(p, l) == /\ pc[p] = "loop" /\ l \notin born /\ Enabled(p) /\ Asks(p)
                /\ born' = born \cup {l} /\ today' = today \cup ({l} \ Events) /\ UNCHANGED <<hours, overruled>>
                /\ mem' = [mem EXCEPT ![p] = @ \cup {l}]
                /\ UNCHANGED <<disk, config, pc, hand, air, sent, fate>>

(* flushNow() up to its first call of the file system *)
FlushBegins(p) ==
  /\ pc[p] = "loop" /\ ~Waits(p) /\ Enabled(p) /\ Asks(p)
  /\ mem' = [mem EXCEPT ![p] = {}]
  /\ IF mem[p] = {}
     THEN Goto(p, "scan") /\ Lists(p) /\ UNCHANGED <<then, pay>>
     ELSE Appends(p, Once(mem[p]), "scan") /\ UNCHANGED names
  /\ UNCHANGED <<disk, config, held, at, air, story, sent, fate>>

(* Mutant: an exit does not ask whether telemetry is on. *)
ExitsUnasked(p) == /\ pc[p] = "loop" /\ Asks(p) /\ EndOf(p)
                   /\ IF mem[p] # {} THEN Appends(p, Once(mem[p]), "dead")
                                     ELSE Goto(p, "dead") /\ UNCHANGED <<then, pay>>
                   /\ gone' = gone \cup (Flying(p) \cap loose)
                   /\ UNCHANGED <<disk, config, held, names, at, story, sent, moved, loose>>

(* process.exit(): persistSync() asks again.  Bound, here and in Dies: one      *)
(* process stays, as nothing happens after the last.                         *)
Exits(p) == /\ pc[p] = "loop" /\ Accompanied(p) /\ EndOf(p)
            /\ IF mem[p] # {} /\ Enabled(p)
               THEN Appends(p, Once(mem[p]), "dead") /\ Asks(p)
               ELSE Goto(p, "dead") /\ Forgets(p) /\ UNCHANGED <<then, pay>>
            /\ gone' = gone \cup (Flying(p) \cap loose) \cup (IF Enabled(p) THEN {} ELSE mem[p])
            /\ UNCHANGED <<disk, config, held, names, at, story, sent, moved, loose>>

(* A kill or a power cut, at any call: what was in memory alone is gone; what *)
(* is claimed and also sent, or back in the queue, may go out once more.  The  *)
(* file that is being written may be left empty.                             *)
Dies(p) ==
  \E torn \in {FALSE, pc[p] = "write"} :
    LET inHand  == IF pc[p] = "merge" THEN In(held[p]) ELSE In(pay[p])
        claimed == Flying(p) \cup (IF then[p] = "claimed" THEN In(pay[p]) ELSE {})
    IN /\ Live(p) /\ Accompanied(p) /\ Goto(p, "dead") /\ EndOf(p)
       /\ IF torn THEN queue' = Empty /\ queueOld' = FALSE ELSE UNCHANGED <<queue, queueOld>>
       /\ gone' = gone \cup mem[p] \cup (claimed \cap loose) \cup (inHand \ claimed)
                      \cup (IF torn THEN In(queue) ELSE {})
       /\ then' = [then EXCEPT ![p] = "loop"] /\ at' = [at EXCEPT ![p] = p]
       /\ pay' = [pay EXCEPT ![p] = Empty] /\ held' = [held EXCEPT ![p] = Empty]
       /\ names' = [names EXCEPT ![p] = {}] /\ Forgets(p)
       /\ moved' = moved \ {p}
       /\ UNCHANGED <<claim, claimOld, config, story, sent, loose>>

-----------------------------------------------------------------------------
(* appendLines(): the queue is read, and written with the new lines.  What    *)
(* another process did in between is undone.                                 *)
AppendReads(p) == /\ pc[p] = "read" /\ Goto(p, "write")
                  /\ held' = [held EXCEPT ![p] = queue]
                  /\ UNCHANGED <<disk, config, seen, mem, then, pay, names, at, air, story, sent, fate>>

AppendWrites(p) ==
  /\ pc[p] = "write"
  /\ queue' = Plus(held[p], pay[p]) /\ queueOld' = FALSE
  /\ twice' = twice \cup {l \in Lines : held[p][l] > queue[l]}
  /\ gone' = gone \cup {l \in Lines : held[p][l] < queue[l]}
  /\ Goto(p, IF then[p] = "claimed" THEN "remove" ELSE then[p])
  /\ IF then[p] = "scan" THEN Lists(p) ELSE UNCHANGED names
  /\ IF then[p] = "dead" THEN Forgets(p) ELSE UNCHANGED seen
  /\ then' = [then EXCEPT ![p] = IF @ = "claimed" THEN @ ELSE "loop"]
  /\ pay' = [pay EXCEPT ![p] = Empty] /\ held' = [held EXCEPT ![p] = Empty]
  /\ UNCHANGED <<claim, claimOld, config, mem, at, air, story, sent, moved, loose>>

(* Mutant: the age of a claim is not asked for. *)
LooksAtYoung(p) ==
  /\ pc[p] = "scan"
  /\ \E q \in names[p] :
       /\ names' = [names EXCEPT ![p] = @ \ {q}]
       /\ IF claim[q] # Empty
          THEN /\ Goto(p, "unlink")
               /\ held' = [held EXCEPT ![p] = claim[q]] /\ at' = [at EXCEPT ![p] = q]
          ELSE UNCHANGED <<pc, held, at>>
  /\ UNCHANGED <<disk, config, seen, mem, then, pay, air, story, sent, fate>>

(* recoverStaleClaims(): a claim that is young is passed over, an old one    *)
(* read, removed and appended.  A rename keeps the queue's mtime.            *)
Looks(p) ==
  /\ pc[p] = "scan"
  /\ \E q \in names[p] :
       /\ names' = [names EXCEPT ![p] = @ \ {q}]
       /\ IF claim[q] # Empty /\ claimOld[q]
          THEN /\ Goto(p, "unlink")
               /\ held' = [held EXCEPT ![p] = claim[q]] /\ at' = [at EXCEPT ![p] = q]
          ELSE UNCHANGED <<pc, held, at>>
  /\ UNCHANGED <<disk, config, seen, mem, then, pay, air, story, sent, fate>>

(* The claim may be old and in use, or another than was read: then its lines  *)
(* go out twice, and its owner is left without it.                          *)
InUse(q)  == Live(q) /\ (Waits(q) \/ then[q] = "claimed")
Others(q) == {p \in Procs : pc[p] = "unlink" /\ at[p] = q}

Unlinks(p) ==
  LET q == at[p]
      raced == p \in moved \/ (InUse(q) /\ claimOld[q])
  IN /\ pc[p] = "unlink" /\ Goto(p, "merge")
     /\ claim' = [claim EXCEPT ![q] = Empty] /\ claimOld' = [claimOld EXCEPT ![q] = FALSE]
     /\ moved' = (moved \cup Others(q)) \ {p}
     /\ twice' = IF raced THEN twice \cup In(held[p]) ELSE twice
     /\ loose' = IF raced /\ InUse(q) THEN loose \cup In(claim[q]) ELSE loose
     /\ gone' = IF raced /\ ~InUse(q) THEN gone \cup (In(claim[q]) \ In(held[p])) ELSE gone
     /\ UNCHANGED <<queue, queueOld, config, seen, mem, hand, air, story, sent>>

Merges(p) == /\ pc[p] = "merge" /\ Goto(p, "scan")
             /\ queue' = Plus(queue, held[p]) /\ queueOld' = FALSE
             /\ held' = [held EXCEPT ![p] = Empty] /\ at' = [at EXCEPT ![p] = p]
             /\ UNCHANGED <<claim, claimOld, config, seen, mem, then, pay, names, air, story, sent, fate>>

-----------------------------------------------------------------------------
(* Mutant: the queue is copied, not renamed. *)
ClaimsCopy(p) ==
  /\ pc[p] = "scan" /\ names[p] = {} /\ queue # Empty
  /\ Goto(p, "open")
  /\ claim' = [claim EXCEPT ![p] = queue] /\ claimOld' = [claimOld EXCEPT ![p] = queueOld]
  /\ UNCHANGED <<queue, queueOld, config, seen, mem, hand, air, story, sent, fate>>

(* claimQueue(): the rename *)
Claims(p) ==
  /\ pc[p] = "scan" /\ names[p] = {} /\ queue # Empty
  /\ Goto(p, "open")
  /\ claim' = [claim EXCEPT ![p] = queue] /\ claimOld' = [claimOld EXCEPT ![p] = queueOld]
  /\ queue' = Empty /\ queueOld' = FALSE
  /\ UNCHANGED <<config, seen, mem, hand, air, story, sent, fate>>

NothingToClaim(p) == /\ pc[p] = "scan" /\ names[p] = {} /\ queue = Empty /\ Goto(p, "loop")
                     /\ UNCHANGED <<disk, config, seen, mem, hand, air, story, sent, fate>>

(* firstRunNotice(): where p knows of no choice, it makes the default one *)
Notice(p) == IF seen[p] = "none"
             THEN /\ config' = "on" /\ seen' = [seen EXCEPT ![p] = "on"]
                  /\ overruled' = (overruled \/ config = "off")
             ELSE UNCHANGED <<config, seen, overruled>>

(* What is claimed is read.  Counts of today stay; the rest is sent. *)
Opens(p) ==
  /\ pc[p] = "open"
  /\ LET keep == Only(claim[p], today)
         send == Only(claim[p], Lines \ today)
     IN IF send # Empty
        THEN /\ Goto(p, "loop") /\ Notice(p) /\ UNCHANGED <<then, pay>>
             /\ air' = [air EXCEPT ![p] = [send |-> send, keep |-> keep, done |-> {}]]
        ELSE /\ UNCHANGED <<air, config, seen, overruled>>
             /\ IF keep # Empty THEN Appends(p, keep, "claimed")
                ELSE Goto(p, "remove") /\ then' = [then EXCEPT ![p] = "claimed"] /\ UNCHANGED pay
  /\ UNCHANGED <<disk, mem, held, names, at, hours, born, today, sent, fate>>

(* The endpoint gets some of what is in the air. *)
Arrive(p) ==
  /\ \E S \in (SUBSET (In(air[p].send) \ air[p].done)) \ {{}} :
       /\ air' = [air EXCEPT ![p].done = @ \cup S]
       /\ sent' = Plus(sent, Only(air[p].send, S))
  /\ UNCHANGED <<disk, config, pc, seen, mem, hand, story, fate>>

(* Mutant: the claim is removed before what did not go out is appended. *)
AnsweredRemovesFirst(p) ==
  /\ pc[p] = "loop" /\ Waits(p)
  /\ \E F \in SUBSET In(air[p].send) :
       LET back == Plus(Only(air[p].send, F), air[p].keep) IN
       /\ In(air[p].send) \ air[p].done \subseteq F
       /\ twice' = twice \cup (F \cap air[p].done)
       /\ IF back # Empty THEN Appends(p, back, "claimed")
          ELSE Goto(p, "remove") /\ then' = [then EXCEPT ![p] = "claimed"] /\ UNCHANGED pay
  /\ claim' = [claim EXCEPT ![p] = Empty]
  /\ air' = [air EXCEPT ![p] = Grounded]
  /\ UNCHANGED <<queue, queueOld, claimOld, config, seen, mem, held, names, at, story, sent, moved, loose, gone>>

(* send() returns the lines that have no answer, whether or not they arrived. *)
Answered(p) ==
  /\ pc[p] = "loop" /\ Waits(p)
  /\ \E F \in SUBSET In(air[p].send) :
       LET back == Plus(Only(air[p].send, F), air[p].keep) IN
       /\ In(air[p].send) \ air[p].done \subseteq F
       /\ twice' = twice \cup (F \cap air[p].done)
       /\ IF back # Empty THEN Appends(p, back, "claimed")
          ELSE Goto(p, "remove") /\ then' = [then EXCEPT ![p] = "claimed"] /\ UNCHANGED pay
  /\ air' = [air EXCEPT ![p] = Grounded]
  /\ UNCHANGED <<disk, config, seen, mem, held, names, at, story, sent, moved, loose, gone>>

(* Mutant: the claim is left. *)
RemovesNothing(p) == /\ pc[p] = "remove" /\ Goto(p, "loop")
                     /\ then' = [then EXCEPT ![p] = "loop"]
                     /\ UNCHANGED <<disk, config, seen, mem, pay, held, names, at, air, story, sent, fate>>

(* The claim is removed, once what did not go out is in the queue. *)
Removes(p) == /\ pc[p] = "remove" /\ Goto(p, "loop")
              /\ claim' = [claim EXCEPT ![p] = Empty] /\ claimOld' = [claimOld EXCEPT ![p] = FALSE]
              /\ then' = [then EXCEPT ![p] = "loop"] /\ moved' = moved \cup Others(p)
              /\ UNCHANGED <<queue, queueOld, config, seen, mem, pay, held, names, at,
                             air, story, sent, twice, loose, gone>>

-----------------------------------------------------------------------------
(* setEnabled(false), of a process that sends nothing: the choice, and then    *)
(* the queue                                                                *)
TurnsOff(p) == /\ pc[p] = "loop" /\ ~Waits(p) /\ Goto(p, "off")
               /\ config' = "off" /\ seen' = [seen EXCEPT ![p] = "off"]
               /\ UNCHANGED <<disk, mem, hand, air, story, sent, fate>>

DropsQueue(p) == /\ pc[p] = "off" /\ Goto(p, "loop")
                 /\ queue' = Empty /\ queueOld' = FALSE /\ gone' = gone \cup In(queue)
                 /\ UNCHANGED <<claim, claimOld, config, seen, mem, hand, air, story, sent, twice, moved, loose>>

(* Time passes: an hour, which is far longer than a flush; the day *)
Hour == /\ hours < MaxHours /\ hours' = hours + 1
        /\ \A p \in Procs : pc[p] \in {"loop", "dead"} /\ ~Waits(p)
        /\ queueOld' = (queue # Empty) /\ claimOld' = [p \in Procs |-> claim[p] # Empty]
        /\ UNCHANGED <<queue, claim, config, pc, seen, mem, hand, air, born, today, overruled, sent, fate>>

Midnight == /\ today # {} /\ today' = {}
            /\ UNCHANGED <<disk, config, pc, seen, mem, hand, air, hours, born, overruled, sent, fate>>

Goes(p) == \/ AppendReads(p) \/ AppendWrites(p) \/ Looks(p) \/ Unlinks(p) \/ Merges(p)
           \/ Claims(p) \/ NothingToClaim(p) \/ Opens(p) \/ Removes(p) \/ DropsQueue(p)

Next == \/ \E p \in Procs : \/ \E l \in Lines : Record(p, l)
                            \/ FlushBegins(p) \/ Exits(p) \/ Dies(p) \/ TurnsOff(p) \/ Goes(p)
                            \/ Arrive(p) \/ Answered(p)
        \/ Hour \/ Midnight

Spec == Init /\ [][Next]_vars

-----------------------------------------------------------------------------
(* A line is sent once, but for the races, crashes and lost answers that     *)
(* `twice` names (index.ts:418, "Concurrent processes can't double-send").   *)
SentOnce == \A l \in Lines : sent[l] = 2 => l \in twice

(* What a flush has claimed stays on the disk until it is sent or back in    *)
(* the queue, unless another flush removed the claim under it.               *)
ClaimsAreKept ==
  \A p \in Procs : Live(p) => Flying(p) \ loose \subseteq In(claim[p])

(* A recorded line is in a process, on the disk or sent, unless it is known  *)
(* to be dropped (`gone`): overwritten, in the hands of a process that died,  *)
(* or telemetry was turned off.                                              *)
Somewhere(l) ==
  \/ sent[l] > 0 \/ queue[l] > 0
  \/ \E p \in Procs : \/ claim[p][l] > 0
                      \/ Live(p) /\ (l \in mem[p] \cup Flying(p))
                      \/ pc[p] \in {"read", "write"} /\ pay[p][l] > 0
                      \/ pc[p] = "merge" /\ held[p][l] > 0
NoneVanishes == \A l \in born \ gone : Somewhere(l)

(* A process that knows that telemetry is off neither queues nor sends, also *)
(* when it exits with lines in memory (index.ts:392-393).                    *)
OffIsOff == \A p \in Procs : seen[p] = "off" => pc[p] \in {"loop", "off", "dead"} /\ ~Waits(p)

(* Telemetry's promise of the files: nothing that was recorded gets lost, but  *)
(* for the cases named, and off is off for the process that knows it.        *)
QueueIsSound == TypeOK /\ ClaimsAreKept /\ NoneVanishes /\ OffIsOff

(* TELEMETRY.md:12-15, "works, permanently": once the user has turned        *)
(* telemetry off, no process turns it on again.                             *)
ChoiceIsKept == ~overruled
==============================================================================
