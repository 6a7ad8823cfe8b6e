-------------------------- MODULE Telemetry_proofs --------------------------
(***************************************************************************)
(* For any processes and lines: each recorded line is in one place -- in a   *)
(* process, the queue, a claim, or sent -- in spite of every interleaving,   *)
(* exit and kill, or it is one of those known to be doubled or dropped.      *)
(*                                                                         *)
(* The argument is a count (Hand, Total).  A claim stands for its lines      *)
(* while nobody works on them; during a flush the lines in the air do, and   *)
(* then those about to be appended again.  So counted, every step of the     *)
(* code moves lines, and StepKeeps is all that the steps have in common.     *)
(***************************************************************************)
EXTENDS Telemetry, TLAPS

TypeInv ==
  /\ TypeOK
  /\ then \in [Procs -> {"loop", "scan", "dead", "claimed"}]
  /\ pc \in [Procs -> {"loop", "read", "write", "scan", "unlink", "merge", "open", "remove", "off", "dead"}]
  /\ at \in [Procs -> Procs] /\ names \in [Procs -> SUBSET Procs]
  /\ sent \in Bag /\ born \subseteq Lines

(* Where p is in its code, and what it then has in hand *)
Control(p) ==
  /\ then[p] = "claimed" => pc[p] \in {"read", "write", "remove"}
  /\ then[p] \in {"scan", "dead"} => pc[p] \in {"read", "write"}
  /\ pc[p] \notin {"read", "write"} => pay[p] = Empty
  /\ pc[p] = "dead" \/ then[p] = "dead" => mem[p] = {}
  /\ IF Waits(p) THEN pc[p] = "loop" ELSE air[p] = Grounded

(* A flush's lines: each is to be sent or kept, and those that arrived are   *)
(* counted.  The claim holds no others.                                     *)
Flight(p) ==
  \A l \in Lines : /\ air[p].send[l] = 0 \/ air[p].keep[l] = 0
                   /\ l \in air[p].done => air[p].send[l] > 0 /\ sent[l] > 0
                   /\ Waits(p) => claim[p][l] <= air[p].send[l] + air[p].keep[l]

(* A process that lives has a claim from the rename to the removal only; in   *)
(* between, what is in the air or to be appended again is claimed, but for    *)
(* the loose lines.                                                         *)
Claiming(p) ==
  /\ Live(p) /\ ~Waits(p) /\ then[p] \notin {"claimed", "dead"} /\ pc[p] # "open" => claim[p] = Empty
  /\ \A l \in Lines : Live(p) /\ l \in Flying(p) /\ l \notin loose => claim[p][l] > 0
  /\ \A l \in Lines : then[p] = "claimed" /\ pay[p][l] > 0 /\ l \notin loose => claim[p][l] > 0

Off(p) == seen[p] = "off" => pc[p] \in {"loop", "off", "dead"} /\ ~Waits(p)

Shape(p) == Control(p) /\ Flight(p) /\ Claiming(p) /\ Off(p)

(* A claim that was read is as it was, and stale, unless somebody moved it. *)
ReadInv ==
  \A p \in Procs : pc[p] = "unlink" /\ p \notin moved =>
    held[p] # Empty /\ claim[at[p]] = held[p] /\ claimOld[at[p]]

(* Only lines that were recorded are anywhere. *)
BornInv ==
  \A l \in Lines \ born :
    /\ queue[l] = 0 /\ sent[l] = 0
    /\ \A p \in Procs :
         /\ claim[p][l] = 0 /\ l \notin mem[p] /\ pay[p][l] = 0 /\ held[p][l] = 0
         /\ air[p].send[l] = 0 /\ air[p].keep[l] = 0

(* How often p has line l to send: in memory, to be appended, read from a     *)
(* claim that is gone, and claimed                                          *)
InMemory(p, l) == IF l \in mem[p] THEN 1 ELSE 0
Merging(p, l)  == IF pc[p] = "merge" THEN held[p][l] ELSE 0
Taken(p, l)    == IF Waits(p) THEN IF l \in air[p].done THEN 0 ELSE air[p].send[l] + air[p].keep[l]
                  ELSE IF then[p] = "claimed" THEN 0 ELSE claim[p][l]

Hand(p, l) == InMemory(p, l) + pay[p][l] + Merging(p, l) + Taken(p, l)

Total(p, l) == Hand(p, l) + queue[l] + sent[l]

(* A line is in one place at most, or is known to be doubled ... *)
AtMostOnce(l) ==
  l \notin twice =>
    /\ queue[l] + sent[l] <= 1
    /\ \A p \in Procs : Total(p, l) <= 1
    /\ \A p, q \in Procs : p # q /\ Hand(q, l) > 0 => Total(p, l) = 0

(* ... and in one at least, or is known to be dropped. *)
AtLeastOnce(l) ==
  l \in born \ gone => queue[l] + sent[l] > 0 \/ \E p \in Procs : Hand(p, l) > 0

Counted == \A l \in Lines : AtMostOnce(l) /\ AtLeastOnce(l)

TelemetryInv == TypeInv /\ (\A p \in Procs : Shape(p)) /\ ReadInv /\ BornInv /\ Counted

-----------------------------------------------------------------------------
LEMMA Bags ==
  /\ Empty \in Bag /\ \A l \in Lines : Empty[l] = 0
  /\ \A a \in Bag : a = Empty <=> \A l \in Lines : a[l] = 0
  /\ \A a, b \in Bag : Plus(a, b) \in Bag
  /\ \A S : Once(S) \in Bag
  /\ \A a \in Bag : \A S : Only(a, S) \in Bag
BY DEF Bag, Empty, Plus, Once, Only

LEMMA BagValues ==
  ASSUME NEW l \in Lines
  PROVE  /\ \A a, b : Plus(a, b)[l] = IF a[l] + b[l] > 2 THEN 2 ELSE a[l] + b[l]
         /\ \A S : Once(S)[l] = IF l \in S THEN 1 ELSE 0
         /\ \A a, S : Only(a, S)[l] = IF l \in S THEN a[l] ELSE 0
         /\ \A a : l \in In(a) <=> a[l] > 0
BY DEF Plus, Once, Only, In

LEMMA HandIsNat ==
  ASSUME TypeInv, NEW p \in Procs, NEW l \in Lines
  PROVE  /\ Hand(p, l) \in Nat /\ Total(p, l) \in Nat
         /\ pay[p][l] \in 0..2 /\ held[p][l] \in 0..2 /\ claim[p][l] \in 0..2
         /\ queue[l] \in 0..2 /\ sent[l] \in 0..2
         /\ air[p].send[l] \in 0..2 /\ air[p].keep[l] \in 0..2
<1>1. /\ pay[p][l] \in 0..2 /\ held[p][l] \in 0..2 /\ claim[p][l] \in 0..2
      /\ queue[l] \in 0..2 /\ sent[l] \in 0..2
      /\ air[p].send[l] \in 0..2 /\ air[p].keep[l] \in 0..2
  BY DEF TypeInv, TypeOK, Bag
<1> QED BY <1>1 DEF Hand, Total, InMemory, Merging, Taken

LEMMA HandStaysNat ==
  ASSUME TypeInv', NEW p \in Procs, NEW l \in Lines
  PROVE  Hand(p, l)' \in Nat /\ queue'[l] \in 0..2 /\ sent'[l] \in 0..2
<1>1. /\ pay'[p][l] \in 0..2 /\ held'[p][l] \in 0..2 /\ claim'[p][l] \in 0..2
      /\ queue'[l] \in 0..2 /\ sent'[l] \in 0..2
      /\ air'[p].send[l] \in 0..2 /\ air'[p].keep[l] \in 0..2
  BY DEF TypeInv, TypeOK, Bag
<1> QED BY <1>1 DEF Hand, InMemory, Merging, Taken, Waits

LEMMA Parts ==
  ASSUME TypeInv, TypeInv', NEW p \in Procs, NEW l \in Lines
  PROVE  /\ InMemory(p, l) \in Nat /\ Merging(p, l) \in Nat /\ Taken(p, l) \in Nat
         /\ InMemory(p, l)' \in Nat /\ Merging(p, l)' \in Nat /\ Taken(p, l)' \in Nat
         /\ pay[p][l] \in Nat /\ queue[l] \in Nat /\ sent[l] \in Nat
         /\ pay'[p][l] \in Nat /\ queue'[l] \in Nat /\ sent'[l] \in Nat
         /\ Total(p, l) = InMemory(p, l) + pay[p][l] + Merging(p, l) + Taken(p, l) + queue[l] + sent[l]
         /\ Total(p, l)' = InMemory(p, l)' + pay'[p][l] + Merging(p, l)' + Taken(p, l)' + queue'[l] + sent'[l]
<1>1. /\ pay[p][l] \in 0..2 /\ held[p][l] \in 0..2 /\ claim[p][l] \in 0..2
      /\ queue[l] \in 0..2 /\ sent[l] \in 0..2
      /\ air[p].send[l] \in 0..2 /\ air[p].keep[l] \in 0..2
  BY DEF TypeInv, TypeOK, Bag
<1>2. /\ pay'[p][l] \in 0..2 /\ held'[p][l] \in 0..2 /\ claim'[p][l] \in 0..2
      /\ queue'[l] \in 0..2 /\ sent'[l] \in 0..2
      /\ air'[p].send[l] \in 0..2 /\ air'[p].keep[l] \in 0..2
  BY DEF TypeInv, TypeOK, Bag
<1>3. /\ InMemory(p, l) \in Nat /\ Merging(p, l) \in Nat /\ Taken(p, l) \in Nat
      /\ InMemory(p, l)' \in Nat /\ Merging(p, l)' \in Nat /\ Taken(p, l)' \in Nat
  BY <1>1, <1>2 DEF InMemory, Merging, Taken, Waits
<1> QED BY <1>1, <1>2, <1>3 DEF Total, Hand

(* What the others see of a step of p *)
Still(q) == /\ pc'[q] = pc[q] /\ seen'[q] = seen[q] /\ mem'[q] = mem[q] /\ then'[q] = then[q]
            /\ pay'[q] = pay[q] /\ held'[q] = held[q] /\ air'[q] = air[q] /\ at'[q] = at[q]

Apart(p) == \A q \in Procs \ {p} : Still(q)

(* A step of p moves lines: it doubles or drops none that is not known to be, *)
(* and has what it records.                                                 *)
Moved(p, l) ==
  /\ l \notin twice' /\ Total(p, l) <= 1 => Total(p, l)' <= IF l \in born THEN Total(p, l) ELSE 1
  /\ l \notin gone' /\ (Total(p, l) > 0 \/ l \in born' \ born) => Total(p, l)' > 0

(* The history only grows. *)
Grows == /\ born \subseteq born' /\ twice \subseteq twice' /\ gone \subseteq gone' /\ loose \subseteq loose'
         /\ \A l \in Lines : sent[l] > 0 => sent'[l] > 0

LEMMA CountKeeps ==
  ASSUME TelemetryInv, TypeInv', NEW p \in Procs, Apart(p), \A q \in Procs \ {p} : claim'[q] = claim[q],
         \A l \in Lines : Moved(p, l), Grows
  PROVE  Counted'
<1>1. ASSUME NEW l \in Lines PROVE AtMostOnce(l)' /\ AtLeastOnce(l)'
  <2>1. \A q \in Procs \ {p} : Hand(q, l)' = Hand(q, l)
    BY DEF Apart, Still, Hand, InMemory, Merging, Taken, Waits
  <2>2. /\ \A q \in Procs : Hand(q, l) \in Nat /\ Hand(q, l)' \in Nat
        /\ queue[l] \in Nat /\ sent[l] \in Nat /\ queue'[l] \in Nat /\ sent'[l] \in Nat
        /\ \A q \in Procs : /\ Total(q, l) = Hand(q, l) + queue[l] + sent[l]
                             /\ Total(q, l)' = Hand(q, l)' + queue'[l] + sent'[l]
    <3> HIDE DEF Hand
    <3>1. \A q \in Procs : Hand(q, l) \in Nat /\ Hand(q, l)' \in Nat
      BY HandIsNat, HandStaysNat DEF TelemetryInv
    <3>2. queue[l] \in 0..2 /\ sent[l] \in 0..2 /\ queue'[l] \in 0..2 /\ sent'[l] \in 0..2
      BY HandIsNat, HandStaysNat DEF TelemetryInv
    <3> QED BY <3>1, <3>2 DEF Total
  <2>3. AtMostOnce(l) /\ AtLeastOnce(l)
    BY DEF TelemetryInv, Counted
  <2>4. /\ l \notin twice' /\ Total(p, l) <= 1 => Total(p, l)' <= IF l \in born THEN Total(p, l) ELSE 1
        /\ l \notin gone' /\ (Total(p, l) > 0 \/ l \in born' \ born) => Total(p, l)' > 0
    BY DEF Moved
  <2>5. twice \subseteq twice' /\ gone \subseteq gone' /\ born \subseteq born'
    BY DEF Grows
  <2>6. l \notin born => queue[l] = 0 /\ sent[l] = 0 /\ \A q \in Procs : Hand(q, l) = 0
    <3> SUFFICES ASSUME l \notin born, NEW q \in Procs
                 PROVE  queue[l] = 0 /\ sent[l] = 0 /\ Hand(q, l) = 0
      OBVIOUS
    <3>1. /\ queue[l] = 0 /\ sent[l] = 0
          /\ claim[q][l] = 0 /\ l \notin mem[q] /\ pay[q][l] = 0 /\ held[q][l] = 0
          /\ air[q].send[l] = 0 /\ air[q].keep[l] = 0
      BY DEF TelemetryInv, BornInv
    <3> QED BY <3>1 DEF Hand, InMemory, Merging, Taken
  <2> HIDE DEF Hand, Total
  <2>7. AtMostOnce(l)'
    <3> SUFFICES ASSUME l \notin twice'
                 PROVE  /\ queue'[l] + sent'[l] <= 1
                        /\ \A q \in Procs : Total(q, l)' <= 1
                        /\ \A q, r \in Procs : q # r /\ Hand(r, l)' > 0 => Total(q, l)' = 0
      BY DEF AtMostOnce
    <3>1. Total(p, l) <= 1 /\ Total(p, l)' <= IF l \in born THEN Total(p, l) ELSE 1
      BY <2>3, <2>4, <2>5 DEF AtMostOnce
    <3>2. ASSUME NEW q \in Procs \ {p}
          PROVE  /\ Hand(q, l) <= 1 /\ Hand(q, l)' = Hand(q, l)
                 /\ Hand(q, l) > 0 => l \in born /\ Total(p, l) = 0
      BY <2>1, <2>2, <2>3, <2>5, <2>6 DEF AtMostOnce
    <3>3. ASSUME NEW q \in Procs \ {p}
          PROVE  /\ Total(q, l)' <= 1 /\ (Hand(q, l)' > 0 => Total(p, l)' = 0)
                 /\ Hand(p, l)' > 0 => Total(q, l)' = 0
      <4>1. /\ Hand(p, l)' \in Nat /\ Hand(q, l)' \in Nat /\ queue'[l] \in Nat /\ sent'[l] \in Nat
            /\ Total(p, l) \in Nat
            /\ Total(p, l)' = Hand(p, l)' + queue'[l] + sent'[l]
            /\ Total(q, l)' = Hand(q, l)' + queue'[l] + sent'[l]
        BY <2>2
      <4>2. Total(p, l)' <= 1 /\ (l \in born => Total(p, l)' <= Total(p, l))
        BY <3>1, <4>1
      <4>3. Hand(q, l)' <= 1 /\ (Hand(q, l)' > 0 => Total(p, l)' = 0)
        BY <3>2, <4>1, <4>2
      <4> QED BY <4>1, <4>2, <4>3
    <3>4. ASSUME NEW q \in Procs \ {p}, NEW r \in Procs \ {p}, q # r, Hand(r, l)' > 0
          PROVE  Total(q, l)' = 0
      <4>1. Hand(r, l) > 0 /\ l \in born /\ Total(p, l) = 0
        BY <3>2, <3>4
      <4>2. Total(q, l) = 0
        BY <2>3, <2>5, <3>4, <4>1 DEF AtMostOnce
      <4>3. /\ Hand(p, l)' \in Nat /\ Hand(q, l) \in Nat /\ queue'[l] \in Nat /\ sent'[l] \in Nat
            /\ queue[l] \in Nat /\ sent[l] \in Nat
            /\ Total(q, l) = Hand(q, l) + queue[l] + sent[l]
            /\ Total(p, l)' = Hand(p, l)' + queue'[l] + sent'[l]
            /\ Total(q, l)' = Hand(q, l)' + queue'[l] + sent'[l]
        BY <2>2
      <4>4. Total(p, l)' <= 0
        BY <3>1, <4>1
      <4>5. Hand(q, l) = 0
        <5> DEFINE h == Hand(q, l)  a == queue[l]  b == sent[l]
        <5>1. h \in Nat /\ a \in Nat /\ b \in Nat /\ h + a + b = 0
          BY <4>2, <4>3
        <5> HIDE DEF h, a, b
        <5>2. h = 0
          BY <5>1
        <5> QED BY <5>2 DEF h
      <4>7. queue'[l] = 0 /\ sent'[l] = 0
        <5> DEFINE h == Hand(p, l)'  a == queue'[l]  b == sent'[l]  t == Total(p, l)'
        <5>1. h \in Nat /\ a \in Nat /\ b \in Nat /\ t = h + a + b /\ t <= 0
          BY <4>3, <4>4
        <5> HIDE DEF h, a, b, t
        <5>2. a = 0 /\ b = 0
          BY <5>1
        <5> QED BY <5>2 DEF a, b
      <4>6. Hand(q, l)' = 0
        BY <3>2, <4>5
      <4> QED BY <4>3, <4>6, <4>7
    <3>5. Total(p, l)' <= 1 /\ queue'[l] + sent'[l] <= 1
      <4>1. /\ Total(p, l)' = Hand(p, l)' + queue'[l] + sent'[l] /\ Total(p, l) \in Nat
            /\ Hand(p, l)' \in Nat /\ queue'[l] \in Nat /\ sent'[l] \in Nat
        BY <2>2
      <4> QED BY <3>1, <4>1
    <3>6. ASSUME NEW q \in Procs, NEW r \in Procs, q # r, Hand(r, l)' > 0 PROVE Total(q, l)' = 0
      <4>1. CASE q = p
        BY <3>3, <3>6, <4>1
      <4>2. CASE r = p
        BY <3>3, <3>6, <4>2
      <4> QED BY <3>4, <3>6, <4>1, <4>2
    <3> QED BY <3>3, <3>5, <3>6
  <2>8. AtLeastOnce(l)'
    <3> SUFFICES ASSUME l \in born', l \notin gone'
                 PROVE  queue'[l] + sent'[l] > 0 \/ \E q \in Procs : Hand(q, l)' > 0
      BY DEF AtLeastOnce
    <3>1. Total(p, l)' > 0 => queue'[l] + sent'[l] > 0 \/ Hand(p, l)' > 0
      BY <2>2
    <3>2. CASE Total(p, l) > 0 \/ l \notin born
      BY <2>4, <3>1, <3>2
    <3>3. CASE ~(Total(p, l) > 0) /\ l \in born
      <4>1. queue[l] + sent[l] = 0 /\ Hand(p, l) = 0
        BY <2>2, <3>3
      <4>2. PICK q \in Procs : Hand(q, l) > 0
        BY <2>3, <2>5, <3>3, <4>1 DEF AtLeastOnce
      <4> QED BY <2>1, <4>1, <4>2
    <3> QED BY <3>2, <3>3
  <2> QED BY <2>7, <2>8
<1> QED BY <1>1 DEF Counted

LEMMA OthersShape ==
  ASSUME TelemetryInv, NEW q \in Procs, Still(q), claim'[q] = claim[q], Grows
  PROVE  Shape(q)'
<1>1. Control(q)'
  BY DEF TelemetryInv, Shape, Control, Still, Waits
<1>2. Flight(q)'
  BY DEF TelemetryInv, Shape, Flight, Still, Waits, Grows
<1>3. Claiming(q)'
  BY DEF TelemetryInv, Shape, Claiming, Still, Waits, Live, Flying, In, Grows
<1>4. Off(q)'
  BY DEF TelemetryInv, Shape, Off, Still, Waits
<1> QED BY <1>1, <1>2, <1>3, <1>4 DEF Shape

LEMMA ReadKeeps ==
  ASSUME TelemetryInv, NEW p \in Procs, Apart(p), pc'[p] # "unlink",
         \A q \in Procs \ {p} : q \in moved => q \in moved',
         \A q \in Procs \ {p} : pc[q] = "unlink" /\ q \notin moved' =>
           claim'[at[q]] = claim[at[q]] /\ claimOld'[at[q]] = claimOld[at[q]]
  PROVE  ReadInv'
<1>1. ASSUME NEW q \in Procs, pc'[q] = "unlink", q \notin moved'
      PROVE  held'[q] # Empty /\ claim'[at'[q]] = held'[q] /\ claimOld'[at'[q]]
  <2>1. q # p /\ pc[q] = "unlink" /\ q \notin moved /\ held'[q] = held[q] /\ at'[q] = at[q]
    BY <1>1 DEF Apart, Still
  <2> QED BY <1>1, <2>1 DEF TelemetryInv, ReadInv
<1> QED BY <1>1 DEF ReadInv, Empty

(* A step of p that leaves the other processes' claims alone *)
LEMMA StepKeeps ==
  ASSUME TelemetryInv, TypeInv', NEW p \in Procs, Apart(p), \A q \in Procs \ {p} : claim'[q] = claim[q],
         Grows, Shape(p)', ReadInv', BornInv',
         \A l \in Lines : Moved(p, l)
  PROVE  TelemetryInv'
<1>1. \A q \in Procs : Shape(q)'
  BY OthersShape DEF Apart
<1> QED BY <1>1, CountKeeps DEF TelemetryInv

(* The same, if no claim changes at all *)
LEMMA CallKeeps ==
  ASSUME TelemetryInv, TypeInv', NEW p \in Procs, Apart(p), UNCHANGED <<claim, claimOld>>,
         pc'[p] # "unlink", moved' = moved \/ moved' = moved \ {p},
         Grows, Shape(p)', BornInv', \A l \in Lines : Moved(p, l)
  PROVE  TelemetryInv'
<1>1. ReadInv'
  BY ReadKeeps
<1> QED BY <1>1, StepKeeps

(* Calls that move no line *)
LEMMA ReadsKeeps == ASSUME TelemetryInv, NEW p \in Procs, AppendReads(p) PROVE TelemetryInv'
<1>1. TypeInv /\ Control(p) /\ Flight(p) /\ Claiming(p) /\ Off(p)
  BY DEF TelemetryInv, Shape
<1>2. TypeInv'
  BY <1>1, Bags DEF TypeInv, TypeOK, AppendReads, Goto, disk, story, fate
<1>3. /\ Apart(p) /\ Grows
      /\ UNCHANGED <<claim, claimOld, moved>> /\ pc'[p] # "unlink"
  BY <1>1 DEF TypeInv, TypeOK, Control, Apart, Still, Grows, AppendReads, Goto, disk, story, fate
<1>4. Shape(p)'
  BY <1>1, Bags DEF TypeInv, TypeOK, Shape, Control, Flight, Claiming, Off, Waits, Live, Flying,
     AppendReads, Goto, disk, story, fate
<1>5. BornInv'
  BY <1>1, Bags DEF TelemetryInv, BornInv, TypeInv, TypeOK, AppendReads, Goto, disk, story, fate
<1>6. ASSUME NEW l \in Lines PROVE Moved(p, l)
  <2>1. Total(p, l)' = Total(p, l) /\ Total(p, l) \in Nat /\ born' = born
    BY <1>1, HandIsNat DEF Total, Hand, InMemory, Merging, Taken, Waits, Control, AppendReads, Goto, disk,
       story, fate
  <2> HIDE DEF Total
  <2> QED BY <2>1 DEF Moved
<1> QED BY <1>2, <1>3, <1>4, <1>5, <1>6, CallKeeps

LEMMA NothingKeeps == ASSUME TelemetryInv, NEW p \in Procs, NothingToClaim(p) PROVE TelemetryInv'
<1>1. TypeInv /\ Control(p) /\ Flight(p) /\ Claiming(p) /\ Off(p)
  BY DEF TelemetryInv, Shape
<1>2. TypeInv'
  BY <1>1, Bags DEF TypeInv, TypeOK, NothingToClaim, Goto, disk, hand, story, fate
<1>3. /\ Apart(p) /\ Grows
      /\ UNCHANGED <<claim, claimOld, moved>> /\ pc'[p] # "unlink"
  BY <1>1 DEF TypeInv, TypeOK, Control, Apart, Still, Grows, NothingToClaim, Goto, disk, hand, story, fate
<1>4. Shape(p)'
  BY <1>1, Bags DEF TypeInv, TypeOK, Shape, Control, Flight, Claiming, Off, Waits, Live, Flying,
     NothingToClaim, Goto, disk, hand, story, fate
<1>5. BornInv'
  BY <1>1, Bags DEF TelemetryInv, BornInv, TypeInv, TypeOK, NothingToClaim, Goto, disk, hand, story, fate
<1>6. ASSUME NEW l \in Lines PROVE Moved(p, l)
  <2>1. Total(p, l)' = Total(p, l) /\ Total(p, l) \in Nat /\ born' = born
    BY <1>1, HandIsNat DEF Total, Hand, InMemory, Merging, Taken, Waits, Control, NothingToClaim, Goto,
       disk, hand, story, fate
  <2> HIDE DEF Total
  <2> QED BY <2>1 DEF Moved
<1> QED BY <1>2, <1>3, <1>4, <1>5, <1>6, CallKeeps

LEMMA TurnsOffKeeps == ASSUME TelemetryInv, NEW p \in Procs, TurnsOff(p) PROVE TelemetryInv'
<1>1. TypeInv /\ Control(p) /\ Flight(p) /\ Claiming(p) /\ Off(p)
  BY DEF TelemetryInv, Shape
<1>2. TypeInv'
  BY <1>1, Bags DEF TypeInv, TypeOK, TurnsOff, Goto, disk, hand, story, fate
<1>3. /\ Apart(p) /\ Grows
      /\ UNCHANGED <<claim, claimOld, moved>> /\ pc'[p] # "unlink"
  BY <1>1 DEF TypeInv, TypeOK, Control, Apart, Still, Grows, TurnsOff, Goto, disk, hand, story, fate
<1>4. Shape(p)'
  BY <1>1, Bags DEF TypeInv, TypeOK, Shape, Control, Flight, Claiming, Off, Waits, Live, Flying, TurnsOff,
     Goto, disk, hand, story, fate
<1>5. BornInv'
  BY <1>1, Bags DEF TelemetryInv, BornInv, TypeInv, TypeOK, TurnsOff, Goto, disk, hand, story, fate
<1>6. ASSUME NEW l \in Lines PROVE Moved(p, l)
  <2>1. Total(p, l)' = Total(p, l) /\ Total(p, l) \in Nat /\ born' = born
    BY <1>1, HandIsNat DEF Total, Hand, InMemory, Merging, Taken, Waits, Control, TurnsOff, Goto, disk,
       hand, story, fate
  <2> HIDE DEF Total
  <2> QED BY <2>1 DEF Moved
<1> QED BY <1>2, <1>3, <1>4, <1>5, <1>6, CallKeeps

(* Calls that move lines, but no claim *)
LEMMA DropsKeeps == ASSUME TelemetryInv, NEW p \in Procs, DropsQueue(p) PROVE TelemetryInv'
<1>1. TypeInv /\ Control(p) /\ Flight(p) /\ Claiming(p) /\ Off(p)
  BY DEF TelemetryInv, Shape
<1>2. TypeInv'
  BY <1>1, Bags DEF TypeInv, TypeOK, DropsQueue, Goto, hand, story, In
<1>3. /\ Apart(p) /\ Grows
      /\ UNCHANGED <<claim, claimOld, moved>> /\ pc'[p] # "unlink"
  BY <1>1 DEF TypeInv, TypeOK, Control, Apart, Still, Grows, DropsQueue, Goto, hand, story, In
<1>4. Shape(p)'
  BY <1>1, Bags DEF TypeInv, TypeOK, Shape, Control, Flight, Claiming, Off, Waits, Live, Flying, DropsQueue,
     Goto, hand, story, In
<1>5. BornInv'
  BY <1>1, Bags DEF TelemetryInv, BornInv, TypeInv, TypeOK, DropsQueue, Goto, hand, story, In
<1>6. ASSUME NEW l \in Lines PROVE Moved(p, l)
  <2>1. /\ InMemory(p, l)' = InMemory(p, l) /\ pay'[p][l] = pay[p][l] /\ Merging(p, l)' = Merging(p, l)
        /\ Taken(p, l)' = Taken(p, l) /\ sent'[l] = sent[l] /\ born' = born
        /\ queue'[l] = 0 /\ (queue[l] > 0 => l \in gone')
    BY <1>1, Bags, BagValues DEF InMemory, Merging, Taken, Waits, TypeInv, TypeOK, Bag, Control, DropsQueue,
       Goto, hand, story, In
  <2> HIDE DEF InMemory, Merging, Taken, Total
  <2> QED BY <1>1, <1>2, <2>1, Parts DEF Moved
<1> QED BY <1>2, <1>3, <1>4, <1>5, <1>6, CallKeeps

LEMMA BeginsKeeps == ASSUME TelemetryInv, NEW p \in Procs, FlushBegins(p) PROVE TelemetryInv'
<1>1. TypeInv /\ Control(p) /\ Flight(p) /\ Claiming(p) /\ Off(p)
  BY DEF TelemetryInv, Shape
<1>2. TypeInv'
  <2>1. {q \in Procs : claim[q] # Empty} \in SUBSET Procs
    OBVIOUS
  <2>2. names' \in [Procs -> SUBSET Procs]
    BY <1>1, <2>1 DEF TypeInv, FlushBegins, Lists
  <2>3. pc' \in [Procs -> {"loop", "read", "write", "scan", "unlink", "merge", "open", "remove", "off", "dead"}]
    BY <1>1 DEF TypeInv, FlushBegins, Appends, Goto
  <2>4. then' \in [Procs -> {"loop", "scan", "dead", "claimed"}]
    BY <1>1 DEF TypeInv, FlushBegins, Appends
  <2>5. pay' \in [Procs -> Bag]
    <3>1. Once(mem[p]) \in Bag
      BY Bags
    <3> QED BY <1>1, <3>1 DEF TypeInv, TypeOK, FlushBegins, Appends
  <2>6. mem' \in [Procs -> SUBSET Lines] /\ seen' \in [Procs -> {"unread", "none", "on", "off"}]
    BY <1>1 DEF TypeInv, TypeOK, FlushBegins, Asks
  <2> QED BY <1>1, <2>2, <2>3, <2>4, <2>5, <2>6 DEF TypeInv, TypeOK, FlushBegins, disk, story, fate
<1>3. /\ Apart(p) /\ Grows
      /\ UNCHANGED <<claim, claimOld, moved>> /\ pc'[p] # "unlink"
  BY <1>1 DEF TypeInv, TypeOK, Control, Apart, Still, Grows, FlushBegins, Appends, Lists, Enabled, Asks,
     Goto, disk, story, fate
<1>4. Shape(p)'
  BY <1>1, Bags DEF TypeInv, TypeOK, Shape, Control, Flight, Claiming, Off, Waits, Live, Flying,
     FlushBegins, Appends, Lists, Enabled, Asks, Goto, disk, story, fate
<1>5. BornInv'
  <2>1. ASSUME NEW l \in Lines \ born PROVE Once(mem[p])[l] = 0
    BY BagValues DEF TelemetryInv, BornInv
  <2> QED BY <1>1, <2>1, Bags
          DEF TelemetryInv, BornInv, TypeInv, TypeOK, FlushBegins, Appends, Goto, disk, story
<1>6. ASSUME NEW l \in Lines PROVE Moved(p, l)
  <2>1. /\ InMemory(p, l)' = 0 /\ pay[p][l] = 0 /\ pay'[p][l] = InMemory(p, l)
        /\ Merging(p, l)' = Merging(p, l) /\ Taken(p, l)' = Taken(p, l)
        /\ queue'[l] = queue[l] /\ sent'[l] = sent[l] /\ born' = born
    BY <1>1, Bags, BagValues DEF InMemory, Merging, Taken, Waits, TypeInv, TypeOK, Bag, Control,
       FlushBegins, Appends, Lists, Enabled, Asks, Goto, disk, story, fate
  <2> HIDE DEF InMemory, Merging, Taken, Total
  <2> QED BY <1>1, <1>2, <2>1, Parts DEF Moved
<1> QED BY <1>2, <1>3, <1>4, <1>5, <1>6, CallKeeps

LEMMA MergesKeeps == ASSUME TelemetryInv, NEW p \in Procs, Merges(p) PROVE TelemetryInv'
<1>1. TypeInv /\ Control(p) /\ Flight(p) /\ Claiming(p) /\ Off(p)
  BY DEF TelemetryInv, Shape
<1>2. TypeInv'
  BY <1>1, Bags DEF TypeInv, TypeOK, Merges, Goto, story, fate
<1>3. /\ Apart(p) /\ Grows
      /\ UNCHANGED <<claim, claimOld, moved>> /\ pc'[p] # "unlink"
  BY <1>1 DEF TypeInv, TypeOK, Control, Apart, Still, Grows, Merges, Goto, story, fate
<1>4. Shape(p)'
  BY <1>1, Bags DEF TypeInv, TypeOK, Shape, Control, Flight, Claiming, Off, Waits, Live, Flying, Merges,
     Goto, story, fate
<1>5. BornInv'
  <2>1. ASSUME NEW l \in Lines \ born PROVE Plus(queue, held[p])[l] = 0
    <3>1. queue[l] = 0 /\ held[p][l] = 0
      BY DEF TelemetryInv, BornInv
    <3> QED BY <3>1, BagValues
  <2> QED BY <1>1, <2>1, Bags DEF TelemetryInv, BornInv, TypeInv, TypeOK, Merges, story
<1>6. ASSUME NEW l \in Lines PROVE Moved(p, l)
  <2>1. /\ InMemory(p, l)' = InMemory(p, l) /\ pay'[p][l] = pay[p][l] /\ sent'[l] = sent[l]
        /\ Taken(p, l)' = Taken(p, l) /\ Merging(p, l)' = 0 /\ born' = born
        /\ queue'[l] = IF queue[l] + Merging(p, l) > 2 THEN 2 ELSE queue[l] + Merging(p, l)
    BY <1>1, Bags, BagValues DEF InMemory, Merging, Taken, Waits, TypeInv, TypeOK, Bag, Control, Merges,
       Goto, story, fate
  <2> HIDE DEF InMemory, Merging, Taken, Total
  <2> QED BY <1>1, <1>2, <2>1, Parts DEF Moved
<1> QED BY <1>2, <1>3, <1>4, <1>5, <1>6, CallKeeps

LEMMA WritesKeeps == ASSUME TelemetryInv, NEW p \in Procs, AppendWrites(p) PROVE TelemetryInv'
<1>1. TypeInv /\ Control(p) /\ Flight(p) /\ Claiming(p) /\ Off(p)
  BY DEF TelemetryInv, Shape
<1>2. TypeInv'
  <2>1. {q \in Procs : claim[q] # Empty} \in SUBSET Procs
    OBVIOUS
  <2> QED BY <1>1, <2>1, Bags DEF TypeInv, TypeOK, AppendWrites, Lists, Forgets, Goto, story
<1>3. /\ Apart(p) /\ Grows
      /\ UNCHANGED <<claim, claimOld, moved>> /\ pc'[p] # "unlink"
  BY <1>1 DEF TypeInv, TypeOK, Control, Apart, Still, Grows, AppendWrites, Lists, Forgets, Goto, story
<1>4. Shape(p)'
  BY <1>1, Bags DEF TypeInv, TypeOK, Shape, Control, Flight, Claiming, Off, Waits, Live, Flying,
     AppendWrites, Lists, Forgets, Goto, story
<1>5. BornInv'
  <2>1. ASSUME NEW l \in Lines \ born PROVE Plus(held[p], pay[p])[l] = 0
    <3>1. held[p][l] = 0 /\ pay[p][l] = 0
      BY DEF TelemetryInv, BornInv
    <3> QED BY <3>1, BagValues
  <2> QED BY <1>1, <2>1, Bags DEF TelemetryInv, BornInv, TypeInv, TypeOK, AppendWrites, story
<1>6. ASSUME NEW l \in Lines PROVE Moved(p, l)
  <2>1. /\ InMemory(p, l)' = InMemory(p, l) /\ Merging(p, l)' = Merging(p, l)
        /\ Taken(p, l)' = Taken(p, l) /\ sent'[l] = sent[l] /\ born' = born
        /\ held[p][l] \in Nat /\ pay'[p][l] = 0
        /\ queue'[l] = IF held[p][l] + pay[p][l] > 2 THEN 2 ELSE held[p][l] + pay[p][l]
        /\ held[p][l] > queue[l] => l \in twice'
        /\ held[p][l] < queue[l] => l \in gone'
    BY <1>1, Bags, BagValues DEF InMemory, Merging, Taken, Waits, TypeInv, TypeOK, Bag, Control,
       AppendWrites, Lists, Forgets, Goto, story
  <2> HIDE DEF InMemory, Merging, Taken, Total
  <2> QED BY <1>1, <1>2, <2>1, Parts DEF Moved
<1> QED BY <1>2, <1>3, <1>4, <1>5, <1>6, CallKeeps

LEMMA ArriveKeeps == ASSUME TelemetryInv, NEW p \in Procs, Arrive(p) PROVE TelemetryInv'
<1>1. TypeInv /\ Control(p) /\ Flight(p) /\ Claiming(p) /\ Off(p)
  BY DEF TelemetryInv, Shape
<1>2. PICK S \in (SUBSET (In(air[p].send) \ air[p].done)) \ {{}} :
        air' = [air EXCEPT ![p].done = @ \cup S] /\ sent' = Plus(sent, Only(air[p].send, S))
  BY DEF Arrive
<1>3. UNCHANGED <<disk, config, pc, seen, mem, hand, story, fate>>
  BY DEF Arrive
<1>4. /\ air' \in [Procs -> [send : Bag, keep : Bag, done : SUBSET Lines]]
      /\ air'[p].send = air[p].send /\ air'[p].keep = air[p].keep /\ air'[p].done = air[p].done \cup S
      /\ \A q \in Procs \ {p} : air'[q] = air[q]
  <2>1. air \in [Procs -> [send : Bag, keep : Bag, done : SUBSET Lines]] /\ S \subseteq Lines
    BY <1>1, <1>2 DEF TypeInv, TypeOK, In
  <2> QED BY <1>2, <2>1
<1>5. ASSUME NEW l \in Lines
      PROVE  /\ sent[l] \in 0..2 /\ air[p].send[l] \in 0..2 /\ air[p].keep[l] \in 0..2
             /\ l \in S => air[p].send[l] > 0 /\ l \notin air[p].done
             /\ sent'[l] = IF l \in S THEN IF sent[l] + air[p].send[l] > 2 THEN 2 ELSE sent[l] + air[p].send[l]
                           ELSE sent[l]
  <2>1. sent[l] \in 0..2 /\ air[p].send[l] \in 0..2 /\ air[p].keep[l] \in 0..2
    BY <1>1, HandIsNat
  <2>2. Only(air[p].send, S)[l] = IF l \in S THEN air[p].send[l] ELSE 0
    BY BagValues
  <2>3. sent'[l] = IF sent[l] + Only(air[p].send, S)[l] > 2 THEN 2 ELSE sent[l] + Only(air[p].send, S)[l]
    BY <1>2, BagValues
  <2> QED BY <1>2, <2>1, <2>2, <2>3 DEF In
<1>6. TypeInv'
  <2>1. sent' \in Bag
    <3>1. Only(air[p].send, S) \in Bag
      BY <1>1, Bags DEF TypeInv, TypeOK
    <3> QED BY <1>1, <1>2, <3>1, Bags DEF TypeInv
  <2> QED BY <1>1, <1>3, <1>4, <2>1 DEF TypeInv, TypeOK, disk, hand, story
<1>7. Apart(p) /\ Grows
  BY <1>3, <1>4, <1>5 DEF Apart, Still, Grows, hand, story, fate
<1>8. Waits(p) /\ Waits(p)'
  <2>1. PICK l \in Lines : air[p].send[l] > 0
    BY <1>2 DEF In
  <2>2. air[p].send # Empty
    BY <2>1, Bags
  <2> QED BY <1>4, <2>2 DEF Waits
<1>9. Shape(p)'
  <2>2. Control(p)'
    BY <1>1, <1>3, <1>4, <1>8 DEF Control, hand
  <2>3. Flight(p)'
    BY <1>1, <1>3, <1>4, <1>5, <1>8 DEF Flight, disk
  <2>4. Claiming(p)' /\ Off(p)'
    BY <1>1, <1>3, <1>4, <1>8 DEF Claiming, Off, Live, Flying, disk, hand, fate
  <2> QED BY <2>2, <2>3, <2>4 DEF Shape
<1>10. BornInv'
  BY <1>2, <1>3, <1>4, <1>5 DEF TelemetryInv, BornInv, disk, hand, story
<1>11. ASSUME NEW l \in Lines PROVE Moved(p, l)
  <2>2. /\ InMemory(p, l)' = InMemory(p, l) /\ pay'[p][l] = pay[p][l] /\ Merging(p, l)' = Merging(p, l)
        /\ queue'[l] = queue[l] /\ born' = born
    BY <1>3 DEF InMemory, Merging, disk, hand, story
  <2>3. /\ sent'[l] + Taken(p, l)' <= sent[l] + Taken(p, l)
        /\ sent[l] + Taken(p, l) > 0 => sent'[l] + Taken(p, l)' > 0
    <3>1. Taken(p, l) = IF l \in air[p].done THEN 0 ELSE air[p].send[l] + air[p].keep[l]
      BY <1>8 DEF Taken
    <3>2. Taken(p, l)' = IF l \in air[p].done \/ l \in S THEN 0 ELSE air[p].send[l] + air[p].keep[l]
      BY <1>4, <1>8 DEF Taken
    <3>3. l \in S => air[p].keep[l] = 0
      BY <1>1, <1>5 DEF Flight
    <3> QED BY <1>5, <3>1, <3>2, <3>3
  <2> HIDE DEF InMemory, Merging, Taken, Total
  <2> QED BY <1>1, <1>6, <2>2, <2>3, Parts DEF Moved
<1>12. UNCHANGED <<claim, claimOld>> /\ pc'[p] # "unlink" /\ moved' = moved
  BY <1>1, <1>3, <1>8 DEF Control, disk, fate
<1> QED BY <1>6, <1>7, <1>9, <1>10, <1>11, <1>12, CallKeeps

LEMMA AnsweredKeeps == ASSUME TelemetryInv, NEW p \in Procs, Answered(p) PROVE TelemetryInv'
<1>1. TypeInv /\ Control(p) /\ Flight(p) /\ Claiming(p) /\ Off(p) /\ pc[p] = "loop" /\ Waits(p)
  BY DEF TelemetryInv, Shape, Answered
<1>2. PICK F \in SUBSET In(air[p].send) :
        LET back == Plus(Only(air[p].send, F), air[p].keep) IN
        /\ In(air[p].send) \ air[p].done \subseteq F
        /\ twice' = twice \cup (F \cap air[p].done)
        /\ IF back # Empty THEN Appends(p, back, "claimed")
           ELSE Goto(p, "remove") /\ then' = [then EXCEPT ![p] = "claimed"] /\ UNCHANGED pay
  BY DEF Answered
<1> DEFINE back == Plus(Only(air[p].send, F), air[p].keep)
<1>3. /\ air' = [air EXCEPT ![p] = Grounded]
      /\ UNCHANGED <<disk, config, seen, mem, held, names, at, story, sent, moved, loose, gone>>
  BY DEF Answered
<1>4. back \in Bag
  <2>1. air[p].send \in Bag /\ air[p].keep \in Bag
    BY <1>1 DEF TypeInv, TypeOK
  <2>2. Only(air[p].send, F) \in Bag
    BY <2>1, Bags
  <2> QED BY <2>1, <2>2, Bags
<1>5. ASSUME NEW l \in Lines
      PROVE  /\ claim[p][l] \in 0..2 /\ air[p].send[l] \in 0..2 /\ air[p].keep[l] \in 0..2 /\ pay[p][l] = 0
             /\ back[l] = IF l \in F THEN IF air[p].send[l] + air[p].keep[l] > 2 THEN 2
                                          ELSE air[p].send[l] + air[p].keep[l]
                          ELSE air[p].keep[l]
             /\ l \in F => air[p].send[l] > 0
             /\ air[p].send[l] > 0 /\ l \notin F => l \in air[p].done
  <2>1. claim[p][l] \in 0..2 /\ air[p].send[l] \in 0..2 /\ air[p].keep[l] \in 0..2
    BY <1>1, HandIsNat
  <2>2. pay[p][l] = 0
    BY <1>1, Bags DEF Control
  <2>3. Only(air[p].send, F)[l] = IF l \in F THEN air[p].send[l] ELSE 0
    BY BagValues
  <2>4. back[l] = IF Only(air[p].send, F)[l] + air[p].keep[l] > 2 THEN 2
                  ELSE Only(air[p].send, F)[l] + air[p].keep[l]
    BY BagValues
  <2> QED BY <1>2, <2>1, <2>2, <2>3, <2>4 DEF In
<1> HIDE DEF back
<1>6. /\ pay' = [pay EXCEPT ![p] = back] /\ then' = [then EXCEPT ![p] = "claimed"]
      /\ pc' = [pc EXCEPT ![p] = IF back # Empty THEN "read" ELSE "remove"]
  <2>1. CASE back # Empty
    BY <1>2, <2>1 DEF Appends, Goto, back
  <2>2. CASE back = Empty
    <3>1. pay' = pay /\ pay[p] = Empty /\ pay \in [Procs -> Bag]
      BY <1>1, <1>2, <2>2 DEF Control, back, TypeInv, TypeOK
    <3> QED BY <1>2, <2>2, <3>1 DEF Goto, back
  <2> QED BY <2>1, <2>2
<1>7. TypeInv'
  <2>1. Grounded \in [send : Bag, keep : Bag, done : SUBSET Lines]
    BY Bags DEF Grounded
  <2>2. air' \in [Procs -> [send : Bag, keep : Bag, done : SUBSET Lines]]
    BY <1>1, <1>3, <2>1 DEF TypeInv, TypeOK
  <2>3. pay' \in [Procs -> Bag] /\ then' \in [Procs -> {"loop", "scan", "dead", "claimed"}]
    BY <1>1, <1>4, <1>6 DEF TypeInv, TypeOK
  <2> QED BY <1>1, <1>3, <1>6, <2>2, <2>3 DEF TypeInv, TypeOK, disk, story
<1>8. Apart(p) /\ Grows
  BY <1>1, <1>2, <1>3, <1>6 DEF TypeInv, TypeOK, Apart, Still, Grows, story
<1>9. /\ air'[p] = Grounded /\ then'[p] = "claimed" /\ pay'[p] = back /\ ~Waits(p)'
      /\ pc'[p] = IF back # Empty THEN "read" ELSE "remove"
  BY <1>1, <1>3, <1>6 DEF TypeInv, TypeOK, Waits, Grounded
<1>10. Shape(p)'
  <2>1. Control(p)'
    BY <1>3, <1>9 DEF Control
  <2>2. Flight(p)'
    BY <1>9, Bags DEF Flight, Grounded
  <2>3. Claiming(p)'
    <3>1. ASSUME NEW l \in Lines, back[l] > 0, l \notin loose PROVE claim[p][l] > 0
      <4>1. air[p].send[l] > 0 \/ air[p].keep[l] > 0
        BY <1>5, <3>1
      <4> QED BY <1>1, <3>1, <4>1 DEF Claiming, Live, Flying, In
    <3>2. \A l \in Lines : l \notin Flying(p)'
      BY <1>9, Bags DEF Flying, In, Grounded
    <3> QED BY <1>3, <1>9, <3>1, <3>2 DEF Claiming, disk
  <2>4. Off(p)'
    BY <1>1, <1>3 DEF Off
  <2> QED BY <2>1, <2>2, <2>3, <2>4 DEF Shape
<1>11. BornInv'
  <2>1. ASSUME NEW l \in Lines \ born PROVE back[l] = 0
    BY <1>5 DEF TelemetryInv, BornInv
  <2>2. \A l \in Lines : Grounded.send[l] = 0 /\ Grounded.keep[l] = 0
    BY Bags DEF Grounded
  <2> QED BY <1>3, <1>6, <1>1, <2>1, <2>2 DEF TelemetryInv, BornInv, TypeInv, TypeOK, disk, story
<1>12. ASSUME NEW l \in Lines PROVE Moved(p, l)
  <2>1. /\ InMemory(p, l)' = InMemory(p, l) /\ queue'[l] = queue[l] /\ sent'[l] = sent[l] /\ born' = born
        /\ Merging(p, l) = 0 /\ Merging(p, l)' = 0
    BY <1>1, <1>3, <1>9 DEF InMemory, Merging, disk, story
  <2>2. Taken(p, l) = (IF l \in air[p].done THEN 0 ELSE air[p].send[l] + air[p].keep[l]) /\ Taken(p, l)' = 0
    BY <1>1, <1>9 DEF Taken
  <2>3. /\ l \notin twice' /\ Total(p, l) <= 1 => back[l] <= Taken(p, l)
        /\ Taken(p, l) > 0 => back[l] > 0
        /\ sent[l] \in Nat
    <3>1. (air[p].send[l] = 0 \/ air[p].keep[l] = 0) /\ (l \in air[p].done => air[p].send[l] > 0)
      BY <1>1 DEF Flight
    <3>2. l \in F /\ l \in air[p].done => l \in twice'
      BY <1>2
    <3>3. sent[l] \in Nat
      BY <1>1, HandIsNat
    <3> QED BY <1>5, <2>2, <3>1, <3>2, <3>3
  <2>4. pay[p][l] = 0 /\ pay'[p][l] = back[l]
    BY <1>5, <1>9
  <2> HIDE DEF InMemory, Merging, Taken, Total
  <2> QED BY <1>1, <1>7, <2>1, <2>2, <2>3, <2>4, Parts DEF Moved
<1>13. UNCHANGED <<claim, claimOld>> /\ pc'[p] # "unlink" /\ moved' = moved
  BY <1>3, <1>9 DEF disk
<1> QED BY <1>7, <1>8, <1>10, <1>11, <1>12, <1>13, CallKeeps

LEMMA OpensKeeps == ASSUME TelemetryInv, NEW p \in Procs, Opens(p) PROVE TelemetryInv'
<1> DEFINE keep == Only(claim[p], today)  send == Only(claim[p], Lines \ today)
<1>1. TypeInv /\ Control(p) /\ Claiming(p) /\ Off(p) /\ pc[p] = "open"
  BY DEF TelemetryInv, Shape, Opens
<1>2. ~Waits(p) /\ air[p] = Grounded /\ then[p] = "loop" /\ pay[p] = Empty
  BY <1>1 DEF Control, TypeInv
<1>3. UNCHANGED <<disk, mem, held, names, at, hours, born, today, sent, fate>>
  BY DEF Opens
<1>4. keep \in Bag /\ send \in Bag
  BY <1>1, Bags DEF TypeInv, TypeOK
<1>5. ASSUME NEW l \in Lines
      PROVE  /\ claim[p][l] \in 0..2 /\ send[l] + keep[l] = claim[p][l]
             /\ send[l] \in 0..2 /\ keep[l] \in 0..2 /\ (send[l] = 0 \/ keep[l] = 0)
             /\ pay[p][l] = 0 /\ Grounded.send[l] = 0 /\ Grounded.keep[l] = 0
  <2>1. claim[p][l] \in 0..2
    BY <1>1, HandIsNat
  <2>2. /\ keep[l] = IF l \in today THEN claim[p][l] ELSE 0
        /\ send[l] = IF l \in Lines \ today THEN claim[p][l] ELSE 0
    BY BagValues
  <2> HIDE DEF keep, send
  <2> QED BY <1>2, <2>1, <2>2, Bags DEF Grounded
<1>6. \/ /\ send # Empty /\ Goto(p, "loop") /\ Notice(p) /\ UNCHANGED <<then, pay>>
         /\ air' = [air EXCEPT ![p] = [send |-> send, keep |-> keep, done |-> {}]]
      \/ /\ send = Empty /\ UNCHANGED <<air, config, seen, overruled>>
         /\ IF keep # Empty THEN Appends(p, keep, "claimed")
            ELSE Goto(p, "remove") /\ then' = [then EXCEPT ![p] = "claimed"] /\ UNCHANGED pay
  BY DEF Opens
<1> HIDE DEF keep, send
<1> DEFINE flight == [send |-> send, keep |-> keep, done |-> {}]
<1>7. /\ pc' = [pc EXCEPT ![p] = IF send # Empty THEN "loop" ELSE IF keep # Empty THEN "read" ELSE "remove"]
      /\ pay' = [pay EXCEPT ![p] = IF send # Empty THEN Empty ELSE keep]
      /\ then' = [then EXCEPT ![p] = IF send # Empty THEN "loop" ELSE "claimed"]
      /\ air' = [air EXCEPT ![p] = IF send # Empty THEN flight ELSE Grounded]
  <2>1. /\ pay = [pay EXCEPT ![p] = Empty] /\ then = [then EXCEPT ![p] = "loop"]
        /\ air = [air EXCEPT ![p] = Grounded]
    BY <1>1, <1>2 DEF TypeInv, TypeOK
  <2>2. CASE send # Empty
    BY <1>6, <2>1, <2>2 DEF Goto
  <2>3. CASE send = Empty
    BY <1>6, <2>1, <2>3 DEF Appends, Goto
  <2> QED BY <2>2, <2>3
<1>8. /\ config' \in {"none", "on", "off"} /\ seen' \in [Procs -> {"unread", "none", "on", "off"}]
      /\ \A q \in Procs \ {p} : seen'[q] = seen[q]
      /\ seen'[p] = "off" => seen[p] = "off"
  BY <1>1, <1>6 DEF Notice, TypeInv, TypeOK
<1>9. TypeInv'
  <2>1. air' \in [Procs -> [send : Bag, keep : Bag, done : SUBSET Lines]]
    <3>1. flight \in [send : Bag, keep : Bag, done : SUBSET Lines]
      BY <1>4
    <3>2. Grounded \in [send : Bag, keep : Bag, done : SUBSET Lines]
      BY Bags DEF Grounded
    <3> HIDE DEF flight
    <3> QED BY <1>1, <1>7, <3>1, <3>2 DEF TypeInv, TypeOK
  <2>2. pay' \in [Procs -> Bag] /\ then' \in [Procs -> {"loop", "scan", "dead", "claimed"}]
    BY <1>1, <1>4, <1>7, Bags DEF TypeInv, TypeOK
  <2>3. pc' \in [Procs -> {"loop", "read", "write", "scan", "unlink", "merge", "open", "remove", "off", "dead"}]
    BY <1>1, <1>7 DEF TypeInv
  <2> QED BY <1>1, <1>3, <1>8, <2>1, <2>2, <2>3 DEF TypeInv, TypeOK, disk
<1>10. Apart(p) /\ Grows
  BY <1>1, <1>3, <1>7, <1>8 DEF TypeInv, TypeOK, Apart, Still, Grows, fate
<1>11. \/ /\ Waits(p)' /\ pc'[p] = "loop" /\ pay'[p] = Empty /\ then'[p] = "loop"
          /\ air'[p] = [send |-> send, keep |-> keep, done |-> {}]
       \/ /\ ~Waits(p)' /\ pc'[p] \in {"read", "remove"} /\ (pc'[p] = "remove" => keep = Empty)
          /\ pay'[p] = keep /\ then'[p] = "claimed" /\ air'[p] = Grounded /\ send = Empty
  <2>1. /\ pc'[p] = IF send # Empty THEN "loop" ELSE IF keep # Empty THEN "read" ELSE "remove"
        /\ pay'[p] = IF send # Empty THEN Empty ELSE keep
        /\ then'[p] = IF send # Empty THEN "loop" ELSE "claimed"
        /\ air'[p] = IF send # Empty THEN flight ELSE Grounded
    BY <1>1, <1>7 DEF TypeInv, TypeOK
  <2>2. flight.send = send /\ Grounded.send = Empty
    BY DEF Grounded
  <2> HIDE DEF flight
  <2>3. Waits(p)' <=> send # Empty
    BY <2>1, <2>2 DEF Waits
  <2> QED BY <2>1, <2>3 DEF flight
<1>12. Shape(p)'
  <2>1. Control(p)'
    BY <1>11 DEF Control
  <2>2. Flight(p)'
    BY <1>3, <1>5, <1>11 DEF Flight, Grounded, disk
  <2>3. Claiming(p)'
    <3>1. claim' = claim /\ loose' = loose
      BY <1>3 DEF disk, fate
    <3>2. \A l \in Lines : (send[l] > 0 \/ keep[l] > 0) => claim[p][l] > 0
      BY <1>5
    <3> QED BY <1>5, <1>11, <3>1, <3>2, Bags DEF Claiming, Flying, In, Grounded, Live
  <2>4. Off(p)'
    BY <1>1, <1>8 DEF Off
  <2> QED BY <2>1, <2>2, <2>3, <2>4 DEF Shape
<1>13. BornInv'
  <2>1. ASSUME NEW l \in Lines \ born PROVE keep[l] = 0 /\ send[l] = 0
    BY <1>1, <1>5 DEF TelemetryInv, BornInv
  <2>2. \A l \in Lines \ born : \A q \in Procs :
          pay'[q][l] = 0 /\ air'[q].send[l] = 0 /\ air'[q].keep[l] = 0
    <3> SUFFICES ASSUME NEW l \in Lines \ born, NEW q \in Procs
                 PROVE  pay'[q][l] = 0 /\ air'[q].send[l] = 0 /\ air'[q].keep[l] = 0
      OBVIOUS
    <3>1. CASE q = p
      BY <1>5, <1>11, <2>1, <3>1, Bags
    <3>2. CASE q # p
      <4>1. pay'[q] = pay[q] /\ air'[q] = air[q]
        BY <1>7, <3>2
      <4> QED BY <4>1 DEF TelemetryInv, BornInv
    <3> QED BY <3>1, <3>2
  <2> QED BY <1>3, <2>2 DEF TelemetryInv, BornInv, disk
<1>14. ASSUME NEW l \in Lines PROVE Moved(p, l)
  <2>1. /\ InMemory(p, l)' = InMemory(p, l) /\ queue'[l] = queue[l] /\ sent'[l] = sent[l] /\ born' = born
        /\ Merging(p, l) = 0 /\ Merging(p, l)' = 0
    BY <1>1, <1>3, <1>11 DEF InMemory, Merging, disk
  <2>2. pay[p][l] = 0 /\ pay'[p][l] + Taken(p, l)' = Taken(p, l)
    <3>1. Taken(p, l) = claim[p][l]
      BY <1>2 DEF Taken
    <3>2. Taken(p, l)' = IF Waits(p)' THEN send[l] + keep[l] ELSE 0
      BY <1>11 DEF Taken
    <3>3. pay'[p][l] = IF Waits(p)' THEN 0 ELSE keep[l]
      BY <1>11, Bags
    <3>4. ~Waits(p)' => send[l] = 0
      BY <1>11, Bags
    <3> QED BY <1>5, <3>1, <3>2, <3>3, <3>4
  <2> HIDE DEF InMemory, Merging, Taken, Total
  <2> QED BY <1>1, <1>9, <2>1, <2>2, Parts DEF Moved
<1>15. UNCHANGED <<claim, claimOld>> /\ pc'[p] # "unlink" /\ moved' = moved
  BY <1>3, <1>11 DEF disk, fate
<1> QED BY <1>9, <1>10, <1>12, <1>13, <1>14, <1>15, CallKeeps

(* The claim of a process that ends is all that is left of its flush. *)
LEMMA LeftBehind ==
  ASSUME TypeInv, NEW p \in Procs, Live(p), Control(p), Flight(p), Claiming(p), NEW l \in Lines,
         ~Waits(p)', then'[p] # "claimed", claim'[p] = claim[p],
         air[p].done \subseteq twice', then[p] = "claimed" => In(claim[p]) \subseteq twice',
         Flying(p) \cap loose \subseteq gone'
  PROVE  /\ Taken(p, l)' <= Taken(p, l) \/ l \in twice'
         /\ Taken(p, l) > 0 => Taken(p, l)' > 0 \/ l \in gone'
<1>1. /\ claim[p][l] \in 0..2 /\ air[p].send[l] \in 0..2 /\ air[p].keep[l] \in 0..2
  BY HandIsNat
<1>2. Taken(p, l)' = claim[p][l]
  BY DEF Taken
<1>3. CASE Waits(p)
  <2>1. Taken(p, l) = IF l \in air[p].done THEN 0 ELSE air[p].send[l] + air[p].keep[l]
    BY <1>3 DEF Taken
  <2>2. claim[p][l] <= air[p].send[l] + air[p].keep[l]
    BY <1>3 DEF Flight
  <2>3. air[p].send[l] + air[p].keep[l] > 0 => claim[p][l] > 0 \/ l \in gone'
    BY <1>1 DEF Claiming, Flying, In
  <2> QED BY <1>1, <1>2, <2>1, <2>2, <2>3
<1>4. CASE ~Waits(p)
  <2>1. Taken(p, l) = IF then[p] = "claimed" THEN 0 ELSE claim[p][l]
    BY <1>4 DEF Taken
  <2>2. then[p] = "claimed" /\ claim[p][l] > 0 => l \in twice'
    BY DEF In
  <2> QED BY <1>1, <1>2, <2>1, <2>2
<1> QED BY <1>3, <1>4

LEMMA ExitsKeeps == ASSUME TelemetryInv, NEW p \in Procs, Exits(p) PROVE TelemetryInv'
<1> DEFINE queues == mem[p] # {} /\ Enabled(p)
<1>1. TypeInv /\ Control(p) /\ Flight(p) /\ Claiming(p) /\ Off(p) /\ pc[p] = "loop"
  BY DEF TelemetryInv, Shape, Exits
<1>2. then[p] = "loop" /\ pay[p] = Empty
  BY <1>1 DEF Control, TypeInv
<1>3. /\ mem' = [mem EXCEPT ![p] = {}] /\ air' = [air EXCEPT ![p] = Grounded]
      /\ twice' = twice \cup air[p].done
      /\ gone' = gone \cup (Flying(p) \cap loose) \cup (IF Enabled(p) THEN {} ELSE mem[p])
      /\ UNCHANGED <<disk, config, held, names, at, story, sent, moved, loose>>
  BY <1>2 DEF Exits, EndOf
<1>4. IF queues THEN Appends(p, Once(mem[p]), "dead") /\ Asks(p)
                ELSE Goto(p, "dead") /\ Forgets(p) /\ UNCHANGED <<then, pay>>
  BY DEF Exits
<1>5. queues => Enabled(p)
  OBVIOUS
<1>6. mem[p] # {} /\ ~queues => ~Enabled(p)
  OBVIOUS
<1> HIDE DEF queues
<1>7. /\ pc' = [pc EXCEPT ![p] = IF queues THEN "read" ELSE "dead"]
      /\ pay' = [pay EXCEPT ![p] = IF queues THEN Once(mem[p]) ELSE Empty]
      /\ then' = [then EXCEPT ![p] = IF queues THEN "dead" ELSE "loop"]
  <2>1. pay = [pay EXCEPT ![p] = Empty] /\ then = [then EXCEPT ![p] = "loop"]
    BY <1>1, <1>2 DEF TypeInv, TypeOK
  <2>2. CASE queues
    BY <1>4, <2>2 DEF Appends, Goto
  <2>3. CASE ~queues
    BY <1>4, <2>1, <2>3 DEF Goto
  <2> QED BY <2>2, <2>3
<1>8. /\ seen' \in [Procs -> {"unread", "none", "on", "off"}] /\ seen'[p] # "off"
      /\ \A q \in Procs \ {p} : seen'[q] = seen[q]
  BY <1>1, <1>4, <1>5 DEF Asks, Forgets, Enabled, TypeInv, TypeOK
<1>9. TypeInv'
  <2>1. Grounded \in [send : Bag, keep : Bag, done : SUBSET Lines]
    BY Bags DEF Grounded
  <2>2. air' \in [Procs -> [send : Bag, keep : Bag, done : SUBSET Lines]]
    BY <1>1, <1>3, <2>1 DEF TypeInv, TypeOK
  <2>3. Once(mem[p]) \in Bag
    BY Bags
  <2>4. pay' \in [Procs -> Bag] /\ then' \in [Procs -> {"loop", "scan", "dead", "claimed"}]
    BY <1>1, <1>7, <2>3, Bags DEF TypeInv, TypeOK
  <2>5. mem' \in [Procs -> SUBSET Lines]
    BY <1>1, <1>3 DEF TypeInv, TypeOK
  <2>6. pc' \in [Procs -> {"loop", "read", "write", "scan", "unlink", "merge", "open", "remove", "off", "dead"}]
    BY <1>1, <1>7 DEF TypeInv
  <2> QED BY <1>1, <1>3, <1>8, <2>2, <2>4, <2>5, <2>6 DEF TypeInv, TypeOK, disk, story
<1>10. Apart(p) /\ Grows
  BY <1>1, <1>3, <1>7, <1>8 DEF TypeInv, TypeOK, Apart, Still, Grows, story
<1>11. /\ pc'[p] = (IF queues THEN "read" ELSE "dead") /\ pay'[p] = (IF queues THEN Once(mem[p]) ELSE Empty)
       /\ then'[p] = (IF queues THEN "dead" ELSE "loop") /\ mem'[p] = {} /\ air'[p] = Grounded /\ ~Waits(p)'
  BY <1>1, <1>3, <1>7 DEF TypeInv, TypeOK, Waits, Grounded
<1>12. Shape(p)'
  <2>1. Control(p)'
    BY <1>11 DEF Control
  <2>2. Flight(p)'
    BY <1>11, Bags DEF Flight, Grounded
  <2>3. Claiming(p)'
    <3>1. \A l \in Lines : l \notin Flying(p)'
      BY <1>11, Bags DEF Flying, In, Grounded
    <3> QED BY <1>11, <3>1 DEF Claiming, Live
  <2>4. Off(p)'
    BY <1>8 DEF Off
  <2> QED BY <2>1, <2>2, <2>3, <2>4 DEF Shape
<1>13. BornInv'
  <2>1. ASSUME NEW l \in Lines \ born, NEW q \in Procs
        PROVE  l \notin mem'[q] /\ pay'[q][l] = 0 /\ air'[q].send[l] = 0 /\ air'[q].keep[l] = 0
    <3>1. CASE q = p
      <4>1. Once(mem[p])[l] = 0
        BY BagValues DEF TelemetryInv, BornInv
      <4> QED BY <1>11, <3>1, <4>1, Bags DEF Grounded
    <3>2. CASE q # p
      <4>1. pay'[q] = pay[q] /\ air'[q] = air[q] /\ mem'[q] = mem[q]
        BY <1>10, <3>2 DEF Apart, Still
      <4> QED BY <4>1 DEF TelemetryInv, BornInv
    <3> QED BY <3>1, <3>2
  <2> QED BY <1>3, <2>1 DEF TelemetryInv, BornInv, disk, story
<1>14. ASSUME NEW l \in Lines PROVE Moved(p, l)
  <2>1. /\ queue'[l] = queue[l] /\ sent'[l] = sent[l] /\ born' = born
        /\ Merging(p, l) = 0 /\ Merging(p, l)' = 0 /\ InMemory(p, l)' = 0 /\ pay[p][l] = 0
    BY <1>1, <1>2, <1>3, <1>11, Bags DEF InMemory, Merging, disk, story
  <2>2. pay'[p][l] = InMemory(p, l) \/ (pay'[p][l] = 0 /\ (InMemory(p, l) > 0 => l \in gone'))
    <3>1. CASE queues
      <4>1. Once(mem[p])[l] = IF l \in mem[p] THEN 1 ELSE 0
        BY BagValues
      <4> QED BY <1>11, <3>1, <4>1 DEF InMemory
    <3>2. CASE ~queues
      BY <1>3, <1>6, <1>11, <3>2, Bags DEF InMemory
    <3> QED BY <3>1, <3>2
  <2>3. /\ Taken(p, l)' <= Taken(p, l) \/ l \in twice'
        /\ Taken(p, l) > 0 => Taken(p, l)' > 0 \/ l \in gone'
    BY <1>1, <1>2, <1>3, <1>11, LeftBehind DEF disk, Live
  <2> HIDE DEF InMemory, Merging, Taken, Total
  <2> QED BY <1>1, <1>9, <2>1, <2>2, <2>3, Parts DEF Moved
<1>15. UNCHANGED <<claim, claimOld>> /\ pc'[p] # "unlink" /\ moved' = moved
  BY <1>3, <1>11 DEF disk
<1> QED BY <1>9, <1>10, <1>12, <1>13, <1>14, <1>15, CallKeeps

LEMMA DiesKeeps == ASSUME TelemetryInv, NEW p \in Procs, Dies(p) PROVE TelemetryInv'
<1> DEFINE inHand  == IF pc[p] = "merge" THEN In(held[p]) ELSE In(pay[p])
           claimed == Flying(p) \cup (IF then[p] = "claimed" THEN In(pay[p]) ELSE {})
<1>1. TypeInv /\ Control(p) /\ Flight(p) /\ Claiming(p) /\ Live(p)
  BY DEF TelemetryInv, Shape, Dies
<1>2. PICK torn \in {FALSE, pc[p] = "write"} :
        /\ IF torn THEN queue' = Empty /\ queueOld' = FALSE ELSE UNCHANGED <<queue, queueOld>>
        /\ gone' = gone \cup mem[p] \cup (claimed \cap loose) \cup (inHand \ claimed)
                        \cup (IF torn THEN In(queue) ELSE {})
  BY DEF Dies
<1>3. /\ mem' = [mem EXCEPT ![p] = {}] /\ air' = [air EXCEPT ![p] = Grounded]
      /\ twice' = twice \cup air[p].done \cup (IF then[p] = "claimed" THEN In(claim[p]) ELSE {})
      /\ pc' = [pc EXCEPT ![p] = "dead"]
      /\ then' = [then EXCEPT ![p] = "loop"] /\ at' = [at EXCEPT ![p] = p]
      /\ pay' = [pay EXCEPT ![p] = Empty] /\ held' = [held EXCEPT ![p] = Empty]
      /\ names' = [names EXCEPT ![p] = {}] /\ seen' = [seen EXCEPT ![p] = "unread"]
      /\ moved' = moved \ {p}
      /\ UNCHANGED <<claim, claimOld, config, story, sent, loose>>
  BY DEF Dies, EndOf, Goto, Forgets
<1> HIDE DEF inHand, claimed
<1>4. TypeInv'
  <2>1. queue' \in Bag /\ queueOld' \in BOOLEAN
    BY <1>1, <1>2, Bags DEF TypeInv, TypeOK
  <2>2. Grounded \in [send : Bag, keep : Bag, done : SUBSET Lines]
    BY Bags DEF Grounded
  <2>3. air' \in [Procs -> [send : Bag, keep : Bag, done : SUBSET Lines]]
    BY <1>1, <1>3, <2>2 DEF TypeInv, TypeOK
  <2>4. pay' \in [Procs -> Bag] /\ held' \in [Procs -> Bag]
    BY <1>1, <1>3, Bags DEF TypeInv, TypeOK
  <2>5. mem' \in [Procs -> SUBSET Lines] /\ seen' \in [Procs -> {"unread", "none", "on", "off"}]
    BY <1>1, <1>3 DEF TypeInv, TypeOK
  <2> QED BY <1>1, <1>3, <2>1, <2>3, <2>4, <2>5 DEF TypeInv, TypeOK, story
<1>5. Apart(p) /\ Grows
  BY <1>1, <1>2, <1>3 DEF TypeInv, TypeOK, Apart, Still, Grows, story
<1>6. /\ pc'[p] = "dead" /\ pay'[p] = Empty /\ held'[p] = Empty /\ then'[p] = "loop" /\ mem'[p] = {}
      /\ air'[p] = Grounded /\ seen'[p] = "unread" /\ ~Waits(p)'
  BY <1>1, <1>3 DEF TypeInv, TypeOK, Waits, Grounded
<1>7. Shape(p)'
  <2>1. Flight(p)'
    BY <1>6, Bags DEF Flight, Grounded
  <2> QED BY <1>6, <2>1 DEF Shape, Control, Claiming, Live, Off
<1>8. BornInv'
  <2>1. ASSUME NEW l \in Lines \ born, NEW q \in Procs
        PROVE  /\ l \notin mem'[q] /\ pay'[q][l] = 0 /\ held'[q][l] = 0
               /\ air'[q].send[l] = 0 /\ air'[q].keep[l] = 0
    <3>1. CASE q = p
      BY <1>6, <3>1, Bags DEF Grounded
    <3>2. CASE q # p
      <4>1. pay'[q] = pay[q] /\ held'[q] = held[q] /\ air'[q] = air[q] /\ mem'[q] = mem[q]
        BY <1>5, <3>2 DEF Apart, Still
      <4> QED BY <4>1 DEF TelemetryInv, BornInv
    <3> QED BY <3>1, <3>2
  <2>2. \A l \in Lines \ born : queue'[l] = 0
    BY <1>2, Bags DEF TelemetryInv, BornInv
  <2> QED BY <1>3, <2>1, <2>2 DEF TelemetryInv, BornInv, story
<1>9. ASSUME NEW l \in Lines PROVE Moved(p, l)
  <2>1. /\ sent'[l] = sent[l] /\ born' = born
        /\ InMemory(p, l)' = 0 /\ pay'[p][l] = 0 /\ Merging(p, l)' = 0
    BY <1>3, <1>6, Bags DEF InMemory, Merging, story
  <2>2. /\ queue'[l] = queue[l] \/ queue'[l] = 0
        /\ queue[l] > 0 => queue'[l] > 0 \/ l \in gone'
    BY <1>2, Bags DEF In
  <2>3. /\ Taken(p, l)' <= Taken(p, l) \/ l \in twice'
        /\ Taken(p, l) > 0 => Taken(p, l)' > 0 \/ l \in gone'
    BY <1>1, <1>2, <1>3, <1>6, LeftBehind DEF claimed
  <2>4. InMemory(p, l) > 0 => l \in gone'
    BY <1>2 DEF InMemory
  <2>5. pay[p][l] > 0 \/ Merging(p, l) > 0 => l \in gone' \/ Taken(p, l)' > 0
    <3> SUFFICES ASSUME pay[p][l] > 0 \/ Merging(p, l) > 0, l \notin gone'
                 PROVE  Taken(p, l)' > 0
      OBVIOUS
    <3>1. ~Waits(p) /\ l \notin Flying(p)
      BY <1>1, Bags DEF Control, Merging, Grounded, Flying, In
    <3>2. l \in inHand
      BY <1>1, Bags DEF Control, Merging, In, inHand
    <3>3. l \in claimed /\ l \notin loose
      BY <1>2, <3>2
    <3>4. then[p] = "claimed" /\ pay[p][l] > 0
      BY <3>1, <3>3 DEF claimed, In
    <3> QED BY <1>1, <1>3, <1>6, <3>3, <3>4 DEF Claiming, Taken
  <2> HIDE DEF InMemory, Merging, Taken, Total
  <2>6. /\ InMemory(p, l) \in Nat /\ Merging(p, l) \in Nat /\ Taken(p, l) \in Nat /\ Taken(p, l)' \in Nat
        /\ pay[p][l] \in Nat /\ queue[l] \in Nat /\ sent[l] \in Nat /\ queue'[l] \in Nat
        /\ Total(p, l) = InMemory(p, l) + pay[p][l] + Merging(p, l) + Taken(p, l) + queue[l] + sent[l]
        /\ Total(p, l)' = Taken(p, l)' + queue'[l] + sent[l]
    BY <1>1, <1>4, <2>1, Parts
  <2>7. l \notin twice' => Total(p, l)' <= Total(p, l)
    BY <2>2, <2>3, <2>6
  <2>8. l \notin gone' /\ Total(p, l) > 0 => Total(p, l)' > 0
    BY <2>1, <2>2, <2>3, <2>4, <2>5, <2>6
  <2> QED BY <2>1, <2>6, <2>7, <2>8 DEF Moved
<1>10. UNCHANGED <<claim, claimOld>> /\ pc'[p] # "unlink" /\ moved' = moved \ {p}
  BY <1>3, <1>6
<1> QED BY <1>4, <1>5, <1>7, <1>8, <1>9, <1>10, CallKeeps

LEMMA RecordKeeps ==
  ASSUME TelemetryInv, NEW p \in Procs, NEW k \in Lines, Record(p, k) PROVE TelemetryInv'
<1>1. TypeInv /\ Control(p) /\ Flight(p) /\ Claiming(p) /\ Off(p) /\ pc[p] = "loop"
  BY DEF TelemetryInv, Shape, Record
<1>2. /\ born' = born \cup {k} /\ k \notin born /\ today' = today \cup ({k} \ Events)
      /\ mem' = [mem EXCEPT ![p] = @ \cup {k}]
      /\ seen' = [seen EXCEPT ![p] = IF @ = "unread" THEN config ELSE @]
      /\ seen'[p] # "off"
      /\ UNCHANGED <<disk, config, pc, hand, air, sent, fate>>
  BY <1>1 DEF Record, Enabled, Asks, TypeInv, TypeOK
<1>3. TypeInv'
  BY <1>1, <1>2 DEF TypeInv, TypeOK, disk, hand
<1>4. Apart(p) /\ Grows
  BY <1>1, <1>2 DEF TypeInv, TypeOK, Apart, Still, Grows, hand, fate
<1>5. Shape(p)'
  BY <1>1, <1>2 DEF Shape, Control, Flight, Claiming, Off, Waits, Live, Flying, disk, hand, fate
<1>6. BornInv'
  BY <1>1, <1>2 DEF TelemetryInv, BornInv, TypeInv, TypeOK, disk, hand
<1>7. ASSUME NEW l \in Lines PROVE Moved(p, l)
  <2>1. /\ pay'[p][l] = pay[p][l] /\ queue'[l] = queue[l] /\ sent'[l] = sent[l]
        /\ Merging(p, l)' = Merging(p, l) /\ Taken(p, l)' = Taken(p, l)
    BY <1>2 DEF Merging, Taken, Waits, disk, hand
  <2>2. InMemory(p, l)' = IF l = k THEN 1 ELSE InMemory(p, l)
    BY <1>1, <1>2 DEF InMemory, TypeInv, TypeOK
  <2>3. l = k => /\ InMemory(p, l) = 0 /\ pay[p][l] = 0 /\ Merging(p, l) = 0 /\ Taken(p, l) = 0
                 /\ queue[l] = 0 /\ sent[l] = 0
    <3> SUFFICES ASSUME l \in Lines \ born
                 PROVE  /\ InMemory(p, l) = 0 /\ pay[p][l] = 0 /\ Merging(p, l) = 0 /\ Taken(p, l) = 0
                        /\ queue[l] = 0 /\ sent[l] = 0
      BY <1>2
    <3> QED BY DEF TelemetryInv, BornInv, InMemory, Merging, Taken
  <2> HIDE DEF InMemory, Merging, Taken, Total
  <2>4. /\ InMemory(p, l) \in Nat /\ Merging(p, l) \in Nat /\ Taken(p, l) \in Nat
        /\ pay[p][l] \in Nat /\ queue[l] \in Nat /\ sent[l] \in Nat
        /\ Total(p, l) = InMemory(p, l) + pay[p][l] + Merging(p, l) + Taken(p, l) + queue[l] + sent[l]
        /\ Total(p, l)' = InMemory(p, l)' + pay[p][l] + Merging(p, l) + Taken(p, l) + queue[l] + sent[l]
    BY <1>1, <1>3, <2>1, Parts
  <2>5. CASE l = k
    BY <1>2, <2>2, <2>3, <2>4, <2>5 DEF Moved
  <2>6. CASE l # k
    BY <1>2, <2>2, <2>4, <2>6 DEF Moved
  <2> QED BY <2>5, <2>6
<1>8. UNCHANGED <<claim, claimOld>> /\ pc'[p] # "unlink" /\ moved' = moved
  BY <1>1, <1>2 DEF disk, fate
<1> QED BY <1>3, <1>4, <1>5, <1>6, <1>7, <1>8, CallKeeps

LEMMA LooksKeeps == ASSUME TelemetryInv, NEW p \in Procs, Looks(p) PROVE TelemetryInv'
<1>1. TypeInv /\ Control(p) /\ Flight(p) /\ Claiming(p) /\ Off(p) /\ pc[p] = "scan"
  BY DEF TelemetryInv, Shape, Looks
<1>2. ~Waits(p) /\ then[p] = "loop"
  BY <1>1 DEF Control, TypeInv
<1>3. PICK q \in names[p] :
        /\ names' = [names EXCEPT ![p] = @ \ {q}]
        /\ IF claim[q] # Empty /\ claimOld[q]
           THEN /\ Goto(p, "unlink")
                /\ held' = [held EXCEPT ![p] = claim[q]] /\ at' = [at EXCEPT ![p] = q]
           ELSE UNCHANGED <<pc, held, at>>
  BY DEF Looks
<1>4. q \in Procs /\ UNCHANGED <<disk, config, seen, mem, then, pay, air, story, sent, fate>>
  BY <1>1, <1>3 DEF Looks, TypeInv
<1>5. TypeInv'
  <2>1. held' \in [Procs -> Bag] /\ at' \in [Procs -> Procs] /\ names' \in [Procs -> SUBSET Procs]
    <3>1. claim[q] \in Bag /\ held \in [Procs -> Bag] 
          /\ at \in [Procs -> Procs] /\ names \in [Procs -> SUBSET Procs]
      BY <1>1, <1>4 DEF TypeInv, TypeOK
    <3> QED BY <1>3, <1>4, <3>1
  <2>2. pc' \in [Procs -> {"loop", "read", "write", "scan", "unlink", "merge", "open", "remove", "off", "dead"}]
    BY <1>1, <1>3 DEF Goto, TypeInv
  <2> QED BY <1>1, <1>4, <2>1, <2>2 DEF TypeInv, TypeOK, disk, story
<1>6. Apart(p) /\ Grows
  BY <1>1, <1>3, <1>4 DEF Goto, TypeInv, TypeOK, Apart, Still, Grows, story, fate
<1>7. pc'[p] \in {"scan", "unlink"}
  BY <1>1, <1>3 DEF Goto, TypeInv
<1>8. Shape(p)'
  BY <1>1, <1>2, <1>4, <1>7 DEF Shape, Control, Flight, Claiming, Off, Waits, Live, Flying, disk, fate
<1>9. BornInv'
  <2>1. ASSUME NEW l \in Lines \ born, NEW r \in Procs PROVE held'[r][l] = 0
    <3>1. held[r][l] = 0 /\ claim[q][l] = 0 /\ held \in [Procs -> Bag]
      BY <1>1, <1>4 DEF TelemetryInv, BornInv, TypeInv, TypeOK
    <3>2. held'[r] = held[r] \/ held'[r] = claim[q]
      BY <1>3, <3>1
    <3> QED BY <3>1, <3>2
  <2> QED BY <1>4, <2>1 DEF TelemetryInv, BornInv, disk, story
<1>10. ReadInv'
  <2>1. ASSUME NEW r \in Procs, pc'[r] = "unlink", r \notin moved'
        PROVE  held'[r] # Empty /\ claim'[at'[r]] = held'[r] /\ claimOld'[at'[r]]
    <3>1. CASE r = p
      <4>1. claim[q] # Empty /\ claimOld[q] /\ held'[p] = claim[q] /\ at'[p] = q
        BY <1>1, <1>3, <2>1, <3>1 DEF TypeInv, TypeOK
      <4> QED BY <1>4, <3>1, <4>1 DEF disk
    <3>2. CASE r # p
      <4>1. pc[r] = "unlink" /\ r \notin moved /\ held'[r] = held[r] /\ at'[r] = at[r]
        BY <1>4, <1>6, <2>1, <3>2 DEF Apart, Still, fate
      <4> QED BY <1>4, <4>1 DEF TelemetryInv, ReadInv, disk
    <3> QED BY <3>1, <3>2
  <2> QED BY <2>1 DEF ReadInv, Empty
<1>11. ASSUME NEW l \in Lines PROVE Moved(p, l)
  <2>1. Total(p, l)' = Total(p, l) /\ Total(p, l) \in Nat
    BY <1>1, <1>4, <1>7, HandIsNat DEF Total, Hand, InMemory, Merging, Taken, Waits, disk
  <2> HIDE DEF Total
  <2> QED BY <1>4, <2>1 DEF Moved, story
<1>12. \A r \in Procs \ {p} : claim'[r] = claim[r]
  BY <1>4 DEF disk
<1> QED BY <1>5, <1>6, <1>8, <1>9, <1>10, <1>11, <1>12, StepKeeps

LEMMA ClaimsKeeps == ASSUME TelemetryInv, NEW p \in Procs, Claims(p) PROVE TelemetryInv'
<1>1. TypeInv /\ Control(p) /\ Flight(p) /\ Claiming(p) /\ Off(p) /\ pc[p] = "scan"
  BY DEF TelemetryInv, Shape, Claims
<1>2. ~Waits(p) /\ then[p] = "loop" /\ claim[p] = Empty
  BY <1>1 DEF Control, Claiming, Live, TypeInv
<1>3. /\ pc' = [pc EXCEPT ![p] = "open"]
      /\ claim' = [claim EXCEPT ![p] = queue] /\ claimOld' = [claimOld EXCEPT ![p] = queueOld]
      /\ queue' = Empty /\ queueOld' = FALSE
      /\ UNCHANGED <<config, seen, mem, hand, air, story, sent, fate>>
  BY DEF Claims, Goto
<1>4. TypeInv'
  BY <1>1, <1>3, Bags DEF TypeInv, TypeOK, hand, story
<1>5. Apart(p) /\ Grows
  BY <1>1, <1>3 DEF TypeInv, Apart, Still, Grows, hand, story, fate
<1>6. pc'[p] = "open" /\ claim'[p] = queue
  BY <1>1, <1>3 DEF TypeInv, TypeOK
<1>7. Shape(p)'
  <2>1. \A l \in Lines : l \notin Flying(p)
    BY <1>1, <1>2, Bags DEF Control, Flying, In, Grounded
  <2> QED BY <1>1, <1>2, <1>3, <1>6, <2>1 DEF Shape, Control, Flight, Claiming, Off, Waits, Flying, hand
<1>8. BornInv'
  <2>1. ASSUME NEW l \in Lines \ born, NEW r \in Procs PROVE claim'[r][l] = 0
    BY <1>1, <1>3 DEF TelemetryInv, BornInv, TypeInv, TypeOK
  <2> QED BY <1>3, <2>1, Bags DEF TelemetryInv, BornInv, hand, story
<1>9. ReadInv'
  <2>1. \A q \in Procs \ {p} : pc[q] = "unlink" /\ q \notin moved => at[q] # p
    BY <1>2 DEF TelemetryInv, ReadInv
  <2> QED BY <1>1, <1>3, <1>5, <1>6, <2>1, ReadKeeps DEF fate, TypeInv
<1>10. ASSUME NEW l \in Lines PROVE Moved(p, l)
  <2>1. Total(p, l)' = Total(p, l) /\ Total(p, l) \in Nat
    <3>1. /\ InMemory(p, l)' = InMemory(p, l) /\ pay'[p][l] = pay[p][l] /\ sent'[l] = sent[l]
          /\ Merging(p, l) = 0 /\ Merging(p, l)' = 0
      BY <1>1, <1>3, <1>6 DEF InMemory, Merging, hand
    <3>2. Taken(p, l) = 0 /\ Taken(p, l)' = queue[l] /\ queue'[l] = 0
      BY <1>2, <1>3, <1>6, Bags DEF Taken, Waits, hand
    <3> HIDE DEF InMemory, Merging, Taken, Total
    <3> QED BY <1>1, <1>4, <3>1, <3>2, Parts
  <2> HIDE DEF Total
  <2> QED BY <1>3, <2>1 DEF Moved, story
<1>11. \A r \in Procs \ {p} : claim'[r] = claim[r]
  BY <1>3
<1> QED BY <1>4, <1>5, <1>7, <1>8, <1>9, <1>10, <1>11, StepKeeps

LEMMA RemovesKeeps == ASSUME TelemetryInv, NEW p \in Procs, Removes(p) PROVE TelemetryInv'
<1>1. TypeInv /\ Control(p) /\ Flight(p) /\ Claiming(p) /\ Off(p) /\ pc[p] = "remove"
  BY DEF TelemetryInv, Shape, Removes
<1>2. ~Waits(p) /\ (then[p] # "claimed" => claim[p] = Empty) /\ pay[p] = Empty
  BY <1>1 DEF Control, Claiming, Live
<1>3. /\ pc' = [pc EXCEPT ![p] = "loop"] /\ then' = [then EXCEPT ![p] = "loop"]
      /\ claim' = [claim EXCEPT ![p] = Empty] /\ claimOld' = [claimOld EXCEPT ![p] = FALSE]
      /\ moved' = moved \cup Others(p)
      /\ UNCHANGED <<queue, queueOld, config, seen, mem, pay, held, names, at,
                     air, story, sent, twice, loose, gone>>
  BY DEF Removes, Goto
<1>4. TypeInv'
  BY <1>1, <1>3, Bags DEF TypeInv, TypeOK, story
<1>5. Apart(p) /\ Grows
  BY <1>1, <1>3 DEF TypeInv, Apart, Still, Grows, story
<1>6. pc'[p] = "loop" /\ then'[p] = "loop" /\ claim'[p] = Empty
  BY <1>1, <1>3 DEF TypeInv, TypeOK
<1>7. Shape(p)'
  <2>1. \A l \in Lines : l \notin Flying(p)
    BY <1>1, <1>2, Bags DEF Control, Flying, In, Grounded
  <2> QED BY <1>1, <1>2, <1>3, <1>6, <2>1 DEF Shape, Control, Flight, Claiming, Off, Waits, Flying
<1>8. BornInv'
  <2>1. ASSUME NEW l \in Lines \ born, NEW r \in Procs PROVE claim'[r][l] = 0
    BY <1>1, <1>3, Bags DEF TelemetryInv, BornInv, TypeInv, TypeOK
  <2> QED BY <1>3, <2>1 DEF TelemetryInv, BornInv, story
<1>9. ReadInv'
  <2>1. \A q \in Procs \ {p} : pc[q] = "unlink" /\ q \notin moved' => at[q] # p
    BY <1>3 DEF Others
  <2>2. \A q \in Procs \ {p} : pc[q] = "unlink" /\ q \notin moved' =>
          claim'[at[q]] = claim[at[q]] /\ claimOld'[at[q]] = claimOld[at[q]]
    BY <1>1, <1>3, <2>1 DEF TypeInv, TypeOK
  <2>3. \A q \in Procs \ {p} : q \in moved => q \in moved'
    BY <1>3
  <2> QED BY <1>5, <1>6, <2>2, <2>3, ReadKeeps
<1>10. ASSUME NEW l \in Lines PROVE Moved(p, l)
  <2>1. Total(p, l)' = Total(p, l) /\ Total(p, l) \in Nat
    <3>1. /\ InMemory(p, l)' = InMemory(p, l) /\ pay'[p][l] = pay[p][l] /\ sent'[l] = sent[l]
          /\ queue'[l] = queue[l] /\ Merging(p, l) = 0 /\ Merging(p, l)' = 0
      BY <1>1, <1>3, <1>6 DEF InMemory, Merging
    <3>2. Taken(p, l) = 0 /\ Taken(p, l)' = 0
      BY <1>2, <1>3, <1>6, Bags DEF Taken, Waits
    <3> HIDE DEF InMemory, Merging, Taken, Total
    <3> QED BY <1>1, <1>4, <3>1, <3>2, Parts
  <2> HIDE DEF Total
  <2> QED BY <1>3, <2>1 DEF Moved, story
<1>11. \A r \in Procs \ {p} : claim'[r] = claim[r]
  BY <1>3
<1> QED BY <1>4, <1>5, <1>7, <1>8, <1>9, <1>10, <1>11, StepKeeps

(* The lines of a stale claim change hands, or what a race doubles or drops   *)
(* is known.                                                                *)
LEMMA UnlinksKeeps == ASSUME TelemetryInv, NEW p \in Procs, Unlinks(p) PROVE TelemetryInv'
<1>0. PICK q \in Procs : q = at[p]
  BY DEF TelemetryInv, TypeInv
<1> DEFINE raced == p \in moved \/ (InUse(q) /\ claimOld[q])
<1>1. /\ TypeInv /\ pc[p] = "unlink" /\ q \in Procs
      /\ \A r \in Procs : Control(r) /\ Flight(r) /\ Claiming(r) /\ Off(r)
  BY DEF TelemetryInv, Shape, Unlinks, TypeInv
<1>2. /\ pc' = [pc EXCEPT ![p] = "merge"]
      /\ claim' = [claim EXCEPT ![q] = Empty] /\ claimOld' = [claimOld EXCEPT ![q] = FALSE]
      /\ moved' = (moved \cup Others(q)) \ {p}
      /\ twice' = IF raced THEN twice \cup In(held[p]) ELSE twice
      /\ loose' = IF raced /\ InUse(q) THEN loose \cup In(claim[q]) ELSE loose
      /\ gone' = IF raced /\ ~InUse(q) THEN gone \cup (In(claim[q]) \ In(held[p])) ELSE gone
      /\ UNCHANGED <<queue, queueOld, config, seen, mem, hand, air, story, sent>>
  BY <1>0 DEF Unlinks, Goto
<1>3. ~raced => q # p /\ claim[q] = held[p] /\ ~InUse(q)
  <2> SUFFICES ASSUME ~raced PROVE q # p /\ claim[q] = held[p] /\ ~InUse(q)
    OBVIOUS
  <2>1. held[p] # Empty /\ claim[q] = held[p] /\ claimOld[q]
    BY <1>0, <1>1 DEF TelemetryInv, ReadInv
  <2>2. claim[p] = Empty
    BY <1>1 DEF Control, Claiming, Live
  <2> QED BY <2>1, <2>2
<1>4. raced \/ ~InUse(q)
  BY <1>3
<1>5. ~Waits(p) /\ then[p] = "loop" /\ pay[p] = Empty
  BY <1>1 DEF Control, TypeInv
<1> HIDE DEF raced
<1>6. TypeInv'
  BY <1>1, <1>2, Bags DEF TypeInv, TypeOK, hand, story
<1>7. Apart(p) /\ Grows
  BY <1>1, <1>2 DEF TypeInv, Apart, Still, Grows, hand, story
<1>8. /\ pc'[p] = "merge" /\ claim'[q] = Empty /\ \A r \in Procs \ {q} : claim'[r] = claim[r]
      /\ \A r \in Procs \ {p} : pc'[r] = pc[r]
  BY <1>1, <1>2 DEF TypeInv, TypeOK
<1>9. ASSUME NEW r \in Procs PROVE Shape(r)'
  <2>1. Control(r)'
    BY <1>1, <1>2, <1>5, <1>8 DEF Control, Waits, hand
  <2>2. Flight(r)'
    <3>1. ASSUME NEW l \in Lines
          PROVE  /\ claim'[r][l] <= claim[r][l] /\ claim[r][l] \in 0..2 /\ claim'[r][l] \in 0..2
                 /\ air[r].send[l] \in 0..2 /\ air[r].keep[l] \in 0..2
      BY <1>1, <1>8, HandIsNat, Bags
    <3> QED BY <1>1, <1>2, <3>1 DEF Flight, Waits
  <2>3. Claiming(r)'
    <3>1. CASE r # q
      BY <1>1, <1>2, <1>5, <1>7, <1>8, <3>1 DEF Claiming, Live, Waits, Flying, hand, Grows
    <3>2. CASE r = q
      <4>1. ASSUME NEW l \in Lines, InUse(q), claim[q][l] > 0 PROVE l \in loose'
        BY <1>2, <1>4, <4>1 DEF In
      <4>2. ASSUME NEW l \in Lines, Live(q), l \in Flying(q), l \notin loose' PROVE FALSE
        <5>1. Waits(q)
          BY <1>1, <4>2, Bags DEF Control, Flying, In, Grounded
        <5>2. claim[q][l] > 0
          BY <1>1, <1>7, <4>2 DEF Claiming, Grows
        <5> QED BY <4>1, <4>2, <5>1, <5>2 DEF InUse
      <4>3. ASSUME NEW l \in Lines, then[q] = "claimed", pay[q][l] > 0, l \notin loose' PROVE FALSE
        <5>1. Live(q)
          BY <1>1, <4>3 DEF Control, Live
        <5>2. claim[q][l] > 0
          BY <1>1, <1>7, <4>3 DEF Claiming, Grows
        <5> QED BY <4>1, <4>3, <5>1, <5>2 DEF InUse
      <4>4. Live(q)' <=> Live(q)
        BY <1>1, <1>8 DEF Live
      <4> QED BY <1>2, <1>8, <3>2, <4>2, <4>3, <4>4 DEF Claiming, Flying, hand
    <3> QED BY <3>1, <3>2
  <2>4. Off(r)'
    BY <1>1, <1>2, <1>8 DEF Off, Waits
  <2> QED BY <2>1, <2>2, <2>3, <2>4 DEF Shape
<1>10. BornInv'
  <2>1. ASSUME NEW l \in Lines \ born, NEW r \in Procs PROVE claim'[r][l] = 0
    BY <1>8, Bags DEF TelemetryInv, BornInv
  <2> QED BY <1>2, <2>1 DEF TelemetryInv, BornInv, hand, story
<1>11. ReadInv'
  <2>1. \A r \in Procs \ {p} : pc[r] = "unlink" /\ r \notin moved' => at[r] # q
    BY <1>2 DEF Others
  <2>2. \A r \in Procs \ {p} : pc[r] = "unlink" /\ r \notin moved' =>
          claim'[at[r]] = claim[at[r]] /\ claimOld'[at[r]] = claimOld[at[r]]
    BY <1>1, <1>2, <2>1 DEF TypeInv, TypeOK
  <2>3. \A r \in Procs \ {p} : r \in moved => r \in moved'
    BY <1>2
  <2> QED BY <1>7, <1>8, <2>2, <2>3, ReadKeeps
<1>12. Counted'
  <2>1. ASSUME NEW l \in Lines PROVE AtMostOnce(l)' /\ AtLeastOnce(l)'
    <3> DEFINE h == held[p][l]
               c == IF InUse(q) THEN 0 ELSE claim[q][l]
    <3>1. \A r \in Procs \ {p, q} : Hand(r, l)' = Hand(r, l)
      BY <1>2, <1>8 DEF Hand, InMemory, Merging, Taken, Waits, hand
    <3>2. h \in Nat /\ c \in Nat /\ queue[l] \in Nat /\ sent[l] \in Nat
          /\ \A r \in Procs : Hand(r, l) \in Nat /\ Hand(r, l)' \in Nat
      BY <1>1, <1>6, HandIsNat, HandStaysNat
    <3>3. /\ Taken(q, l) = (IF InUse(q) THEN Taken(q, l) ELSE claim[q][l])
          /\ Taken(q, l)' = IF InUse(q) THEN Taken(q, l) ELSE 0
      <4>1. InUse(q) <=> Waits(q) \/ then[q] = "claimed"
        BY <1>1 DEF InUse, Control, Live
      <4>2. claim'[q][l] = 0
        BY <1>8, Bags
      <4> QED BY <1>2, <4>1, <4>2 DEF Taken, Waits, hand
    <3>4. q # p => Hand(p, l)' = Hand(p, l) + h /\ Hand(q, l)' = Hand(q, l) - c
      <4> SUFFICES ASSUME q # p PROVE Hand(p, l)' = Hand(p, l) + h /\ Hand(q, l)' = Hand(q, l) - c
        OBVIOUS
      <4>1. /\ InMemory(p, l)' = InMemory(p, l) /\ pay'[p][l] = pay[p][l] /\ Taken(p, l)' = Taken(p, l)
            /\ Merging(p, l) = 0 /\ Merging(p, l)' = h
        BY <1>1, <1>2, <1>8 DEF InMemory, Merging, Taken, Waits, hand
      <4>2. InMemory(q, l)' = InMemory(q, l) /\ pay'[q][l] = pay[q][l] /\ Merging(q, l)' = Merging(q, l)
        BY <1>1, <1>2, <1>8 DEF InMemory, Merging, hand
      <4>3. /\ InMemory(p, l) \in Nat /\ pay[p][l] \in Nat /\ Taken(p, l) \in Nat
            /\ InMemory(q, l) \in Nat /\ pay[q][l] \in Nat /\ Taken(q, l) \in Nat /\ Merging(q, l) \in Nat
        BY <1>1, <1>6, Parts
      <4> HIDE DEF InMemory, Merging, Taken
      <4> QED BY <3>2, <3>3, <4>1, <4>2, <4>3 DEF Hand
    <3>5. q = p => Hand(p, l)' = Hand(p, l) + h - c
      <4> SUFFICES ASSUME q = p PROVE Hand(p, l)' = Hand(p, l) + h - c
        OBVIOUS
      <4>1. /\ InMemory(p, l)' = InMemory(p, l) /\ pay'[p][l] = pay[p][l]
            /\ Merging(p, l) = 0 /\ Merging(p, l)' = h
        BY <1>1, <1>2, <1>8 DEF InMemory, Merging, hand
      <4>2. InMemory(p, l) \in Nat /\ pay[p][l] \in Nat /\ Taken(p, l) \in Nat
        BY <1>1, <1>6, Parts
      <4> HIDE DEF InMemory, Merging, Taken
      <4> QED BY <3>2, <3>3, <4>1, <4>2 DEF Hand
    <3>6. /\ ~raced => q # p /\ c = h
          /\ raced /\ h > 0 => l \in twice'
          /\ raced /\ c > 0 /\ h = 0 => l \in gone'
          /\ q = p => c = 0
      BY <1>1, <1>2, <1>3, <1>5, Bags DEF In, Claiming, Live
    <3>7. queue' = queue /\ sent' = sent /\ born' = born /\ twice \subseteq twice' /\ gone \subseteq gone'
      BY <1>2, <1>7 DEF story, Grows
    <3>8. AtMostOnce(l) /\ AtLeastOnce(l)
      BY DEF TelemetryInv, Counted
    <3>9. p \in Procs /\ q \in Procs
      BY <1>1
    <3> HIDE DEF Hand, h, c
    <3>10. AtMostOnce(l)'
      <4> SUFFICES ASSUME l \notin twice'
                   PROVE  /\ queue[l] + sent[l] <= 1
                          /\ \A r \in Procs : Hand(r, l)' + queue[l] + sent[l] <= 1
                          /\ \A r, s \in Procs : r # s /\ Hand(s, l)' > 0 => Hand(r, l)' + queue[l] + sent[l] = 0
        BY <3>7 DEF AtMostOnce, Total
      <4>1. /\ queue[l] + sent[l] <= 1
            /\ \A r \in Procs : Hand(r, l) + queue[l] + sent[l] <= 1
            /\ \A r, s \in Procs : r # s /\ Hand(s, l) > 0 => Hand(r, l) + queue[l] + sent[l] = 0
        BY <3>7, <3>8 DEF AtMostOnce, Total
      <4>2. CASE h = 0
        <5>1. \A r \in Procs : Hand(r, l)' <= Hand(r, l)
          BY <3>1, <3>2, <3>4, <3>5, <3>9, <4>2
        <5> QED BY <3>2, <4>1, <5>1
      <4>3. CASE h > 0
        <5>1. ~raced /\ q # p /\ c = h
          BY <3>6, <4>3
        <5>2. Hand(q, l) >= h
          BY <3>2, <3>4, <3>9, <5>1
        <5>3. h = 1 /\ Hand(q, l) = 1 /\ queue[l] = 0 /\ sent[l] = 0
          <6>1. Hand(q, l) + queue[l] + sent[l] <= 1
            BY <3>9, <4>1
          <6>2. Hand(q, l) \in Nat /\ queue[l] \in Nat /\ sent[l] \in Nat /\ h \in Nat
            BY <3>2, <3>9
          <6> QED BY <4>3, <5>2, <6>1, <6>2
        <5>4. \A r \in Procs \ {q} : Hand(r, l) = 0
          BY <3>2, <3>9, <4>1, <5>3
        <5>5. Hand(p, l)' = 1 /\ \A r \in Procs \ {p} : Hand(r, l)' = 0
          BY <3>1, <3>2, <3>4, <3>9, <5>1, <5>3, <5>4
        <5> QED BY <3>9, <5>3, <5>5
      <4> QED BY <3>2, <4>2, <4>3
    <3>11. AtLeastOnce(l)'
      <4> SUFFICES ASSUME l \in born, l \notin gone', ~(queue[l] + sent[l] > 0)
                   PROVE  \E r \in Procs : Hand(r, l)' > 0
        BY <3>7 DEF AtLeastOnce
      <4>1. PICK r \in Procs : Hand(r, l) > 0
        BY <3>7, <3>8 DEF AtLeastOnce
      <4>2. c > 0 => h > 0
        BY <3>2, <3>6
      <4>3. CASE h > 0
        <5>1. Hand(p, l)' > 0
          BY <3>2, <3>4, <3>5, <3>6, <3>9, <4>3
        <5> QED BY <5>1
      <4>4. CASE h = 0
        <5>1. Hand(r, l)' = Hand(r, l)
          BY <3>1, <3>2, <3>4, <3>5, <3>9, <4>2, <4>4
        <5> QED BY <4>1, <5>1
      <4> QED BY <3>2, <4>3, <4>4
    <3> QED BY <3>10, <3>11
  <2> QED BY <2>1 DEF Counted
<1> QED BY <1>6, <1>9, <1>10, <1>11, <1>12 DEF TelemetryInv

(* Time passes over the files; only their ages change. *)
LEMMA AgesKeep ==
  ASSUME TelemetryInv,
         UNCHANGED <<queue, claim, config, pc, seen, mem, hand, air, born, sent, fate>>,
         queueOld' \in BOOLEAN, claimOld' \in [Procs -> BOOLEAN],
         claimOld' = claimOld \/ \A p \in Procs : pc[p] # "unlink"
  PROVE  TelemetryInv'
<1>1. TypeInv'
  BY DEF TelemetryInv, TypeInv, TypeOK, hand
<1>2. ASSUME NEW p \in Procs PROVE Shape(p)'
  BY DEF TelemetryInv, Shape, Control, Flight, Claiming, Off, Waits, Live, Flying, hand, fate
<1>3. ReadInv'
  BY DEF TelemetryInv, ReadInv, hand, fate, Empty
<1>4. BornInv'
  BY DEF TelemetryInv, BornInv, hand
<1>5. Counted'
  BY DEF TelemetryInv, Counted, AtMostOnce, AtLeastOnce, Total, Hand, InMemory, Merging, Taken, Waits,
         hand, fate
<1> QED BY <1>1, <1>2, <1>3, <1>4, <1>5 DEF TelemetryInv

-----------------------------------------------------------------------------
LEMMA TelemetryStart == Init => TelemetryInv
<1> SUFFICES ASSUME Init PROVE TelemetryInv
  OBVIOUS
<1> USE DEF Init
<1>1. Grounded \in [send : Bag, keep : Bag, done : SUBSET Lines]
  BY Bags DEF Grounded
<1>2. TypeInv
  BY <1>1, Bags DEF TypeInv, TypeOK
<1>3. ASSUME NEW p \in Procs PROVE Shape(p)
  BY Bags DEF Shape, Control, Flight, Claiming, Off, Waits, Live, Flying, In, Grounded
<1>4. ReadInv
  BY DEF ReadInv
<1>5. BornInv
  BY Bags DEF BornInv, Grounded
<1>6. Counted
  <2>1. ASSUME NEW p \in Procs, NEW l \in Lines PROVE Hand(p, l) = 0
    BY Bags DEF Hand, InMemory, Merging, Taken, Waits, Grounded
  <2>2. \A l \in Lines : queue[l] = 0 /\ sent[l] = 0
    BY Bags
  <2> QED BY <2>1, <2>2 DEF Counted, AtMostOnce, AtLeastOnce, Total
<1> QED BY <1>2, <1>3, <1>4, <1>5, <1>6 DEF TelemetryInv

LEMMA TelemetryStep == TelemetryInv /\ [Next]_vars => TelemetryInv'
<1> SUFFICES ASSUME TelemetryInv, [Next]_vars PROVE TelemetryInv'
  OBVIOUS
<1>1. ASSUME NEW p \in Procs, NEW l \in Lines, Record(p, l) PROVE TelemetryInv'
  BY <1>1, RecordKeeps
<1>2. ASSUME NEW p \in Procs, FlushBegins(p) \/ Exits(p) \/ Dies(p) \/ TurnsOff(p) PROVE TelemetryInv'
  BY <1>2, BeginsKeeps, ExitsKeeps, DiesKeeps, TurnsOffKeeps
<1>3. ASSUME NEW p \in Procs, Goes(p) PROVE TelemetryInv'
  BY <1>3, ReadsKeeps, WritesKeeps, LooksKeeps, UnlinksKeeps, MergesKeeps, ClaimsKeeps, NothingKeeps,
     OpensKeeps, RemovesKeeps, DropsKeeps DEF Goes
<1>4. ASSUME NEW p \in Procs, Arrive(p) \/ Answered(p) PROVE TelemetryInv'
  BY <1>4, ArriveKeeps, AnsweredKeeps
<1>5. CASE Hour
  <2>1. queueOld' \in BOOLEAN /\ claimOld' \in [Procs -> BOOLEAN] /\ \A p \in Procs : pc[p] # "unlink"
    BY <1>5 DEF Hour
  <2> QED BY <1>5, <2>1, AgesKeep DEF Hour
<1>6. CASE Midnight \/ UNCHANGED vars
  <2>1. queueOld' \in BOOLEAN /\ claimOld' \in [Procs -> BOOLEAN] /\ claimOld' = claimOld
    BY <1>6 DEF Midnight, vars, disk, TelemetryInv, TypeInv, TypeOK
  <2> QED BY <1>6, <2>1, AgesKeep DEF Midnight, vars, disk, story
<1> QED BY <1>1, <1>2, <1>3, <1>4, <1>5, <1>6 DEF Next

LEMMA TelemetryInvariance == Spec => []TelemetryInv
BY TelemetryStart, TelemetryStep, PTL DEF Spec

(* A line is sent once, but for the races, crashes and lost answers that      *)
(* `twice` names, whatever the processes do in between one another's calls of  *)
(* the file system (index.ts:418).                                          *)
THEOREM LinesAreSentOnce == Spec => []SentOnce
<1>1. TelemetryInv => SentOnce
  <2> SUFFICES ASSUME TelemetryInv, NEW l \in Lines, sent[l] = 2, l \notin twice PROVE FALSE
    BY DEF SentOnce
  <2>1. queue[l] + sent[l] <= 1 /\ queue[l] \in 0..2
    BY DEF TelemetryInv, Counted, AtMostOnce, TypeInv, TypeOK, Bag
  <2> QED BY <2>1
<1> QED BY <1>1, TelemetryInvariance, PTL

(* What was recorded is in a process, on the disk or sent, unless it is known  *)
(* to be dropped; a claim stays until its lines are sent or back in the queue; *)
(* and a process that knows that telemetry is off sends nothing              *)
(* (index.ts:392-427).                                                      *)
THEOREM QueueStaysSound == Spec => []QueueIsSound
<1>1. TelemetryInv => QueueIsSound
  <2> SUFFICES ASSUME TelemetryInv PROVE QueueIsSound
    OBVIOUS
  <2>1. TypeOK
    BY DEF TelemetryInv, TypeInv
  <2>2. ClaimsAreKept
    BY DEF TelemetryInv, Shape, Claiming, ClaimsAreKept, In, Flying
  <2>3. NoneVanishes
    <3> SUFFICES ASSUME NEW l \in born \ gone PROVE Somewhere(l)
      BY DEF NoneVanishes
    <3>1. l \in Lines
      BY DEF TelemetryInv, TypeInv
    <3>2. queue[l] \in 0..2 /\ sent[l] \in 0..2
      BY <3>1 DEF TelemetryInv, TypeInv, TypeOK, Bag
    <3>3. CASE queue[l] + sent[l] > 0
      BY <3>2, <3>3 DEF Somewhere
    <3>4. CASE ~(queue[l] + sent[l] > 0)
      <4>1. PICK p \in Procs : Hand(p, l) > 0
        BY <3>1, <3>4 DEF TelemetryInv, Counted, AtLeastOnce
      <4>2. Control(p)
        BY DEF TelemetryInv, Shape
      <4>3. /\ pay[p][l] \in 0..2 /\ held[p][l] \in 0..2 /\ claim[p][l] \in 0..2
            /\ air[p].send[l] \in 0..2 /\ air[p].keep[l] \in 0..2
        BY <3>1, HandIsNat DEF TelemetryInv
      <4>4. \/ l \in mem[p] \/ pay[p][l] > 0 \/ (pc[p] = "merge" /\ held[p][l] > 0) \/ claim[p][l] > 0
            \/ (Waits(p) /\ (air[p].send[l] > 0 \/ air[p].keep[l] > 0))
        BY <4>1, <4>3 DEF Hand, InMemory, Merging, Taken
      <4>5. l \in mem[p] \/ Waits(p) => Live(p)
        BY <4>2 DEF Control, Live
      <4>6. pay[p][l] > 0 => pc[p] \in {"read", "write"}
        BY <3>1, <4>2, Bags DEF Control
      <4> QED BY <3>1, <4>4, <4>5, <4>6 DEF Somewhere, Flying, In
    <3> QED BY <3>3, <3>4
  <2>4. OffIsOff
    BY DEF TelemetryInv, Shape, Off, OffIsOff
  <2> QED BY <2>1, <2>2, <2>3, <2>4 DEF QueueIsSound
<1> QED BY <1>1, TelemetryInvariance, PTL
=============================================================================
