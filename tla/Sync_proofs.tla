----------------------------- MODULE Sync_proofs -----------------------------
(***************************************************************************)
(* For any files, contents and writes: no edit hides from the next sync,    *)
(* the symbols are those of the recorded content and no reference is left   *)
(* behind, and a sync during which nobody writes ends with the disk.        *)
(*                                                                         *)
(* EditsAreDetectable is not inductive: it needs that a file's stat never  *)
(* runs behind the one recorded or in hand, and that the content in hand   *)
(* is the disk's for as long as the stat in hand is (HandInv).             *)
(*                                                                         *)
(* Then, for any tree of directories, the watches that call for a sync.     *)
(***************************************************************************)
EXTENDS SyncReconcile, WatchTree, FiniteSetTheorems, TLAPS

Storing == {"ready", "deleted", "nodes", "refs"}

-----------------------------------------------------------------------------
(* The types are preserved by every step, given that a file in hand is one. *)
HandOK == /\ hand.step # "none" => hand.file \in Files
          /\ hand.step \in Storing \cup {"unstatted"} => hand.content \in Contents

LEMMA HandTypes ==
  /\ Absent \in Versions /\ Empty \in Hands /\ Empty.step = "none"
  /\ \A v \in Versions : v.stat \in Nat /\ v.content \in Contents \cup {NoContent}
  /\ \A c \in Contents \cup {NoContent}, n \in Nat : [content |-> c, stat |-> n] \in Versions
  /\ \A h \in Hands : h.stat \in Nat
<1>1. Empty \in Hands /\ Empty.step = "none"
  BY DEF Hands, Empty, Steps
<1>2. Absent \in Versions
  BY DEF Versions, Absent
<1>3. \A v \in Versions : v.stat \in Nat /\ v.content \in Contents \cup {NoContent}
  BY DEF Versions
<1>4. \A c \in Contents \cup {NoContent}, n \in Nat : [content |-> c, stat |-> n] \in Versions
  BY DEF Versions
<1>5. \A h \in Hands : h.stat \in Nat
  BY DEF Hands
<1> QED
  BY <1>1, <1>2, <1>3, <1>4, <1>5

(* How an action may change the file in hand *)
HandChange ==
  \/ UNCHANGED hand
  \/ hand' = Empty
  \/ hand' = [hand EXCEPT !.late = TRUE]
  \/ \E f \in Files, n \in Nat :
       hand' = [Empty EXCEPT !.file = f, !.stat = n, !.step = "statted"]
  \/ \E f \in Files, c \in Contents :
       hand' = [Empty EXCEPT !.file = f, !.content = c, !.step = "unstatted"]
  \/ /\ hand.step # "none"
     /\ \/ \E c \in Contents : hand' = [hand EXCEPT !.content = c, !.step = "ready"]
        \/ hand.content \in Contents /\ \E n \in Nat : hand' = [hand EXCEPT !.stat = n, !.step = "ready"]
        \/ hand.step \in Storing /\ \E s \in Storing : hand' = [hand EXCEPT !.step = s]

LEMMA HandChangeKeepsTypes ==
  ASSUME TypeOK, HandOK, HandChange
  PROVE  hand' \in Hands /\ HandOK'
<1> USE DEF TypeOK, HandOK, Storing, Hands, Steps, Empty
<1>1. CASE UNCHANGED hand
  BY <1>1
<1>7. CASE hand' = Empty
  BY <1>7
<1>8. CASE hand' = [hand EXCEPT !.late = TRUE]
  BY <1>8
<1>2. ASSUME NEW f \in Files, NEW n \in Nat,
             hand' = [Empty EXCEPT !.file = f, !.stat = n, !.step = "statted"]
      PROVE  hand' \in Hands /\ HandOK'
  BY <1>2
<1>3. ASSUME NEW f \in Files, NEW c \in Contents,
             hand' = [Empty EXCEPT !.file = f, !.content = c, !.step = "unstatted"]
      PROVE  hand' \in Hands /\ HandOK'
  BY <1>3
<1>4. ASSUME hand.step # "none", NEW c \in Contents,
             hand' = [hand EXCEPT !.content = c, !.step = "ready"]
      PROVE  hand' \in Hands /\ HandOK'
  BY <1>4
<1>5. ASSUME hand.step # "none", hand.content \in Contents, NEW n \in Nat,
             hand' = [hand EXCEPT !.stat = n, !.step = "ready"]
      PROVE  hand' \in Hands /\ HandOK'
  BY <1>5
<1>6. ASSUME hand.step \in Storing, NEW s \in Storing, hand' = [hand EXCEPT !.step = s]
      PROVE  hand' \in Hands /\ HandOK'
  BY <1>6
<1> QED
  BY <1>1, <1>2, <1>3, <1>4, <1>5, <1>6, <1>7, <1>8 DEF HandChange

LEMMA HandStep ==
  ASSUME TypeOK, HandOK, [Next]_vars
  PROVE  HandChange
<1> USE DEF HandChange, run
<1>1. ASSUME NEW f \in Files, IndexStat(f)
      PROVE  HandChange
  <2>1. disk[f].stat \in Nat
    BY HandTypes DEF TypeOK
  <2> QED
    BY <1>1, <2>1 DEF IndexStat
<1>2. ASSUME NEW f \in Files, BulkRead(f)
      PROVE  HandChange
  <2>1. Exists(disk[f]) => disk[f].content \in Contents
    BY HandTypes DEF TypeOK, Exists
  <2> QED
    BY <1>2, <2>1 DEF BulkRead
<1>3. CASE IndexRead
  BY <1>3 DEF IndexRead, Drop
<1>4. CASE BulkStat
  <2>1. hand.file \in Files /\ hand.content \in Contents
    BY <1>4 DEF BulkStat, HandOK
  <2>2. disk[hand.file].stat \in Nat
    BY <2>1, HandTypes DEF TypeOK
  <2> QED
    BY <1>4, <2>1, <2>2 DEF BulkStat, Drop
<1>5. CASE StoreSame \/ StoreRecord \/ SyncEnd \/ BulkEnd \/ Cut
  BY <1>5 DEF StoreSame, StoreRecord, SyncEnd, BulkEnd, Cut, Over, Drop
<1>6. CASE StoreDelete \/ StoreNodes \/ StoreRefs
  BY <1>6 DEF StoreDelete, StoreNodes, StoreRefs, Storing
<1>7. CASE SyncBegin \/ SyncAdvance \/ BulkBegin \/ UNCHANGED vars
  BY <1>7 DEF SyncBegin, SyncAdvance, BulkBegin, vars
<1>8. ASSUME NEW f \in Files, SyncRemove(f) \/ SyncCheck(f)
      PROVE  HandChange
  BY <1>8 DEF SyncRemove, SyncCheck
<1>9. ASSUME NEW f \in Files, NEW c \in Contents \cup {NoContent}, Write(f, c)
      PROVE  HandChange
  BY <1>9 DEF Write
<1> QED
  BY <1>1, <1>2, <1>3, <1>4, <1>5, <1>6, <1>7, <1>8, <1>9 DEF Next

LEMMA TypeStep ==
  ASSUME TypeOK, HandOK, [Next]_vars
  PROVE  TypeOK' /\ HandOK'
<1>0. hand' \in Hands /\ HandOK'
  BY HandStep, HandChangeKeepsTypes
<1>a. Absent \in Versions
  BY HandTypes
<1> USE <1>0, <1>a DEF TypeOK, base, run, history
<1>1. ASSUME NEW f \in Files, NEW c \in Contents \cup {NoContent}, Write(f, c)
      PROVE  TypeOK'
  <2>1. [content |-> c, stat |-> disk[f].stat + 1] \in Versions
    BY HandTypes
  <2> QED
    BY <1>1, <2>1 DEF Write
<1>2. CASE SyncBegin \/ SyncAdvance \/ BulkBegin
  BY <1>2 DEF SyncBegin, SyncAdvance, BulkBegin
<1>3. ASSUME NEW f \in Files, SyncRemove(f)
      PROVE  TypeOK'
  BY <1>3 DEF SyncRemove, DeleteFile
<1>4. ASSUME NEW f \in Files, SyncCheck(f) \/ IndexStat(f) \/ BulkRead(f)
      PROVE  TypeOK'
  BY <1>4 DEF SyncCheck, IndexStat, BulkRead
<1>5. CASE IndexRead \/ BulkStat
  BY <1>5 DEF IndexRead, BulkStat, Drop
<1>6. CASE SyncEnd \/ BulkEnd
  BY <1>6 DEF SyncEnd, BulkEnd, Over
<1>7. CASE Cut
  BY <1>7 DEF Cut, Over, HandOK
<1>8. CASE StoreSame
  BY <1>8 DEF StoreSame, Drop, Counted, HandOK, Storing
<1>9. CASE StoreDelete
  BY <1>9 DEF StoreDelete, DeleteFile
<1>10. CASE StoreNodes \/ StoreRefs
  BY <1>10 DEF StoreNodes, StoreRefs, HandOK, Storing
<1>11. CASE StoreRecord
  <2>1. hand.file \in Files /\ hand.content \in Contents
    BY <1>11 DEF StoreRecord, HandOK, Storing
  <2>2. [content |-> hand.content, stat |-> hand.stat] \in Versions
    BY <2>1, HandTypes
  <2> QED
    BY <1>11, <2>1, <2>2 DEF StoreRecord, Drop, Counted
<1>12. CASE UNCHANGED vars
  BY <1>12 DEF vars
<1> QED
  BY <1>1, <1>2, <1>3, <1>4, <1>5, <1>6, <1>7, <1>8, <1>9, <1>10, <1>11, <1>12 DEF Next

LEMMA InitTypes == Init => TypeOK /\ HandOK
<1> SUFFICES ASSUME Init PROVE TypeOK /\ HandOK
  OBVIOUS
<1>1. disk \in [Files -> Versions]
  BY HandTypes DEF Init, Versions
<1>2. HandOK
  BY HandTypes DEF Init, HandOK, Storing
<1> QED
  BY <1>1, <1>2, HandTypes DEF Init, TypeOK

(* The index, the disk and the operation keep their types. *)
THEOREM Typing == Spec => []TypeOK
<1>1. TypeOK /\ HandOK /\ [Next]_vars => TypeOK' /\ HandOK'
  BY TypeStep
<1> QED
  BY <1>1, InitTypes, PTL DEF Spec

-----------------------------------------------------------------------------
StatOrder == /\ \A f \in Files : record[f].stat <= disk[f].stat
             /\ hand.step # "none" => hand.stat <= disk[hand.file].stat

(* What is in hand is what the disk holds, as long as its stat is the disk's. *)
HandInv ==
  /\ hand.step = "statted" => ~hand.late
  /\ hand.step = "unstatted" /\ ~hand.late => disk[hand.file].content = hand.content
  /\ hand.step \in Storing /\ ~hand.late /\ disk[hand.file].stat = hand.stat
       => disk[hand.file].content = hand.content

DiskInv == StatOrder /\ HandInv /\ EditsAreDetectable

(* Steps that change neither the disk nor the records, and take a new file   *)
(* in hand or none                                                           *)
LEMMA HandsOffKeepsInv ==
  ASSUME TypeOK, DiskInv, UNCHANGED <<disk, record>>, raced' = raced,
         hand' = hand \/ hand' = Empty
  PROVE  DiskInv'
BY DEF DiskInv, StatOrder, HandInv, EditsAreDetectable, Detectable, Exists, Storing, Empty

LEMMA DiskStep ==
  ASSUME TypeOK, HandOK, TypeOK', HandOK', DiskInv, [Next]_vars
  PROVE  DiskInv'
<1> USE DEF base, run, history
<1>0. \A f \in Files : /\ disk[f].stat \in Nat /\ record[f].stat \in Nat
                       /\ disk[f] \in Versions /\ record[f] \in Versions
  BY HandTypes DEF TypeOK
<1>1. ASSUME NEW g \in Files, NEW c \in Contents \cup {NoContent}, Write(g, c)
      PROVE  DiskInv'
  <2>1. /\ disk'[g].stat = disk[g].stat + 1
        /\ \A f \in Files \ {g} : disk'[f] = disk[f]
    BY <1>1 DEF Write, TypeOK
  <2>2. record' = record /\ raced' = raced
    BY <1>1 DEF Write
  <2>3. /\ hand'.file = hand.file /\ hand'.stat = hand.stat
        /\ hand'.step = hand.step /\ hand'.content = hand.content
        /\ hand'.late = (hand.late \/ (hand.file = g /\ hand.step = "unstatted"))
    BY <1>1 DEF Write, TypeOK, Hands
  <2>4. StatOrder'
    BY <2>1, <2>2, <2>3, <1>0, HandTypes DEF DiskInv, StatOrder, TypeOK, HandOK
  <2>5. HandInv'
    <3>1. CASE hand.file = g /\ hand.step # "none"
      <4>1. hand.stat # disk'[g].stat
        BY <3>1, <2>1, <1>0, HandTypes DEF DiskInv, StatOrder, TypeOK
      <4> QED
        BY <3>1, <4>1, <2>3 DEF DiskInv, HandInv, Storing
    <3>2. CASE hand.file # g \/ hand.step = "none"
      BY <3>2, <2>1, <2>3 DEF DiskInv, HandInv, HandOK, Storing
    <3> QED
      BY <3>1, <3>2
  <2>6. EditsAreDetectable'
    <3>1. record[g].stat # disk'[g].stat
      BY <2>1, <1>0 DEF DiskInv, StatOrder
    <3> QED
      BY <3>1, <2>1, <2>2 DEF DiskInv, EditsAreDetectable, Detectable, Exists
  <2> QED
    BY <2>4, <2>5, <2>6 DEF DiskInv
<1>2. CASE SyncBegin \/ SyncAdvance \/ BulkBegin \/ SyncEnd \/ BulkEnd \/ Cut
           \/ StoreSame \/ UNCHANGED vars
  BY <1>2, HandsOffKeepsInv DEF SyncBegin, SyncAdvance, BulkBegin, SyncEnd, BulkEnd,
       Cut, Over, StoreSame, Drop, vars
<1>3. ASSUME NEW g \in Files, SyncCheck(g)
      PROVE  DiskInv'
  BY <1>3, HandsOffKeepsInv DEF SyncCheck
<1>4. ASSUME NEW g \in Files, DeleteFile(g), disk' = disk,
             \/ hand' = hand
             \/ hand.step = "ready" /\ hand' = [hand EXCEPT !.step = "deleted"]
      PROVE  DiskInv'
  <2>1. /\ record'[g] = Absent /\ raced' = raced \ {g}
        /\ \A f \in Files \ {g} : record'[f] = record[f]
    BY <1>4 DEF DeleteFile, TypeOK
  <2>2. StatOrder' /\ HandInv'
    BY <1>4, <2>1, <1>0, HandTypes DEF DiskInv, StatOrder, HandInv, Absent, Storing, TypeOK, Hands
  <2>3. EditsAreDetectable'
    BY <1>4, <2>1 DEF DiskInv, EditsAreDetectable, Detectable, Exists, Absent
  <2> QED
    BY <2>2, <2>3 DEF DiskInv
<1>5. ASSUME NEW g \in Files, SyncRemove(g)
      PROVE  DiskInv'
  BY <1>5, <1>4, HandsOffKeepsInv DEF SyncRemove
<1>6. ASSUME NEW g \in Files, IndexStat(g) \/ BulkRead(g)
      PROVE  DiskInv'
  <2>1. CASE hand' = hand
    BY <1>6, <2>1, HandsOffKeepsInv DEF IndexStat, BulkRead
  <2>2. CASE hand' # hand
    <3>1. /\ hand'.file = g /\ hand'.late = FALSE
          /\ \/ hand'.step = "statted" /\ hand'.stat = disk[g].stat
             \/ /\ hand'.step = "unstatted" /\ hand'.stat = 0
                /\ hand'.content = disk[g].content
      BY <1>6, <2>2 DEF IndexStat, BulkRead, Empty
    <3>2. disk' = disk /\ record' = record /\ raced' = raced
      BY <1>6 DEF IndexStat, BulkRead
    <3> QED
      BY <3>1, <3>2, <1>0 DEF DiskInv, StatOrder, HandInv, EditsAreDetectable, Detectable,
                              Exists, Storing
  <2> QED
    BY <2>1, <2>2
<1>7. CASE IndexRead \/ BulkStat
  <2>1. CASE hand' = Empty
    BY <1>7, <2>1, HandsOffKeepsInv DEF IndexRead, BulkStat
  <2>2. CASE hand' # Empty
    <3>1. /\ disk' = disk /\ record' = record /\ raced' = raced
          /\ hand.step # "none" /\ hand.file \in Files
      BY <1>7 DEF IndexRead, BulkStat, HandOK
    <3>2. /\ hand'.file = hand.file /\ hand'.late = hand.late /\ hand'.step = "ready"
          /\ \/ hand'.stat = hand.stat /\ hand'.content = disk[hand.file].content
             \/ /\ hand.step = "unstatted" /\ hand'.stat = disk[hand.file].stat
                /\ hand'.content = hand.content
      BY <1>7, <2>2 DEF IndexRead, BulkStat, Drop, TypeOK, Hands
    <3> QED
      BY <3>1, <3>2, <1>0 DEF DiskInv, StatOrder, HandInv, EditsAreDetectable, Detectable,
                              Exists, Storing
  <2> QED
    BY <2>1, <2>2
<1>8. CASE StoreDelete \/ StoreNodes \/ StoreRefs
  <2>1. hand.step \in Storing /\ hand.file \in Files
        /\ \E s \in Storing : hand' = [hand EXCEPT !.step = s]
    BY <1>8 DEF StoreDelete, StoreNodes, StoreRefs, Storing, HandOK
  <2>2. CASE UNCHANGED <<disk, record>> /\ raced' = raced
    <3>1. /\ hand'.file = hand.file /\ hand'.late = hand.late /\ hand'.step \in Storing
          /\ hand'.stat = hand.stat /\ hand'.content = hand.content
      BY <2>1 DEF TypeOK, Hands
    <3> QED
      BY <2>1, <2>2, <3>1 DEF DiskInv, StatOrder, HandInv, EditsAreDetectable, Detectable,
                              Exists, Storing
  <2>3. CASE ~(UNCHANGED <<disk, record>> /\ raced' = raced)
    BY <1>8, <2>1, <2>3, <1>4 DEF StoreDelete, StoreNodes, StoreRefs
  <2> QED
    BY <2>2, <2>3
<1>9. CASE StoreRecord
  <2>1. /\ disk' = disk /\ hand' = Empty /\ hand.file \in Files /\ hand.step = "refs"
        /\ record'[hand.file].stat = hand.stat /\ record'[hand.file].content = hand.content
        /\ \A f \in Files \ {hand.file} : record'[f] = record[f]
    BY <1>9 DEF StoreRecord, Drop, HandOK, TypeOK
  <2>2. /\ hand.late => hand.file \in raced'
        /\ \A f \in Files \ {hand.file} : f \in raced' <=> f \in raced
    BY <1>9 DEF StoreRecord
  <2>3. StatOrder' /\ HandInv'
    BY <2>1 DEF DiskInv, StatOrder, HandInv, Empty, Storing
  <2>4. EditsAreDetectable'
    BY <2>1, <2>2 DEF DiskInv, HandInv, EditsAreDetectable, Detectable, Exists, Storing
  <2> QED
    BY <2>3, <2>4 DEF DiskInv
<1> QED
  BY <1>1, <1>2, <1>3, <1>5, <1>6, <1>7, <1>8, <1>9 DEF Next

LEMMA InitDisk == Init => DiskInv
<1> SUFFICES ASSUME Init PROVE DiskInv
  OBVIOUS
<1>1. \A f \in Files : disk[f].stat \in Nat
  BY InitTypes, HandTypes DEF TypeOK
<1>2. \A f \in Files : disk[f].content # NoContent \/ disk[f] = Absent
  BY SyncAssumption DEF Init
<1> QED
  BY <1>1, <1>2 DEF Init, DiskInv, StatOrder, HandInv, EditsAreDetectable, Detectable,
                    Exists, Absent, Empty, Storing

(* At any time, whatever was cut short, an edit that the index lacks looks   *)
(* changed to the next sync, unless it fell between the read and the stat of *)
(* a bulk run.                                                               *)
THEOREM NoEditHides == Spec => []EditsAreDetectable
<1>1. Init => TypeOK /\ HandOK /\ DiskInv
  BY InitTypes, InitDisk
<1>2. TypeOK /\ HandOK /\ DiskInv /\ [Next]_vars => (TypeOK /\ HandOK /\ DiskInv)'
  BY TypeStep, DiskStep
<1>3. DiskInv => EditsAreDetectable
  BY DEF DiskInv
<1> QED
  BY <1>1, <1>2, <1>3, PTL DEF Spec

-----------------------------------------------------------------------------
(* Where the file in hand stands in the operation *)
PhaseInv ==
  /\ hand.step = "none" => hand = Empty
  /\ hand.step # "none" => hand.file \in todo /\ phase \in {"index", "bulk"}
  /\ hand.step = "statted" => phase = "index"
  /\ hand.step = "unstatted" => phase = "bulk"
  /\ phase = "index" => todo \subseteq changed

RecordedIn(f) == IF Exists(record[f]) THEN {record[f].content} ELSE {}

(* Between its delete and its record a file has the symbols already stored. *)
SymbolsInv ==
  \A f \in Files \ torn :
    CASE f = hand.file /\ hand.step = "deleted" -> ~Exists(record[f]) /\ symbols[f] = {}
      [] f = hand.file /\ hand.step \in {"nodes", "refs"} ->
                                       ~Exists(record[f]) /\ symbols[f] = {hand.content}
      [] OTHER -> symbols[f] = RecordedIn(f)

(* References wait for the end of the operation that stored them, or were   *)
(* left by one that was cut.                                                 *)
ReferencesInv ==
  pend \subseteq torn \cup (IF phase \in {"index", "bulk"} THEN changed ELSE {})
                      \cup (IF phase = "bulk" /\ hand.step = "refs" THEN {hand.file} ELSE {})

StoreInv == PhaseInv /\ SymbolsInv /\ ReferencesInv

(* What a sync that nobody disturbs has reached *)
Exact(f) == record[f].content = disk[f].content

QuietInv ==
  quiet =>
    /\ phase \in {"remove", "check"} =>
         \A f \in Files : Exists(disk[f]) => f \in listed /\ record[f] = tracked[f]
    /\ phase \in {"remove", "check", "index"} =>
         \A f \in Files : ~Exists(disk[f]) => ~Exists(record[f]) \/ (phase = "remove" /\ f \in todo)
    /\ phase = "check" =>
         \A f \in Files \ (todo \cup changed \cup raced) : Exists(disk[f]) => Exact(f)
    /\ phase = "index" =>
         /\ \A f \in Files \ (todo \cup raced) : disk[f].content \in Unparsable \/ Exact(f)
         /\ hand.step \in Storing => hand.content = disk[hand.file].content

(* A file is read and given its stat, or passed over. *)
LEMMA ReadingSteps ==
  ASSUME TypeOK, HandOK, IndexRead \/ BulkStat
  PROVE  /\ hand.step \in {"statted", "unstatted"} /\ hand.file \in Files
         /\ \/ /\ hand' = Empty /\ hand'.step = "none" /\ todo' = todo \ {hand.file}
               /\ \/ disk[hand.file].content \notin Contents \ Unparsable
                  \/ hand.step = "unstatted"
            \/ /\ hand'.file = hand.file /\ hand'.step = "ready" /\ UNCHANGED todo
               /\ hand'.content = IF hand.step = "statted" THEN disk[hand.file].content ELSE hand.content
         /\ UNCHANGED <<disk, record, symbols, pend, phase, listed, tracked, changed, quiet, raced, torn>>
<1> USE DEF base, run, history
<1>1. CASE IndexRead
  <2>1. hand.step = "statted" /\ hand.file \in Files
    BY <1>1 DEF IndexRead, HandOK
  <2>2. CASE disk[hand.file].content \in Contents \ Unparsable
    BY <1>1, <2>1, <2>2 DEF IndexRead, TypeOK, Hands
  <2>3. CASE disk[hand.file].content \notin Contents \ Unparsable
    BY <1>1, <2>1, <2>3 DEF IndexRead, Drop, Empty
  <2> QED
    BY <2>2, <2>3
<1>2. CASE BulkStat
  <2>1. hand.step = "unstatted" /\ hand.file \in Files
    BY <1>2 DEF BulkStat, HandOK
  <2>2. CASE Exists(disk[hand.file]) /\ hand.content \notin Unparsable
    BY <1>2, <2>1, <2>2 DEF BulkStat, TypeOK, Hands
  <2>3. CASE ~(Exists(disk[hand.file]) /\ hand.content \notin Unparsable)
    BY <1>2, <2>1, <2>3 DEF BulkStat, Drop, Empty
  <2> QED
    BY <2>2, <2>3
<1> QED
  BY <1>1, <1>2

LEMMA PhaseStep ==
  ASSUME TypeOK, HandOK, PhaseInv, [Next]_vars
  PROVE  PhaseInv'
<1> USE DEF PhaseInv, base, run, history
<1>1. ASSUME NEW f \in Files, NEW c \in Contents \cup {NoContent}, Write(f, c)
      PROVE  PhaseInv'
  BY <1>1 DEF Write, TypeOK, Hands, Empty
<1>2. ASSUME NEW f \in Files, SyncRemove(f) \/ SyncCheck(f)
      PROVE  PhaseInv'
  BY <1>2 DEF SyncRemove, SyncCheck
<1>3. ASSUME NEW f \in Files, IndexStat(f) \/ BulkRead(f)
      PROVE  PhaseInv'
  <2>1. CASE hand' = hand
    BY <1>3, <2>1 DEF IndexStat, BulkRead, Empty
  <2>2. CASE hand' # hand
    <3>1. /\ hand'.file = f /\ todo' = todo /\ f \in todo /\ phase' = phase /\ changed' = changed
          /\ \/ phase = "index" /\ hand'.step = "statted"
             \/ phase = "bulk" /\ hand'.step = "unstatted"
      BY <1>3, <2>2 DEF IndexStat, BulkRead, Empty
    <3> QED
      BY <3>1
  <2> QED
    BY <2>1, <2>2
<1>4. CASE SyncBegin \/ SyncAdvance \/ BulkBegin
  <2>1. hand' = hand /\ hand.step = "none" /\ (phase' = "index" => todo' = changed')
    BY <1>4 DEF SyncBegin, SyncAdvance, BulkBegin, PhaseInv
  <2> QED
    BY <2>1
<1>5. CASE IndexRead \/ BulkStat
  BY <1>5, ReadingSteps
<1>6. CASE SyncEnd \/ BulkEnd \/ Cut
  BY <1>6 DEF SyncEnd, BulkEnd, Cut, Over, Empty
<1>7. CASE StoreSame \/ StoreRecord
  BY <1>7 DEF StoreSame, StoreRecord, Drop, Counted, Empty
<1>8. CASE StoreDelete \/ StoreNodes \/ StoreRefs
  BY <1>8 DEF StoreDelete, StoreNodes, StoreRefs, TypeOK, Hands
<1>9. CASE UNCHANGED vars
  BY <1>9 DEF vars
<1> QED
  BY <1>1, <1>2, <1>3, <1>4, <1>5, <1>6, <1>7, <1>8, <1>9 DEF Next

LEMMA SymbolsStep ==
  ASSUME TypeOK, HandOK, PhaseInv, SymbolsInv, [Next]_vars
  PROVE  SymbolsInv'
<1> USE DEF base, run, history
<1>1. ASSUME UNCHANGED <<record, symbols>>, torn \subseteq torn',
             \/ hand' = hand \/ hand'.step \in {"none", "statted", "unstatted", "ready"}
             \/ hand' = [hand EXCEPT !.late = TRUE],
             hand.step \in {"deleted", "nodes", "refs"} =>
               hand.file \in torn' \/ (hand'.file = hand.file /\ hand'.step = hand.step
                                       /\ hand'.content = hand.content)
      PROVE  SymbolsInv'
  <2>1. hand'.step \in {"deleted", "nodes", "refs"} =>
          hand'.file = hand.file /\ hand'.step = hand.step /\ hand'.content = hand.content
    BY <1>1 DEF TypeOK, Hands
  <2> QED
    BY <1>1, <2>1 DEF SymbolsInv, RecordedIn
<1>2. ASSUME NEW f \in Files, NEW c \in Contents \cup {NoContent}, Write(f, c)
      PROVE  SymbolsInv'
  <2>1. /\ hand'.file = hand.file /\ hand'.step = hand.step /\ hand'.content = hand.content
        /\ UNCHANGED <<record, symbols, torn>>
    BY <1>2 DEF Write, TypeOK, Hands
  <2> QED
    BY <2>1 DEF SymbolsInv, RecordedIn
<1>3. ASSUME NEW f \in Files, SyncRemove(f)
      PROVE  SymbolsInv'
  <2>1. hand' = hand /\ hand.step = "none"
    BY <1>3 DEF SyncRemove, PhaseInv
  <2>2. CASE DeleteFile(f)
    BY <2>1, <2>2 DEF DeleteFile, SymbolsInv, RecordedIn, Exists, Absent, TypeOK
  <2>3. CASE UNCHANGED <<record, symbols, pend, torn, raced>>
    BY <2>1, <2>3 DEF SymbolsInv, RecordedIn
  <2> QED
    BY <1>3, <2>2, <2>3 DEF SyncRemove
<1>4. ASSUME NEW f \in Files, SyncCheck(f) \/ IndexStat(f) \/ BulkRead(f)
      PROVE  SymbolsInv'
  <2>1. UNCHANGED <<record, symbols, torn>>
    BY <1>4 DEF SyncCheck, IndexStat, BulkRead
  <2>2. hand' = hand \/ (hand.step = "none" /\ hand'.step \in {"statted", "unstatted"})
    <3>1. CASE SyncCheck(f)
      BY <3>1 DEF SyncCheck
    <3>2. CASE IndexStat(f)
      BY <3>2 DEF IndexStat, Empty
    <3>3. CASE BulkRead(f)
      BY <3>3 DEF BulkRead, Empty
    <3> QED
      BY <1>4, <3>1, <3>2, <3>3
  <2> QED
    BY <2>1, <2>2, <1>1
<1>5. CASE SyncBegin \/ SyncAdvance \/ BulkBegin \/ UNCHANGED vars
  <2>1. UNCHANGED <<record, symbols, torn, hand>>
    BY <1>5 DEF SyncBegin, SyncAdvance, BulkBegin, vars
  <2> QED
    BY <2>1, <1>1
<1>6. CASE IndexRead \/ BulkStat \/ StoreSame
  <2>1. hand.step \in {"statted", "unstatted", "ready"} /\ hand'.step \in {"none", "ready"}
        /\ UNCHANGED <<record, symbols, torn>>
    <3>1. CASE StoreSame
      BY <3>1 DEF StoreSame, Drop, Empty
    <3> QED
      BY <1>6, <3>1, ReadingSteps
  <2> QED
    BY <2>1, <1>1
<1>7. CASE SyncEnd \/ BulkEnd
  <2>1. hand.step = "none"
    BY <1>7 DEF SyncEnd, BulkEnd, PhaseInv
  <2> QED
    BY <1>7, <2>1, <1>1 DEF SyncEnd, BulkEnd, Over, Empty
<1>8. CASE Cut
  <2>1. hand'.step = "none" /\ torn \subseteq torn' /\ UNCHANGED <<record, symbols>>
        /\ (hand.step \in {"deleted", "nodes", "refs"} => hand.file \in torn')
    BY <1>8 DEF Cut, Over, Empty
  <2> QED
    BY <2>1, <1>1
<1>9. CASE StoreDelete
  <2>1. /\ hand'.file = hand.file /\ hand'.step = "deleted" /\ hand.step = "ready" /\ hand.file \in Files
    BY <1>9 DEF StoreDelete, TypeOK, Hands, HandOK
  <2>2. CASE DeleteFile(hand.file)
    BY <2>1, <2>2 DEF DeleteFile, SymbolsInv, RecordedIn, Exists, Absent, TypeOK
  <2>3. CASE ~Exists(record[hand.file]) /\ UNCHANGED <<record, symbols, pend, torn, raced>>
    BY <2>1, <2>3 DEF SymbolsInv, RecordedIn, Exists
  <2> QED
    BY <1>9, <2>2, <2>3 DEF StoreDelete
<1>10. CASE StoreNodes
  <2>1. /\ hand'.file = hand.file /\ hand.step = "deleted" /\ hand'.step = "nodes"
        /\ hand'.content = hand.content /\ hand.file \in Files
        /\ UNCHANGED <<record, torn>>
        /\ symbols' = [symbols EXCEPT ![hand.file] = @ \cup {hand.content}]
    BY <1>10 DEF StoreNodes, TypeOK, Hands, HandOK
  <2> QED
    BY <2>1 DEF SymbolsInv, RecordedIn, TypeOK
<1>11. CASE StoreRefs
  <2>1. /\ hand'.file = hand.file /\ hand.step = "nodes" /\ hand'.step = "refs"
        /\ hand'.content = hand.content /\ UNCHANGED <<record, symbols, torn>>
    BY <1>11 DEF StoreRefs, TypeOK, Hands
  <2> QED
    BY <2>1 DEF SymbolsInv, RecordedIn
<1>12. CASE StoreRecord
  <2>1. /\ hand'.step = "none" /\ hand.step = "refs" /\ hand.file \in Files
        /\ hand.content # NoContent /\ UNCHANGED <<symbols, torn>>
        /\ record' = [record EXCEPT ![hand.file] = [content |-> hand.content, stat |-> hand.stat]]
    BY <1>12, SyncAssumption DEF StoreRecord, Drop, Empty, HandOK, Storing
  <2> QED
    BY <2>1 DEF SymbolsInv, RecordedIn, Exists, TypeOK
<1> QED
  BY <1>2, <1>3, <1>4, <1>5, <1>6, <1>7, <1>8, <1>9, <1>10, <1>11, <1>12 DEF Next

LEMMA ReferencesStep ==
  ASSUME TypeOK, HandOK, PhaseInv, ReferencesInv, [Next]_vars
  PROVE  ReferencesInv'
<1> USE DEF ReferencesInv, base, run, history
<1>1. ASSUME NEW f \in Files, NEW c \in Contents \cup {NoContent}, Write(f, c)
      PROVE  ReferencesInv'
  <2>1. /\ hand'.file = hand.file /\ hand'.step = hand.step
    BY <1>1 DEF Write, TypeOK, Hands
  <2> QED
    BY <1>1, <2>1 DEF Write
<1>2. ASSUME NEW f \in Files, SyncRemove(f) \/ SyncCheck(f)
      PROVE  ReferencesInv'
  BY <1>2 DEF SyncRemove, SyncCheck, DeleteFile
<1>3. ASSUME NEW f \in Files, IndexStat(f) \/ BulkRead(f)
      PROVE  ReferencesInv'
  BY <1>3 DEF IndexStat, BulkRead, Empty
<1>4. CASE SyncBegin \/ SyncAdvance \/ BulkBegin
  BY <1>4 DEF SyncBegin, SyncAdvance, BulkBegin
<1>5. CASE IndexRead \/ BulkStat
  BY <1>5 DEF IndexRead, BulkStat
<1>6. CASE SyncEnd \/ BulkEnd
  <2>1. hand.step = "none"
    BY <1>6 DEF SyncEnd, BulkEnd, PhaseInv
  <2> QED
    BY <1>6, <2>1 DEF SyncEnd, BulkEnd, Over
<1>7. CASE Cut
  BY <1>7 DEF Cut, Over
<1>8. CASE StoreSame \/ StoreRecord
  BY <1>8 DEF StoreSame, StoreRecord, Drop, Counted, PhaseInv
<1>9. CASE StoreDelete
  BY <1>9 DEF StoreDelete, DeleteFile
<1>10. CASE StoreNodes
  BY <1>10 DEF StoreNodes
<1>11. CASE StoreRefs
  <2>1. hand'.file = hand.file /\ hand'.step = "refs"
    BY <1>11 DEF StoreRefs, TypeOK, Hands
  <2> QED
    BY <1>11, <2>1 DEF StoreRefs, PhaseInv
<1>12. CASE UNCHANGED vars
  BY <1>12 DEF vars
<1> QED
  BY <1>1, <1>2, <1>3, <1>4, <1>5, <1>6, <1>7, <1>8, <1>9, <1>10, <1>11, <1>12 DEF Next

(* What the tools answer from is the recorded content, for every file whose *)
(* replacement was not cut short, and an operation that ran to its end has   *)
(* left no reference that later syncs would pass over.                       *)
THEOREM StoredAsRecorded == Spec => []StoredIsRecorded
<1> DEFINE Inv == TypeOK /\ HandOK /\ StoreInv
<1>1. Init => Inv
  <2> SUFFICES ASSUME Init PROVE Inv
    OBVIOUS
  <2>1. TypeOK /\ HandOK
    BY InitTypes
  <2> QED
    BY <2>1 DEF Init, StoreInv, PhaseInv, SymbolsInv, ReferencesInv, RecordedIn, Exists, Absent, Empty
<1>2. Inv /\ [Next]_vars => Inv'
  BY TypeStep, PhaseStep, SymbolsStep, ReferencesStep DEF StoreInv
<1>3. Inv => StoredIsRecorded
  <2> SUFFICES ASSUME Inv PROVE SymbolsAreRecorded /\ NoReferenceLeftBehind
    BY DEF StoredIsRecorded
  <2>1. SymbolsAreRecorded
    BY DEF StoreInv, SymbolsInv, SymbolsAreRecorded, RecordedIn
  <2>2. NoReferenceLeftBehind
    BY DEF StoreInv, ReferencesInv, NoReferenceLeftBehind
  <2> QED
    BY <2>1, <2>2
<1> QED
  BY <1>1, <1>2, <1>3, PTL DEF Spec

-----------------------------------------------------------------------------
LEMMA QuietStep ==
  ASSUME TypeOK, HandOK, PhaseInv, EditsAreDetectable, QuietInv, [Next]_vars
  PROVE  QuietInv'
<1> USE DEF base, run, history
<1>1. ASSUME NEW f \in Files, NEW c \in Contents \cup {NoContent}, Write(f, c)
      PROVE  QuietInv'
  BY <1>1 DEF Write, QuietInv
<1>2. CASE SyncBegin
  BY <1>2 DEF SyncBegin, QuietInv
<1>3. ASSUME NEW f \in Files, SyncRemove(f)
      PROVE  QuietInv'
  <2>1. /\ phase = "remove" /\ phase' = "remove" /\ UNCHANGED <<disk, listed, tracked, quiet>>
        /\ todo' = todo \ {f}
        /\ IF f \notin listed \/ ~Exists(disk[f])
           THEN record' = [record EXCEPT ![f] = Absent] ELSE record' = record
    BY <1>3 DEF SyncRemove, DeleteFile
  <2>2. quiet /\ Exists(disk[f]) => f \in listed
    BY <2>1 DEF QuietInv
  <2> QED
    BY <2>1, <2>2 DEF QuietInv, Exists, Absent, TypeOK
<1>4. ASSUME NEW f \in Files, SyncCheck(f)
      PROVE  QuietInv'
  <2>1. /\ phase = "check" /\ phase' = "check" /\ todo' = todo \ {f}
        /\ UNCHANGED <<disk, record, listed, tracked, quiet, raced>>
        /\ changed' = IF Differs(f) THEN changed \cup {f} ELSE changed
    BY <1>4 DEF SyncCheck
  <2>2. quiet /\ Exists(disk[f]) /\ ~Differs(f) /\ f \notin raced => Exact(f)
    BY <2>1 DEF QuietInv, Differs, EditsAreDetectable, Detectable, Exact
  <2> QED
    BY <2>1, <2>2 DEF QuietInv, Exact
<1>5. CASE SyncAdvance
  <2>1. /\ todo = {} /\ UNCHANGED <<disk, record, listed, tracked, changed, quiet, raced, hand>>
        /\ \/ phase = "remove" /\ phase' = "check" /\ todo' = listed
           \/ phase = "check" /\ phase' = "index" /\ todo' = changed /\ hand.step = "none"
    BY <1>5 DEF SyncAdvance, PhaseInv
  <2>2. CASE phase = "remove"
    BY <2>1, <2>2 DEF QuietInv
  <2>3. CASE phase = "check"
    <3>1. ASSUME quiet, NEW f \in Files \ (changed \cup raced)
          PROVE  Exact(f)
      <4>1. CASE Exists(disk[f])
        BY <2>1, <2>3, <3>1, <4>1 DEF QuietInv
      <4>2. CASE ~Exists(disk[f])
        BY <2>1, <2>3, <3>1, <4>2 DEF QuietInv, Exact, Exists
      <4> QED
        BY <4>1, <4>2
    <3> QED
      BY <2>1, <2>3, <3>1 DEF QuietInv, Exact, Storing
  <2> QED
    BY <2>1, <2>2, <2>3
<1>6. ASSUME NEW f \in Files, IndexStat(f)
      PROVE  QuietInv'
  <2>1. /\ phase = "index" /\ UNCHANGED <<disk, record, tracked, listed, changed, raced, phase, quiet>>
        /\ \/ todo' = todo /\ hand'.step = "statted"
           \/ todo' = todo \ {f} /\ hand' = hand /\ ~Exists(disk[f])
    BY <1>6 DEF IndexStat, Empty
  <2>2. quiet /\ ~Exists(disk[f]) => Exact(f)
    BY <2>1 DEF QuietInv, Exact, Exists
  <2> QED
    BY <2>1, <2>2 DEF QuietInv, Exact, Storing
<1>7. ASSUME NEW f \in Files, BulkRead(f)
      PROVE  QuietInv'
  BY <1>7 DEF BulkRead, QuietInv
<1>8. CASE IndexRead \/ BulkStat
  <2>1. CASE phase = "bulk"
    BY <1>8, <2>1, ReadingSteps DEF QuietInv
  <2>2. CASE phase # "bulk"
    <3>1. phase = "index" /\ hand.step = "statted" /\ hand.file \in Files
      BY <1>8, <2>2, ReadingSteps DEF PhaseInv
    <3>2. disk[hand.file].content \in Contents \cup {NoContent}
      BY <3>1, HandTypes DEF TypeOK
    <3>3. quiet /\ disk[hand.file].content \notin Contents \ Unparsable
            => disk[hand.file].content \in Unparsable \/ Exact(hand.file)
      BY <3>1, <3>2 DEF QuietInv, Exact, Exists
    <3> QED
      BY <1>8, <3>1, <3>3, ReadingSteps DEF QuietInv, Exact, Storing
  <2> QED
    BY <2>1, <2>2
<1>9. CASE SyncEnd \/ BulkEnd \/ Cut \/ BulkBegin
  BY <1>9 DEF SyncEnd, BulkEnd, Cut, BulkBegin, Over, QuietInv
<1>10. CASE phase = "bulk" /\ (StoreSame \/ StoreDelete \/ StoreNodes \/ StoreRefs \/ StoreRecord)
  BY <1>10 DEF StoreSame, StoreDelete, StoreNodes, StoreRefs, StoreRecord, QuietInv
<1>11. CASE phase = "index" /\ StoreSame
  <2>1. /\ hand.step = "ready" /\ record[hand.file].content = hand.content
        /\ hand'.step = "none" /\ todo' = todo \ {hand.file} /\ phase' = phase
        /\ UNCHANGED <<disk, record, raced, quiet>>
    BY <1>11 DEF StoreSame, Drop, Empty
  <2>2. quiet => Exact(hand.file)
    BY <1>11, <2>1 DEF QuietInv, Exact, Storing
  <2> QED
    BY <1>11, <2>1, <2>2 DEF QuietInv, Exact, Storing
<1>12. CASE phase = "index" /\ StoreDelete
  <2>1. /\ hand.step = "ready" /\ hand'.step = "deleted" /\ hand'.file = hand.file
        /\ hand'.content = hand.content /\ hand.file \in todo /\ hand.file \in Files
        /\ UNCHANGED <<disk, quiet, todo, phase>>
    BY <1>12 DEF StoreDelete, PhaseInv, TypeOK, Hands
  <2>2. \/ UNCHANGED <<record, raced>>
        \/ /\ record' = [record EXCEPT ![hand.file] = Absent]
           /\ raced' = raced \ {hand.file}
    BY <1>12 DEF StoreDelete, DeleteFile
  <2> QED
    BY <1>12, <2>1, <2>2 DEF QuietInv, Exact, Exists, Absent, TypeOK, Storing
<1>13. CASE phase = "index" /\ (StoreNodes \/ StoreRefs)
  <2>1. /\ hand.step \in Storing /\ hand'.file = hand.file /\ hand'.content = hand.content
        /\ UNCHANGED <<disk, record, raced, quiet, todo, phase>>
    BY <1>13 DEF StoreNodes, StoreRefs, TypeOK, Hands, Storing
  <2> QED
    BY <1>13, <2>1 DEF QuietInv, Exact
<1>14. CASE phase = "index" /\ StoreRecord
  <2>1. /\ hand.step = "refs" /\ hand.content # NoContent /\ hand.file \in todo /\ hand.file \in Files
        /\ hand'.step = "none" /\ todo' = todo \ {hand.file} /\ UNCHANGED <<disk, quiet, phase>>
        /\ record' = [record EXCEPT ![hand.file] = [content |-> hand.content, stat |-> hand.stat]]
        /\ raced \ {hand.file} \subseteq raced'
    BY <1>14, SyncAssumption DEF StoreRecord, Drop, Empty, PhaseInv, HandOK, Storing
  <2>2. quiet => hand.content = disk[hand.file].content /\ Exists(disk[hand.file])
    BY <1>14, <2>1 DEF QuietInv, Storing, Exists
  <2>3. record'[hand.file].content = hand.content
        /\ \A f \in Files \ {hand.file} : record'[f] = record[f]
    BY <2>1 DEF TypeOK
  <2> QED
    BY <1>14, <2>1, <2>2, <2>3 DEF QuietInv, Exact, Exists, Storing
<1>15. CASE UNCHANGED vars
  <2>1. UNCHANGED <<disk, record, listed, tracked, changed, todo, phase, hand, quiet, raced>>
    BY <1>15 DEF vars
  <2> QED
    BY <2>1 DEF QuietInv, Exact
<1>16. StoreSame \/ StoreDelete \/ StoreNodes \/ StoreRefs \/ StoreRecord => phase \in {"index", "bulk"}
  BY DEF StoreSame, StoreDelete, StoreNodes, StoreRefs, StoreRecord, PhaseInv
<1> QED
  BY <1>1, <1>2, <1>3, <1>4, <1>5, <1>6, <1>7, <1>8, <1>9, <1>10, <1>11, <1>12, <1>13, <1>14,
     <1>15, <1>16 DEF Next

(* A sync during which nothing is written makes the index equal to the disk,  *)
(* whatever earlier operations, cut short or not, have left behind.           *)
THEOREM QuietSyncsAreExact == Spec => QuietSyncIsExact
<1> DEFINE Inv == TypeOK /\ HandOK /\ PhaseInv /\ DiskInv /\ QuietInv
<1>1. Init => Inv
  <2> SUFFICES ASSUME Init PROVE Inv
    OBVIOUS
  <2>1. TypeOK /\ HandOK /\ DiskInv
    BY InitTypes, InitDisk
  <2> QED
    BY <2>1 DEF Init, PhaseInv, QuietInv, Empty
<1>2. Inv /\ [Next]_vars => Inv'
  BY TypeStep, PhaseStep, DiskStep, QuietStep DEF DiskInv
<1>3. Inv /\ [Next]_vars
        => [SyncEnd /\ quiet =>
              \A f \in Files \ raced : \/ disk[f].content \in Unparsable
                                       \/ record[f].content = disk[f].content]_vars
  BY DEF SyncEnd, QuietInv, Exact
<1> HIDE DEF Inv
<1> QED
  BY <1>1, <1>2, <1>3, PTL DEF Spec, QuietSyncIsExact

-----------------------------------------------------------------------------
(* The watches on Linux                                                    *)
(*                                                                         *)
(* TreeIsSound speaks of all the ancestors of a directory and is not       *)
(* inductive.  What watchTree() keeps is local: a directory without a live *)
(* watch, below one with a live watch, is about to be visited (Frontier).  *)
(* Going up the tree from any uncovered directory one meets such a place.  *)
Reached(d) == \/ d = Root /\ Root \in walk
              \/ d # Root /\ (watch[Parent[d]] = "live" =>
                                \/ d \in walk \/ d \in dirEvents \/ Parent[d] \in reading)

Frontier == limited \/ \A d \in dirs : watch[d] = "live" \/ Reached(d)

(* A write under a live watch is reported, listed or pending. *)
WritesReported ==
  ready /\ ~limited =>
    \A d \in edited \cap file : watch[d] = "live" => d \in pending \cup fileEvents \cup reading

(* The directories that exist are a tree; the dead entries of dirWatchers   *)
(* are of directories that are gone for good.                              *)
TreeShape == /\ Root \in dirs /\ Closed(dirs) /\ file \subseteq dirs
             /\ gone \cap dirs = {}
             /\ \A d \in Dirs : watch[d] = "dead" => d \in gone

TreeInv == TreeTypeOK /\ TreeShape /\ Frontier /\ WritesReported /\ WithinCap

(* Up the tree from a directory without a live watch there is one that a    *)
(* walk or an event will bring watchTree() to.                             *)
LEMMA UncoveredIsApproached ==
  ASSUME TreeInv, ~limited, NEW d \in dirs, watch[d] # "live"
  PROVE  Approached(d)
<1> USE WatchTreeAssumption
<1> DEFINE S == {e \in Ancestors(d) \cap dirs : watch[e] # "live"}
<1>0. dirs \subseteq Dirs /\ Root \in Dirs /\ Closed(dirs)
  BY DEF TreeInv, TreeTypeOK, TreeShape
<1>1. d \in S
  BY <1>0 DEF Ancestors
<1>2. SUFFICES ASSUME ~Approached(d) PROVE FALSE
  OBVIOUS
<1>3. Closed(S)
  <2> SUFFICES ASSUME NEW e \in S, e # Root PROVE Parent[e] \in S
    BY DEF Closed
  <2>1. e \in Ancestors(d) /\ e \in dirs /\ e \in Dirs /\ watch[e] # "live"
    BY <1>0
  <2>2. Parent[e] \in dirs /\ Parent[e] \in Dirs
    BY <1>0, <2>1 DEF Closed
  <2>3. Parent[e] \in Ancestors(d)
    BY <2>1, <2>2 DEF Ancestors, Closed
  <2>4. Reached(e)
    BY <2>1 DEF TreeInv, Frontier
  <2>5. watch[Parent[e]] # "live"
    BY <2>1, <2>4, <1>2 DEF Reached, Approached
  <2> QED
    BY <2>2, <2>3, <2>5
<1>4. S \in SUBSET Dirs
  BY <1>0
<1> HIDE DEF S
<1>5. Root \in S
  BY <1>1, <1>3, <1>4
<1>6. Root \in Ancestors(d) /\ Root \in dirs /\ watch[Root] # "live"
  BY <1>5 DEF S
<1>7. Reached(Root)
  BY <1>6 DEF TreeInv, Frontier
<1> QED
  BY <1>2, <1>6, <1>7 DEF Reached, Approached

LEMMA TreeInvSuffices == TreeInv => TreeIsSound
<1> SUFFICES ASSUME TreeInv PROVE EveryDirCovered /\ NoMissedWrite
  BY DEF TreeInv, TreeIsSound
<1>1. EveryDirCovered
  BY UncoveredIsApproached DEF EveryDirCovered
<1>2. NoMissedWrite
  <2> SUFFICES ASSUME ready, ~limited, NEW d \in edited \cap file
               PROVE  d \in pending \cup fileEvents \cup reading \/ Approached(d)
    BY DEF NoMissedWrite
  <2>1. d \in dirs
    BY DEF TreeInv, TreeShape
  <2>2. CASE watch[d] = "live"
    BY <2>2 DEF TreeInv, WritesReported
  <2>3. CASE watch[d] # "live"
    BY <2>1, <2>3, UncoveredIsApproached
  <2> QED
    BY <2>2, <2>3
<1> QED
  BY <1>1, <1>2

LEMMA InitTree == TreeInit => TreeInv
<1> SUFFICES ASSUME TreeInit PROVE TreeInv
  OBVIOUS
<1> USE WatchTreeAssumption
<1>1. TreeTypeOK /\ TreeShape
  BY DEF TreeInit, TreeTypeOK, TreeShape
<1>2. Frontier
  BY <1>1 DEF TreeInit, Frontier, Reached, TreeTypeOK, Closed
<1>3. WritesReported
  BY DEF TreeInit, WritesReported
<1>4. Watched = {}
  BY DEF TreeInit, Watched
<1>5. WithinCap
  BY <1>4, FS_EmptySet DEF WithinCap
<1> QED
  BY <1>1, <1>2, <1>3, <1>5 DEF TreeInv

-----------------------------------------------------------------------------
(* Each step keeps the local invariant.                                     *)
LEMMA TreeTypesStep == TreeTypeOK /\ [TreeNext]_tree => TreeTypeOK'
<1> SUFFICES ASSUME TreeTypeOK, [TreeNext]_tree PROVE TreeTypeOK'
  OBVIOUS
<1> USE WatchTreeAssumption DEF TreeTypeOK, onDisk
<1>1. ASSUME NEW d \in Dirs, Mkdir(d) PROVE TreeTypeOK'
  BY <1>1 DEF Mkdir, Report
<1>2. ASSUME NEW d \in Dirs, Rmdir(d) PROVE TreeTypeOK'
  BY <1>2 DEF Rmdir, Report
<1>3. ASSUME NEW d \in Dirs, NEW exists \in BOOLEAN, Touch(d, exists) PROVE TreeTypeOK'
  BY <1>3 DEF Touch
<1>4. ASSUME NEW d \in Dirs, WalkSkips(d) \/ WalkFails(d) PROVE TreeTypeOK'
  BY <1>4 DEF WalkSkips, WalkFails
<1>5. ASSUME NEW d \in Dirs, WalkWatches(d) PROVE TreeTypeOK'
  BY <1>5 DEF WalkWatches
<1>6. ASSUME NEW d \in Dirs, WalkLists(d) PROVE TreeTypeOK'
  BY <1>6 DEF WalkLists, Children
<1>7. ASSUME NEW d \in Dirs, FileEvent(d) \/ DirEvent(d) PROVE TreeTypeOK'
  BY <1>7 DEF FileEvent, DirEvent
<1>8. ASSUME Started \/ Sync PROVE TreeTypeOK'
  BY <1>8 DEF Started, Sync
<1>9. CASE UNCHANGED tree
  BY <1>9 DEF tree
<1> QED
  BY <1>1, <1>2, <1>3, <1>4, <1>5, <1>6, <1>7, <1>8, <1>9 DEF TreeNext

LEMMA TreeShapeStep ==
  ASSUME DirsReappear = FALSE, TreeTypeOK, TreeShape, [TreeNext]_tree
  PROVE  TreeShape'
<1> USE WatchTreeAssumption DEF TreeTypeOK, TreeShape, Closed, onDisk
<1>1. ASSUME NEW d \in Dirs, Mkdir(d) PROVE TreeShape'
  BY <1>1 DEF Mkdir
<1>2. ASSUME NEW d \in Dirs, Rmdir(d) PROVE TreeShape'
  <2>1. Root \in dirs' /\ file' \subseteq dirs' /\ gone' \cap dirs' = {}
    BY <1>2 DEF Rmdir
  <2>2. Closed(dirs')
    BY <1>2 DEF Rmdir, Children
  <2>3. \A e \in Dirs : watch'[e] = "dead" => e \in gone'
    BY <1>2 DEF Rmdir
  <2> QED
    BY <2>1, <2>2, <2>3
<1>3. ASSUME NEW d \in Dirs, NEW exists \in BOOLEAN, Touch(d, exists) PROVE TreeShape'
  BY <1>3 DEF Touch
<1>4. ASSUME NEW d \in Dirs, WalkWatches(d) PROVE TreeShape'
  BY <1>4 DEF WalkWatches
<1>5. CASE UNCHANGED <<dirs, gone, file, watch>>
  BY <1>5
<1> QED
  BY <1>1, <1>2, <1>3, <1>4, <1>5
  DEF TreeNext, WalkSkips, WalkFails, WalkLists, FileEvent, DirEvent, Started, Sync, tree

LEMMA FrontierStep ==
  ASSUME TreeTypeOK, TreeShape, Frontier, [TreeNext]_tree
  PROVE  Frontier'
<1> USE WatchTreeAssumption DEF Frontier, Reached, TreeTypeOK, onDisk
<1>0. SUFFICES ASSUME ~limited' PROVE Frontier'
  OBVIOUS
<1>1. ASSUME NEW d \in Dirs, Mkdir(d) PROVE Frontier'
  BY <1>0, <1>1 DEF Mkdir, Report, TreeShape, Closed
<1>2. ASSUME NEW d \in Dirs, Rmdir(d) PROVE Frontier'
  <2>1. ASSUME NEW e \in dirs' PROVE (watch[e] = "live" \/ Reached(e))'
    BY <1>0, <1>2, <2>1 DEF Rmdir, Report, Children, TreeShape, Closed
  <2> QED
    BY <2>1
<1>3. ASSUME NEW d \in Dirs, NEW exists \in BOOLEAN, Touch(d, exists) PROVE Frontier'
  BY <1>3 DEF Touch
<1>4. ASSUME NEW d \in Dirs, WalkSkips(d) PROVE Frontier'
  <2>1. d \notin dirs \/ watch[d] = "live"
    BY <1>0, <1>4 DEF WalkSkips, TreeShape
  <2> QED
    BY <1>0, <1>4, <2>1 DEF WalkSkips
<1>5. ASSUME NEW d \in Dirs, WalkFails(d) PROVE Frontier'
  BY <1>0, <1>5 DEF WalkFails
<1>6. ASSUME NEW d \in Dirs, WalkWatches(d) PROVE Frontier'
  BY <1>0, <1>6 DEF WalkWatches
<1>7. ASSUME NEW d \in Dirs, WalkLists(d) PROVE Frontier'
  BY <1>0, <1>7 DEF WalkLists, Children
<1>8. ASSUME NEW d \in Dirs, FileEvent(d) PROVE Frontier'
  BY <1>8 DEF FileEvent
<1>9. ASSUME NEW d \in Dirs, DirEvent(d) PROVE Frontier'
  BY <1>0, <1>9 DEF DirEvent, Walking
<1>10. CASE Started \/ Sync
  BY <1>10 DEF Started, Sync
<1>11. CASE UNCHANGED tree
  BY <1>11 DEF tree
<1> QED
  BY <1>1, <1>2, <1>3, <1>4, <1>5, <1>6, <1>7, <1>8, <1>9, <1>10, <1>11 DEF TreeNext

LEMMA WritesReportedStep ==
  ASSUME TreeTypeOK, WritesReported, [TreeNext]_tree
  PROVE  WritesReported'
<1> USE DEF WritesReported, TreeTypeOK, onDisk
<1>1. ASSUME NEW d \in Dirs, Mkdir(d) PROVE WritesReported'
  BY <1>1 DEF Mkdir
<1>2. ASSUME NEW d \in Dirs, Rmdir(d) PROVE WritesReported'
  BY <1>2 DEF Rmdir
<1>3. ASSUME NEW d \in Dirs, NEW exists \in BOOLEAN, Touch(d, exists) PROVE WritesReported'
  BY <1>3 DEF Touch
<1>4. ASSUME NEW d \in Dirs, WalkSkips(d) \/ WalkFails(d) \/ DirEvent(d) PROVE WritesReported'
  BY <1>4 DEF WalkSkips, WalkFails, DirEvent
<1>5. ASSUME NEW d \in Dirs, WalkWatches(d) PROVE WritesReported'
  BY <1>5 DEF WalkWatches
<1>6. ASSUME NEW d \in Dirs, WalkLists(d) PROVE WritesReported'
  BY <1>6 DEF WalkLists
<1>7. ASSUME NEW d \in Dirs, FileEvent(d) PROVE WritesReported'
  BY <1>7 DEF FileEvent
<1>8. CASE Started \/ Sync
  BY <1>8 DEF Started, Sync
<1>9. CASE UNCHANGED tree
  BY <1>9 DEF tree
<1> QED
  BY <1>1, <1>2, <1>3, <1>4, <1>5, <1>6, <1>7, <1>8, <1>9 DEF TreeNext

LEMMA WithinCapStep == TreeTypeOK /\ WithinCap /\ [TreeNext]_tree => WithinCap'
<1> SUFFICES ASSUME TreeTypeOK, WithinCap, [TreeNext]_tree PROVE WithinCap'
  OBVIOUS
<1> USE WatchTreeAssumption
<1>1. ASSUME NEW d \in Dirs, WalkWatches(d) PROVE WithinCap'
  <2>1. Watched' = Watched \cup {d}
    BY <1>1 DEF WalkWatches, Watched, TreeTypeOK
  <2>2. IsFiniteSet(Watched)
    BY FS_Subset DEF Watched
  <2>3. Cardinality(Watched) < DirCap /\ Cardinality(Watched) \in Nat
    BY <1>1, <2>2, FS_CardinalityType DEF WalkWatches
  <2>4. Cardinality(Watched \cup {d}) \in {Cardinality(Watched), Cardinality(Watched) + 1}
    BY <2>2, FS_AddElement
  <2> QED
    BY <2>1, <2>3, <2>4 DEF WithinCap
<1>2. ASSUME NEW d \in Dirs, Rmdir(d) PROVE WithinCap'
  <2>1. Watched' = Watched
    BY <1>2 DEF Rmdir, Watched, TreeTypeOK
  <2> QED
    BY <2>1 DEF WithinCap
<1>3. CASE UNCHANGED watch
  BY <1>3 DEF WithinCap, Watched
<1> QED
  BY <1>1, <1>2, <1>3 DEF TreeNext, Mkdir, Touch, WalkSkips, WalkFails, WalkLists, FileEvent,
                          DirEvent, Started, Sync, tree, onDisk

(* As long as no removed directory comes back, and whatever the cap, the    *)
(* kernel's budget and the moments at which the disk changes: every         *)
(* directory is watched or about to be visited, no write into one is missed *)
(* and the watches stay within their cap (watcher.ts:427, 442).  The        *)
(* premise is needed: the entry of a removed directory stays in dirWatchers *)
(* and keeps watchTree() away from a new one of its name (watcher.ts:441).  *)
THEOREM TreeStaysSound == DirsReappear = FALSE => (TreeSpec => []TreeIsSound)
<1> SUFFICES ASSUME DirsReappear = FALSE PROVE TreeSpec => []TreeIsSound
  OBVIOUS
<1>1. TreeInv /\ [TreeNext]_tree => TreeInv'
  BY TreeTypesStep, TreeShapeStep, FrontierStep, WritesReportedStep, WithinCapStep DEF TreeInv
<1> QED
  BY <1>1, InitTree, TreeInvSuffices, PTL DEF TreeSpec
=============================================================================
