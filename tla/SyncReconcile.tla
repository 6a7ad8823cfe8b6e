---------------------------- MODULE SyncReconcile ----------------------------
(***************************************************************************)
(* How the index follows the disk: sync() and indexAll() of                *)
(* src/extraction/index.ts, and the statements by which                    *)
(* storeExtractionResult() replaces a file, each its own transaction.      *)
(* IndexGate lets one operation run at a time.  Files are stored one after *)
(* another; reads that run ahead of the store touch nothing shared, so one  *)
(* file is in hand at a time here.                                         *)
(***************************************************************************)
EXTENDS Naturals, FiniteSets

CONSTANTS
  Files,
  Contents,    \* what a file may hold, up to its hash
  Unparsable,  \* contents the extractor fails on
  NoContent,   \* of a file that does not exist
  NoFile,      \* no file is in hand
  MaxStat      \* bound: how often each file is written

ASSUME SyncAssumption == /\ Unparsable \subseteq Contents /\ NoContent \notin Contents
                         /\ NoFile \notin Files /\ MaxStat \in [Files -> Nat]

VARIABLES
  disk,     \* content and stat of each file; `stat` stands for (size, mtime)
  record,   \* its row of the files table: content hash and stat, or NoContent
  symbols,  \* the contents whose nodes are in the nodes table
  pend,     \* files with rows in unresolved_refs that no resolution has seen
  phase,    \* of the operation that runs: none, bulk (indexAll), or a sync's
            \* remove, check, index
  todo,     \* files the phase has still to handle
  listed,   \* scanDirectory(): files of this sync
  tracked,  \* getAllFiles(): the files table when this sync began
  changed,  \* filesToIndex of a sync; the files a bulk run has indexed
  hand,     \* the file being indexed
  (* history *)
  quiet,    \* nothing was written since the operation began
  raced,    \* files written between the read and the stat of a bulk run
  torn      \* files whose replacement or resolution was cut short

base    == <<disk, record, symbols, pend>>
run     == <<phase, todo, listed, tracked, changed, hand>>
history == <<quiet, raced, torn>>
vars    == <<base, run, history>>

Versions == [content : Contents \cup {NoContent}, stat : Nat]
Absent   == [content |-> NoContent, stat |-> 0]
Steps    == {"none", "statted", "unstatted", "ready", "deleted", "nodes", "refs"}
Hands    == [file : Files \cup {NoFile}, content : Contents \cup {NoContent},
             stat : Nat, step : Steps, late : BOOLEAN]
Empty    == [file |-> NoFile, content |-> NoContent, stat |-> 0, step |-> "none", late |-> FALSE]

TypeOK == /\ disk \in [Files -> Versions] /\ record \in [Files -> Versions]
          /\ symbols \in [Files -> SUBSET Contents] /\ pend \subseteq Files
          /\ phase \in {"none", "bulk", "remove", "check", "index"}
          /\ todo \subseteq Files /\ listed \subseteq Files /\ changed \subseteq Files
          /\ tracked \in [Files -> Versions]
          /\ hand \in Hands
          /\ quiet \in BOOLEAN /\ raced \subseteq Files /\ torn \subseteq Files

Exists(version) == version.content # NoContent

(* A project before its first index *)
Init == /\ disk \in [Files -> {Absent} \cup [content : Contents, stat : {1}]]
        /\ record = [f \in Files |-> Absent] /\ symbols = [f \in Files |-> {}] /\ pend = {}
        /\ phase = "none" /\ todo = {} /\ listed = {} /\ changed = {}
        /\ tracked = [f \in Files |-> Absent] /\ hand = Empty
        /\ quiet = TRUE /\ raced = {} /\ torn = {}

(* Somebody writes, touches, deletes or restores f. *)
Write(f, c) ==
  /\ disk[f].stat < MaxStat[f] /\ (Exists(disk[f]) \/ c # NoContent)
  /\ disk' = [disk EXCEPT ![f] = [content |-> c, stat |-> @.stat + 1]]
  /\ hand' = IF hand.file = f /\ hand.step = "unstatted"
             THEN [hand EXCEPT !.late = TRUE] ELSE hand
  /\ quiet' = (phase = "none")
  /\ UNCHANGED <<record, symbols, pend, phase, todo, listed, tracked, changed, raced, torn>>

-----------------------------------------------------------------------------
(* sync(): scan, remove, check, index, resolve                             *)

(* The scan lists the files there are; git may also list deleted ones. *)
SyncBegin ==
  LET present == {f \in Files : Exists(disk[f])}
      known   == {f \in Files : Exists(record[f])}
  IN /\ phase = "none"
     /\ \E S \in SUBSET known : listed' = present \cup S
     /\ phase' = "remove" /\ todo' = known /\ tracked' = record /\ changed' = {}
     /\ quiet' = TRUE
     /\ UNCHANGED <<base, hand, raced, torn>>

(* deleteFile(): the nodes, what hangs on them, and the record *)
DeleteFile(f) == /\ record' = [record EXCEPT ![f] = Absent]
                 /\ symbols' = [symbols EXCEPT ![f] = {}]
                 /\ pend' = pend \ {f} /\ torn' = torn \ {f} /\ raced' = raced \ {f}

SyncRemoveListed(f) == /\ phase = "remove" /\ f \in todo
                       /\ todo' = todo \ {f}
                       /\ IF f \notin listed
                          THEN DeleteFile(f)
                          ELSE UNCHANGED <<record, symbols, pend, torn, raced>>
                       /\ UNCHANGED <<disk, phase, listed, tracked, changed, hand, quiet>>

SyncRemove(f) == /\ phase = "remove" /\ f \in todo
                 /\ todo' = todo \ {f}
                 /\ IF f \notin listed \/ ~Exists(disk[f])
                    THEN DeleteFile(f)
                    ELSE UNCHANGED <<record, symbols, pend, torn, raced>>
                 /\ UNCHANGED <<disk, phase, listed, tracked, changed, hand, quiet>>

(* New to the index, or with another stat and another hash *)
Differs(f) == /\ Exists(disk[f])
              /\ \/ ~Exists(tracked[f])
                 \/ disk[f].stat # tracked[f].stat /\ disk[f].content # tracked[f].content

SyncCheck(f) == /\ phase = "check" /\ f \in todo
                /\ todo' = todo \ {f}
                /\ changed' = IF Differs(f) THEN changed \cup {f} ELSE changed
                /\ UNCHANGED <<base, phase, listed, tracked, hand, history>>

SyncAdvance == /\ todo = {} /\ phase \in {"remove", "check"}
               /\ IF phase = "remove" THEN phase' = "check" /\ todo' = listed
                  ELSE phase' = "index" /\ todo' = changed
               /\ UNCHANGED <<base, listed, tracked, changed, hand, history>>

(* The operation is over, and its local variables with it. *)
Over == /\ phase' = "none" /\ todo' = {} /\ listed' = {} /\ changed' = {}
        /\ tracked' = [f \in Files |-> Absent] /\ hand' = Empty /\ quiet' = TRUE

(* The file in hand is done with. *)
Drop == hand' = Empty /\ todo' = todo \ {hand.file}

(* indexFile(): stat, then read; a file that is gone or does not parse is    *)
(* passed over.                                                              *)
IndexStat(f) ==
  /\ phase = "index" /\ f \in todo /\ hand = Empty
  /\ IF Exists(disk[f])
     THEN hand' = [Empty EXCEPT !.file = f, !.stat = disk[f].stat, !.step = "statted"]
          /\ UNCHANGED todo
     ELSE todo' = todo \ {f} /\ UNCHANGED hand
  /\ UNCHANGED <<base, phase, listed, tracked, changed, history>>

IndexReadBlindly ==
  /\ hand.step = "statted"
  /\ hand' = [hand EXCEPT !.content = disk[hand.file].content, !.step = "ready"]
  /\ UNCHANGED <<base, phase, todo, listed, tracked, changed, history>>

IndexRead == /\ hand.step = "statted"
             /\ LET now == disk[hand.file].content IN
                IF now \in Contents \ Unparsable
                THEN hand' = [hand EXCEPT !.content = now, !.step = "ready"] /\ UNCHANGED todo
                ELSE Drop
             /\ UNCHANGED <<base, phase, listed, tracked, changed, history>>

SyncEndAdded ==
  /\ phase = "index" /\ todo = {} /\ Over
  /\ pend' = pend \ {f \in changed : ~Exists(tracked[f])}
  /\ UNCHANGED <<disk, record, symbols, raced, torn>>

(* The references of the files this sync changed are resolved. *)
SyncEnd == /\ phase = "index" /\ todo = {} /\ Over
           /\ pend' = pend \ changed
           /\ UNCHANGED <<disk, record, symbols, raced, torn>>

-----------------------------------------------------------------------------
(* indexAll(): the batch reader and the retry passes read, then stat       *)

BulkBegin == /\ phase = "none" /\ phase' = "bulk"
             /\ todo' = {f \in Files : Exists(disk[f])}
             /\ changed' = {} /\ quiet' = TRUE
             /\ UNCHANGED <<base, listed, tracked, hand, raced, torn>>

BulkRead(f) ==
  /\ phase = "bulk" /\ f \in todo /\ hand = Empty
  /\ IF Exists(disk[f])
     THEN hand' = [Empty EXCEPT !.file = f, !.content = disk[f].content, !.step = "unstatted"]
          /\ UNCHANGED todo
     ELSE todo' = todo \ {f} /\ UNCHANGED hand
  /\ UNCHANGED <<base, phase, listed, tracked, changed, history>>

BulkStat == /\ hand.step = "unstatted"
            /\ IF Exists(disk[hand.file]) /\ hand.content \notin Unparsable
               THEN hand' = [hand EXCEPT !.stat = disk[hand.file].stat, !.step = "ready"]
                    /\ UNCHANGED todo
               ELSE Drop
            /\ UNCHANGED <<base, phase, listed, tracked, changed, history>>

(* Every pending reference is resolved, if the run indexed anything. *)
BulkEnd == /\ phase = "bulk" /\ todo = {} /\ Over
           /\ pend' = IF changed = {} THEN pend ELSE {}
           /\ UNCHANGED <<disk, record, symbols, raced, torn>>

-----------------------------------------------------------------------------
(* storeExtractionResult(), one transaction after the other                *)

Counted == changed' = IF phase = "bulk" THEN changed \cup {hand.file} ELSE changed

(* The index holds this content: nothing is written. *)
StoreSame == /\ hand.step = "ready" /\ record[hand.file].content = hand.content
             /\ Drop /\ Counted
             /\ UNCHANGED <<base, phase, listed, tracked, history>>

StoreWithoutDelete ==
  /\ hand.step = "ready" /\ record[hand.file].content # hand.content
  /\ hand' = [hand EXCEPT !.step = "deleted"]
  /\ UNCHANGED <<base, phase, todo, listed, tracked, changed, history>>

StoreDelete ==
  /\ hand.step = "ready" /\ record[hand.file].content # hand.content
  /\ hand' = [hand EXCEPT !.step = "deleted"]
  /\ IF Exists(record[hand.file])
     THEN DeleteFile(hand.file)
     ELSE UNCHANGED <<record, symbols, pend, torn, raced>>
  /\ UNCHANGED <<disk, phase, todo, listed, tracked, changed, quiet>>

StoreNodes == /\ hand.step = "deleted"
              /\ symbols' = [symbols EXCEPT ![hand.file] = @ \cup {hand.content}]
              /\ hand' = [hand EXCEPT !.step = "nodes"]
              /\ UNCHANGED <<disk, record, pend, phase, todo, listed, tracked, changed, history>>

StoreRefs == /\ hand.step = "nodes"
             /\ pend' = pend \cup {hand.file}
             /\ hand' = [hand EXCEPT !.step = "refs"]
             /\ UNCHANGED <<disk, record, symbols, phase, todo, listed, tracked, changed, history>>

StoreRecordFresh ==
  /\ hand.step = "refs"
  /\ record' = [record EXCEPT ![hand.file] = [content |-> hand.content,
                                              stat |-> disk[hand.file].stat]]
  /\ raced' = IF hand.late THEN raced \cup {hand.file} ELSE raced \ {hand.file}
  /\ Drop /\ Counted
  /\ UNCHANGED <<disk, symbols, pend, phase, listed, tracked, quiet, torn>>

StoreRecord ==
  /\ hand.step = "refs"
  /\ record' = [record EXCEPT ![hand.file] = [content |-> hand.content, stat |-> hand.stat]]
  /\ raced' = IF hand.late THEN raced \cup {hand.file} ELSE raced \ {hand.file}
  /\ Drop /\ Counted
  /\ UNCHANGED <<disk, symbols, pend, phase, listed, tracked, quiet, torn>>

(* The process dies, or a statement throws: the operation is over. *)
Cut == /\ phase # "none" /\ Over
       /\ torn' = torn \cup pend
                  \cup IF hand.step \in {"deleted", "nodes", "refs"} THEN {hand.file} ELSE {}
       /\ UNCHANGED <<base, raced>>

Next == \/ \E f \in Files : \/ \E c \in Contents \cup {NoContent} : Write(f, c)
                            \/ SyncRemove(f) \/ SyncCheck(f) \/ IndexStat(f) \/ BulkRead(f)
        \/ SyncBegin \/ SyncAdvance \/ IndexRead \/ SyncEnd
        \/ BulkBegin \/ BulkStat \/ BulkEnd
        \/ StoreSame \/ StoreDelete \/ StoreNodes \/ StoreRefs \/ StoreRecord
        \/ Cut

Spec == Init /\ [][Next]_vars

-----------------------------------------------------------------------------
(* A difference the next sync will see *)
Detectable(f) == \/ Exists(record[f]) # Exists(disk[f])
                 \/ record[f].stat # disk[f].stat

(* extraction/index.ts:1832: sync "catches edits/adds/deletes".  At any      *)
(* time, whatever was cut short, a file whose indexed content is not the     *)
(* one on disk looks changed to the next sync -- unless it was written       *)
(* between the read and the stat of a bulk run.                              *)
EditsAreDetectable ==
  \A f \in Files \ raced : record[f].content # disk[f].content => Detectable(f)

(* A sync during which nothing is written ends with the index equal to the   *)
(* disk, whatever state earlier operations left behind.                      *)
QuietSyncIsExact ==
  [][SyncEnd /\ quiet =>
       \A f \in Files \ raced : \/ disk[f].content \in Unparsable
                                \/ record[f].content = disk[f].content]_vars

(* The symbols the tools answer from are those of the recorded content and   *)
(* no other, for every file whose replacement was not cut short.             *)
SymbolsAreRecorded ==
  \A f \in Files \ (torn \cup {hand.file}) :
     symbols[f] = IF Exists(record[f]) THEN {record[f].content} ELSE {}

(* No operation that runs to its end leaves references nobody will resolve:  *)
(* later syncs look only at the files they change.                           *)
NoReferenceLeftBehind == phase = "none" => pend \subseteq torn

(* What is stored is the recorded content: its symbols, and no reference     *)
(* that nobody will look at again.                                           *)
StoredIsRecorded == TypeOK /\ SymbolsAreRecorded /\ NoReferenceLeftBehind
=============================================================================
