------------------------------ MODULE WatchTree ------------------------------
(***************************************************************************)
(* The per-directory watch set of src/sync/watcher.ts on Linux: one        *)
(* inotify watch per directory, extended when a directory appears.  Every  *)
(* directory here is outside the ignore rules; a file is named by the       *)
(* directory that holds it and stands for all its source files.            *)
(*                                                                         *)
(* watchTree() runs to its end on one thread, but the disk changes between *)
(* its system calls; events wait in the inotify queue meanwhile.           *)
(***************************************************************************)
EXTENDS Naturals, FiniteSets

CONSTANTS
  Dirs, Root,    \* directories of the project
  Parent,        \* the parent of each directory but the root
  FileDirs,      \* directories that may hold a source file
  DirCap,        \* maxDirWatches()
  MayFail,       \* may inotify run out of watches (ENOSPC)?
  DirsReappear   \* may a removed directory be created again?

(* A set of directories that holds the parent of each of them *)
Closed(S) == \A d \in S \ {Root} : Parent[d] \in S

(* The directories are finitely many and form a tree. *)
ASSUME WatchTreeAssumption ==
  /\ IsFiniteSet(Dirs) /\ Root \in Dirs /\ FileDirs \subseteq Dirs
  /\ Parent \in [Dirs \ {Root} -> Dirs]
  /\ \A S \in SUBSET Dirs : S # {} /\ Closed(S) => Root \in S
  /\ DirCap \in Nat /\ MayFail \in BOOLEAN /\ DirsReappear \in BOOLEAN

VARIABLES
  (* the disk and the index *)
  dirs,      \* directories that exist
  gone,      \* directories that were removed at some time
  file,      \* directories whose file exists
  indexed,   \* directories whose file the index knows
  edited,    \* directories whose file differs from the index
  (* the kernel's queue *)
  dirEvents, fileEvents,
  (* the FileWatcher *)
  watch,     \* dirWatchers: none, live, or dead (its directory was removed)
  limited,   \* inotifyLimitWarned or dirCapWarned
  ready,     \* start() has returned
  walk,      \* directories watchTree() has still to visit
  reading,   \* directories it watches and is about to list
  pending    \* pendingFiles

onDisk == <<dirs, gone, file, indexed, edited>>
tree == <<onDisk, dirEvents, fileEvents, watch, limited, ready, walk, reading, pending>>

TreeTypeOK ==
  /\ dirs \cup gone \cup file \cup indexed \cup edited \subseteq Dirs
  /\ dirEvents \cup fileEvents \cup walk \cup reading \cup pending \subseteq Dirs
  /\ watch \in [Dirs -> {"none", "live", "dead"}]
  /\ limited \in BOOLEAN /\ ready \in BOOLEAN

(* start() on some project: the walk begins at the root, marking nothing. *)
TreeInit ==
  /\ dirs \in {D \in SUBSET Dirs : Root \in D /\ Closed(D)}
  /\ gone = {} /\ file \in {{}, dirs \cap FileDirs} /\ indexed = file /\ edited = {}
  /\ dirEvents = {} /\ fileEvents = {}
  /\ watch = [d \in Dirs |-> "none"]
  /\ limited = FALSE /\ ready = FALSE
  /\ walk = {Root} /\ reading = {} /\ pending = {}

Children(d) == {c \in Dirs \ {Root} : Parent[c] = d}

Watched == {d \in Dirs : watch[d] # "none"}

-----------------------------------------------------------------------------
(* The disk                                                                *)

(* inotify reports an entry of a directory whose watch is live. *)
Report(d) == dirEvents' = IF watch[Parent[d]] = "live" THEN dirEvents \cup {d} ELSE dirEvents

Mkdir(d) == /\ d \in Dirs \ (dirs \cup {Root}) /\ Parent[d] \in dirs
            /\ DirsReappear \/ d \notin gone
            /\ dirs' = dirs \cup {d}
            /\ Report(d)
            /\ UNCHANGED <<gone, file, indexed, edited, fileEvents, watch, limited,
                           ready, walk, reading, pending>>

(* rmdir of an empty directory.  Its own watch sees no error, only events   *)
(* the handler ignores; its FSWatcher stays in dirWatchers.                  *)
Rmdir(d) == /\ d \in dirs \ (file \cup {Root}) /\ Children(d) \cap dirs = {}
            /\ dirs' = dirs \ {d} /\ gone' = gone \cup {d}
            /\ watch' = [watch EXCEPT ![d] = IF @ = "live" THEN "dead" ELSE @]
            /\ Report(d)
            /\ UNCHANGED <<file, indexed, edited, fileEvents, limited, ready, walk,
                           reading, pending>>

(* A file is written, or deleted. *)
Touch(d, exists) ==
  /\ d \in dirs \cap FileDirs /\ (exists \/ d \in file)
  /\ file' = IF exists THEN file \cup {d} ELSE file \ {d}
  /\ edited' = IF exists \/ d \in indexed THEN edited \cup {d} ELSE edited \ {d}
  /\ fileEvents' = IF watch[d] = "live" THEN fileEvents \cup {d} ELSE fileEvents
  /\ UNCHANGED <<dirs, gone, indexed, dirEvents, watch, limited, ready, walk, reading,
                 pending>>

-----------------------------------------------------------------------------
(* watchTree()                                                             *)

Walking == walk # {} \/ reading # {}

(* No watch for d: the budget is spent, one is there already, or d is gone. *)
WalkSkips(d) ==
  /\ d \in walk
  /\ \/ limited \/ watch[d] # "none" \/ d \notin dirs
     \/ Cardinality(Watched) >= DirCap
  /\ limited' = (limited \/ (watch[d] = "none" /\ Cardinality(Watched) >= DirCap))
  /\ walk' = walk \ {d}
  /\ UNCHANGED <<onDisk, dirEvents, fileEvents, watch, ready, reading, pending>>

WalkFailsKept(d) ==
  /\ MayFail /\ d \in walk \cap dirs /\ ~limited /\ watch[d] = "none"
  /\ watch' = [watch EXCEPT ![d] = "failed"]
  /\ limited' = TRUE /\ walk' = walk \ {d}
  /\ UNCHANGED <<onDisk, dirEvents, fileEvents, ready, reading, pending>>

(* fs.watch throws ENOSPC: warnInotifyLimit(), and no more attempts *)
WalkFails(d) == /\ MayFail /\ d \in walk \cap dirs /\ ~limited /\ watch[d] = "none"
                /\ limited' = TRUE /\ walk' = walk \ {d}
                /\ UNCHANGED <<onDisk, dirEvents, fileEvents, watch, ready, reading, pending>>

WalkWatchesUncapped(d) ==
  /\ d \in walk \cap dirs /\ ~limited /\ watch[d] = "none"
  /\ watch' = [watch EXCEPT ![d] = "live"]
  /\ walk' = walk \ {d} /\ reading' = reading \cup {d}
  /\ UNCHANGED <<onDisk, dirEvents, fileEvents, limited, ready, pending>>

(* fs.watch installs the watch *)
WalkWatches(d) == /\ d \in walk \cap dirs /\ ~limited /\ watch[d] = "none"
                  /\ Cardinality(Watched) < DirCap
                  /\ watch' = [watch EXCEPT ![d] = "live"]
                  /\ walk' = walk \ {d} /\ reading' = reading \cup {d}
                  /\ UNCHANGED <<onDisk, dirEvents, fileEvents, limited, ready, pending>>

WalkListsUnmarked(d) ==
  /\ d \in reading
  /\ reading' = reading \ {d}
  /\ walk' = walk \cup (Children(d) \cap dirs)
  /\ UNCHANGED <<onDisk, dirEvents, fileEvents, watch, limited, ready, pending>>

WalkListsFilesOnly(d) ==
  /\ d \in reading
  /\ reading' = reading \ {d}
  /\ pending' = IF ready /\ d \in file THEN pending \cup {d} ELSE pending
  /\ UNCHANGED <<onDisk, dirEvents, fileEvents, watch, limited, ready, walk>>

(* readdir: its directories are walked; its files are pending if the        *)
(* directory appeared after the start (markExisting).  A directory that     *)
(* was removed lists nothing.                                               *)
WalkLists(d) ==
  /\ d \in reading
  /\ reading' = reading \ {d}
  /\ walk' = walk \cup (Children(d) \cap dirs)
  /\ pending' = IF ready /\ d \in file THEN pending \cup {d} ELSE pending
  /\ UNCHANGED <<onDisk, dirEvents, fileEvents, watch, limited, ready>>

(* start() returns; what changed before belongs to the catch-up sync *)
Started == /\ ~ready /\ ~Walking
           /\ ready' = TRUE /\ pending' = {}
           /\ indexed' = file /\ edited' = {}
           /\ UNCHANGED <<dirs, gone, file, dirEvents, fileEvents, watch, limited, walk,
                          reading>>

-----------------------------------------------------------------------------
(* handleDirEvent(), on the event loop                                     *)

FileEvent(d) == /\ ready /\ ~Walking /\ d \in fileEvents
                /\ fileEvents' = fileEvents \ {d} /\ pending' = pending \cup {d}
                /\ UNCHANGED <<onDisk, dirEvents, watch, limited, ready, walk, reading>>

(* A directory entry: if it is there, extend the tree from it; if it has     *)
(* vanished, the change handler drops its non-source path.                   *)
DirEvent(d) == /\ ready /\ ~Walking /\ d \in dirEvents
               /\ dirEvents' = dirEvents \ {d}
               /\ walk' = IF d \in dirs THEN {d} ELSE {}
               /\ UNCHANGED <<onDisk, fileEvents, watch, limited, ready, reading, pending>>

(* The debounced sync indexes the project and clears the pending entries. *)
Sync == /\ ready /\ ~Walking /\ pending # {}
        /\ pending' = {} /\ indexed' = file /\ edited' = {}
        /\ UNCHANGED <<dirs, gone, file, dirEvents, fileEvents, watch, limited, ready,
                       walk, reading>>

TreeNext ==
  \/ \E d \in Dirs : \/ Mkdir(d) \/ Rmdir(d)
                     \/ \E exists \in BOOLEAN : Touch(d, exists)
                     \/ WalkSkips(d) \/ WalkFails(d) \/ WalkWatches(d) \/ WalkLists(d)
                     \/ FileEvent(d) \/ DirEvent(d)
  \/ Started \/ Sync

TreeSpec == TreeInit /\ [][TreeNext]_tree

-----------------------------------------------------------------------------
(* A directory is accounted for when its watch is live, or a walk or an      *)
(* event will still bring watchTree() to it.                                 *)
Ancestors(d) == {e \in Dirs : \A S \in SUBSET Dirs : d \in S /\ Closed(S) => e \in S}

Approached(d) ==
  \E e \in Ancestors(d) \cap dirs :
     \/ e \in walk \/ e \in dirEvents
     \/ e # Root /\ Parent[e] \in reading

(* New directories are picked up (watcher.ts:21): whatever is created while  *)
(* the tree is walked or its events wait, every directory that exists gets   *)
(* a live watch, unless the watch budget is spent.                           *)
EveryDirCovered ==
  limited \/ \A d \in dirs : watch[d] = "live" \/ Approached(d)

(* The mkdir + write race is closed (watcher.ts:427): a file that was        *)
(* written is pending, reported, or about to be listed by the walk of its    *)
(* new directory.                                                           *)
NoMissedWrite ==
  ready /\ ~limited =>
    \A d \in edited \cap file :
       d \in pending \cup fileEvents \cup reading \/ Approached(d)

(* The watch set never outgrows its cap. *)
WithinCap == Cardinality(Watched) <= DirCap

(* The tree of watches is complete as far as its cap allows, and no larger,  *)
(* and no write is missed while it grows.                                    *)
TreeIsSound == TreeTypeOK /\ EveryDirCovered /\ NoMissedWrite /\ WithinCap
=============================================================================
