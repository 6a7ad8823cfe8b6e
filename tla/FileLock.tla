------------------------------ MODULE FileLock ------------------------------
(***************************************************************************)
(* The cross-process lock file of src/utils.ts (class FileLock), one       *)
(* action per system call: between any two of them another process may     *)
(* run.  An instance is one FileLock object; instances of one process share *)
(* its PID, and because acquire() and release() are synchronous they never  *)
(* interleave with one another inside those calls.                         *)
(***************************************************************************)
EXTENDS Naturals, FiniteSets

CONSTANTS
  Inst,       \* FileLock objects
  PidOf,      \* the PID of the process each object lives in
  NoPid,      \* what parseInt makes of a file that is still empty
  MayAge,     \* may the two minutes of STALE_TIMEOUT_MS pass?
  MayCrash    \* may a process die?

Pids == {PidOf[i] : i \in Inst}

ASSUME FileLockAssumption == /\ NoPid \notin Pids
                             /\ MayAge \in BOOLEAN
                             /\ MayCrash \in BOOLEAN

VARIABLES
  file,     \* the lock file: none, or its creator, content and staleness
  syscall,  \* where each object is in acquire() / release()
  saw,      \* the PID each object last read from the file
  alive     \* the processes that run

fileVars == <<file, syscall, saw, alive>>

NoFile == [by |-> {}, pid |-> NoPid, old |-> FALSE]

(* `by` identifies the inode: a creator can own only one file at a time. *)
LockFiles == [by : {{i} : i \in Inst}, pid : Pids \cup {NoPid}, old : BOOLEAN]

(* read, stat, unlink, unlinkAgain, create, write are the lines of          *)
(* acquire(); relRead and relUnlink those of release().                     *)
MidCall == {"read", "stat", "unlink", "unlinkAgain", "create", "write",
            "relRead", "relUnlink"}
LockPlaces == MidCall \cup {"idle", "held", "dead"}

FileTypeOK ==
  /\ file \in LockFiles \cup {NoFile}
  /\ syscall \in [Inst -> LockPlaces]
  /\ saw \in [Inst -> Pids \cup {NoPid}]
  /\ alive \subseteq Pids

FileInit == /\ file = NoFile
            /\ syscall = [i \in Inst |-> "idle"]
            /\ saw = [i \in Inst |-> NoPid]
            /\ alive = Pids

-----------------------------------------------------------------------------
Present == file # NoFile

(* The event loop of i's process is not inside another object's call. *)
HasThread(i) == \A j \in Inst \ {i} : PidOf[j] = PidOf[i] => syscall[j] \notin MidCall

SyscallIs(i, place) == syscall' = [syscall EXCEPT ![i] = place]

(* fs.existsSync *)
Exists(i) == /\ syscall[i] = "idle" /\ HasThread(i)
             /\ SyscallIs(i, IF Present THEN "read" ELSE "create")
             /\ UNCHANGED <<file, saw, alive>>

(* fs.readFileSync + parseInt; a missing file throws into the catch block *)
ReadPid(i) == /\ syscall[i] = "read"
              /\ \/ /\ Present
                    /\ saw' = [saw EXCEPT ![i] = file.pid]
                    /\ SyscallIs(i, "stat")
                 \/ /\ ~Present
                    /\ SyscallIs(i, "unlinkAgain")
                    /\ UNCHANGED saw
              /\ UNCHANGED <<file, alive>>

RespectedNoProbe(i) == ~file.old /\ saw[i] # NoPid

(* Line 247: a young file with the PID of a live process is respected. *)
Respected(i) == ~file.old /\ saw[i] # NoPid /\ saw[i] \in alive

(* fs.statSync, then the verdict *)
Stat(i) == /\ syscall[i] = "stat"
           /\ SyscallIs(i, IF ~Present THEN "unlinkAgain"
                           ELSE IF Respected(i) THEN "idle" ELSE "unlink")
           /\ UNCHANGED <<file, saw, alive>>

(* fs.unlinkSync of the stale file: by path, so it removes whatever is      *)
(* there now; a missing file throws into the catch block.                   *)
UnlinkStale(i) == /\ syscall[i] = "unlink"
                  /\ SyscallIs(i, IF Present THEN "create" ELSE "unlinkAgain")
                  /\ file' = NoFile
                  /\ UNCHANGED <<saw, alive>>

(* the unlinkSync of the catch block, errors ignored *)
UnlinkAgain(i) == /\ syscall[i] = "unlinkAgain"
                  /\ SyscallIs(i, "create")
                  /\ file' = NoFile
                  /\ UNCHANGED <<saw, alive>>

CreateOver(i) == /\ syscall[i] = "create"
                 /\ SyscallIs(i, "write")
                 /\ file' = [by |-> {i}, pid |-> NoPid, old |-> FALSE]
                 /\ UNCHANGED <<saw, alive>>

(* writeFileSync with flag wx: open(O_CREAT|O_EXCL) ... *)
Create(i) == /\ syscall[i] = "create"
             /\ \/ /\ Present
                   /\ SyscallIs(i, "idle")
                   /\ UNCHANGED file
                \/ /\ ~Present
                   /\ SyscallIs(i, "write")
                   /\ file' = [by |-> {i}, pid |-> NoPid, old |-> FALSE]
             /\ UNCHANGED <<saw, alive>>

(* ... and then write(), into the inode that was created, still linked or not *)
WritePid(i) == /\ syscall[i] = "write"
               /\ SyscallIs(i, "held")
               /\ file' = IF file.by = {i} THEN [file EXCEPT !.pid = PidOf[i]] ELSE file
               /\ UNCHANGED <<saw, alive>>

(* release(), called when the locked work is over *)
Release(i) == /\ syscall[i] = "held" /\ HasThread(i)
              /\ SyscallIs(i, "relRead")
              /\ UNCHANGED <<file, saw, alive>>

RelRead(i) == /\ syscall[i] = "relRead"
              /\ SyscallIs(i, IF Present /\ file.pid = PidOf[i] THEN "relUnlink" ELSE "idle")
              /\ UNCHANGED <<file, saw, alive>>

RelTruncate(i) == /\ syscall[i] = "relUnlink"
                  /\ SyscallIs(i, "idle")
                  /\ file' = [file EXCEPT !.by = {}, !.pid = NoPid]
                  /\ UNCHANGED <<saw, alive>>

RelUnlink(i) == /\ syscall[i] = "relUnlink"
                /\ SyscallIs(i, "idle")
                /\ file' = NoFile
                /\ UNCHANGED <<saw, alive>>

(* STALE_TIMEOUT_MS since the file's mtime *)
Age == /\ MayAge /\ Present /\ ~file.old
       /\ file' = [file EXCEPT !.old = TRUE]
       /\ UNCHANGED <<syscall, saw, alive>>

(* A process dies with all its objects; its lock file stays behind. *)
Crash(p) == /\ MayCrash /\ p \in alive
            /\ alive' = alive \ {p}
            /\ syscall' = [i \in Inst |-> IF PidOf[i] = p THEN "dead" ELSE syscall[i]]
            /\ UNCHANGED <<file, saw>>

LockStep(i) == \/ Exists(i) \/ ReadPid(i) \/ Stat(i) \/ UnlinkStale(i) \/ UnlinkAgain(i)
               \/ Create(i) \/ WritePid(i) \/ Release(i) \/ RelRead(i) \/ RelUnlink(i)

FileNext == \/ \E i \in Inst : LockStep(i)
            \/ Age
            \/ \E p \in Pids : Crash(p)

FileLockSpec == FileInit /\ [][FileNext]_fileVars

-----------------------------------------------------------------------------
Holds(i) == syscall[i] \in {"held", "relRead", "relUnlink"}

(* i holds the lock, its file is written and young, and every other object  *)
(* is outside the lock and has not judged (nor will judge) by older content. *)
Settled(i) ==
  /\ syscall[i] = "held" /\ PidOf[i] \in alive
  /\ file = [by |-> {i}, pid |-> PidOf[i], old |-> FALSE]
  /\ \A j \in Inst \ {i} : \/ syscall[j] \in {"idle", "read", "create", "dead"}
                           \/ syscall[j] = "stat" /\ saw[j] = PidOf[i]

(* Once a holder is settled, no number of contenders, whatever the order of *)
(* their system calls, takes the lock from it: only its own release, its    *)
(* death or the two-minute timeout ends the tenure.                         *)
SettledIsStable ==
  [][\A i \in Inst : Settled(i) =>
        Settled(i)' \/ Release(i) \/ Age \/ Crash(PidOf[i])]_fileVars

(* A lock file whose writer died does not block the others for ever: as     *)
(* long as somebody alive keeps trying, the file is eventually removed.     *)
Orphaned == file.pid \in Pids \ alive
DeadLockRecovered == (Orphaned /\ alive # {}) ~> (~Orphaned \/ alive = {})

-----------------------------------------------------------------------------
(* What the class comment (utils.ts:220) promises: two processes never write *)
(* at the same time.  The code does not give it.                             *)
MutualExclusion == \A i, j \in Inst : Holds(i) /\ Holds(j) => i = j
=============================================================================
