----------------------------- MODULE DaemonLock -----------------------------
(***************************************************************************)
(* Which process is the shared daemon of a project: the pid file, the       *)
(* socket paths and the registry record, as src/mcp/daemon.ts,              *)
(* src/mcp/index.ts (startDaemonProcess) and src/mcp/daemon-registry.ts     *)
(* treat them.  Every file operation is a step of its own: candidates,      *)
(* a daemon on its way out and `codegraph stop` interleave freely, and a     *)
(* process may be killed anywhere.                                          *)
(***************************************************************************)
EXTENDS Integers

CONSTANTS
  Procs,      \* processes, named by their PID
  Absent,     \* no file
  Garbage,    \* a pid file that does not decode
  MaxTries,   \* TAKEOVER_MAX_RETRIES
  MaxKills,   \* bound: processes killed
  MaxStops    \* bound: uses of `codegraph stop`

ASSUME LockAssumption == /\ Absent \notin Procs /\ Garbage \notin Procs /\ Absent # Garbage
                         /\ MaxTries \in Nat \ {0} /\ MaxKills \in Nat /\ MaxStops \in Nat

(* getDaemonSocketCandidates(): in the project, then in the temporary directory *)
Paths == {1, 2}

VARIABLES
  links,     \* the file system has hard links
  hosts,     \* the project's file system can host a socket
  lock,      \* the pid file: absent, garbage, or the PID in it
  blank,     \* it has been created and not yet written
  sock,      \* per path, the process whose listener was bound there
  reg,       \* the registry record
  pc,        \* off, or the step a process is at
  tries, seen, bound,
  robbed,    \* processes whose pid file a candidate took for a dead one's
  kills, stops,
  spc, target   \* stopDaemonAt(): its step and the PID it found

files  == <<lock, blank, sock, reg>>
locals == <<tries, seen, bound>>
stopper == <<stops, spc, target>>
lockVars == <<links, hosts, files, pc, locals, robbed, kills, stopper>>

Clearing == {"reread", "retest", "unlink"}
Binding  == {"write", "clear1", "bind1", "clear2", "bind2", "rewrite", "register"}
Failing  == {"failread", "failunlink", "failsock"}
Leaving  == {"close", "stopread", "stopunlink", "dereg", "unsock"}
Steps    == {"off", "try", "read", "test", "serve"} \cup Clearing \cup Binding \cup Failing \cup Leaving

LockTypeOK == /\ links \in BOOLEAN /\ hosts \in BOOLEAN
              /\ lock \in Procs \cup {Absent, Garbage} /\ blank \in BOOLEAN
              /\ sock \in [Paths -> Procs \cup {Absent}] /\ reg \in Procs \cup {Absent}
              /\ pc \in [Procs -> Steps] /\ tries \in [Procs -> 0 .. (MaxTries - 1)]
              /\ seen \in [Procs -> Procs \cup {Absent, Garbage}]
              /\ bound \in [Procs -> Paths \cup {0}]
              /\ robbed \subseteq Procs /\ kills \in 0..MaxKills /\ stops \in 0..MaxStops
              /\ spc \in {"idle", "test", "wait", "unlock", "unsock", "dereg"}
              /\ target \in Procs \cup {Absent} /\ (spc \in {"test", "wait"} => target # Absent)

LockInit == /\ links \in BOOLEAN /\ hosts \in BOOLEAN
            /\ lock \in {Absent, Garbage} /\ blank = FALSE
            /\ sock = [x \in Paths |-> Absent] /\ reg = Absent
            /\ pc = [p \in Procs |-> "off"] /\ tries = [p \in Procs |-> 0]
            /\ seen = [p \in Procs |-> Absent] /\ bound = [p \in Procs |-> 0]
            /\ robbed = {} /\ kills = 0 /\ stops = 0 /\ spc = "idle" /\ target = Absent

-----------------------------------------------------------------------------
Alive(p) == pc[p] # "off"

(* The PID that decodeLockInfo() finds in the file *)
Decoded == IF lock \in Procs /\ ~blank THEN lock ELSE Garbage

(* A proxy that walks the paths gets an answer. *)
Listening(p) == pc[p] \in {"rewrite", "register", "serve"}
Reachable == \E x \in Paths : sock[x] \in Procs /\ Listening(sock[x]) /\ bound[sock[x]] = x

Goto(p, step) == pc' = [pc EXCEPT ![p] = step]

(* The process exits or is killed. *)
Gone(p) == /\ Goto(p, "off")
           /\ tries' = [tries EXCEPT ![p] = 0] /\ bound' = [bound EXCEPT ![p] = 0]
           /\ seen' = [seen EXCEPT ![p] = Absent]
           /\ robbed' = robbed \ {p}

Same == UNCHANGED <<links, hosts, kills, stopper>>

(* A launcher that reaches no daemon spawns one.  A PID is not used again   *)
(* while the pid file or somebody's decision names it.                      *)
Remembered(p) == p \in {lock, target} \/ \E q \in Procs : seen[q] = p
Spawn(p) == /\ ~Alive(p) /\ ~Reachable /\ ~Remembered(p)
            /\ Goto(p, "try")
            /\ UNCHANGED <<files, locals, robbed>> /\ Same

(* Mutant: one attempt too many *)
NextTryOver(p) == IF tries[p] = MaxTries
                  THEN Gone(p)
                  ELSE /\ Goto(p, "try") /\ tries' = [tries EXCEPT ![p] = @ + 1]
                       /\ UNCHANGED <<seen, bound, robbed>>

(* startDaemonProcess(): the next attempt, or none is left *)
NextTry(p) == IF tries[p] + 1 = MaxTries
              THEN Gone(p)
              ELSE /\ Goto(p, "try") /\ tries' = [tries EXCEPT ![p] = @ + 1]
                   /\ UNCHANGED <<seen, bound, robbed>>

(* Mutant: the record is renamed over whatever is there. *)
TryOver(p) == /\ pc[p] = "try"
              /\ lock' = p /\ blank' = FALSE /\ Goto(p, "clear1")
              /\ UNCHANGED <<sock, reg, locals, robbed>> /\ Same

(* tryAcquireDaemonLock(): link(), or O_EXCL where there are no links *)
Try(p) == /\ pc[p] = "try"
          /\ IF lock = Absent
             THEN /\ lock' = p /\ blank' = ~links
                  /\ Goto(p, IF links THEN "clear1" ELSE "write")
                  /\ tries' = [tries EXCEPT ![p] = 0] /\ seen' = [seen EXCEPT ![p] = Absent]
             ELSE Goto(p, "read") /\ UNCHANGED <<lock, blank, tries, seen>>
          /\ UNCHANGED <<sock, reg, bound, robbed>> /\ Same

(* acquireLockViaExclusiveOpen() writes through its descriptor: if the file *)
(* was unlinked meanwhile, nobody sees it.                                  *)
Write(p) == /\ pc[p] = "write" /\ Goto(p, "clear1")
            /\ blank' = (blank /\ lock # p)
            /\ UNCHANGED <<lock, sock, reg, locals, robbed>> /\ Same

Read(p) == /\ pc[p] = "read" /\ Goto(p, "test")
           /\ seen' = [seen EXCEPT ![p] = Decoded]
           /\ UNCHANGED <<files, tries, bound, robbed>> /\ Same

(* Mutant: a record that does not decode is taken for a live one. *)
TestUndecoded(p) ==
  /\ pc[p] = "test"
  /\ IF seen[p] = Garbage \/ Alive(seen[p])
     THEN Gone(p)
     ELSE Goto(p, "reread") /\ UNCHANGED <<locals, robbed>>
  /\ UNCHANGED files /\ Same

(* A live holder makes this candidate redundant. *)
Test(p) == /\ pc[p] = "test"
           /\ IF seen[p] \in Procs /\ Alive(seen[p])
              THEN Gone(p)
              ELSE Goto(p, "reread") /\ UNCHANGED <<locals, robbed>>
           /\ UNCHANGED files /\ Same

(* Mutant: the file is removed without another look (before must-fix 1). *)
RereadBlind(p) == /\ pc[p] = "reread" /\ Goto(p, "unlink")
                  /\ UNCHANGED <<files, locals, robbed>> /\ Same

(* clearStaleDaemonLock() *)
Reread(p) ==
  /\ pc[p] = "reread"
  /\ IF lock = Absent \/ (Decoded \in Procs /\ seen[p] \in Procs /\ Decoded # seen[p])
     THEN NextTry(p)
     ELSE /\ Goto(p, IF Decoded \in Procs THEN "retest" ELSE "unlink")
          /\ seen' = [seen EXCEPT ![p] = Decoded] /\ UNCHANGED <<tries, bound, robbed>>
  /\ UNCHANGED files /\ Same

Retest(p) == /\ pc[p] = "retest"
             /\ IF Alive(seen[p]) THEN NextTry(p)
                                  ELSE Goto(p, "unlink") /\ UNCHANGED <<locals, robbed>>
             /\ UNCHANGED files /\ Same

Robs == IF lock \in Procs /\ Alive(lock) THEN {lock} ELSE {}

Unlink(p) == /\ pc[p] = "unlink"
             /\ lock' = Absent /\ blank' = FALSE
             /\ Goto(p, IF tries[p] + 1 = MaxTries THEN "off" ELSE "try")
             /\ tries' = [tries EXCEPT ![p] = IF @ + 1 = MaxTries THEN 0 ELSE @ + 1]
             /\ seen' = [seen EXCEPT ![p] = Absent]
             /\ robbed' = robbed \cup Robs
             /\ UNCHANGED <<sock, reg, bound>> /\ Same

-----------------------------------------------------------------------------
(* Daemon.start(): listen() unlinks the path and binds it.                  *)
ClearPath(p, x) == /\ pc[p] = (IF x = 1 THEN "clear1" ELSE "clear2")
                   /\ Goto(p, IF x = 1 THEN "bind1" ELSE "bind2")
                   /\ sock' = [sock EXCEPT ![x] = Absent]
                   /\ UNCHANGED <<lock, blank, reg, locals, robbed>> /\ Same

(* bindFirstUsableSocket(): a conflict is fatal, an unusable path is passed over. *)
Bind(p, x) ==
  /\ pc[p] = (IF x = 1 THEN "bind1" ELSE "bind2")
  /\ IF x = 1 /\ ~hosts
     THEN Goto(p, "clear2") /\ UNCHANGED <<sock, bound>>
     ELSE IF sock[x] # Absent
          THEN Goto(p, "failread") /\ UNCHANGED <<sock, bound>>
          ELSE /\ sock' = [sock EXCEPT ![x] = p] /\ bound' = [bound EXCEPT ![p] = x]
               /\ Goto(p, IF x = 1 THEN "register" ELSE "rewrite")
  /\ UNCHANGED <<lock, blank, reg, tries, seen, robbed>> /\ Same

(* The record names the path that was bound: rename() over the pid file. *)
Rewrite(p) == /\ pc[p] = "rewrite" /\ Goto(p, "register")
              /\ lock' = p /\ blank' = FALSE
              /\ robbed' = robbed \cup (Robs \ {p})
              /\ UNCHANGED <<sock, reg, locals>> /\ Same

Register(p) == /\ pc[p] = "register" /\ Goto(p, "serve") /\ reg' = p
               /\ UNCHANGED <<lock, blank, sock, locals, robbed>> /\ Same

(* Every bind failed: cleanupLockfile(), then both paths *)
FailSock(p) == /\ pc[p] = "failsock" /\ sock' = [x \in Paths |-> Absent] /\ Gone(p)
               /\ UNCHANGED <<lock, blank, reg>> /\ Same

(* cleanupLockfile(): only a record of its own *)
OwnRead(p) ==
  /\ pc[p] \in {"failread", "stopread"}
  /\ IF pc[p] = "failread" THEN Goto(p, IF Decoded = p THEN "failunlink" ELSE "failsock")
                           ELSE Goto(p, IF Decoded = p THEN "stopunlink" ELSE "dereg")
  /\ UNCHANGED <<files, locals, robbed>> /\ Same

OwnUnlink(p) == /\ pc[p] \in {"failunlink", "stopunlink"}
                /\ lock' = Absent /\ blank' = FALSE
                /\ robbed' = robbed \cup (Robs \ {p})
                /\ Goto(p, IF pc[p] = "failunlink" THEN "failsock" ELSE "dereg")
                /\ UNCHANGED <<sock, reg, locals>> /\ Same

(* Daemon.stop(): close() takes the listener's path with it; then the lock, *)
(* the record and once more the path.                                       *)
StopServing(p) == /\ Goto(p, "close")
                  /\ sock' = [sock EXCEPT ![bound[p]] = Absent]
                  /\ UNCHANGED <<lock, blank, reg, locals, robbed>>

StopDaemon(p) == pc[p] = "serve" /\ StopServing(p) /\ Same

Closed(p) == /\ pc[p] = "close" /\ Goto(p, "stopread")
             /\ UNCHANGED <<files, locals, robbed>> /\ Same

Deregister(p) == /\ pc[p] = "dereg" /\ reg' = Absent /\ Goto(p, "unsock")
                 /\ UNCHANGED <<lock, blank, sock, locals, robbed>> /\ Same

UnlinkSocket(p) == /\ pc[p] = "unsock"
                   /\ sock' = [sock EXCEPT ![bound[p]] = Absent] /\ Gone(p)
                   /\ UNCHANGED <<lock, blank, reg>> /\ Same

Kill(p) == /\ Alive(p) /\ kills < MaxKills /\ kills' = kills + 1
           /\ Gone(p) /\ UNCHANGED <<files, links, hosts, stopper>>

-----------------------------------------------------------------------------
(* stopDaemonAt() of `codegraph stop` *)
StopRead == /\ spc = "idle" /\ stops < MaxStops /\ stops' = stops + 1
            /\ target' = IF Decoded \in Procs THEN Decoded ELSE reg
            /\ spc' = IF target' = Absent THEN "unlock" ELSE "test"
            /\ UNCHANGED <<links, hosts, files, pc, locals, robbed, kills>>

(* SIGTERM ends a process that has not installed its handlers yet. *)
StopTest == /\ spc = "test"
            /\ spc' = IF Alive(target) THEN "wait" ELSE "unlock"
            /\ IF ~Alive(target) \/ pc[target] \in Leaving
               THEN UNCHANGED <<pc, files, locals, robbed>>
               ELSE IF pc[target] = "serve" THEN StopServing(target)
                    ELSE Gone(target) /\ UNCHANGED files
            /\ UNCHANGED <<links, hosts, kills, stops, target>>

(* It is gone in time, or SIGKILL *)
StopWait == /\ spc = "wait" /\ spc' = "unlock"
            /\ IF Alive(target) THEN Gone(target) ELSE UNCHANGED <<pc, locals, robbed>>
            /\ UNCHANGED <<links, hosts, files, kills, stops, target>>

(* cleanupDaemonArtifacts(): whoever's they are by now *)
StopUnlock == /\ spc = "unlock" /\ spc' = "unsock"
              /\ lock' = Absent /\ blank' = FALSE /\ robbed' = robbed \cup Robs
              /\ UNCHANGED <<links, hosts, sock, reg, pc, locals, kills, stops, target>>
StopUnsock == /\ spc = "unsock" /\ spc' = "dereg" /\ sock' = [x \in Paths |-> Absent]
              /\ UNCHANGED <<links, hosts, lock, blank, reg, pc, locals, robbed, kills, stops, target>>
StopDereg == /\ spc = "dereg" /\ spc' = "idle" /\ target' = Absent /\ reg' = Absent
             /\ UNCHANGED <<links, hosts, lock, blank, sock, pc, locals, robbed, kills, stops>>

Candidate(p) == \/ Try(p) \/ Write(p) \/ Read(p) \/ Test(p) \/ Reread(p) \/ Retest(p) \/ Unlink(p)
                \/ \E x \in Paths : ClearPath(p, x) \/ Bind(p, x)
                \/ Rewrite(p) \/ Register(p) \/ OwnRead(p) \/ OwnUnlink(p) \/ FailSock(p)
                \/ Closed(p) \/ Deregister(p) \/ UnlinkSocket(p)

StopCommand == StopRead \/ StopTest \/ StopWait \/ StopUnlock \/ StopUnsock \/ StopDereg

LockNext == \/ \E p \in Procs : Spawn(p) \/ Candidate(p) \/ StopDaemon(p) \/ Kill(p)
            \/ StopCommand

LockSpec == LockInit /\ [][LockNext]_lockVars

(* Processes run; launchers that reach no daemon keep spawning one; the      *)
(* clients of a daemon that no launcher reaches leave in the end, and its    *)
(* idle timer then stops it.                                                *)
Orphan(p) == ~Reachable /\ StopDaemon(p)
LockFairness == /\ \A p \in Procs : WF_lockVars(Candidate(p)) /\ WF_lockVars(Orphan(p))
                /\ WF_lockVars(\E p \in Procs : Spawn(p))
                /\ WF_lockVars(StopTest \/ StopWait \/ StopUnlock \/ StopUnsock \/ StopDereg)

LockLiveSpec == LockSpec /\ LockFairness

-----------------------------------------------------------------------------
Holders == {p \in Procs : pc[p] \in Binding \cup {"serve"}}

(* Two processes are never both the daemon of a project, or about to be it,  *)
(* unless a third party removed or replaced the pid file of one that was     *)
(* alive: acquiring excludes, and only a broken clearing lets a second in.   *)
HoldersExclude == \A p, q \in Holders \ robbed : p = q

(* A daemon at rest: its pid file, socket and registry record are its own,   *)
(* and nobody else is past the point of deciding to remove or bind anything. *)
Harmless(q, p) == \/ pc[q] \in {"off", "try", "read", "test", "reread"}
                  \/ pc[q] = "retest" /\ seen[q] = p
Secure(p) == /\ pc[p] = "serve" /\ bound[p] \in Paths
             /\ lock = p /\ ~blank /\ sock[bound[p]] = p /\ reg = p
             /\ \A q \in Procs \ {p} : Harmless(q, p)
             /\ \/ spc = "idle"
                \/ spc = "test" /\ target = p

(* Whoever comes along later, the daemon at rest keeps all three and nobody  *)
(* gets that far again, until it stops or dies itself: candidates, however   *)
(* stale what they read, and `codegraph stop` harm no daemon that settled    *)
(* before they decided.                                                     *)
SettledDaemonKeepsAll ==
  [][\A p \in Procs : Secure(p) => Secure(p)' \/ pc'[p] # "serve"]_lockVars

(* A project without a reachable daemon gets one again, whatever record or   *)
(* socket a crash, a race or a stop has left: no stale file blocks for good. *)
DaemonComesBack == ~Reachable ~> Reachable
=============================================================================
