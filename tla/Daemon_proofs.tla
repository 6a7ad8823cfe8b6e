---------------------------- MODULE Daemon_proofs ----------------------------
(***************************************************************************)
(* For every set of processes and every number of attempts, crashes and     *)
(* stops: the exclusion of holders and the safety of a daemon that settled. *)
(* For every set of sessions and every number of opens and failures: that   *)
(* the daemon's clients are served, through the gate of the instance they   *)
(* reach.  For every set of threads and calls and every limit of the pool:  *)
(* that no call of the query pool is lost, doubled or answered by another.   *)
(***************************************************************************)
EXTENDS DaemonLock, Daemon, QueryPool, FiniteSetTheorems, SequenceTheorems,
        WellFoundedInduction, TLAPS

-----------------------------------------------------------------------------
(* Who holds the lock                                                      *)

(* The pid file names every holder that nobody robbed: only one can be.     *)
PidFileNamesHolder == \A p \in Holders \ robbed : lock = p

LockInv == LockTypeOK /\ PidFileNamesHolder

(* A clearing step adds a living owner to the robbed ones.                   *)
LEMMA RobsTheOwner == ASSUME NEW p \in Procs, pc[p] # "off", lock = p PROVE p \in Robs
  BY DEF Robs, Alive

LEMMA RobsAreProcs == Robs \subseteq Procs
  BY DEF Robs

LEMMA GoneTyped ==
  ASSUME LockTypeOK, NEW p \in Procs, Gone(p)
  PROVE  /\ pc' \in [Procs -> Steps] /\ tries' \in [Procs -> 0 .. (MaxTries - 1)]
         /\ bound' \in [Procs -> Paths \cup {0}] /\ robbed' \subseteq Procs
         /\ seen' \in [Procs -> Procs \cup {Absent, Garbage}]
  <1>1. 0 \in 0 .. (MaxTries - 1)
    BY LockAssumption
  <1>2. "off" \in Steps
    BY DEF Steps
  <1> QED BY <1>1, <1>2, SMT DEF LockTypeOK, Gone, Goto

LEMMA NextTryTyped ==
  ASSUME LockTypeOK, NEW p \in Procs, NextTry(p)
  PROVE  /\ pc' \in [Procs -> Steps] /\ tries' \in [Procs -> 0 .. (MaxTries - 1)]
         /\ bound' \in [Procs -> Paths \cup {0}] /\ robbed' \subseteq Procs
         /\ seen' \in [Procs -> Procs \cup {Absent, Garbage}]
  <1>1. CASE tries[p] + 1 = MaxTries
    BY <1>1, GoneTyped DEF NextTry
  <1>2. CASE tries[p] + 1 # MaxTries
    <2>1. tries[p] + 1 \in 0 .. (MaxTries - 1)
      BY <1>2, LockAssumption DEF LockTypeOK
    <2>2. "try" \in Steps
      BY DEF Steps
    <2> QED BY <1>2, <2>1, <2>2, SMT DEF LockTypeOK, NextTry, Goto
  <1> QED BY <1>1, <1>2

(* What a step of a process may do to its place in the program.             *)
LEMMA GoneGoes ==
  ASSUME LockTypeOK, NEW p \in Procs, Gone(p)
  PROVE  /\ pc' \in [Procs -> Steps] /\ pc'[p] = "off"
         /\ \A q \in Procs \ {p} : pc'[q] = pc[q] /\ (q \in robbed' <=> q \in robbed)
  <1>1. /\ pc' = [pc EXCEPT ![p] = "off"] /\ robbed' = robbed \ {p}
        /\ pc \in [Procs -> Steps]
    BY DEF LockTypeOK, Gone, Goto
  <1> QED BY <1>1, GoneTyped

LEMMA NextTryGoes ==
  ASSUME LockTypeOK, NEW p \in Procs, NextTry(p)
  PROVE  /\ pc' \in [Procs -> Steps] /\ pc'[p] \in {"off", "try"}
         /\ \A q \in Procs \ {p} : pc'[q] = pc[q] /\ (q \in robbed' <=> q \in robbed)
  <1>1. CASE tries[p] + 1 = MaxTries
    BY <1>1, NextTryTyped, GoneGoes DEF NextTry
  <1>2. CASE tries[p] + 1 # MaxTries
    BY <1>2, NextTryTyped DEF LockTypeOK, NextTry, Goto
  <1> QED BY <1>1, <1>2

LEMMA TypesKept == LockTypeOK /\ [LockNext]_lockVars => LockTypeOK'
  <1> SUFFICES ASSUME LockTypeOK, [LockNext]_lockVars PROVE LockTypeOK'
    OBVIOUS
  <1> USE DEF LockTypeOK, Same, files, locals, stopper
  <1>1. CASE UNCHANGED lockVars
    BY <1>1 DEF lockVars
  <1>2. ASSUME NEW p \in Procs, Spawn(p) PROVE LockTypeOK'
    BY <1>2 DEF Spawn, Goto, Steps
  <1>3. ASSUME NEW p \in Procs, Try(p) PROVE LockTypeOK'
    <2>1. 0 \in 0 .. (MaxTries - 1)
      BY LockAssumption
    <2>2. {"read", "clear1", "write"} \subseteq Steps
      BY DEF Steps, Binding
    <2>3. CASE lock = Absent
      BY <1>3, <2>1, <2>2, <2>3 DEF Try, Goto
    <2>4. CASE lock # Absent
      BY <1>3, <2>2, <2>4 DEF Try, Goto
    <2> QED BY <2>3, <2>4
  <1>4. ASSUME NEW p \in Procs, Write(p) PROVE LockTypeOK'
    BY <1>4 DEF Write, Goto, Steps, Binding
  <1>5. ASSUME NEW p \in Procs, Read(p) PROVE LockTypeOK'
    BY <1>5 DEF Read, Decoded, Goto, Steps
  <1>6. ASSUME NEW p \in Procs, Test(p) PROVE LockTypeOK'
    BY <1>6, GoneTyped DEF Test, Goto, Steps, Clearing
  <1>7. ASSUME NEW p \in Procs, Reread(p) PROVE LockTypeOK'
    BY <1>7, NextTryTyped DEF Reread, Decoded, Goto, Steps, Clearing
  <1>8. ASSUME NEW p \in Procs, Retest(p) PROVE LockTypeOK'
    BY <1>8, NextTryTyped DEF Retest, Goto, Steps, Clearing
  <1>9. ASSUME NEW p \in Procs, Unlink(p) PROVE LockTypeOK'
    <2>1. tries' \in [Procs -> 0 .. (MaxTries - 1)]
      <3>1. (IF tries[p] + 1 = MaxTries THEN 0 ELSE tries[p] + 1) \in 0 .. (MaxTries - 1)
        BY LockAssumption
      <3> QED BY <1>9, <3>1 DEF Unlink
    <2>2. {"off", "try"} \subseteq Steps
      BY DEF Steps
    <2>3. pc' \in [Procs -> Steps]
      BY <1>9, <2>2 DEF Unlink, Goto
    <2>4. robbed' \subseteq Procs /\ seen' \in [Procs -> Procs \cup {Absent, Garbage}]
      BY <1>9, RobsAreProcs DEF Unlink
    <2> QED BY <1>9, <2>1, <2>3, <2>4 DEF Unlink
  <1>10. ASSUME NEW p \in Procs, NEW x \in Paths, ClearPath(p, x) PROVE LockTypeOK'
    BY <1>10 DEF ClearPath, Goto, Steps, Binding
  <1>11. ASSUME NEW p \in Procs, NEW x \in Paths, Bind(p, x) PROVE LockTypeOK'
    <2>1. {"clear2", "failread", "register", "rewrite"} \subseteq Steps
      BY DEF Steps, Binding, Failing
    <2> QED BY <1>11, <2>1, SMT DEF Bind, Goto
  <1>12. ASSUME NEW p \in Procs, Rewrite(p) PROVE LockTypeOK'
    BY <1>12, RobsAreProcs DEF Rewrite, Goto, Steps, Binding
  <1>13. ASSUME NEW p \in Procs, Register(p) PROVE LockTypeOK'
    BY <1>13 DEF Register, Goto, Steps
  <1>14. ASSUME NEW p \in Procs, OwnRead(p) PROVE LockTypeOK'
    BY <1>14 DEF OwnRead, Goto, Steps, Failing, Leaving
  <1>15. ASSUME NEW p \in Procs, OwnUnlink(p) PROVE LockTypeOK'
    BY <1>15, RobsAreProcs DEF OwnUnlink, Goto, Steps, Failing, Leaving
  <1>16. ASSUME NEW p \in Procs, FailSock(p) PROVE LockTypeOK'
    BY <1>16, GoneTyped DEF FailSock
  <1>17. ASSUME NEW p \in Procs, Closed(p) PROVE LockTypeOK'
    BY <1>17 DEF Closed, Goto, Steps, Leaving
  <1>18. ASSUME NEW p \in Procs, Deregister(p) PROVE LockTypeOK'
    BY <1>18 DEF Deregister, Goto, Steps, Leaving
  <1>19. ASSUME NEW p \in Procs, UnlinkSocket(p) PROVE LockTypeOK'
    BY <1>19, GoneTyped DEF UnlinkSocket
  <1>20. ASSUME NEW p \in Procs, StopDaemon(p) PROVE LockTypeOK'
    BY <1>20 DEF StopDaemon, StopServing, Goto, Steps, Leaving
  <1>21. ASSUME NEW p \in Procs, Kill(p) PROVE LockTypeOK'
    BY <1>21, GoneTyped, LockAssumption DEF Kill
  <1>22. CASE StopRead
    BY <1>22, LockAssumption DEF StopRead, Decoded
  <1>23. CASE StopTest
    <2>1. CASE ~Alive(target) \/ pc[target] \in Leaving
      BY <1>23, <2>1 DEF StopTest
    <2>2. CASE Alive(target) /\ pc[target] \notin Leaving /\ pc[target] = "serve"
      BY <1>23, <2>2 DEF StopTest, StopServing, Goto, Steps, Leaving
    <2>3. CASE Alive(target) /\ pc[target] \notin Leaving /\ pc[target] # "serve"
      BY <1>23, <2>3, GoneTyped DEF StopTest
    <2> QED BY <2>1, <2>2, <2>3
  <1>24. CASE StopWait
    BY <1>24, GoneTyped DEF StopWait
  <1>25. CASE StopUnlock
    BY <1>25, RobsAreProcs DEF StopUnlock
  <1>26. CASE StopUnsock
    BY <1>26 DEF StopUnsock
  <1>27. CASE StopDereg
    BY <1>27 DEF StopDereg
  <1> QED
    BY <1>1, <1>2, <1>3, <1>4, <1>5, <1>6, <1>7, <1>8, <1>9, <1>10, <1>11, <1>12, <1>13, <1>14,
       <1>15, <1>16, <1>17, <1>18, <1>19, <1>20, <1>21, <1>22, <1>23, <1>24, <1>25, <1>26, <1>27
    DEF LockNext, Candidate, StopCommand

-----------------------------------------------------------------------------
LEMMA PidFileKept == LockTypeOK /\ PidFileNamesHolder /\ [LockNext]_lockVars => PidFileNamesHolder'
  <1> SUFFICES ASSUME LockTypeOK, PidFileNamesHolder, [LockNext]_lockVars,
                      NEW h \in Procs, h \in Holders', h \notin robbed'
               PROVE lock' = h
    BY DEF PidFileNamesHolder, Holders
  <1> DEFINE H == Binding \cup {"serve"}
  <1>a. pc'[h] \in H
    BY DEF Holders
  <1>b. pc[h] \in H /\ h \notin robbed => lock = h
    BY DEF PidFileNamesHolder, Holders
  <1>c. pc \in [Procs -> Steps]
    BY DEF LockTypeOK
  <1>d. "off" \notin H /\ "try" \notin H
    BY DEF Binding
  <1>1. CASE UNCHANGED lockVars
    BY <1>1, <1>a, <1>b DEF lockVars, files
  <1>2. ASSUME NEW p \in Procs, Spawn(p) PROVE lock' = h
    BY <1>2, <1>a, <1>b, <1>c DEF Spawn, Goto, files, Binding
  <1>3. ASSUME NEW p \in Procs, Try(p) PROVE lock' = h
    <2>1. CASE lock = Absent
      BY <1>3, <2>1, <1>a, <1>b, <1>c, LockAssumption DEF Try, Goto, Binding
    <2>2. CASE lock # Absent
      BY <1>3, <2>2, <1>a, <1>b, <1>c DEF Try, Goto, Binding
    <2> QED BY <2>1, <2>2
  <1>4. ASSUME NEW p \in Procs, Write(p) PROVE lock' = h
    BY <1>4, <1>a, <1>b, <1>c DEF Write, Goto, Binding
  <1>5. ASSUME NEW p \in Procs, Read(p) PROVE lock' = h
    BY <1>5, <1>a, <1>b, <1>c DEF Read, Goto, files, Binding
  <1>6. ASSUME NEW p \in Procs, Test(p) PROVE lock' = h
    <2>1. CASE Gone(p)
      BY <1>6, <2>1, GoneGoes, <1>a, <1>b, <1>d DEF Test, files
    <2>2. CASE ~Gone(p)
      BY <1>6, <2>2, <1>a, <1>b, <1>c DEF Test, Goto, files, Binding
    <2> QED BY <2>1, <2>2
  <1>7. ASSUME NEW p \in Procs, Reread(p) PROVE lock' = h
    <2>1. CASE NextTry(p)
      BY <1>7, <2>1, NextTryGoes, <1>a, <1>b, <1>d DEF Reread, files
    <2>2. CASE ~NextTry(p)
      BY <1>7, <2>2, <1>a, <1>b, <1>c DEF Reread, Goto, files, Binding
    <2> QED BY <2>1, <2>2
  <1>8. ASSUME NEW p \in Procs, Retest(p) PROVE lock' = h
    <2>1. CASE NextTry(p)
      BY <1>8, <2>1, NextTryGoes, <1>a, <1>b, <1>d DEF Retest, files
    <2>2. CASE ~NextTry(p)
      BY <1>8, <2>2, <1>a, <1>b, <1>c DEF Retest, Goto, files, Binding
    <2> QED BY <2>1, <2>2
  <1>9. ASSUME NEW p \in Procs, Unlink(p) PROVE lock' = h
    <2>1. pc[h] \in H /\ h \notin robbed
      BY <1>9, <1>a, <1>c, <1>d DEF Unlink, Goto
    <2>2. h \in Robs
      BY <2>1, <1>b, <1>d, RobsTheOwner
    <2> QED BY <1>9, <2>2 DEF Unlink
  <1>10. ASSUME NEW p \in Procs, NEW x \in Paths, ClearPath(p, x) PROVE lock' = h
    BY <1>10, <1>a, <1>b, <1>c DEF ClearPath, Goto, Binding
  <1>11. ASSUME NEW p \in Procs, NEW x \in Paths, Bind(p, x) PROVE lock' = h
    <2>1. pc[h] \in H
      BY <1>11, <1>a, <1>c DEF Bind, Goto, Binding
    <2> QED BY <1>11, <2>1, <1>b DEF Bind
  <1>12. ASSUME NEW p \in Procs, Rewrite(p) PROVE lock' = h
    <2>1. pc[h] \in H /\ h \notin robbed
      BY <1>12, <1>a, <1>c DEF Rewrite, Goto, Binding
    <2>2. h \in Robs
      BY <2>1, <1>b, <1>d, RobsTheOwner
    <2> QED BY <1>12, <2>2 DEF Rewrite
  <1>13. ASSUME NEW p \in Procs, Register(p) PROVE lock' = h
    BY <1>13, <1>a, <1>b, <1>c DEF Register, Goto, Binding
  <1>14. ASSUME NEW p \in Procs, OwnRead(p) PROVE lock' = h
    BY <1>14, <1>a, <1>b, <1>c DEF OwnRead, Goto, files, locals, Binding
  <1>15. ASSUME NEW p \in Procs, OwnUnlink(p) PROVE lock' = h
    <2>1. pc[h] \in H /\ h \notin robbed /\ h # p
      BY <1>15, <1>a, <1>c DEF OwnUnlink, Goto, Binding
    <2>2. h \in Robs
      BY <2>1, <1>b, <1>d, RobsTheOwner
    <2> QED BY <1>15, <2>1, <2>2 DEF OwnUnlink
  <1>16. ASSUME NEW p \in Procs, FailSock(p) PROVE lock' = h
    BY <1>16, GoneGoes, <1>a, <1>b, <1>d DEF FailSock
  <1>17. ASSUME NEW p \in Procs, Closed(p) PROVE lock' = h
    BY <1>17, <1>a, <1>b, <1>c DEF Closed, Goto, files, Binding
  <1>18. ASSUME NEW p \in Procs, Deregister(p) PROVE lock' = h
    BY <1>18, <1>a, <1>b, <1>c DEF Deregister, Goto, Binding
  <1>19. ASSUME NEW p \in Procs, UnlinkSocket(p) PROVE lock' = h
    BY <1>19, GoneGoes, <1>a, <1>b, <1>d DEF UnlinkSocket
  <1>20. ASSUME NEW p \in Procs, StopDaemon(p) PROVE lock' = h
    BY <1>20, <1>a, <1>b, <1>c DEF StopDaemon, StopServing, Goto, Binding
  <1>21. ASSUME NEW p \in Procs, Kill(p) PROVE lock' = h
    BY <1>21, GoneGoes, <1>a, <1>b, <1>d DEF Kill, files
  <1>22. CASE StopRead
    BY <1>22, <1>a, <1>b DEF StopRead, files
  <1>23. CASE StopTest
    <2>0. target \in Procs
      BY <1>23 DEF StopTest, LockTypeOK
    <2>1. CASE ~Alive(target) \/ pc[target] \in Leaving
      BY <1>23, <2>1, <1>a, <1>b DEF StopTest, files
    <2>2. CASE Alive(target) /\ pc[target] \notin Leaving /\ pc[target] = "serve"
      BY <1>23, <2>0, <2>2, <1>a, <1>b, <1>c DEF StopTest, StopServing, Goto, Binding
    <2>3. CASE Alive(target) /\ pc[target] \notin Leaving /\ pc[target] # "serve"
      BY <1>23, <2>0, <2>3, GoneGoes, <1>a, <1>b, <1>d DEF StopTest, files
    <2> QED BY <2>1, <2>2, <2>3
  <1>24. CASE StopWait
    <2>0. target \in Procs
      BY <1>24 DEF StopWait, LockTypeOK
    <2> QED BY <1>24, <2>0, GoneGoes, <1>a, <1>b, <1>d DEF StopWait, files, locals
  <1>25. CASE StopUnlock
    <2>1. h \in Robs
      BY <1>25, <1>a, <1>b, <1>d, RobsTheOwner DEF StopUnlock
    <2> QED BY <1>25, <2>1 DEF StopUnlock
  <1>26. CASE StopUnsock
    BY <1>26, <1>a, <1>b DEF StopUnsock
  <1>27. CASE StopDereg
    BY <1>27, <1>a, <1>b DEF StopDereg
  <1> QED
    BY <1>1, <1>2, <1>3, <1>4, <1>5, <1>6, <1>7, <1>8, <1>9, <1>10, <1>11, <1>12, <1>13, <1>14,
       <1>15, <1>16, <1>17, <1>18, <1>19, <1>20, <1>21, <1>22, <1>23, <1>24, <1>25, <1>26, <1>27
    DEF LockNext, Candidate, StopCommand

(* The state stays within its types.                                        *)
THEOREM LockTypeCorrect == LockSpec => []LockTypeOK
  <1>1. LockInit => LockTypeOK
    <2>1. 0 \in 0 .. (MaxTries - 1) /\ 0 \in 0 .. MaxKills /\ 0 \in 0 .. MaxStops
      BY LockAssumption
    <2> QED BY <2>1 DEF LockInit, LockTypeOK, Steps
  <1> QED BY <1>1, TypesKept, PTL DEF LockSpec

(* Every holder that nobody robbed is named by the pid file, hence alone.   *)
THEOREM HoldersExcludeAlways == LockSpec => []HoldersExclude
  <1>1. LockInit => PidFileNamesHolder
    BY DEF LockInit, PidFileNamesHolder, Holders, Binding
  <1>2. PidFileNamesHolder => HoldersExclude
    BY DEF PidFileNamesHolder, HoldersExclude
  <1> QED BY <1>1, <1>2, PidFileKept, LockTypeCorrect, PTL DEF LockSpec

-----------------------------------------------------------------------------
(* A step that leaves the files, the daemon and the stopper alone and takes *)
(* its process to another harmless place keeps the daemon secure.           *)
LEMMA HarmlessStep ==
  ASSUME NEW p \in Procs, NEW q \in Procs \ {p}, Secure(p),
         UNCHANGED files, UNCHANGED stopper, bound'[p] = bound[p],
         \A r \in Procs \ {q} : pc'[r] = pc[r] /\ (seen'[r] = seen[r] \/ pc[r] # "retest"),
         Harmless(q, p)'
  PROVE  Secure(p)'
  BY DEF Secure, Harmless, files, stopper

LEMMA SettledKeeps ==
  ASSUME LockTypeOK, LockNext, NEW p \in Procs, Secure(p), pc'[p] = "serve"
  PROVE  Secure(p)'
  <1>a. /\ pc[p] = "serve" /\ lock = p /\ Decoded = p /\ Alive(p)
        /\ \A q \in Procs \ {p} : pc[q] \in {"off", "try", "read", "test", "reread", "retest"}
        /\ \A q \in Procs \ {p} : pc[q] = "retest" => seen[q] = p
    BY DEF Secure, Harmless, Decoded, Alive
  <1>b. /\ pc \in [Procs -> Steps] /\ seen \in [Procs -> Procs \cup {Absent, Garbage}]
        /\ bound \in [Procs -> Paths \cup {0}]
    BY DEF LockTypeOK
  <1>c. p # Absent /\ p # Garbage
    BY LockAssumption
  <1> USE DEF Same
  <1>1. ASSUME NEW q \in Procs, Spawn(q) PROVE Secure(p)'
    <2>1. q # p /\ Harmless(q, p)'
      BY <1>1, <1>a, <1>b DEF Spawn, Goto, Harmless
    <2> QED BY <1>1, <1>b, <2>1, HarmlessStep DEF Spawn, Goto, locals
  <1>2. ASSUME NEW q \in Procs, Try(q) PROVE Secure(p)'
    <2>1. q # p /\ lock # Absent
      BY <1>2, <1>a, <1>c DEF Try
    <2>2. Harmless(q, p)' /\ UNCHANGED <<files, locals, stopper>>
      BY <1>2, <2>1, <1>b DEF Try, Goto, Harmless, files, locals
    <2> QED BY <1>2, <1>b, <2>1, <2>2, HarmlessStep DEF Try, Goto, locals
  <1>3. ASSUME NEW q \in Procs, Read(q) PROVE Secure(p)'
    <2>1. q # p /\ Harmless(q, p)'
      BY <1>3, <1>a, <1>b DEF Read, Goto, Harmless
    <2> QED BY <1>3, <1>b, <2>1, HarmlessStep DEF Read, Goto
  <1>4. ASSUME NEW q \in Procs, Gone(q), UNCHANGED <<files, stopper>> PROVE Secure(p)'
    <2>1. q # p /\ Harmless(q, p)'
      BY <1>4, <1>a, <1>b DEF Gone, Goto, Harmless
    <2> QED BY <1>4, <1>b, <2>1, HarmlessStep DEF Gone, Goto
  <1>5. ASSUME NEW q \in Procs, NextTry(q), UNCHANGED <<files, stopper>>, q # p PROVE Secure(p)'
    <2>1. CASE tries[q] + 1 = MaxTries
      BY <1>4, <1>5, <2>1 DEF NextTry
    <2>2. CASE tries[q] + 1 # MaxTries
      <3>1. Harmless(q, p)'
        BY <1>5, <2>2, <1>b DEF NextTry, Goto, Harmless
      <3> QED BY <1>5, <1>b, <2>2, <3>1, HarmlessStep DEF NextTry, Goto
    <2> QED BY <2>1, <2>2
  <1>6. ASSUME NEW q \in Procs, Test(q) PROVE Secure(p)'
    <2>1. q # p
      BY <1>6, <1>a DEF Test
    <2>2. CASE Gone(q)
      BY <1>4, <1>6, <2>2 DEF Test
    <2>3. CASE ~Gone(q)
      <3>1. Harmless(q, p)' /\ pc' = [pc EXCEPT ![q] = "reread"] /\ UNCHANGED locals
        BY <1>6, <2>3, <1>b DEF Test, Goto, Harmless
      <3> QED BY <1>6, <1>b, <2>1, <3>1, HarmlessStep DEF Test, locals
    <2> QED BY <2>2, <2>3
  <1>7. ASSUME NEW q \in Procs, Reread(q) PROVE Secure(p)'
    <2>1. q # p
      BY <1>7, <1>a DEF Reread
    <2>2. CASE NextTry(q)
      BY <1>5, <1>7, <2>1, <2>2 DEF Reread
    <2>3. CASE ~NextTry(q)
      <3>1. pc' = [pc EXCEPT ![q] = "retest"] /\ seen' = [seen EXCEPT ![q] = p] /\ bound' = bound
        BY <1>7, <2>3, <1>a DEF Reread, Goto
      <3>2. Harmless(q, p)'
        BY <3>1, <1>b DEF Harmless
      <3> QED BY <1>7, <1>b, <2>1, <3>1, <3>2, HarmlessStep DEF Reread
    <2> QED BY <2>2, <2>3
  <1>8. ASSUME NEW q \in Procs, Retest(q) PROVE Secure(p)'
    <2>1. q # p /\ seen[q] = p
      BY <1>8, <1>a DEF Retest
    <2> QED BY <1>5, <1>8, <1>a, <2>1 DEF Retest
  <1>9. ASSUME NEW q \in Procs, Kill(q) PROVE Secure(p)'
    BY <1>4, <1>9 DEF Kill
  <1>10. ASSUME NEW q \in Procs, StopDaemon(q) PROVE FALSE
    BY <1>10, <1>a, <1>b DEF StopDaemon, StopServing, Goto
  <1>11. ASSUME NEW q \in Procs PROVE ~Write(q) /\ ~Unlink(q) /\ ~Rewrite(q) /\ ~Register(q)
    BY <1>a DEF Write, Unlink, Rewrite, Register
  <1>12. ASSUME NEW q \in Procs, NEW x \in Paths PROVE ~ClearPath(q, x) /\ ~Bind(q, x)
    BY <1>a DEF ClearPath, Bind
  <1>13. ASSUME NEW q \in Procs PROVE ~OwnRead(q) /\ ~OwnUnlink(q) /\ ~FailSock(q)
    BY <1>a DEF OwnRead, OwnUnlink, FailSock
  <1>14. ASSUME NEW q \in Procs PROVE ~Closed(q) /\ ~Deregister(q) /\ ~UnlinkSocket(q)
    BY <1>a DEF Closed, Deregister, UnlinkSocket
  <1>15. CASE StopRead
    BY <1>15, <1>a, <1>c DEF StopRead, Secure, Harmless, files, locals
  <1>16. CASE StopTest
    <2>1. spc = "test" /\ target = p
      BY <1>16 DEF StopTest, Secure
    <2> QED BY <1>16, <2>1, <1>a, <1>b DEF StopTest, StopServing, Goto, Leaving
  <1>17. ~StopWait /\ ~StopUnlock /\ ~StopUnsock /\ ~StopDereg
    BY DEF Secure, StopWait, StopUnlock, StopUnsock, StopDereg
  <1> QED
    BY <1>1, <1>2, <1>3, <1>6, <1>7, <1>8, <1>9, <1>10, <1>11, <1>12, <1>13, <1>14, <1>15, <1>16, <1>17
    DEF LockNext, Candidate, StopCommand

(* A daemon that settled keeps its pid file, socket and record until it      *)
(* stops or dies, with any number of candidates around.                     *)
THEOREM SettledDaemonKeepsAllAlways == LockSpec => SettledDaemonKeepsAll
  <1>1. LockTypeOK /\ [LockNext]_lockVars => [\A p \in Procs : Secure(p) => Secure(p)' \/ pc'[p] # "serve"]_lockVars
    BY SettledKeeps
  <1> QED BY <1>1, LockTypeCorrect, PTL DEF LockSpec, SettledDaemonKeepsAll

-----------------------------------------------------------------------------
(* The life of the daemon                                                  *)
(*                                                                         *)
(* Until the server has closed, the default instance is the engine's own and *)
(* open, and so is the one that serves a call; then no socket is left.      *)
LifeInv ==
  /\ phase # "exited" =>
       /\ ~closed /\ cg = default /\ (default # 0 => default \in open)
       /\ \A s \in Sessions : ses[s] = "running" /\ at[s] # 0 => at[s] \in open
  /\ phase = "exited" => \A c \in Sessions : ~Live(c)

(* Whoever finds no gate comes after somebody who waited at it.             *)
GateInv ==
  ~doubled =>
    /\ default # 0 => gate = default \/ default \in passed
    /\ \A s \in Sessions : ses[s] = "gated" => default # 0 /\ default \in passed

DaemonInv == TypeOK /\ LifeInv /\ IdleTimerRuns /\ GateInv /\ CallsPassTheGate

-----------------------------------------------------------------------------
(* What the engine does for the sessions, with or without their sockets      *)
EngineStep ==
  \/ OpenDone \/ OpenFails \/ \E i \in Instances : SyncEnds(i)
  \/ \E s \in Sessions : \/ Initialize(s) \/ AskEarly(s) \/ Ask(s)
                         \/ GateOpens(s) \/ GateTimesOut(s) \/ Answer(s)

(* What it does while its own part rests or its engine stops                *)
DaemonStep ==
  \/ \E c \in Sessions : \/ Connect(c) \/ Attach(c, TRUE) \/ Attach(c, FALSE) \/ AttachClosed(c)
                         \/ SocketClose(c) \/ PeerDies(c) \/ Reap(c)
  \/ IdleTimerFires \/ Backstop \/ Signal

LEMMA StepKinds ==
  Next => /\ phase # "exited"
          /\ \/ EngineStep /\ UNCHANGED <<phase, conn, peer, known, clients, idleTimer>>
                           /\ fresh' \in {fresh, TRUE}
             \/ DaemonStep /\ UNCHANGED engine
             \/ Exit
  BY DEF Next, EngineStep, DaemonStep, Lifecycle, Open, Sync, Hear, GoOn, Proceed, Connect, Attach,
         AttachClosed, SocketClose, PeerDies, Reap, IdleTimerFires, Backstop, Signal

LEMMA EngineRanges ==
  /\ 0 \in 0..MaxOpens /\ 0 \in 0..MaxFails
  /\ \A g \in 0..MaxOpens : g # 0 => g \in Instances
  /\ \A n \in 0..MaxFails : n < MaxFails => n + 1 \in 0..MaxFails
  BY EngineAssumption DEF Instances

LEMMA ExecuteTypes ==
  ASSUME EngineTypeOK, NEW s \in Sessions, NEW g \in 0..MaxOpens, Execute(s, g)
  PROVE  /\ gate' = 0 /\ ses' \in [Sessions -> Doing] /\ at' \in [Sessions -> 0..MaxOpens]
         /\ passed' \subseteq Instances
<1>1. CASE g # 0
  BY <1>1, EngineRanges DEF Execute, EngineTypeOK, Doing
<1>2. CASE g = 0
  BY <1>2 DEF Execute, EngineTypeOK, Doing
<1> QED
  BY <1>1, <1>2

LEMMA AdoptTypes ==
  ASSUME EngineTypeOK, Adopt(opened + 1)
  PROVE  /\ opened' = opened + 1 /\ opened' \in Instances /\ opened' # 0 /\ opened' \in 0..MaxOpens
         /\ cg' = opened' /\ default' = opened' /\ open' = open \cup {opened'}
         /\ watched' \in 0..MaxOpens /\ doubled' = (doubled \/ open # {}) /\ doubled' \in BOOLEAN
  BY EngineAssumption DEF Adopt, EngineTypeOK, Instances

LEMMA EngineTypes == EngineTypeOK /\ EngineStep => EngineTypeOK'
<1> SUFFICES ASSUME EngineTypeOK, EngineStep PROVE EngineTypeOK'
  OBVIOUS
<1>0. Released \in [Sessions -> Doing]
  BY DEF Released, EngineTypeOK, Doing
<1>1. CASE OpenDone
  BY <1>0, <1>1, AdoptTypes DEF OpenDone, EngineTypeOK, Instances
<1>2. CASE OpenFails
  BY <1>0, <1>2, EngineRanges DEF OpenFails, EngineTypeOK
<1>3. ASSUME NEW i \in Instances, SyncEnds(i) PROVE EngineTypeOK'
  BY <1>3 DEF SyncEnds, EngineTypeOK
<1>4. ASSUME NEW s \in Sessions, Initialize(s) \/ AskEarly(s) PROVE EngineTypeOK'
  BY <1>4 DEF Initialize, AskEarly, EngineTypeOK, Doing
<1>5. ASSUME NEW s \in Sessions, Ask(s) PROVE EngineTypeOK'
  <2>1. CASE Execute(s, gate) /\ UNCHANGED <<cg, default, opened, open, watched, doubled, fails>>
    BY <1>5, <2>1, ExecuteTypes, EngineRanges DEF Ask, EngineTypeOK
  <2>2. CASE Adopt(opened + 1) /\ Execute(s, opened') /\ UNCHANGED fails
    BY <1>5, <2>2, ExecuteTypes, AdoptTypes DEF Ask, EngineTypeOK
  <2>3. CASE /\ fails < MaxFails /\ fails' = fails + 1 /\ Execute(s, gate)
             /\ UNCHANGED <<cg, default, opened, open, watched, doubled>>
    BY <1>5, <2>3, ExecuteTypes, EngineRanges DEF Ask, EngineTypeOK
  <2> QED
    BY <1>5, <2>1, <2>2, <2>3 DEF Ask
<1>6. ASSUME NEW s \in Sessions, GateOpens(s) \/ GateTimesOut(s) \/ Answer(s) PROVE EngineTypeOK'
  BY <1>6, EngineRanges DEF GateOpens, GateTimesOut, Answer, EngineTypeOK, Doing
<1> QED
  BY <1>1, <1>2, <1>3, <1>4, <1>5, <1>6 DEF EngineStep

LEMMA DaemonTypes == TypeOK /\ [Next]_vars => TypeOK'
<1> SUFFICES ASSUME TypeOK, [Next]_vars PROVE TypeOK'
  OBVIOUS
<1>1. CASE EngineStep /\ UNCHANGED <<phase, conn, peer, known, clients, idleTimer>>
           /\ fresh' \in {fresh, TRUE}
  BY <1>1, EngineTypes DEF TypeOK
<1>2. CASE DaemonStep /\ UNCHANGED engine
  <2> USE DEF TypeOK, Set
  <2>0. EngineTypeOK'
    BY <1>2 DEF engine, EngineTypeOK
  <2>1. ASSUME NEW c \in Sessions, Connect(c) \/ PeerDies(c) PROVE TypeOK'
    BY <2>0, <2>1 DEF Connect, PeerDies
  <2>2. ASSUME NEW c \in Sessions, NEW told \in BOOLEAN, Attach(c, told) PROVE TypeOK'
    BY <2>0, <2>2 DEF Attach
  <2>3. ASSUME NEW c \in Sessions, AttachClosed(c) PROVE TypeOK'
    BY <2>0, <2>3 DEF AttachClosed
  <2>4. ASSUME NEW c \in Sessions, SocketClose(c) \/ Reap(c) PROVE TypeOK'
    BY <2>0, <2>4 DEF SocketClose, Reap, Drop
  <2>5. CASE IdleTimerFires \/ Backstop \/ Signal
    BY <2>0, <2>5 DEF IdleTimerFires, Backstop, Signal, Stop
  <2> QED
    BY <1>2, <2>1, <2>2, <2>3, <2>4, <2>5 DEF DaemonStep
<1>3. CASE Exit
  BY <1>3, EngineRanges DEF Exit, EngineStop, TypeOK, EngineTypeOK
<1>4. CASE UNCHANGED vars
  BY <1>4 DEF vars, engine, TypeOK, EngineTypeOK
<1> QED
  BY <1>1, <1>2, <1>3, <1>4, StepKinds

-----------------------------------------------------------------------------
(* How far an engine step may change what its calls rely on                 *)
LEMMA EngineKeepsLife ==
  ASSUME TypeOK, LifeInv, phase # "exited", EngineStep, UNCHANGED <<phase, conn>>
  PROVE  LifeInv'
<1> USE EngineAssumption DEF LifeInv, Live, TypeOK
<1>1. CASE OpenDone
  BY <1>1, AdoptTypes DEF OpenDone, Released, EngineTypeOK
<1>2. CASE OpenFails
  BY <1>2 DEF OpenFails, Released, EngineTypeOK
<1>3. ASSUME NEW i \in Instances, SyncEnds(i) PROVE LifeInv'
  BY <1>3 DEF SyncEnds
<1>4. ASSUME NEW s \in Sessions, Initialize(s) \/ AskEarly(s) PROVE LifeInv'
  BY <1>4 DEF Initialize, AskEarly, EngineTypeOK
<1>5. ASSUME NEW s \in Sessions, Ask(s) PROVE LifeInv'
  <2>1. CASE Execute(s, gate) /\ UNCHANGED <<cg, default, opened, open>>
    BY <1>5, <2>1 DEF Ask, Execute, EngineTypeOK
  <2>2. CASE Adopt(opened + 1) /\ Execute(s, opened')
    BY <1>5, <2>2, AdoptTypes DEF Ask, Execute, EngineTypeOK
  <2> QED
    BY <1>5, <2>1, <2>2 DEF Ask
<1>6. ASSUME NEW s \in Sessions, GateOpens(s) \/ GateTimesOut(s) \/ Answer(s) PROVE LifeInv'
  BY <1>6 DEF GateOpens, GateTimesOut, Answer, EngineTypeOK
<1> QED
  BY <1>1, <1>2, <1>3, <1>4, <1>5, <1>6 DEF EngineStep

LEMMA EngineKeepsGate ==
  ASSUME TypeOK, LifeInv, phase # "exited", GateInv, CallsPassTheGate, EngineStep
  PROVE  GateInv' /\ CallsPassTheGate'
<1> USE EngineAssumption DEF GateInv, CallsPassTheGate, TypeOK
<1>0. default # 0 => open # {}
  BY DEF LifeInv
<1>1. CASE OpenDone
  BY <1>0, <1>1, AdoptTypes DEF OpenDone, Released, EngineTypeOK
<1>2. CASE OpenFails
  BY <1>2 DEF OpenFails, Released, EngineTypeOK
<1>3. ASSUME NEW i \in Instances, SyncEnds(i) PROVE GateInv' /\ CallsPassTheGate'
  BY <1>3 DEF SyncEnds
<1>4. ASSUME NEW s \in Sessions, Initialize(s) \/ AskEarly(s) PROVE GateInv' /\ CallsPassTheGate'
  BY <1>4 DEF Initialize, AskEarly, EngineTypeOK
<1>5. ASSUME NEW s \in Sessions, Ask(s) PROVE GateInv' /\ CallsPassTheGate'
  <2>1. CASE Execute(s, gate) /\ UNCHANGED <<default, doubled>>
    BY <1>5, <2>1 DEF Ask, Execute, EngineTypeOK
  <2>2. CASE Adopt(opened + 1) /\ Execute(s, opened')
    BY <1>0, <1>5, <2>2, AdoptTypes DEF Ask, Execute, EngineTypeOK
  <2> QED
    BY <1>5, <2>1, <2>2 DEF Ask
<1>6. ASSUME NEW s \in Sessions, GateOpens(s) \/ GateTimesOut(s) \/ Answer(s)
      PROVE  GateInv' /\ CallsPassTheGate'
  BY <1>6 DEF GateOpens, GateTimesOut, Answer, EngineTypeOK
<1> QED
  BY <1>1, <1>2, <1>3, <1>4, <1>5, <1>6 DEF EngineStep

(* However a client goes, the last one to go arms the idle timer.           *)
LEMMA IdleTimerStep ==
  ASSUME TypeOK, IdleTimerRuns, DaemonStep
  PROVE  IdleTimerRuns'
<1> USE DEF IdleTimerRuns
<1>1. ASSUME NEW c \in Sessions, Connect(c) \/ PeerDies(c) PROVE IdleTimerRuns'
  BY <1>1 DEF Connect, PeerDies
<1>2. ASSUME NEW c \in Sessions, NEW told \in BOOLEAN, Attach(c, told) PROVE IdleTimerRuns'
  BY <1>2 DEF Attach
<1>3. ASSUME NEW c \in Sessions, AttachClosed(c) PROVE IdleTimerRuns'
  BY <1>3 DEF AttachClosed
<1>4. ASSUME NEW c \in Sessions, SocketClose(c) \/ Reap(c) PROVE IdleTimerRuns'
  BY <1>4 DEF SocketClose, Reap, Drop
<1>5. CASE IdleTimerFires \/ Backstop \/ Signal
  BY <1>5 DEF IdleTimerFires, Backstop, Signal, Stop
<1> QED
  BY <1>1, <1>2, <1>3, <1>4, <1>5 DEF DaemonStep

LEMMA DaemonInvStep == DaemonInv /\ [Next]_vars => DaemonInv'
<1> SUFFICES ASSUME DaemonInv, [Next]_vars PROVE DaemonInv'
  OBVIOUS
<1> USE DEF DaemonInv
<1>0. TypeOK'
  BY DaemonTypes
<1>1. CASE phase # "exited" /\ EngineStep /\ UNCHANGED <<phase, conn, clients, idleTimer>>
  <2>1. IdleTimerRuns'
    BY <1>1 DEF IdleTimerRuns
  <2> QED
    BY <1>0, <1>1, <2>1, EngineKeepsLife, EngineKeepsGate
<1>2. CASE phase # "exited" /\ DaemonStep /\ UNCHANGED engine
  <2>1. phase' # "exited"
    BY <1>2 DEF DaemonStep, Connect, Attach, AttachClosed, SocketClose, PeerDies, Reap,
                IdleTimerFires, Backstop, Signal, Stop
  <2>2. LifeInv'
    BY <1>2, <2>1 DEF LifeInv, engine
  <2>3. GateInv' /\ CallsPassTheGate'
    BY <1>2 DEF GateInv, CallsPassTheGate, engine
  <2> QED
    BY <1>0, <1>2, <2>2, <2>3, IdleTimerStep
<1>3. CASE Exit
  <2>1. LifeInv' /\ IdleTimerRuns'
    BY <1>3 DEF Exit, LifeInv, IdleTimerRuns, Live
  <2>2. GateInv' /\ CallsPassTheGate'
    BY <1>3 DEF Exit, EngineStop, GateInv, CallsPassTheGate
  <2> QED
    BY <1>0, <2>1, <2>2
<1>4. CASE UNCHANGED vars
  BY <1>0, <1>4 DEF vars, engine, LifeInv, Live, IdleTimerRuns, GateInv, CallsPassTheGate
<1> QED
  BY <1>1, <1>2, <1>3, <1>4, StepKinds

LEMMA InitDaemon == Init => DaemonInv
<1> USE EngineRanges DEF Init, EngineInit
<1>1. Init => TypeOK
  BY DEF TypeOK, EngineTypeOK, Doing
<1>2. Init => LifeInv /\ IdleTimerRuns /\ GateInv /\ CallsPassTheGate
  BY DEF LifeInv, IdleTimerRuns, GateInv, CallsPassTheGate
<1> QED
  BY <1>1, <1>2 DEF DaemonInv

(* A session whose socket is open is served from an open index, also while   *)
(* the daemon stops, and a daemon that counts no client has its idle timer  *)
(* running: for any clients, however they come and go, and any opens.       *)
THEOREM ClientsStayServed == Spec => []ClientsAreServed
<1>1. DaemonInv => ClientsAreServed
  BY DEF DaemonInv, ClientsAreServed, NoCallOnClosedIndex, LifeInv, Live
<1> QED
  BY <1>1, InitDaemon, DaemonInvStep, PTL DEF Spec

(* Nobody slips past the catch-up of an open: a call served from an index    *)
(* comes after its catch-up sync or after a call that waited for it, for    *)
(* any sessions and failures, while no second open was made beside the first *)
(* (engine.ts:155, 202).                                                    *)
THEOREM GateIsPassed == Spec => []CallsPassTheGate
<1>1. DaemonInv => CallsPassTheGate
  BY DEF DaemonInv
<1> QED
  BY <1>1, InitDaemon, DaemonInvStep, PTL DEF Spec

-----------------------------------------------------------------------------
(* The query pool                                                          *)

(* What the pool's books and the threads' ports say of one another.         *)
Sound(ws, is, jb, th, po, ma, la) ==
  \A w \in Threads :
    /\ w \in is => /\ jb[w] = NoJob /\ po[w] = NoJob /\ ma[w] = "none"
                   /\ th[w] # "starting" /\ w \in ws \cup la
    /\ ma[w] \in {"ready", "unopened"} => jb[w] = NoJob /\ po[w] = NoJob
    /\ ma[w] \in Jobs => jb[w] \in {NoJob, ma[w]} /\ po[w] = NoJob
    /\ po[w] # NoJob => th[w] = "serving" /\ jb[w] = po[w]
    /\ th[w] = "starting" => jb[w] = NoJob /\ ma[w] = "none"
    /\ jb[w] # NoJob => w \in ws \cup la
    /\ w \in ws => /\ th[w] # "none"
                   /\ w \in is \/ th[w] \in {"starting", "dying"} \/ po[w] # NoJob \/ ma[w] # "none"
ThreadInv == Sound(workers, idlers, job, thread, posted, mail, late)

(* A call is in one place at most, one that waits in one at least.          *)
Placed(q, jb, out) ==
  /\ \A i, k \in DOMAIN q : q[i] = q[k] => i = k
  /\ \A w, v \in Threads : jb[w] # NoJob /\ jb[w] = jb[v] => w = v
  /\ \A i \in DOMAIN q, w \in Threads : q[i] # jb[w]
  /\ \A j \in Jobs : out[j] = "waiting" => \/ \E i \in DOMAIN q : q[i] = j
                                           \/ \E w \in Threads : jb[w] = j
  /\ \A j \in Jobs : out[j] = "new" => /\ \A i \in DOMAIN q : q[i] # j
                                       /\ \A w \in Threads : jb[w] # j
PlaceInv == Placed(queue, job, outcome)

-----------------------------------------------------------------------------
(* A finite set of numbers that is not empty has a least element.           *)
LEMMA LeastElement ==
  ASSUME NEW S, S \subseteq Nat, IsFiniteSet(S), S # {}
  PROVE  \E m \in S : \A y \in S : m <= y
<1> DEFINE HasMin(A) == \E x \in A : \A y \in A : x <= y
           R   == StrictSubsetOrdering(S)
           Bad == {A \in SUBSET S : A # {} /\ ~HasMin(A)}
<1>1. SUFFICES ASSUME Bad # {} PROVE FALSE
  OBVIOUS
<1>2. Bad \subseteq FiniteSubsetsOf(S)
  BY FS_Subset DEF FiniteSubsetsOf
<1>3. IsWellFoundedOn(R, FiniteSubsetsOf(S))
  BY FS_StrictSubsetOrderingWellFounded
<1>4. PICK A \in Bad : \A B \in Bad : <<B, A>> \notin R
  <2> HIDE DEF Bad, R
  <2> QED
    BY <1>1, <1>2, <1>3, WFMin
<1>5. PICK a \in A : TRUE
  BY <1>4
<1>6. A \ {a} \notin Bad
  BY <1>4, <1>5 DEF StrictSubsetOrdering
<1>7. A \ {a} = {} => HasMin(A)
  BY <1>4, <1>5
<1>8. ASSUME NEW m \in A \ {a}, \A y \in A \ {a} : m <= y PROVE HasMin(A)
  BY <1>4, <1>5, <1>8
<1> QED
  BY <1>4, <1>6, <1>7, <1>8

LEMMA GreatestElement ==
  ASSUME NEW S, S \subseteq Nat, NEW n \in Nat, \A x \in S : x <= n, S # {}
  PROVE  Max(S) \in S /\ \A y \in S : Max(S) >= y
<1> DEFINE D == {n - x : x \in S}
<1>0. \A x \in S : n - x \in Nat /\ n - x <= n
  OBVIOUS
<1>1. D \subseteq Nat /\ D # {} /\ \A y \in D : y <= n
  <2>1. ASSUME NEW y \in D PROVE y \in Nat /\ y <= n
    <3>1. PICK x \in S : y = n - x
      OBVIOUS
    <3> QED
      BY <1>0, <3>1
  <2>2. PICK x : x \in S
    OBVIOUS
  <2>3. n - x \in D
    BY <2>2
  <2> QED
    BY <2>1, <2>3
<1>2. IsFiniteSet(D)
  <2> HIDE DEF D
  <2> QED
    BY <1>1, FS_BoundedSetOfNaturals
<1>3. PICK d \in D : \A y \in D : d <= y
  <2> HIDE DEF D
  <2> QED
    BY <1>1, <1>2, LeastElement
<1>4. PICK m \in S : d = n - m
  BY <1>3
<1>5. \A y \in S : m >= y
  BY <1>3, <1>4
<1> QED
  BY <1>5 DEF Max

(* The first n unanswered places of a queue                                *)
LEMMA ServedPlaces ==
  ASSUME NEW q \in Seq(Jobs), NEW out, NEW n \in Nat
  PROVE  LET live == Unanswered(q, out)  served == Served(q, out, n) IN
         /\ live \subseteq 1..Len(q) /\ live \subseteq Nat
         /\ IsFiniteSet(live) /\ served \subseteq live /\ IsFiniteSet(served)
         /\ \A i \in served, k \in live : k <= i => k \in served
         /\ n > Cardinality(live) => served = live
         /\ live # served => n <= Cardinality(served)
<1> DEFINE live      == Unanswered(q, out)
           served    == Served(q, out, n)
           upTo(i)   == {k \in live : k <= i}
<1>1. live \subseteq 1..Len(q) /\ live \subseteq Nat
  BY DEF Unanswered
<1>2. IsFiniteSet(live)
  <2>1. Len(q) \in Int
    OBVIOUS
  <2>2. IsFiniteSet(1..Len(q))
    BY <2>1, FS_Interval
  <2> HIDE DEF live
  <2> QED
    BY <1>1, <2>2, FS_Subset
<1>3. served = {i \in live : Cardinality(upTo(i)) <= n}
  BY DEF Served
<1> HIDE DEF live, served
<1>4. served \subseteq live /\ IsFiniteSet(served)
  BY <1>2, <1>3, FS_Subset
<1>5. \A i \in live : /\ IsFiniteSet(upTo(i)) /\ Cardinality(upTo(i)) \in Nat
                       /\ Cardinality(upTo(i)) <= Cardinality(live)
  BY <1>2, FS_Subset, FS_CardinalityType
<1>6. ASSUME NEW i \in served, NEW k \in live, k <= i PROVE k \in served
  <2>1. upTo(k) \subseteq upTo(i)
    <3> SUFFICES ASSUME NEW x \in live, x <= k PROVE x <= i
      OBVIOUS
    <3>1. x \in Nat /\ k \in Nat /\ i \in Nat
      BY <1>1, <1>4
    <3> QED
      BY <1>6, <3>1
  <2>2. Cardinality(upTo(k)) <= Cardinality(upTo(i))
    BY <2>1, <1>4, <1>5, FS_Subset
  <2>3. Cardinality(upTo(k)) \in Nat /\ Cardinality(upTo(i)) \in Nat /\ Cardinality(upTo(i)) <= n
    BY <1>3, <1>4, <1>5
  <2>4. Cardinality(upTo(k)) <= n
    BY <2>2, <2>3
  <2> QED
    BY <1>3, <2>4
<1>7. ASSUME n > Cardinality(live) PROVE served = live
  <2>1. \A i \in live : Cardinality(upTo(i)) <= n
    <3> HIDE DEF upTo
    <3> QED
      BY <1>2, <1>5, <1>7, FS_CardinalityType
  <2> QED
    BY <1>3, <2>1
<1>8. ASSUME live # served PROVE n <= Cardinality(served)
  <2>1. PICK i \in live \ served : \A k \in live \ served : i <= k
    <3>1. live \ served # {} /\ live \ served \subseteq Nat /\ IsFiniteSet(live \ served)
      BY <1>1, <1>2, <1>4, <1>8, FS_Subset
    <3> QED
      BY <3>1, LeastElement
  <2> DEFINE before == upTo(i) \ {i}
  <2>2. before \subseteq served
    <3> SUFFICES ASSUME NEW x \in live, x <= i, x # i PROVE x \in served
      OBVIOUS
    <3>1. x \in Nat /\ i \in Nat
      BY <1>1, <2>1
    <3> QED
      BY <2>1, <3>1
  <2>3. IsFiniteSet(before) /\ Cardinality(before) = Cardinality(upTo(i)) - 1
    <3>1. i \in upTo(i)
      BY <1>1, <2>1
    <3> HIDE DEF upTo
    <3> QED
      BY <1>5, <2>1, <3>1, FS_RemoveElement
  <2>4. Cardinality(before) <= Cardinality(served) /\ Cardinality(served) \in Nat
    <3> HIDE DEF before
    <3> QED
      BY <1>4, <2>2, FS_Subset, FS_CardinalityType
  <2>5. Cardinality(upTo(i)) > n
    <3>1. ~(Cardinality(upTo(i)) <= n)
      BY <1>3, <2>1
    <3> HIDE DEF upTo
    <3> QED
      BY <1>5, <2>1, <3>1
  <2>6. Cardinality(upTo(i)) \in Nat
    BY <1>5, <2>1
  <2> HIDE DEF upTo, before
  <2> QED
    BY <2>3, <2>4, <2>5, <2>6
<1> QED
  BY <1>1, <1>2, <1>4, <1>6, <1>7, <1>8 DEF live, served

(* What is left of a queue whose first k places were handled: those of them  *)
(* without an answer went to one chosen worker each.                        *)
HandsOut(is, q, out, rest, chosen, place, k) ==
  LET live == Unanswered(q, out) IN
  /\ chosen \subseteq is /\ place \in [chosen -> live] /\ k \in 0..Len(q)
  /\ \A w, v \in chosen : place[w] = place[v] => w = v
  /\ \A w \in chosen : place[w] <= k
  /\ \A i \in live : i <= k => \E w \in chosen : place[w] = i
  /\ rest \in Seq(Jobs) /\ Len(rest) = Len(q) - k
  /\ \A i \in 1..(Len(q) - k) : rest[i] = q[i + k]
  /\ (\E i \in live : i > k) => chosen = is /\ Cardinality(is) < Len(q)

LEMMA HandedOut ==
  ASSUME NEW q \in Seq(Jobs), NEW out, NEW is, IsFiniteSet(is),
         NEW chosen \in kSubset(Cardinality(Served(q, out, Cardinality(is))), is),
         NEW place \in Bijection(chosen, Served(q, out, Cardinality(is)))
  PROVE  \E k : HandsOut(is, q, out, RestOf(q, out, Cardinality(is)), chosen, place, k)
<1> DEFINE n      == Cardinality(is)
           live   == Unanswered(q, out)
           served == Served(q, out, n)
           rest   == RestOf(q, out, n)
           last   == Max(served \cup {0})
           k      == IF n > Cardinality(live) THEN Len(q) ELSE last
<1>1. n \in Nat /\ Len(q) \in Nat
  BY FS_CardinalityType
<1>2. /\ chosen \subseteq is /\ Cardinality(chosen) = Cardinality(served)
      /\ place \in [chosen -> served] /\ \A w, v \in chosen : place[w] = place[v] => w = v
      /\ \A i \in served : \E w \in chosen : place[w] = i
  BY DEF kSubset, Bijection, Injection, Surjection, IsInjective
<1> HIDE DEF n
<1>3. /\ live \subseteq 1..Len(q) /\ live \subseteq Nat /\ IsFiniteSet(live)
      /\ served \subseteq live /\ IsFiniteSet(served)
      /\ \A i \in served, m \in live : m <= i => m \in served
      /\ n > Cardinality(live) => served = live
      /\ live # served => n <= Cardinality(served)
  BY <1>1, ServedPlaces
<1>4. \A i \in served : i <= Len(q)
  BY <1>3
<1>5. last \in served \cup {0} /\ (\A i \in served : i <= last) /\ last \in 0..Len(q)
  <2> HIDE DEF served, live
  <2>1. served \cup {0} \subseteq Nat /\ \A i \in served \cup {0} : i <= Len(q)
    BY <1>1, <1>3, <1>4
  <2>2. last \in served \cup {0} /\ \A i \in served \cup {0} : last >= i
    BY <1>1, <2>1, GreatestElement
  <2> HIDE DEF last
  <2> QED
    BY <1>1, <2>1, <2>2
<1>6. rest = IF n > Cardinality(live) THEN <<>> ELSE SubSeq(q, last + 1, Len(q))
  BY DEF RestOf
<1> HIDE DEF served, live, rest, last
<1>7. k \in 0..Len(q) /\ k \in Nat
  BY <1>1, <1>5
<1>10. \A w \in chosen : place[w] <= k
  <2>1. \A i \in served : i <= k
    BY <1>4, <1>5
  <2> HIDE DEF k
  <2> QED
    BY <1>2, <2>1
<1>11. \A i \in live : i <= k => i \in served
  <2>1. CASE n > Cardinality(live)
    BY <1>3, <2>1
  <2>2. CASE ~(n > Cardinality(live))
    <3>1. k = last
      BY <2>2
    <3>2. ASSUME NEW i \in live, i <= last PROVE i \in served
      <4>1. i \in 1..Len(q)
        BY <1>3
      <4>2. last \in served
        BY <1>5, <3>2, <4>1
      <4> QED
        BY <1>3, <3>2, <4>2
    <3> QED
      BY <3>1, <3>2
  <2> QED
    BY <2>1, <2>2
<1>12. \A i \in live : i <= k => \E w \in chosen : place[w] = i
  BY <1>2, <1>11
<1>13. /\ rest \in Seq(Jobs) /\ Len(rest) = Len(q) - k
       /\ \A i \in 1..(Len(q) - k) : rest[i] = q[i + k]
  <2>1. CASE n > Cardinality(live)
    BY <1>1, <1>6, <2>1
  <2>2. CASE ~(n > Cardinality(live))
    <3>1. k = last /\ rest = SubSeq(q, k + 1, Len(q))
      BY <1>6, <2>2
    <3>2. k + 1 \in Int /\ Len(q) \in Int /\ \A i \in (k + 1)..Len(q) : q[i] \in Jobs
      BY <1>1, <1>7
    <3> HIDE DEF k
    <3>3. /\ rest \in Seq(Jobs)
          /\ Len(rest) = IF k + 1 <= Len(q) THEN Len(q) - (k + 1) + 1 ELSE 0
          /\ \A i \in 1..(Len(q) - (k + 1) + 1) : rest[i] = q[k + 1 + i - 1]
      BY <3>1, <3>2, SubSeqProperties
    <3> QED
      BY <1>1, <1>7, <3>3
  <2> QED
    BY <2>1, <2>2
<1>14. ASSUME NEW i \in live, i > k PROVE chosen = is /\ n < Len(q)
  <2>1. i \notin served /\ live # served
    <3>1. \A m \in served : m <= k /\ m \in Nat
      BY <1>3, <1>4, <1>5
    <3> HIDE DEF k
    <3> QED
      BY <1>3, <1>7, <1>14, <3>1
  <2>2. n <= Cardinality(served)
    BY <1>3, <2>1
  <2>3. Cardinality(chosen) <= n /\ (n = Cardinality(chosen) => is = chosen)
    BY <1>2, FS_Subset DEF n
  <2>4. Cardinality(served) \in Nat /\ Cardinality(live) \in Nat
    BY <1>3, FS_CardinalityType
  <2>5. Cardinality(served) = n
    BY <1>1, <1>2, <2>2, <2>3, <2>4
  <2>7. chosen = is
    BY <1>2, <2>3, <2>5
  <2>8. Cardinality(served) < Cardinality(live)
    <3>1. Cardinality(served) <= Cardinality(live) /\ Cardinality(served) # Cardinality(live)
      BY <1>3, <2>1, FS_Subset
    <3> QED
      BY <2>4, <3>1
  <2>9. Cardinality(live) <= Len(q)
    <3>1. IsFiniteSet(1..Len(q)) /\ Cardinality(1..Len(q)) = Len(q)
      <4>1. 1 \in Int /\ Len(q) \in Int
        BY <1>1
      <4>2. /\ IsFiniteSet(1..Len(q))
            /\ Cardinality(1..Len(q)) = IF 1 > Len(q) THEN 0 ELSE Len(q) - 1 + 1
        BY <4>1, FS_Interval
      <4> QED
        BY <1>1, <4>2
    <3> QED
      BY <1>3, <3>1, FS_Subset
  <2> QED
    BY <1>1, <2>4, <2>5, <2>7, <2>8, <2>9
<1>15. place \in [chosen -> live]
  BY <1>3, <1>2
<1>16. HandsOut(is, q, out, rest, chosen, place, k)
  <2> HIDE DEF k
  <2> QED
    BY <1>2, <1>7, <1>10, <1>12, <1>13, <1>14, <1>15 DEF HandsOut, live, n
<1> QED
  BY <1>16 DEF rest, n

LEMMA PlacesKept ==
  ASSUME NEW q \in Seq(Jobs), NEW jb \in [Threads -> Jobs \cup {NoJob}], NEW out,
         NEW is \in SUBSET Threads, \A w \in is : jb[w] = NoJob, Placed(q, jb, out),
         NEW rest, NEW chosen, NEW place, NEW k, HandsOut(is, q, out, rest, chosen, place, k),
         NEW jb1, \A w \in chosen : jb1[w] = q[place[w]], \A w \in Threads \ chosen : jb1[w] = jb[w]
  PROVE  Placed(rest, jb1, out)
<1>1. /\ chosen \subseteq is /\ k \in 0..Len(q) /\ Len(q) \in Nat
      /\ \A w \in chosen : place[w] \in DOMAIN q /\ place[w] <= k /\ place[w] \in 1..Len(q)
      /\ \A w, v \in chosen : place[w] = place[v] => w = v
  BY DEF HandsOut, Unanswered
<1>2. \A i \in DOMAIN q : q[i] \in Jobs /\ i \in 1..Len(q)
  OBVIOUS
<1>3. ASSUME NEW i \in DOMAIN rest
      PROVE  i \in Nat /\ i >= 1 /\ i + k \in DOMAIN q /\ rest[i] = q[i + k]
  <2>1. i \in 1..(Len(q) - k) /\ k \in Nat /\ k <= Len(q)
    BY <1>1 DEF HandsOut
  <2>2. i + k \in 1..Len(q)
    BY <1>1, <2>1
  <2> QED
    BY <2>1, <2>2 DEF HandsOut
<1>4. NoJob \notin Jobs
  BY QueryPoolAssumption
<1>5. \A w \in chosen : w \in Threads /\ jb1[w] = q[place[w]] /\ jb[w] = NoJob /\ jb1[w] \in Jobs
  BY <1>1, <1>2
<1>6. \A w \in Threads \ chosen : jb1[w] = jb[w]
  OBVIOUS
<1>8. \A i, m \in DOMAIN rest : rest[i] = rest[m] => i = m
  <2> SUFFICES ASSUME NEW i \in DOMAIN rest, NEW m \in DOMAIN rest, rest[i] = rest[m]
               PROVE  i = m
    OBVIOUS
  <2>1. i + k = m + k
    BY <1>3 DEF Placed
  <2> QED
    BY <1>1, <1>3, <2>1
<1>9. ASSUME NEW w \in Threads, NEW v \in Threads, jb1[w] # NoJob, jb1[w] = jb1[v]
      PROVE  w = v
  <2>1. CASE w \in chosen /\ v \in chosen
    BY <1>1, <1>5, <1>9, <2>1 DEF Placed
  <2>2. CASE w \in chosen /\ v \notin chosen
    BY <1>1, <1>5, <1>6, <1>9, <2>2 DEF Placed
  <2>3. CASE w \notin chosen /\ v \in chosen
    BY <1>1, <1>5, <1>6, <1>9, <2>3 DEF Placed
  <2>4. CASE w \notin chosen /\ v \notin chosen
    BY <1>6, <1>9, <2>4 DEF Placed
  <2> QED
    BY <2>1, <2>2, <2>3, <2>4
<1>10. ASSUME NEW i \in DOMAIN rest, NEW w \in Threads PROVE rest[i] # jb1[w]
  <2>1. CASE w \in chosen
    <3>1. SUFFICES ASSUME q[i + k] = q[place[w]] PROVE FALSE
      BY <1>3, <1>5, <2>1
    <3>2. i + k = place[w]
      BY <1>1, <1>3, <2>1, <3>1 DEF Placed
    <3> QED
      BY <1>1, <1>3, <2>1, <3>2
  <2>2. CASE w \notin chosen
    BY <1>3, <1>6, <2>2 DEF Placed
  <2> QED
    BY <2>1, <2>2
<1>11. ASSUME NEW j \in Jobs, out[j] = "waiting"
       PROVE  (\E i \in DOMAIN rest : rest[i] = j) \/ (\E w \in Threads : jb1[w] = j)
  <2>1. CASE \E w \in Threads : jb[w] = j
    BY <1>4, <1>5, <1>6, <2>1
  <2>2. ASSUME NEW i \in DOMAIN q, q[i] = j
        PROVE  (\E m \in DOMAIN rest : rest[m] = j) \/ (\E w \in Threads : jb1[w] = j)
    <3>1. i \in Unanswered(q, out)
      BY <1>11, <2>2 DEF Unanswered
    <3>2. CASE i <= k
      <4>1. PICK w \in chosen : place[w] = i
        BY <3>1, <3>2 DEF HandsOut
      <4> QED
        BY <1>5, <2>2, <4>1
    <3>3. CASE i > k
      <4>1. i - k \in 1..(Len(q) - k) /\ (i - k) + k = i
        BY <1>1, <1>2, <3>3
      <4>2. i - k \in DOMAIN rest /\ rest[i - k] = j
        BY <1>1, <2>2, <4>1 DEF HandsOut
      <4> QED
        BY <4>2
    <3>4. i \in Nat /\ k \in Nat
      BY <1>1, <1>2
    <3> QED
      BY <3>2, <3>3, <3>4
  <2> QED
    BY <1>11, <2>1, <2>2 DEF Placed
<1>12. ASSUME NEW j \in Jobs, out[j] = "new"
       PROVE  (\A i \in DOMAIN rest : rest[i] # j) /\ (\A w \in Threads : jb1[w] # j)
  BY <1>1, <1>3, <1>5, <1>6, <1>12 DEF Placed
<1> QED
  BY <1>8, <1>9, <1>10, <1>11, <1>12 DEF Placed

(* What drain() does: it starts the threads in `born`, and hands calls out. *)
Drained(ws, ps, is, jb, q, out, c, extra, gone) ==
  \E born \in SUBSET Unused(ws \cup extra \cup gone), b \in Nat, t \in Nat :
  \E chosen, place, k :
    /\ Cardinality(born) = b
    /\ ~WantMore(Len(q), is, ps \cup extra, ws \cup extra, c, b, t)
    /\ HandsOut(is, q, out, queue', chosen, place, k)
    /\ workers' = ws \cup extra \cup born /\ pending' = ps \cup extra \cup born
    /\ crashes' = c + t /\ idlers' = is \ chosen
    /\ job' = [w \in Threads |-> IF w \in chosen THEN q[place[w]] ELSE jb[w]]
    /\ posted' = [w \in Threads |-> IF w \in chosen /\ thread[w] = "serving"
                                     THEN q[place[w]] ELSE posted[w]]
    /\ thread' = [w \in Threads |-> IF w \in extra \cup born THEN "starting"
                                     ELSE IF w \in gone THEN "none" ELSE thread[w]]

LEMMA DrainIsDrained ==
  ASSUME NEW STATE ws, NEW STATE ps, NEW STATE is, NEW STATE jb, NEW STATE q, NEW STATE out,
         NEW STATE c, NEW STATE extra, NEW STATE gone,
         is \subseteq Threads, q \in Seq(Jobs),
         Drain(ws, ps, is, jb, q, out, c, extra, gone)
  PROVE  Drained(ws, ps, is, jb, q, out, c, extra, gone)
<1> DEFINE unused == Unused(ws \cup extra \cup gone)
<1>1. PICK g \in Grown(Len(q), is, ps \cup extra, ws \cup extra, c) :
        LET crews == kSubset(g[1], unused)
            born  == CHOOSE S \in crews : TRUE
        IN /\ crews # {}
           /\ workers' = ws \cup extra \cup born /\ pending' = ps \cup extra \cup born
           /\ crashes' = c + g[2]
           /\ HandOut(is, jb, q, out)
           /\ thread' = [w \in Threads |-> IF w \in extra \cup born THEN "starting"
                                            ELSE IF w \in gone THEN "none" ELSE thread[w]]
  BY DEF Drain
<1> DEFINE b     == g[1]
           t     == g[2]
           crews == kSubset(b, unused)
           born  == CHOOSE S \in crews : TRUE
<1>2. b \in Nat /\ t \in Nat /\ ~WantMore(Len(q), is, ps \cup extra, ws \cup extra, c, b, t)
  BY DEF Grown
<1>3. born \in SUBSET unused /\ Cardinality(born) = b
  <2>1. born \in crews
    BY <1>1
  <2> QED
    BY <2>1 DEF kSubset
<1> HIDE DEF unused
<1>4. HandOut(is, jb, q, out)
  BY <1>1
<1>5. PICK chosen \in kSubset(Cardinality(Served(q, out, Cardinality(is))), is) :
      \E place \in Bijection(chosen, Served(q, out, Cardinality(is))) :
        /\ idlers' = is \ chosen /\ queue' = RestOf(q, out, Cardinality(is))
        /\ job' = [w \in Threads |-> IF w \in chosen THEN q[place[w]] ELSE jb[w]]
        /\ posted' = [w \in Threads |-> IF w \in chosen /\ thread[w] = "serving"
                                         THEN q[place[w]] ELSE posted[w]]
  BY <1>4 DEF HandOut
<1>6. PICK place \in Bijection(chosen, Served(q, out, Cardinality(is))) :
        /\ idlers' = is \ chosen /\ queue' = RestOf(q, out, Cardinality(is))
        /\ job' = [w \in Threads |-> IF w \in chosen THEN q[place[w]] ELSE jb[w]]
        /\ posted' = [w \in Threads |-> IF w \in chosen /\ thread[w] = "serving"
                                         THEN q[place[w]] ELSE posted[w]]
  BY <1>5
<1>7. \E k : HandsOut(is, q, out, queue', chosen, place, k)
  <2>1. IsFiniteSet(is)
    BY QueryPoolAssumption, FS_Subset
  <2> QED
    BY <1>6, <2>1, HandedOut
<1>8. thread' = [w \in Threads |-> IF w \in extra \cup born THEN "starting"
                                   ELSE IF w \in gone THEN "none" ELSE thread[w]]
  BY <1>1
<1>9. /\ workers' = ws \cup extra \cup born /\ pending' = ps \cup extra \cup born
      /\ crashes' = c + t
  BY <1>1
<1> HIDE DEF born, b, t
<1> QED
  BY <1>2, <1>3, <1>6, <1>7, <1>8, <1>9 DEF Drained, unused

PoolInv == PoolTypeOK /\ ThreadInv /\ PlaceInv /\ WaitersHaveWorkers

(* What a handler leaves to drain().                                        *)
Drainable(ws, ps, is, jb, q, out, c, extra, gone) ==
  /\ ws = workers \ gone /\ ps \subseteq ws /\ is \subseteq Threads \ gone
  /\ jb \in [Threads -> Jobs \cup {NoJob}] /\ q \in Seq(Jobs) /\ c \in Nat
  /\ extra \subseteq Unused(workers) \ gone
  /\ \A w \in is : w \in idlers \/ mail[w] # "none"
  /\ \A w \in Threads : jb[w] \in {job[w], NoJob}
  /\ Placed(q, jb, out)

(* What drain() keeps, if it is left what it needs.                         *)
LEMMA DrainKeeps ==
  ASSUME NEW STATE ws, NEW STATE ps, NEW STATE is, NEW STATE jb, NEW STATE q, NEW STATE out,
         NEW STATE c, NEW STATE extra, NEW STATE gone,
         PoolTypeOK, Drainable(ws, ps, is, jb, q, out, c, extra, gone),
         Drain(ws, ps, is, jb, q, out, c, extra, gone),
         NEW STATE th, \A w \in Threads : th[w] = IF w \in gone THEN "none" ELSE thread[w],
         Sound(ws, is, jb, th, posted, mail', late'),
         \A w \in Threads : mail[w] = "none" => mail'[w] = "none",
         destroyed' = destroyed
  PROVE  /\ workers' \subseteq Threads /\ pending' \subseteq workers' /\ idlers' \subseteq Threads
         /\ job' \in [Threads -> Jobs \cup {NoJob}] /\ queue' \in Seq(Jobs) /\ crashes' \in Nat
         /\ thread' \in [Threads -> {"none", "starting", "serving", "dying"}]
         /\ posted' \in [Threads -> Jobs \cup {NoJob}]
         /\ ThreadInv' /\ Placed(queue', job', out)
         /\ (Healthy(crashes') /\ Unanswered(queue', out) # {}) => workers' # {} /\ idlers' = {}
<1>1. /\ ws = workers \ gone /\ ps \subseteq ws /\ is \subseteq Threads /\ is \cap gone = {}
      /\ jb \in [Threads -> Jobs \cup {NoJob}] /\ q \in Seq(Jobs) /\ c \in Nat
      /\ extra \subseteq Unused(workers) \ gone /\ Placed(q, jb, out)
  BY DEF Drainable
<1>2. Drained(ws, ps, is, jb, q, out, c, extra, gone)
  BY <1>1, DrainIsDrained
<1>3. PICK born \in SUBSET Unused(ws \cup extra \cup gone), b \in Nat, t \in Nat :
      \E chosen, place, k :
        /\ Cardinality(born) = b
        /\ ~WantMore(Len(q), is, ps \cup extra, ws \cup extra, c, b, t)
        /\ HandsOut(is, q, out, queue', chosen, place, k)
        /\ workers' = ws \cup extra \cup born /\ pending' = ps \cup extra \cup born
        /\ crashes' = c + t /\ idlers' = is \ chosen
        /\ job' = [w \in Threads |-> IF w \in chosen THEN q[place[w]] ELSE jb[w]]
        /\ posted' = [w \in Threads |-> IF w \in chosen /\ thread[w] = "serving"
                                         THEN q[place[w]] ELSE posted[w]]
        /\ thread' = [w \in Threads |-> IF w \in extra \cup born THEN "starting"
                                         ELSE IF w \in gone THEN "none" ELSE thread[w]]
  BY <1>2 DEF Drained
<1>4. PICK chosen, place, k :
        /\ Cardinality(born) = b
        /\ ~WantMore(Len(q), is, ps \cup extra, ws \cup extra, c, b, t)
        /\ HandsOut(is, q, out, queue', chosen, place, k)
        /\ workers' = ws \cup extra \cup born /\ pending' = ps \cup extra \cup born
        /\ crashes' = c + t /\ idlers' = is \ chosen
        /\ job' = [w \in Threads |-> IF w \in chosen THEN q[place[w]] ELSE jb[w]]
        /\ posted' = [w \in Threads |-> IF w \in chosen /\ thread[w] = "serving"
                                         THEN q[place[w]] ELSE posted[w]]
        /\ thread' = [w \in Threads |-> IF w \in extra \cup born THEN "starting"
                                         ELSE IF w \in gone THEN "none" ELSE thread[w]]
  BY <1>3
<1>5. \A w \in is : jb[w] = NoJob /\ posted[w] = NoJob /\ mail'[w] = "none"
                    /\ th[w] # "starting" /\ w \in ws \cup late'
  BY <1>1 DEF Sound
<1>6. /\ chosen \subseteq is /\ queue' \in Seq(Jobs) /\ \A w \in chosen : q[place[w]] \in Jobs
  BY <1>1, <1>4 DEF HandsOut, Unanswered
<1>7. job' \in [Threads -> Jobs \cup {NoJob}] /\ Placed(queue', job', out)
  <2>1. is \in SUBSET Threads /\ \A w \in is : jb[w] = NoJob
    BY <1>1, <1>5
  <2>2. HandsOut(is, q, out, queue', chosen, place, k)
    BY <1>4
  <2>3. /\ \A w \in chosen : job'[w] = q[place[w]]
        /\ \A w \in Threads \ chosen : job'[w] = jb[w]
        /\ job' \in [Threads -> Jobs \cup {NoJob}]
    BY <1>1, <1>4, <1>6
  <2>4. q \in Seq(Jobs) /\ jb \in [Threads -> Jobs \cup {NoJob}] /\ Placed(q, jb, out)
    BY <1>1
  <2>5. Placed(queue', job', out)
    <3>1. ASSUME NEW rest, NEW jb1, HandsOut(is, q, out, rest, chosen, place, k),
                 \A w \in chosen : jb1[w] = q[place[w]], \A w \in Threads \ chosen : jb1[w] = jb[w]
          PROVE  Placed(rest, jb1, out)
      BY <2>1, <2>4, <3>1, PlacesKept
    <3> QED
      BY <2>2, <2>3, <3>1
  <2> QED
    BY <2>3, <2>5
<1>8. ASSUME NEW w \in extra \cup born
      PROVE  /\ w \in Threads /\ w \notin is /\ w \notin gone /\ jb[w] = NoJob
             /\ th[w] = "none" /\ mail'[w] = "none" /\ posted[w] = NoJob
  <2>1. /\ w \in Threads \ gone /\ w \notin idlers
        /\ thread[w] = "none" /\ mail[w] = "none" /\ job[w] = NoJob
    BY <1>1, <1>3 DEF Unused
  <2>2. w \notin is /\ jb[w] = NoJob /\ mail'[w] = "none" /\ th[w] = "none"
    BY <2>1 DEF Drainable
  <2>3. posted[w] = NoJob
    BY <2>1, <2>2 DEF Sound
  <2> QED
    BY <2>1, <2>2, <2>3
<1>9. /\ workers' \subseteq Threads /\ pending' \subseteq workers' /\ idlers' \subseteq Threads
      /\ crashes' \in Nat
      /\ thread' \in [Threads -> {"none", "starting", "serving", "dying"}]
      /\ posted' \in [Threads -> Jobs \cup {NoJob}]
  <2>1. workers' \subseteq Threads /\ pending' \subseteq workers' /\ idlers' \subseteq Threads
    BY <1>1, <1>4, <1>8 DEF PoolTypeOK
  <2>2. crashes' \in Nat
    BY <1>1, <1>4
  <2>3. thread' \in [Threads -> {"none", "starting", "serving", "dying"}]
    BY <1>4 DEF PoolTypeOK
  <2>4. posted' \in [Threads -> Jobs \cup {NoJob}]
    BY <1>4, <1>6 DEF PoolTypeOK
  <2> QED
    BY <2>1, <2>2, <2>3, <2>4
<1>10. NoJob \notin Jobs
  BY QueryPoolAssumption
<1>11. \A w \in Threads :
         /\ th[w] = IF w \in gone THEN "none" ELSE thread[w]
         /\ thread'[w] = IF w \in extra \cup born THEN "starting" ELSE th[w]
         /\ job'[w] = IF w \in chosen THEN q[place[w]] ELSE jb[w]
         /\ posted'[w] = IF w \in chosen /\ thread[w] = "serving" THEN q[place[w]] ELSE posted[w]
  BY <1>4
<1>12. Sound(workers', idlers', job', thread', posted', mail', late')
  <2> SUFFICES ASSUME NEW w \in Threads
      PROVE
        /\ w \in idlers' => /\ job'[w] = NoJob /\ posted'[w] = NoJob /\ mail'[w] = "none"
                            /\ thread'[w] # "starting" /\ w \in workers' \cup late'
        /\ mail'[w] \in {"ready", "unopened"} => job'[w] = NoJob /\ posted'[w] = NoJob
        /\ mail'[w] \in Jobs => job'[w] \in {NoJob, mail'[w]} /\ posted'[w] = NoJob
        /\ posted'[w] # NoJob => thread'[w] = "serving" /\ job'[w] = posted'[w]
        /\ thread'[w] = "starting" => job'[w] = NoJob /\ mail'[w] = "none"
        /\ job'[w] # NoJob => w \in workers' \cup late'
        /\ w \in workers' => /\ thread'[w] # "none"
                             /\ \/ w \in idlers' \/ thread'[w] \in {"starting", "dying"}
                                \/ posted'[w] # NoJob \/ mail'[w] # "none"
    BY DEF Sound
  <2>0. "none" \notin Jobs
    BY QueryPoolAssumption
  <2>1. CASE w \in extra \cup born
    <3>1. /\ w \notin chosen /\ w \notin idlers' /\ thread'[w] = "starting" /\ job'[w] = NoJob
          /\ posted'[w] = NoJob /\ mail'[w] = "none"
      BY <1>4, <1>6, <1>8, <1>11, <2>1
    <3> QED
      BY <2>0, <3>1
  <2>2. CASE w \in chosen
    <3>1. /\ w \notin idlers' /\ w \notin gone /\ w \in is /\ w \notin extra \cup born
      BY <1>1, <1>4, <1>6, <1>8, <2>2
    <3>2. /\ job'[w] = q[place[w]] /\ q[place[w]] \in Jobs /\ thread'[w] = thread[w] /\ thread[w] # "starting"
          /\ posted'[w] = IF thread[w] = "serving" THEN q[place[w]] ELSE posted[w]
          /\ th[w] = thread[w]
      BY <1>5, <1>6, <1>11, <2>2, <3>1
    <3>3. jb[w] = NoJob /\ posted[w] = NoJob /\ mail'[w] = "none" /\ w \in ws \cup late'
      BY <1>5, <3>1
    <3>4. w \in workers' \cup late' /\ (w \in workers' => w \in ws)
      BY <1>4, <3>1, <3>3
    <3>5. w \in workers' => thread[w] # "none"
      BY <3>2, <3>4 DEF Sound
    <3>6. thread[w] \in {"none", "starting", "serving", "dying"}
      BY DEF PoolTypeOK
    <3>7. w \in workers' => /\ thread'[w] # "none"
                            /\ thread'[w] = "dying" \/ posted'[w] # NoJob
      BY <1>10, <3>2, <3>5, <3>6
    <3>8. posted'[w] # NoJob => thread'[w] = "serving" /\ job'[w] = posted'[w]
      BY <3>2, <3>3
    <3> QED
      BY <2>0, <3>1, <3>2, <3>3, <3>4, <3>7, <3>8
  <2>3. CASE w \notin extra \cup born /\ w \notin chosen
    <3>1. /\ w \in idlers' => w \in is
          /\ thread'[w] = th[w] /\ job'[w] = jb[w] /\ posted'[w] = posted[w]
          /\ w \in ws \cup late' => w \in workers' \cup late'
          /\ w \in workers' => w \in ws /\ (w \in is => w \in idlers')
      BY <1>4, <1>11, <2>3
    <3> QED
      BY <3>1 DEF Sound
  <2> QED
    BY <2>1, <2>2, <2>3
<1>13. ASSUME Healthy(crashes'), Unanswered(queue', out) # {}
       PROVE  workers' # {} /\ idlers' = {}
  <2>1. PICK i \in DOMAIN queue' : out[queue'[i]] = "waiting"
    BY <1>13 DEF Unanswered
  <2>2. k \in 0..Len(q) /\ Len(q) \in Nat /\ i \in 1..(Len(q) - k) /\ queue'[i] = q[i + k]
    BY <1>1, <1>4 DEF HandsOut
  <2>3. i + k \in DOMAIN q /\ i + k > k
    BY <1>1, <2>2
  <2>4. i + k \in Unanswered(q, out)
    BY <2>1, <2>2, <2>3 DEF Unanswered
  <2>5. chosen = is /\ Cardinality(is) < Len(q)
    BY <1>4, <2>3, <2>4 DEF HandsOut
  <2>6. ASSUME workers' = {} PROVE FALSE
    <3>1. ws = {} /\ extra = {} /\ born = {} /\ ps = {}
      BY <1>1, <1>4, <2>6
    <3>2. Cardinality({}) = 0 /\ b = 0
      BY <1>4, <3>1, FS_EmptySet
    <3>3. Healthy(c + t)
      BY <1>4, <1>13 DEF Healthy
    <3>4. Cardinality(is) \in Nat
      BY <1>1, QueryPoolAssumption, FS_Subset, FS_CardinalityType
    <3>5. ps \cup extra = {} /\ ws \cup extra = {}
      BY <3>1
    <3>6. ~WantMore(Len(q), is, {}, {}, c, 0, t)
      BY <1>4, <3>2, <3>5
    <3> QED
      BY <2>2, <2>5, <3>2, <3>3, <3>4, <3>6, QueryPoolAssumption DEF WantMore
  <2> QED
    BY <1>4, <2>5, <2>6
<1> QED
  BY <1>6, <1>7, <1>9, <1>12, <1>13 DEF ThreadInv

(* A handler that ends with drain() keeps the invariant.                    *)
LEMMA HandlerKeeps ==
  ASSUME NEW STATE ws, NEW STATE ps, NEW STATE is, NEW STATE jb, NEW STATE q, NEW STATE out,
         NEW STATE c, NEW STATE extra, NEW STATE gone,
         PoolTypeOK, Drainable(ws, ps, is, jb, q, out, c, extra, gone),
         Drain(ws, ps, is, jb, q, out, c, extra, gone),
         NEW STATE th, \A w \in Threads : th[w] = IF w \in gone THEN "none" ELSE thread[w],
         Sound(ws, is, jb, th, posted, mail', late'),
         \A w \in Threads : mail[w] = "none" => mail'[w] = "none",
         destroyed' = destroyed, outcome' = out, outcome' \in [Jobs -> Outcomes],
         retries' \in [Jobs -> 0..MaxRetries],
         mail' \in [Threads -> Jobs \cup {"none", "ready", "unopened"}], late' \subseteq Threads
  PROVE  PoolInv'
<1>1. /\ workers' \subseteq Threads /\ pending' \subseteq workers' /\ idlers' \subseteq Threads
      /\ job' \in [Threads -> Jobs \cup {NoJob}] /\ queue' \in Seq(Jobs) /\ crashes' \in Nat
      /\ thread' \in [Threads -> {"none", "starting", "serving", "dying"}]
      /\ posted' \in [Threads -> Jobs \cup {NoJob}]
      /\ ThreadInv' /\ Placed(queue', job', out)
      /\ (Healthy(crashes') /\ Unanswered(queue', out) # {}) => workers' # {} /\ idlers' = {}
  BY DrainKeeps, SMTT(60)
<1>2. PoolTypeOK'
  BY <1>1 DEF PoolTypeOK
<1>3. PlaceInv'
  BY <1>1 DEF PlaceInv
<1>4. WaitersHaveWorkers'
  BY <1>1 DEF WaitersHaveWorkers, Healthy
<1> QED
  BY <1>1, <1>2, <1>3, <1>4 DEF PoolInv

LEMMA RunKeeps == ASSUME PoolInv, NEW j \in Jobs, Run(j) PROVE PoolInv'
<1>0. PoolTypeOK /\ ThreadInv /\ PlaceInv
  BY DEF PoolInv
<1>1. CASE Healthy(crashes)
  <2> DEFINE out == [outcome EXCEPT ![j] = "waiting"]
             q   == Append(queue, j)
  <2>1. /\ outcome[j] = "new" /\ outcome' = out
        /\ Drain(workers, pending, idlers, job, q, out, crashes, {}, {})
        /\ destroyed' = destroyed /\ mail' = mail /\ late' = late /\ retries' = retries
    BY <1>1 DEF Run
  <2>2. out \in [Jobs -> Outcomes] /\ \A x \in Jobs : out[x] = IF x = j THEN "waiting" ELSE outcome[x]
    BY <1>0 DEF PoolTypeOK, Outcomes
  <2>3. /\ q \in Seq(Jobs) /\ DOMAIN q = 1..(Len(queue) + 1) /\ Len(queue) \in Nat
        /\ DOMAIN queue = 1..Len(queue)
        /\ \A i \in DOMAIN queue : i \in DOMAIN q /\ q[i] = queue[i]
        /\ Len(queue) + 1 \in DOMAIN q /\ q[Len(queue) + 1] = j
        /\ \A i \in DOMAIN q : i \in DOMAIN queue \/ i = Len(queue) + 1
    BY <1>0 DEF PoolTypeOK
  <2>4. Placed(q, job, out)
    <3> HIDE DEF q, out
    <3>1. \A i \in DOMAIN queue : queue[i] # j /\ i # Len(queue) + 1
      BY <1>0, <2>1, <2>3 DEF PlaceInv, Placed
    <3>2. \A w \in Threads : job[w] # j
      BY <1>0, <2>1 DEF PlaceInv, Placed
    <3>3. \A i, k \in DOMAIN q : q[i] = q[k] => i = k
      BY <1>0, <2>3, <3>1 DEF PlaceInv, Placed
    <3>4. \A i \in DOMAIN q, w \in Threads : q[i] # job[w]
      BY <1>0, <2>3, <3>2 DEF PlaceInv, Placed
    <3>5. \A x \in Jobs : out[x] = "waiting" => \/ \E i \in DOMAIN q : q[i] = x
                                                \/ \E w \in Threads : job[w] = x
      BY <1>0, <2>2, <2>3 DEF PlaceInv, Placed
    <3>6. \A x \in Jobs : out[x] = "new" => /\ \A i \in DOMAIN q : q[i] # x
                                            /\ \A w \in Threads : job[w] # x
      BY <1>0, <2>2, <2>3 DEF PlaceInv, Placed
    <3> QED
      BY <1>0, <3>3, <3>4, <3>5, <3>6 DEF PlaceInv, Placed
  <2> HIDE DEF q, out
  <2>5. Drainable(workers, pending, idlers, job, q, out, crashes, {}, {})
    BY <1>0, <2>3, <2>4 DEF Drainable, PoolTypeOK
  <2>6. Sound(workers, idlers, job, thread, posted, mail', late')
    BY <1>0, <2>1 DEF ThreadInv
  <2>7. /\ outcome' \in [Jobs -> Outcomes] /\ retries' \in [Jobs -> 0..MaxRetries]
        /\ mail' \in [Threads -> Jobs \cup {"none", "ready", "unopened"}] /\ late' \subseteq Threads
    BY <1>0, <2>1, <2>2 DEF PoolTypeOK
  <2> QED
    BY <1>0, <2>1, <2>5, <2>6, <2>7, HandlerKeeps
<1>2. CASE ~Healthy(crashes)
  <2>1. /\ outcome' = [outcome EXCEPT ![j] = "answered"]
        /\ UNCHANGED <<workers, pending, idlers, job, queue, retries, crashes, destroyed,
                       thread, posted, mail, late>>
    BY <1>2 DEF Run
  <2>2. outcome' \in [Jobs -> Outcomes]
    BY <1>0, <2>1 DEF PoolTypeOK, Outcomes
  <2>3. PoolTypeOK' /\ ThreadInv'
    BY <1>0, <2>1, <2>2 DEF PoolTypeOK, ThreadInv, Sound
  <2>4. PlaceInv'
    BY <1>0, <2>1 DEF PlaceInv, Placed, PoolTypeOK
  <2>5. WaitersHaveWorkers'
    BY <1>2, <2>1 DEF WaitersHaveWorkers, Healthy
  <2> QED
    BY <2>3, <2>4, <2>5 DEF PoolInv
<1> QED
  BY <1>1, <1>2

LEMMA SoftTimeoutKeeps == ASSUME PoolInv, NEW j \in Jobs, SoftTimeout(j) PROVE PoolInv'
<1>1. /\ outcome' = [outcome EXCEPT ![j] = "answered"]
      /\ UNCHANGED <<workers, pending, idlers, job, queue, retries, crashes, destroyed,
                     thread, posted, mail, late>>
  BY DEF SoftTimeout
<1>2. outcome' \in [Jobs -> Outcomes]
  BY <1>1 DEF PoolInv, PoolTypeOK, Outcomes
<1>3. \A x \in Jobs : outcome'[x] = IF x = j THEN "answered" ELSE outcome[x]
  BY <1>1 DEF PoolInv, PoolTypeOK
<1>4. PoolTypeOK' /\ ThreadInv'
  BY <1>1, <1>2 DEF PoolInv, PoolTypeOK, ThreadInv, Sound
<1>5. PlaceInv'
  BY <1>1, <1>3 DEF PoolInv, PlaceInv, Placed
<1>6. WaitersHaveWorkers'
  <2>1. Unanswered(queue', outcome') \subseteq Unanswered(queue, outcome)
    <3>1. \A i \in DOMAIN queue : queue[i] \in Jobs
      BY DEF PoolInv, PoolTypeOK
    <3> QED
      BY <1>1, <1>3, <3>1 DEF Unanswered
  <2> QED
    BY <1>1, <2>1 DEF PoolInv, WaitersHaveWorkers, Healthy
<1> QED
  BY <1>4, <1>5, <1>6 DEF PoolInv

(* The steps of a thread leave the pool's own books alone.                  *)
LEMMA ThreadKeeps ==
  ASSUME PoolInv, UNCHANGED <<pool, late>>, ThreadInv',
         thread' \in [Threads -> {"none", "starting", "serving", "dying"}],
         posted' \in [Threads -> Jobs \cup {NoJob}],
         mail' \in [Threads -> Jobs \cup {"none", "ready", "unopened"}]
  PROVE  PoolInv'
  BY DEF PoolInv, PoolTypeOK, PlaceInv, Placed, WaitersHaveWorkers, Healthy, Unanswered, pool

LEMMA OpenDatabaseKeeps == ASSUME PoolInv, NEW w \in Threads, OpenDatabase(w) PROVE PoolInv'
<1>1. PICK m \in {"ready", "unopened"} :
        /\ thread[w] = "starting" /\ thread' = [thread EXCEPT ![w] = "serving"]
        /\ mail' = [mail EXCEPT ![w] = m] /\ UNCHANGED <<pool, posted, late>>
  BY DEF OpenDatabase
<1>2. /\ thread' \in [Threads -> {"none", "starting", "serving", "dying"}]
      /\ mail' \in [Threads -> Jobs \cup {"none", "ready", "unopened"}]
      /\ posted' \in [Threads -> Jobs \cup {NoJob}]
      /\ \A v \in Threads : /\ thread'[v] = IF v = w THEN "serving" ELSE thread[v]
                            /\ mail'[v] = IF v = w THEN m ELSE mail[v]
  BY <1>1 DEF PoolInv, PoolTypeOK
<1>3. UNCHANGED <<workers, idlers, job, posted, late>>
  BY <1>1 DEF pool
<1>4. job[w] = NoJob /\ posted[w] = NoJob /\ w \notin idlers
  BY <1>1 DEF PoolInv, ThreadInv, Sound
<1>5. m \notin Jobs /\ m # "none"
  BY QueryPoolAssumption
<1>6. ThreadInv'
  BY <1>2, <1>3, <1>4, <1>5 DEF PoolInv, ThreadInv, Sound
<1> QED
  BY <1>1, <1>2, <1>6, ThreadKeeps

LEMMA ServeKeeps == ASSUME PoolInv, NEW w \in Threads, Serve(w) PROVE PoolInv'
<1>1. /\ thread[w] = "serving" /\ posted[w] # NoJob /\ mail[w] = "none"
      /\ mail' = [mail EXCEPT ![w] = posted[w]] /\ posted' = [posted EXCEPT ![w] = NoJob]
      /\ UNCHANGED <<pool, thread, late>>
  BY DEF Serve
<1>2. /\ thread' \in [Threads -> {"none", "starting", "serving", "dying"}]
      /\ mail' \in [Threads -> Jobs \cup {"none", "ready", "unopened"}]
      /\ posted' \in [Threads -> Jobs \cup {NoJob}] /\ posted[w] \in Jobs
      /\ \A v \in Threads : /\ posted'[v] = IF v = w THEN NoJob ELSE posted[v]
                            /\ mail'[v] = IF v = w THEN posted[w] ELSE mail[v]
  BY <1>1 DEF PoolInv, PoolTypeOK
<1>3. UNCHANGED <<workers, idlers, job, thread, late>>
  BY <1>1 DEF pool
<1>4. job[w] = posted[w] /\ w \notin idlers
  BY <1>1 DEF PoolInv, ThreadInv, Sound
<1>5. posted[w] \notin {"none", "ready", "unopened"}
  BY <1>2, QueryPoolAssumption
<1>6. ThreadInv'
  BY <1>1, <1>2, <1>3, <1>4, <1>5 DEF PoolInv, ThreadInv, Sound
<1> QED
  BY <1>1, <1>2, <1>6, ThreadKeeps

LEMMA CrashKeeps == ASSUME PoolInv, NEW w \in Threads, Crash(w) PROVE PoolInv'
<1>1. /\ thread' = [thread EXCEPT ![w] = "dying"] /\ posted' = [posted EXCEPT ![w] = NoJob]
      /\ UNCHANGED <<pool, mail, late>>
  BY DEF Crash
<1>2. /\ thread' \in [Threads -> {"none", "starting", "serving", "dying"}]
      /\ mail' \in [Threads -> Jobs \cup {"none", "ready", "unopened"}]
      /\ posted' \in [Threads -> Jobs \cup {NoJob}]
      /\ \A v \in Threads : /\ posted'[v] = IF v = w THEN NoJob ELSE posted[v]
                            /\ thread'[v] = IF v = w THEN "dying" ELSE thread[v]
  BY <1>1 DEF PoolInv, PoolTypeOK
<1>3. UNCHANGED <<workers, idlers, job, mail, late>>
  BY <1>1 DEF pool
<1>4. ThreadInv'
  BY <1>2, <1>3 DEF PoolInv, ThreadInv, Sound
<1> QED
  BY <1>1, <1>2, <1>4, ThreadKeeps

LEMMA DestroyKeeps == ASSUME PoolInv, Destroy PROVE PoolInv'
<1>1. /\ workers' = {} /\ pending' = {} /\ idlers' = {} /\ queue' = <<>> /\ destroyed' = TRUE
      /\ job' = [w \in Threads |-> NoJob]
      /\ outcome' = [j \in Jobs |-> IF Waiting(j) THEN "answered" ELSE outcome[j]]
      /\ thread' = [w \in Threads |-> IF w \in workers THEN "none" ELSE thread[w]]
      /\ posted' = [w \in Threads |-> NoJob] /\ mail' = [w \in Threads |-> "none"]
      /\ UNCHANGED <<retries, crashes, late>>
  BY DEF Destroy
<1>2. outcome' \in [Jobs -> Outcomes] /\ \A j \in Jobs : outcome'[j] # "waiting"
  BY <1>1 DEF PoolInv, PoolTypeOK, Outcomes, Waiting
<1>3. NoJob \notin Jobs /\ "none" \notin Jobs
  BY QueryPoolAssumption
<1>4. PoolTypeOK'
  BY <1>1, <1>2 DEF PoolInv, PoolTypeOK
<1>5. ThreadInv'
  BY <1>1, <1>3 DEF ThreadInv, Sound
<1>6. PlaceInv'
  BY <1>1, <1>2, <1>3 DEF PlaceInv, Placed
<1>7. WaitersHaveWorkers'
  BY <1>1 DEF WaitersHaveWorkers, Healthy
<1> QED
  BY <1>4, <1>5, <1>6, <1>7 DEF PoolInv

(* The worker that sent something has no call and is not idle, or its call   *)
(* is the one that it answers.                                              *)
LEMMA Senders ==
  ASSUME PoolInv, NEW w \in Threads, mail[w] # "none", Noted(w),
         mail' = [mail EXCEPT ![w] = "none"]
  PROVE  /\ posted[w] = NoJob /\ thread[w] # "starting" /\ w \in workers \cup late'
         /\ late \subseteq late' /\ late' \subseteq Threads
         /\ mail' \in [Threads -> Jobs \cup {"none", "ready", "unopened"}]
         /\ \A v \in Threads : mail'[v] = IF v = w THEN "none" ELSE mail[v]
<1>1. mail[w] \in Jobs \cup {"ready", "unopened"}
  BY DEF PoolInv, PoolTypeOK
<1>2. posted[w] = NoJob /\ thread[w] # "starting"
  BY <1>1 DEF PoolInv, ThreadInv, Sound
<1>3. late \subseteq late' /\ late' \subseteq Threads /\ w \in workers \cup late'
  BY DEF Noted, PoolInv, PoolTypeOK
<1>4. /\ mail' \in [Threads -> Jobs \cup {"none", "ready", "unopened"}]
      /\ \A v \in Threads : mail'[v] = IF v = w THEN "none" ELSE mail[v]
  BY DEF PoolInv, PoolTypeOK
<1> QED
  BY <1>2, <1>3, <1>4

LEMMA OnReadyKeeps == ASSUME PoolInv, NEW w \in Threads, OnReady(w) PROVE PoolInv'
<1> DEFINE is == idlers \cup {w}
           c  == crashes + (IF mail[w] = "unopened" THEN 1 ELSE 0)
<1>0. PoolTypeOK /\ ThreadInv /\ PlaceInv
  BY DEF PoolInv
<1>1. /\ mail[w] \in {"ready", "unopened"} /\ mail' = [mail EXCEPT ![w] = "none"] /\ Noted(w)
      /\ Drain(workers, pending \ {w}, is, job, queue, outcome, c, {}, {})
      /\ outcome' = outcome /\ retries' = retries /\ destroyed' = destroyed
  BY DEF OnReady
<1>2. /\ posted[w] = NoJob /\ thread[w] # "starting" /\ w \in workers \cup late'
      /\ late \subseteq late' /\ late' \subseteq Threads
      /\ mail' \in [Threads -> Jobs \cup {"none", "ready", "unopened"}]
      /\ \A v \in Threads : mail'[v] = IF v = w THEN "none" ELSE mail[v]
  BY <1>1, Senders
<1>3. job[w] = NoJob
  BY <1>0, <1>1 DEF ThreadInv, Sound
<1>4. Drainable(workers, pending \ {w}, is, job, queue, outcome, c, {}, {})
  <2>1. c \in Nat
    BY <1>0 DEF PoolTypeOK
  <2> HIDE DEF c
  <2> QED
    BY <1>0, <1>1, <2>1 DEF Drainable, PoolTypeOK, PlaceInv
<1>5. Sound(workers, is, job, thread, posted, mail', late')
  <2>1. "none" \notin Jobs
    BY QueryPoolAssumption
  <2> QED
    BY <1>0, <1>2, <1>3, <2>1 DEF ThreadInv, Sound
<1>6. /\ outcome' \in [Jobs -> Outcomes] /\ retries' \in [Jobs -> 0..MaxRetries]
      /\ \A v \in Threads : mail[v] = "none" => mail'[v] = "none"
  BY <1>0, <1>1, <1>2 DEF PoolTypeOK
<1> HIDE DEF is, c
<1>7. /\ destroyed' = destroyed /\ outcome' = outcome
      /\ Drain(workers, pending \ {w}, is, job, queue, outcome, c, {}, {})
      /\ mail' \in [Threads -> Jobs \cup {"none", "ready", "unopened"}] /\ late' \subseteq Threads
  BY <1>1, <1>2
<1> QED
  BY <1>0, <1>4, <1>5, <1>6, <1>7, HandlerKeeps

LEMMA OnResultKeeps == ASSUME PoolInv, NEW w \in Threads, OnResult(w) PROVE PoolInv'
<1> DEFINE is  == idlers \cup {w}
           jb  == [job EXCEPT ![w] = NoJob]
           out == [j \in Jobs |-> IF j = job[w] /\ Waiting(j) THEN "answered" ELSE outcome[j]]
<1>0. PoolTypeOK /\ ThreadInv /\ PlaceInv
  BY DEF PoolInv
<1>1. /\ mail[w] \in Jobs /\ mail' = [mail EXCEPT ![w] = "none"] /\ Noted(w)
      /\ Drain(workers, pending, is, jb, queue, out, crashes, {}, {})
      /\ outcome' = out /\ retries' = retries /\ destroyed' = destroyed
  BY DEF OnResult
<1>2. "none" \notin Jobs /\ NoJob \notin Jobs
  BY QueryPoolAssumption
<1>3. /\ posted[w] = NoJob /\ thread[w] # "starting" /\ w \in workers \cup late'
      /\ late \subseteq late' /\ late' \subseteq Threads
      /\ mail' \in [Threads -> Jobs \cup {"none", "ready", "unopened"}]
      /\ \A v \in Threads : mail'[v] = IF v = w THEN "none" ELSE mail[v]
  <2>1. mail[w] # "none"
    BY <1>1, <1>2
  <2> QED
    BY <1>1, <2>1, Senders
<1>4. /\ jb \in [Threads -> Jobs \cup {NoJob}]
      /\ \A v \in Threads : jb[v] = IF v = w THEN NoJob ELSE job[v]
      /\ out \in [Jobs -> Outcomes]
      /\ \A j \in Jobs : out[j] = IF j = job[w] /\ outcome[j] = "waiting" THEN "answered" ELSE outcome[j]
  BY <1>0 DEF PoolTypeOK, Outcomes, Waiting
<1> HIDE DEF jb, out
<1>5. Placed(queue, jb, out)
  <2>1. \A i \in DOMAIN queue : queue[i] \in Jobs
    BY <1>0 DEF PoolTypeOK
  <2>2. /\ \A i, k \in DOMAIN queue : queue[i] = queue[k] => i = k
        /\ \A u, v \in Threads : jb[u] # NoJob /\ jb[u] = jb[v] => u = v
        /\ \A i \in DOMAIN queue, v \in Threads : queue[i] # jb[v]
    BY <1>0, <1>2, <1>4, <2>1 DEF PlaceInv, Placed
  <2>3. ASSUME NEW j \in Jobs, out[j] = "waiting"
        PROVE  (\E i \in DOMAIN queue : queue[i] = j) \/ (\E v \in Threads : jb[v] = j)
    <3>1. outcome[j] = "waiting" /\ j # job[w]
      BY <1>4, <2>3
    <3> QED
      BY <1>0, <1>4, <3>1 DEF PlaceInv, Placed
  <2>4. ASSUME NEW j \in Jobs, out[j] = "new"
        PROVE  (\A i \in DOMAIN queue : queue[i] # j) /\ (\A v \in Threads : jb[v] # j)
    <3>1. outcome[j] = "new"
      BY <1>4, <2>4
    <3> QED
      BY <1>0, <1>2, <1>4, <3>1 DEF PlaceInv, Placed
  <2> QED
    BY <2>2, <2>3, <2>4 DEF Placed
<1>6. Drainable(workers, pending, is, jb, queue, out, crashes, {}, {})
  BY <1>0, <1>1, <1>2, <1>4, <1>5 DEF Drainable, PoolTypeOK
<1>7. Sound(workers, is, jb, thread, posted, mail', late')
  BY <1>0, <1>2, <1>3, <1>4 DEF ThreadInv, Sound
<1>8. /\ outcome' \in [Jobs -> Outcomes] /\ retries' \in [Jobs -> 0..MaxRetries]
      /\ \A v \in Threads : mail[v] = "none" => mail'[v] = "none"
  BY <1>0, <1>1, <1>3, <1>4 DEF PoolTypeOK
<1> HIDE DEF is
<1>9. /\ destroyed' = destroyed /\ outcome' = out
      /\ Drain(workers, pending, is, jb, queue, out, crashes, {}, {})
      /\ mail' \in [Threads -> Jobs \cup {"none", "ready", "unopened"}] /\ late' \subseteq Threads
  BY <1>1, <1>3
<1> QED
  BY <1>0, <1>6, <1>7, <1>8, <1>9, HandlerKeeps

LEMMA OnGoneKeeps == ASSUME PoolInv, NEW w \in Threads, OnGone(w) PROVE PoolInv'
<1> DEFINE c     == crashes + 1
           j     == job[w]
           again == j # NoJob /\ retries[j] < MaxRetries
           ps    == pending \ {w}
           is    == idlers \ {w}
           jb    == [job EXCEPT ![w] = NoJob]
<1>0. PoolTypeOK /\ ThreadInv /\ PlaceInv /\ NoJob \notin Jobs /\ MaxRetries \in Nat
  BY QueryPoolAssumption DEF PoolInv
<1>1. /\ thread[w] = "dying" /\ w \in workers
      /\ destroyed' = destroyed /\ mail' = mail /\ late' = late
  BY DEF OnGone, Bury
<1>2. PICK extra \in {{}} \cup OneOf(Unused(workers)) :
        LET c2  == IF Healthy(c) /\ extra = {} THEN c + 1 ELSE c
            try == again /\ Healthy(c2)
            out == IF j # NoJob /\ ~try /\ Waiting(j)
                   THEN [outcome EXCEPT ![j] = "answered"] ELSE outcome
        IN /\ outcome' = out
           /\ retries' = IF try THEN [retries EXCEPT ![j] = @ + 1] ELSE retries
           /\ Drain(workers \ {w}, ps, is, jb, IF try THEN <<j>> \o queue ELSE queue,
                    out, c2, extra, {w})
  BY DEF OnGone, Bury
<1> DEFINE c2  == IF Healthy(c) /\ extra = {} THEN c + 1 ELSE c
           try == again /\ Healthy(c2)
           out == IF j # NoJob /\ ~try /\ Waiting(j)
                  THEN [outcome EXCEPT ![j] = "answered"] ELSE outcome
           q   == IF try THEN <<j>> \o queue ELSE queue
           th  == [v \in Threads |-> IF v \in {w} THEN "none" ELSE thread[v]]
<1>3. /\ outcome' = out /\ retries' = IF try THEN [retries EXCEPT ![j] = @ + 1] ELSE retries
      /\ Drain(workers \ {w}, ps, is, jb, q, out, c2, extra, {w})
  BY <1>2
<1>4. /\ jb \in [Threads -> Jobs \cup {NoJob}]
      /\ \A v \in Threads : jb[v] = IF v = w THEN NoJob ELSE job[v]
      /\ \A v \in Threads : th[v] = IF v \in {w} THEN "none" ELSE thread[v]
      /\ c2 \in Nat /\ ps \subseteq workers \ {w} /\ is \subseteq Threads \ {w} /\ is = idlers \ {w}
      /\ j \in Jobs \cup {NoJob}
  BY <1>0 DEF PoolTypeOK
<1>5. extra \subseteq Unused(workers) \ {w}
  BY <1>1 DEF OneOf, Unused
<1>6. try => j \in Jobs /\ retries[j] < MaxRetries
  BY <1>4
<1>7. /\ out \in [Jobs -> Outcomes]
      /\ \A x \in Jobs : out[x] = IF x = j /\ ~try /\ outcome[x] = "waiting" THEN "answered" ELSE outcome[x]
  <2> HIDE DEF try, j
  <2> QED
    BY <1>0, <1>4 DEF PoolTypeOK, Outcomes, Waiting
<1> HIDE DEF try, out, c2, is, ps, jb, th, j
<1>8. q \in Seq(Jobs)
  BY <1>0, <1>6 DEF PoolTypeOK
<1>9. Placed(q, jb, out)
  <2>1. \A u, v \in Threads : jb[u] # NoJob /\ jb[u] = jb[v] => u = v
    BY <1>0, <1>4 DEF PlaceInv, Placed
  <2>2. \A v \in Threads : jb[v] # NoJob => jb[v] # j
    BY <1>0, <1>4 DEF PlaceInv, Placed, j
  <2>3. \A i \in DOMAIN queue : queue[i] \in Jobs /\ queue[i] # j
    BY <1>0 DEF PoolTypeOK, PlaceInv, Placed, j
  <2>4. ASSUME NEW x \in Jobs, out[x] = "waiting"
        PROVE  \/ try /\ x = j
               \/ \E i \in DOMAIN queue : queue[i] = x
               \/ \E v \in Threads : jb[v] = x
    <3>1. outcome[x] = "waiting" /\ (x = j => try)
      BY <1>7, <2>4
    <3> QED
      BY <1>0, <1>4, <3>1 DEF PlaceInv, Placed, j
  <2>5. ASSUME NEW x \in Jobs, out[x] = "new"
        PROVE  (\A i \in DOMAIN queue : queue[i] # x) /\ (\A v \in Threads : jb[v] # x) /\ x # j
    <3>1. outcome[x] = "new"
      BY <1>7, <2>5
    <3> QED
      BY <1>0, <1>4, <3>1 DEF PlaceInv, Placed, j
  <2>6. CASE ~try
    <3>1. q = queue
      BY <2>6
    <3>2. /\ \A i, k \in DOMAIN queue : queue[i] = queue[k] => i = k
          /\ \A i \in DOMAIN queue, v \in Threads : queue[i] # jb[v]
      BY <1>0, <1>4, <2>3 DEF PlaceInv, Placed
    <3> HIDE DEF q
    <3> QED
      BY <2>1, <2>4, <2>5, <2>6, <3>1, <3>2 DEF Placed
  <2>7. CASE try
    <3>1. /\ Len(queue) \in Nat /\ DOMAIN queue = 1..Len(queue) /\ DOMAIN q = 1..(Len(queue) + 1)
          /\ q[1] = j /\ \A i \in DOMAIN queue : i + 1 \in DOMAIN q /\ q[i + 1] = queue[i]
      BY <1>0, <1>6, <2>7 DEF PoolTypeOK
    <3>2. ASSUME NEW i \in DOMAIN q
          PROVE  \/ i = 1 /\ q[i] = j
                 \/ i - 1 \in DOMAIN queue /\ q[i] = queue[i - 1] /\ i \in Nat
      <4>1. i = 1 \/ i - 1 \in 1..Len(queue)
        BY <3>1
      <4>2. i \in Nat /\ (i - 1) + 1 = i
        BY <3>1
      <4> HIDE DEF q
      <4> QED
        BY <3>1, <4>1, <4>2
    <3> HIDE DEF q
    <3>3. ASSUME NEW i \in DOMAIN q, NEW k \in DOMAIN q, q[i] = q[k] PROVE i = k
      <4>1. CASE i = 1
        BY <2>3, <3>1, <3>2, <3>3, <4>1
      <4>2. CASE i # 1 /\ k # 1
        <5>1. i - 1 = k - 1 /\ i \in Nat /\ k \in Nat
          BY <1>0, <3>2, <3>3, <4>2 DEF PlaceInv, Placed
        <5> QED
          BY <5>1
      <4>3. CASE i # 1 /\ k = 1
        BY <2>3, <3>1, <3>2, <3>3, <4>3
      <4> QED
        BY <4>1, <4>2, <4>3
    <3>4. \A i \in DOMAIN q, v \in Threads : q[i] # jb[v]
      <4>1. \A i \in DOMAIN queue, v \in Threads : queue[i] # jb[v]
        BY <1>0, <1>4, <2>3 DEF PlaceInv, Placed
      <4>2. \A v \in Threads : jb[v] # j
        BY <1>0, <1>6, <2>2, <2>7
      <4> QED
        BY <3>2, <4>1, <4>2
    <3>5. 1 \in DOMAIN q
      BY <3>1
    <3>6. \A x \in Jobs : out[x] = "waiting" => \/ \E i \in DOMAIN q : q[i] = x
                                                \/ \E v \in Threads : jb[v] = x
      BY <2>4, <3>1, <3>5
    <3>7. \A x \in Jobs : out[x] = "new" => /\ \A i \in DOMAIN q : q[i] # x
                                            /\ \A v \in Threads : jb[v] # x
      BY <2>5, <3>2
    <3> QED
      BY <2>1, <3>3, <3>4, <3>6, <3>7 DEF Placed
  <2> QED
    BY <2>6, <2>7
<1> HIDE DEF q
<1>10. Drainable(workers \ {w}, ps, is, jb, q, out, c2, extra, {w})
  BY <1>0, <1>4, <1>5, <1>8, <1>9 DEF Drainable
<1>11. Sound(workers \ {w}, is, jb, th, posted, mail, late)
  <2>1. posted[w] = NoJob
    BY <1>0, <1>1 DEF ThreadInv, Sound
  <2>2. w \notin is /\ is = idlers \ {w} /\ jb[w] = NoJob /\ th[w] = "none"
    BY <1>4
  <2>3. \A v \in Threads : v # w => /\ jb[v] = job[v] /\ th[v] = thread[v]
                                   /\ (v \in workers => v \in workers \ {w})
    BY <1>4
  <2> SUFFICES ASSUME NEW v \in Threads
      PROVE
        /\ v \in is => /\ jb[v] = NoJob /\ posted[v] = NoJob /\ mail[v] = "none"
                       /\ th[v] # "starting" /\ v \in (workers \ {w}) \cup late
        /\ mail[v] \in {"ready", "unopened"} => jb[v] = NoJob /\ posted[v] = NoJob
        /\ mail[v] \in Jobs => jb[v] \in {NoJob, mail[v]} /\ posted[v] = NoJob
        /\ posted[v] # NoJob => th[v] = "serving" /\ jb[v] = posted[v]
        /\ th[v] = "starting" => jb[v] = NoJob /\ mail[v] = "none"
        /\ jb[v] # NoJob => v \in (workers \ {w}) \cup late
        /\ v \in workers \ {w} => /\ th[v] # "none"
                                  /\ \/ v \in is \/ th[v] \in {"starting", "dying"}
                                     \/ posted[v] # NoJob \/ mail[v] # "none"
    BY DEF Sound
  <2>4. CASE v = w
    BY <2>1, <2>2, <2>4
  <2>5. CASE v # w
    <3>1. /\ v \in idlers => /\ job[v] = NoJob /\ posted[v] = NoJob /\ mail[v] = "none"
                            /\ thread[v] # "starting" /\ v \in workers \cup late
          /\ mail[v] \in {"ready", "unopened"} => job[v] = NoJob /\ posted[v] = NoJob
          /\ mail[v] \in Jobs => job[v] \in {NoJob, mail[v]} /\ posted[v] = NoJob
          /\ posted[v] # NoJob => thread[v] = "serving" /\ job[v] = posted[v]
          /\ thread[v] = "starting" => job[v] = NoJob /\ mail[v] = "none"
          /\ job[v] # NoJob => v \in workers \cup late
          /\ v \in workers => /\ thread[v] # "none"
                              /\ \/ v \in idlers \/ thread[v] \in {"starting", "dying"}
                                 \/ posted[v] # NoJob \/ mail[v] # "none"
      BY <1>0 DEF ThreadInv, Sound
    <3>2. /\ jb[v] = job[v] /\ th[v] = thread[v] /\ (v \in is <=> v \in idlers)
          /\ (v \in workers => v \in workers \ {w})
      BY <2>2, <2>3, <2>5
    <3>3. v \in is => /\ jb[v] = NoJob /\ posted[v] = NoJob /\ mail[v] = "none"
                      /\ th[v] # "starting" /\ v \in (workers \ {w}) \cup late
      BY <3>1, <3>2
    <3>4. /\ mail[v] \in {"ready", "unopened"} => jb[v] = NoJob /\ posted[v] = NoJob
          /\ mail[v] \in Jobs => jb[v] \in {NoJob, mail[v]} /\ posted[v] = NoJob
      BY <3>1, <3>2
    <3>5. /\ posted[v] # NoJob => th[v] = "serving" /\ jb[v] = posted[v]
          /\ th[v] = "starting" => jb[v] = NoJob /\ mail[v] = "none"
          /\ jb[v] # NoJob => v \in (workers \ {w}) \cup late
      BY <3>1, <3>2
    <3>6. v \in workers \ {w} => /\ th[v] # "none"
                                 /\ \/ v \in is \/ th[v] \in {"starting", "dying"}
                                    \/ posted[v] # NoJob \/ mail[v] # "none"
      BY <3>1, <3>2
    <3> QED
      BY <3>3, <3>4, <3>5, <3>6
  <2> QED
    BY <2>4, <2>5
<1>12. retries' \in [Jobs -> 0..MaxRetries]
  <2>1. CASE try
    <3>1. j \in Jobs /\ retries[j] + 1 \in 0..MaxRetries /\ retries' = [retries EXCEPT ![j] = retries[j] + 1]
      BY <1>0, <1>3, <1>6, <2>1 DEF PoolTypeOK
    <3> QED
      BY <1>0, <3>1 DEF PoolTypeOK
  <2>2. CASE ~try
    BY <1>0, <1>3, <2>2 DEF PoolTypeOK
  <2> QED
    BY <2>1, <2>2
<1>13. /\ outcome' = out /\ outcome' \in [Jobs -> Outcomes]
       /\ \A v \in Threads : mail[v] = "none" => mail'[v] = "none"
       /\ mail' \in [Threads -> Jobs \cup {"none", "ready", "unopened"}] /\ late' \subseteq Threads
       /\ Sound(workers \ {w}, is, jb, th, posted, mail', late')
       /\ Drain(workers \ {w}, ps, is, jb, q, out, c2, extra, {w}) /\ destroyed' = destroyed
       /\ \A v \in Threads : th[v] = IF v \in {w} THEN "none" ELSE thread[v]
  BY <1>0, <1>1, <1>3, <1>4, <1>7, <1>11 DEF PoolTypeOK
<1> QED
  BY <1>0, <1>10, <1>12, <1>13, HandlerKeeps

LEMMA PoolInitInv == PoolInit => PoolInv
<1> SUFFICES ASSUME PoolInit PROVE PoolInv
  OBVIOUS
<1>1. PICK S \in {{}} \cup OneOf(Threads) :
        /\ workers = S /\ pending = S /\ crashes = 1 - Cardinality(S)
        /\ thread = [w \in Threads |-> IF w \in S THEN "starting" ELSE "none"]
  BY DEF PoolInit
<1>2. S \subseteq Threads /\ Cardinality(S) \in {0, 1}
  <2>1. S = {} \/ (Threads # {} /\ S = {CHOOSE w \in Threads : TRUE})
    BY DEF OneOf
  <2>2. S = {} \/ \E w \in Threads : S = {w}
    BY <2>1
  <2> QED
    BY <2>2, FS_EmptySet, FS_Singleton
<1>3. /\ idlers = {} /\ queue = <<>> /\ destroyed = FALSE /\ late = {}
      /\ job = [w \in Threads |-> NoJob] /\ posted = [w \in Threads |-> NoJob]
      /\ mail = [w \in Threads |-> "none"]
      /\ outcome = [j \in Jobs |-> "new"] /\ retries = [j \in Jobs |-> 0]
  BY DEF PoolInit
<1>4. NoJob \notin Jobs /\ "none" \notin Jobs /\ MaxRetries \in Nat
  BY QueryPoolAssumption
<1>5. PoolTypeOK
  <2>1. workers \subseteq Threads /\ pending \subseteq workers /\ crashes \in Nat
    BY <1>1, <1>2
  <2>2. thread \in [Threads -> {"none", "starting", "serving", "dying"}]
    BY <1>1
  <2>3. queue \in Seq(Jobs) /\ idlers \subseteq Threads /\ late \subseteq Threads
    BY <1>3
  <2>4. /\ job \in [Threads -> Jobs \cup {NoJob}] /\ posted \in [Threads -> Jobs \cup {NoJob}]
        /\ mail \in [Threads -> Jobs \cup {"none", "ready", "unopened"}]
        /\ outcome \in [Jobs -> Outcomes] /\ retries \in [Jobs -> 0..MaxRetries]
    BY <1>3, <1>4 DEF Outcomes
  <2> QED
    BY <1>3, <2>1, <2>2, <2>3, <2>4 DEF PoolTypeOK
<1>6. ThreadInv
  <2>1. \A w \in Threads : job[w] = NoJob /\ posted[w] = NoJob /\ mail[w] = "none"
    BY <1>3
  <2>2. workers = S /\ \A w \in Threads : w \in S => thread[w] = "starting"
    BY <1>1
  <2> QED
    BY <1>3, <1>4, <2>1, <2>2 DEF ThreadInv, Sound
<1>7. PlaceInv
  BY <1>3, <1>4 DEF PlaceInv, Placed
<1>8. WaitersHaveWorkers
  BY <1>3 DEF WaitersHaveWorkers, Unanswered
<1> QED
  BY <1>5, <1>6, <1>7, <1>8 DEF PoolInv

LEMMA PoolNextInv == PoolInv /\ [PoolNext]_poolVars => PoolInv'
<1> SUFFICES ASSUME PoolInv, [PoolNext]_poolVars PROVE PoolInv'
  OBVIOUS
<1>1. ASSUME NEW j \in Jobs, Run(j) PROVE PoolInv'
  BY <1>1, RunKeeps
<1>2. ASSUME NEW j \in Jobs, SoftTimeout(j) PROVE PoolInv'
  BY <1>2, SoftTimeoutKeeps
<1>3. ASSUME NEW w \in Threads, OpenDatabase(w) PROVE PoolInv'
  BY <1>3, OpenDatabaseKeeps
<1>4. ASSUME NEW w \in Threads, Serve(w) PROVE PoolInv'
  BY <1>4, ServeKeeps
<1>5. ASSUME NEW w \in Threads, Crash(w) PROVE PoolInv'
  BY <1>5, CrashKeeps
<1>6. ASSUME NEW w \in Threads, OnReady(w) PROVE PoolInv'
  BY <1>6, OnReadyKeeps
<1>7. ASSUME NEW w \in Threads, OnResult(w) PROVE PoolInv'
  BY <1>7, OnResultKeeps
<1>8. ASSUME NEW w \in Threads, OnGone(w) PROVE PoolInv'
  BY <1>8, OnGoneKeeps
<1>9. CASE Destroy
  BY <1>9, DestroyKeeps
<1>10. CASE UNCHANGED poolVars
  <2>1. UNCHANGED <<pool, late, thread, posted, mail>>
    BY <1>10 DEF poolVars
  <2>2. ThreadInv'
    BY <2>1 DEF PoolInv, ThreadInv, Sound, pool
  <2> QED
    BY <2>1, <2>2, ThreadKeeps DEF PoolInv, PoolTypeOK
<1> QED
  BY <1>1, <1>2, <1>3, <1>4, <1>5, <1>6, <1>7, <1>8, <1>9, <1>10 DEF PoolNext

LEMMA PoolIsSound == PoolSpec => []PoolInv
<1>1. PoolInit => PoolInv
  BY PoolInitInv
<1>2. PoolInv /\ [PoolNext]_poolVars => PoolInv'
  BY PoolNextInv
<1> QED
  BY <1>1, <1>2, PTL DEF PoolSpec

(* A worker's message is the answer to its own call or comes too late for    *)
(* any (query-pool.ts, onMessage(), which does not look at the result's id). *)
THEOREM AnswersAreTheirOwn == PoolSpec => []AnswerIsItsOwn
<1>1. PoolInv => AnswerIsItsOwn
  BY DEF PoolInv, ThreadInv, Sound, AnswerIsItsOwn
<1> QED
  BY <1>1, PoolIsSound, PTL

(* At most one place holds a call.                                          *)
LEMMA OneAtMost ==
  ASSUME NEW S, \A x, y \in S : x = y
  PROVE  Cardinality(S) = IF S = {} THEN 0 ELSE 1
<1>1. CASE S = {}
  BY <1>1, FS_EmptySet
<1>2. CASE S # {}
  <2>1. PICK x : S = {x}
    BY <1>2
  <2> QED
    BY <2>1, FS_Singleton
<1> QED
  BY <1>1, <1>2

LEMMA OnePlace == PoolInv => EveryCallInOnePlace
<1> SUFFICES ASSUME PoolInv, NEW j \in Jobs, Waiting(j)
    PROVE  Cardinality({i \in DOMAIN queue : queue[i] = j})
           + Cardinality({w \in Threads : job[w] = j}) = 1
  BY DEF EveryCallInOnePlace
<1> DEFINE Q == {i \in DOMAIN queue : queue[i] = j}
           W == {w \in Threads : job[w] = j}
<1>1. NoJob \notin Jobs
  BY QueryPoolAssumption
<1>2. /\ \A x, y \in Q : x = y
      /\ \A x, y \in W : x = y
      /\ Q = {} \/ W = {}
      /\ Q # {} \/ W # {}
  BY <1>1 DEF PoolInv, PlaceInv, Placed, Waiting
<1> HIDE DEF Q, W
<1>3. /\ Cardinality(Q) = IF Q = {} THEN 0 ELSE 1
      /\ Cardinality(W) = IF W = {} THEN 0 ELSE 1
  BY <1>2, OneAtMost
<1>4. Cardinality(Q) + Cardinality(W) = 1
  BY <1>2, <1>3
<1> QED
  BY <1>4 DEF Q, W

(* However threads die, fail to open the database or answer late: a call     *)
(* without an answer is in the queue or with one worker, one is there to     *)
(* serve it while the pool is healthy, and none is handed to a dead thread   *)
(* but by that thread's own late message (query-pool.ts, drain() and          *)
(* onWorkerGone()).                                                         *)
THEOREM CallsStayAccounted == PoolSpec => []CallsAccounted
<1>1. PoolInv => CallsAccounted
  <2>1. PoolInv => HandedToTheLiving
    BY DEF PoolInv, ThreadInv, Sound, HandedToTheLiving
  <2> QED
    BY <2>1, OnePlace DEF PoolInv, CallsAccounted
<1> QED
  BY <1>1, PoolIsSound, PTL

(* However threads die, fail to open or answer late, and wherever the soft    *)
(* timers are: a call that waits has a worker of the pool under way to it,    *)
(* but for the calls that the end of the budget leaves in the queue and those *)
(* a late message gives to a dead thread (query-pool.ts, drain()).            *)
THEOREM NoneIsStranded == PoolSpec => []NoCallIsStranded
<1>1. ASSUME PoolInv PROVE NoCallIsStranded
  <2>1. /\ ThreadInv /\ WaitersHaveWorkers /\ workers \subseteq Threads /\ NoJob \notin Jobs
        /\ Placed(queue, job, outcome)
    BY <1>1, QueryPoolAssumption DEF PoolInv, PoolTypeOK, PlaceInv
  <2> SUFFICES ASSUME NEW j \in Jobs, outcome[j] = "waiting"
               PROVE  \/ \E w \in workers : Moving(w) /\ (job[w] = j \/ j \in Range(queue))
                      \/ j \in Range(queue) /\ ~Healthy(crashes)
                      \/ \E w \in late : job[w] = j
    BY DEF NoCallIsStranded, Waiting
  <2>2. \A w \in workers : w \notin idlers => Moving(w)
    BY <2>1 DEF ThreadInv, Sound, Moving
  <2>3. CASE \E w \in Threads : job[w] = j
    <3>1. PICK w \in Threads : job[w] = j
      BY <2>3
    <3>2. w \in workers \cup late /\ w \notin idlers
      BY <2>1, <3>1 DEF ThreadInv, Sound
    <3> QED
      BY <2>2, <3>1, <3>2
  <2>4. CASE \E i \in DOMAIN queue : queue[i] = j
    <3>1. j \in Range(queue) /\ Unanswered(queue, outcome) # {}
      BY <2>4 DEF Range, Unanswered
    <3>2. Healthy(crashes) => workers # {} /\ idlers = {}
      BY <2>1, <3>1 DEF WaitersHaveWorkers
    <3> QED
      BY <2>2, <3>1, <3>2
  <2> QED
    BY <2>1, <2>3, <2>4 DEF Placed
<1> QED
  BY <1>1, PoolIsSound, PTL
=============================================================================
