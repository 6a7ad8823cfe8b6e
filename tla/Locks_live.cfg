SPECIFICATION BothSpec
CONSTANTS
  Procs = {q1, q2}
  Absent = absent
  Garbage = garbage
  MaxTries = 2
  MaxKills = 1
  MaxStops = 1
  a = a
  b = b
  c = c
  p1 = p1
  p2 = p2
  p3 = p3
  Inst = {a, b, c}
  PidOf <- Homes
  NoPid = NoPid
  MayAge = TRUE
  MayCrash = TRUE
CHECK_DEADLOCK FALSE
INVARIANTS HoldersExclude
PROPERTIES SettledDaemonKeepsAll ServedAgain SettledIsStable DeadLockRecovered
