CONSTANTS
  a = a
  b = b
  p1 = p1
  p2 = p2
  c1 = c1
  c2 = c2
  c3 = c3
  c4 = c4
  Inst = {a, b}
  PidOf <- Homes
  NoPid = NoPid
  MayAge = TRUE
  MayCrash = TRUE
  Calls = {c1, c2, c3, c4}
  Owner <- Owners
  OpOf <- Mixed
  Files = {f1, f2}
  MaxLockRetries = 1
  CoarseClock = FALSE
SPECIFICATION BothSpec
CHECK_DEADLOCK FALSE
INVARIANTS GateIsSound WatcherIsSound
PROPERTIES WriterKeepsFile CallsReturn KeepsPromise CatchesUp
