CONSTANTS
  Sessions = {s1, s2}
  MaxOpens = 2
  MaxFails = 2
  j1 = j1
  j2 = j2
  Threads = {1, 2, 3}
  Jobs = {j1, j2}
  NoJob = NoJob
  Size = 2
  MaxSpawn = 1
  Budget = 3
  MaxRetries = 1
SPECIFICATION EitherSpec
CHECK_DEADLOCK FALSE
INVARIANTS ClientsAreServed CallsPassTheGate AnswerIsItsOwn CallsAccounted NoCallIsStranded
PROPERTIES DesertedDaemonStops CallsAnswered
