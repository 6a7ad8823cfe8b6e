CONSTANTS
  f1 = f1
  f2 = f2
  Files = {f1, f2}
  MaxLockRetries = 1
  CoarseClock = FALSE
  CacheSize = 1
SPECIFICATION ToolSpec
SYMMETRY Symmetry
PROPERTIES AnswersWarn
