CONSTANTS
  f1 = f1
  f2 = f2
  c1 = c1
  c2 = c2
  bad = bad
  Files = {f1, f2}
  Contents = {c1, c2, bad}
  Unparsable = {bad}
  NoContent = NoContent
  NoFile = NoFile
  MaxStat <- Writes
  root = root
  a = a
  b = b
  c = c
  Root = root
  Dirs = {root, a, b, c}
  FileDirs = {a, b, c}
  Parent <- ParentOf
  DirCap = 3
  MayFail = TRUE
  DirsReappear = FALSE
SPECIFICATION BothSpec
SYMMETRY Symmetry
CHECK_DEADLOCK FALSE
INVARIANTS TreeIsSound EditsAreDetectable StoredIsRecorded
PROPERTIES QuietSyncIsExact
