CONSTANTS
  caller = caller
  callee = callee
  p = p
  q = q
  m = m
  Files = {caller, callee}
  Names = {p, q, m}
  Lines = {1, 2}
  Versions <- FileVersions
  Gone = Gone
  NoSymbol = NoSymbol
  Aliased = {q}
  Late = {m}
  BatchSize = 2
  MaxEdits = 2
SPECIFICATION LiveSpec
INVARIANTS EdgesAreBacked RowsAccounted
PROPERTIES CallersKeepTheirEdges OperationEnds
