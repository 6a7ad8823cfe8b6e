CONSTANTS
  Initialize = init
  Calls = {c1, c2}
  Probes = {ping}
  Locals = {list}
  Notes = {note}
  MaxPolls = 1
SPECIFICATION LiveSpec
CHECK_DEADLOCK FALSE
INVARIANTS RequestsAccounted
PROPERTIES KeepsReplyPromise EveryRequestAnswered
