CONSTANTS
  Procs = {p1, p2}
  Lines = {l1, l2}
  Events = {l1}
  MaxHours = 1
SPECIFICATION Spec
SYMMETRY Same
CHECK_DEADLOCK FALSE
INVARIANTS SentOnce QueueIsSound
