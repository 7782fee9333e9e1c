SPECIFICATION Spec
CONSTANTS
  Members = {ada, bea}
  Checks = {c1}
  Txns = {t1, t2}
  Days = 2
  Idle = Idle
  NoCheck = NoCheck
  Gone = Gone
SYMMETRY Interchangeable
INVARIANTS DecidedAfterDeadline
PROPERTY ConfirmedIsKept
CHECK_DEADLOCK FALSE
