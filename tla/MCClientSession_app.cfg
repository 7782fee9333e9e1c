SPECIFICATION LiveSpec
CONSTANTS
  Requests = {r1, r2}
  Tokens = {k1, k2, k3}
  None = None
INVARIANTS ReplayNeedsALostAnswer SignedOutCannotRenew
PROPERTY EveryCallerIsAnswered
CHECK_DEADLOCK FALSE
