SPECIFICATION Spec
CONSTANTS
  Requests = {r1, r2}
  Tokens = {k1, k2, k3}
  None = None
PROPERTY OutageKeepsTheSession
CHECK_DEADLOCK FALSE
