SPECIFICATION SpecOwing
CONSTANTS
  Txns = {x1, x2}
  Tokens = {k1, k2, k3}
  Profiles = {ada}
  NoToken = NoToken
  Idle = Idle
SYMMETRY Connections
INVARIANTS OneLiveTokenPerFamily NoSessionWithoutAccount
PROPERTIES RefusalEndsTheFamily
CHECK_DEADLOCK FALSE
