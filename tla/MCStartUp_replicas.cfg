CONSTANTS
  Replicas = {a, b}
  Images = {2}
  JobNames = {"qr", "left"}
  Passwords = {p, q}
  None = None
  PoolSize = 2
  MaxRequests = 1
SPECIFICATION MCSpec
INVARIANTS ServesMigrated ShownPasswordOpens TwiceOnlyWhenTorn
PROPERTY EveryWaitEnds
