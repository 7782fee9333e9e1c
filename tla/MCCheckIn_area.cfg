SPECIFICATION PageSpec
CONSTANTS
  Runs = {r1}
  Rulebook <- SomeRules
  Branches <- SomeBranches
  Positions <- SomePositions
  NullIsland <- Nowhere
  Edits = 0
  Slack = 1
  Far = 50
  Idle = Idle
PROPERTY OutOfRangeIsOutside
CHECK_DEADLOCK FALSE
