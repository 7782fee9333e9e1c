SPECIFICATION PageSpec
CONSTANTS
  Runs = {r1, r2}
  Rulebook <- SomeRules
  Branches <- SomeBranches
  Positions <- SomePositions
  NullIsland <- Nowhere
  Edits = 1
  Slack = 1
  Far = 50
  Idle = Idle
CONSTRAINT Focus
SYMMETRY Interchangeable
PROPERTIES LetInAsEntitled FreshPageIsNotRefused
CHECK_DEADLOCK FALSE
