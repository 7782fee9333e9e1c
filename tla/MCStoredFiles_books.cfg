CONSTANTS
  Requests = {r1, r2, r3}
  FacePaths = {f1, f2}
  ProbePaths = {c1}
  SentPaths = {NoPath, c1}
  NoPath = NoPath
  Faults = {"save", "check", "reset", "delete", "file"}
SPECIFICATION BooksSpec
CONSTRAINT Focus
SYMMETRY Interchangeable
INVARIANT PointsAtARow
PROPERTY AloneLeavesItStraight
