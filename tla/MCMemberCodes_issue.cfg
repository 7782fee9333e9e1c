SPECIFICATION Spec
CONSTANTS
  Txns = {x1, x2}
  People = {ada, bea}
  Groups = {g1, g2}
  Cohorts = {y1, y2}
  MaxSerial = 3
  Attempts = 2
  NoMember = NoMember
  NoCode = NoCode
  NoCohort = NoCohort
  Untouched = Untouched
  Idle = Idle
SYMMETRY Interchangeable
INVARIANTS CodesAreDistinct EveryRetryHasARival CodeFollowsCohort
PROPERTY PrintedCodeStands
