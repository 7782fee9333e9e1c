SPECIFICATION SpecAlone
CONSTANTS
  Txns = {t1, t2}
  Members = {m1}
  Shifts = {morning, night}
  NullKeys = {loose1, loose2}
  m1 = m1
  morning = morning
  night = night
  loose1 = loose1
  loose2 = loose2
  Slots <- OneDay
  Instants = {1}
  Handlers = {"check_in", "check_out", "manual_set", "manual_clear", "import", "roster_add", "roster_delete", "roster_bulk", "resolve", "sweep", "audit_failure", "abort"}
  NoRow = NoRow
  Clean = Clean
  NoSlot = NoSlot
VIEW Seen
SYMMETRY Interchangeable
INVARIANTS NoArrivalMeansAbsent
PROPERTIES ScreensAgree FirstArrivalStands AuditedArrivalIsReal DeparturesKeepArrivals OrphansAreByHand
CHECK_DEADLOCK FALSE
