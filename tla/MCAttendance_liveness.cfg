SPECIFICATION LiveSpec
CONSTANTS
  Txns = {t1, t2}
  Members = {m1}
  Shifts = {morning, night}
  NullKeys = {loose1, loose2}
  m1 = m1
  morning = morning
  night = night
  loose1 = loose1
  loose2 = loose2
  Slots <- OneDay
  Instants = {1}
  Handlers = {"check_in", "import", "roster_delete", "manual_clear"}
  NoRow = NoRow
  Clean = Clean
  NoSlot = NoSlot
PROPERTIES EveryRequestEnds
CHECK_DEADLOCK FALSE
