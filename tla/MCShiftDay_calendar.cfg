SPECIFICATION LiveSpec
CONSTANTS
  Day = 16
  Lead = 1
  Grace = 2
  Span = 4
  Unset = Unset
  first = first
  second = second
  Shifts = {first, second}
  Dates = 2
  Installations <- Calendars
  Horizon = 38
  NoRow = NoRow
INVARIANTS DepartureInItsHours CanStillLeave
PROPERTIES OutcomeMovesForward EverySlotSettles
CHECK_DEADLOCK FALSE
