SPECIFICATION LiveSpec
CONSTANTS
  Day = 7
  Lead = 1
  Grace = 2
  Span = 4
  Unset = Unset
  first = first
  second = second
  Shifts = {first, second}
  Dates = 2
  Installations <- AllDays
  Horizon = 21
  NoRow = NoRow
INVARIANTS ArrivalInItsHours LateIsAfterTheBoundary ImportAgrees PickerMatchesServer DepartureInItsHours CanStillLeave
PROPERTIES LeftOnlyAfterHours OutcomeMovesForward EverySlotSettles
CHECK_DEADLOCK FALSE
