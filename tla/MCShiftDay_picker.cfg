SPECIFICATION Spec
CONSTANTS
  Day = 7
  Lead = 1
  Grace = 2
  Span = 4
  Unset = Unset
  first = first
  second = second
  Shifts = {first, second}
  Dates = 2
  Installations <- Defaulted
  Horizon = 14
  NoRow = NoRow
INVARIANTS PickerMatchesServer
CHECK_DEADLOCK FALSE
