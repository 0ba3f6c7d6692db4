CONSTANTS
  Student = {1, 2}
  Class = {a, b}
  Worker = {w1}
  max_students <- Places
  FreeClass = {b}
  MaxRequests = 3
  MaxRows = 2
SPECIFICATION NewYearSpec
CHECK_DEADLOCK FALSE
INVARIANT HiddenHoldsNoMoney
