CONSTANTS
  Cashiers = {awa, koffi}
  MaxDay = 2
  BatchLimit = 1
  None = None
  Amounts = {1, 2}
  Counts = {0, 2}
  Totals = {0, 1, 2}
SPECIFICATION FairSpec
INVARIANTS
  NothingTakenOnALockedDay
  VarianceIsCounted
PROPERTIES
  SignedStands
  LateDaysGetLocked
CHECK_DEADLOCK FALSE
