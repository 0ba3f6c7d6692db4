CONSTANTS
  Lines = 3
  MaxDue = 2
  MaxPaid = 2
  MaxGiven = 5
SPECIFICATION Spec
CHECK_DEADLOCK FALSE
INVARIANTS
  RecordsExactlyTheFeasible
  SplitsByPriority
  PreviewTellsTheTruth
PROPERTIES
  AnnouncedIsWritten
