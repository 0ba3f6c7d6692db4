CONSTANTS
  Pupil = {1, 2, 3}
  Evaluation = {"essay", "test"}
  Subject = {"french", "maths"}
  exam <- Exams
  coefficient <- Coefficients
  trimester = 3
  earlier <- Before
  Day = {"monday"}
  Sheets <- ThreeSheets
  Calls <- TwoCalls
  Rulings <- OneRuling
  Unset = Unset
  MaxServed = 4
SPECIFICATION CouncilSpec
CHECK_DEADLOCK FALSE
INVARIANT AbsenceIsAZero
