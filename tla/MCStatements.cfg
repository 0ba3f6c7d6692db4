CONSTANTS
  Cashiers = {awa}
  MaxDay = 1
  BatchLimit = 1
  None = None
  Enrollments = {"traore", "kone"}
  FeeCount = 3
  EnrollmentOf <- MCEnrollmentOf
  Nominal <- MCNominal
  AcceptsInKind = {2}
  Methods = {"cash", "transfer"}
  Keys = {}
  Amounts = {1, 2}
  Counts = {}
  MaxPayments = 2
  WithPending = TRUE
  CategoryOf <- MCCategoryOf
  Mandatory = {"inscription", "scolarite"}
  Grids <- MCGrids
  Plans <- MCPlans
SPECIFICATION StatementsSpec
CHECK_DEADLOCK FALSE
INVARIANTS
  TypeOK
  LinesCoverPayment
  StatusTellsWhatIsPaid
  NoMoneyOffTheCircuit
  LateIsOwed
  OneDebt
  OneTill
PROPERTIES
  OnlyValidationOverpays
