CONSTANTS
  Cashiers = {awa}
  MaxDay = 1
  BatchLimit = 1
  None = None
  Enrollments = {"traore"}
  FeeCount = 2
  EnrollmentOf <- MCEnrollmentOf2
  Nominal <- MCNominal2
  AcceptsInKind = {1, 2}
  Methods = {"transfer"}
  Keys = {}
  Amounts = {1, 2}
  Counts = {0}
  MaxPayments = 2
  WithPending = FALSE
SPECIFICATION Spec
CHECK_DEADLOCK FALSE
PROPERTIES
  DepositUndoneOnlyByCancel
