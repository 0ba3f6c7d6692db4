CONSTANTS
  Cashiers = {awa, koffi}
  MaxDay = 2
  BatchLimit = 1
  None = None
  Enrollments = {"traore"}
  FeeCount = 2
  EnrollmentOf <- MCEnrollmentOf2
  Nominal <- MCNominal1
  AcceptsInKind = {2}
  Methods = {"cash", "transfer"}
  Keys = {}
  Amounts = {1}
  Counts = {0}
  MaxPayments = 2
  WithPending = TRUE
SPECIFICATION Spec
CHECK_DEADLOCK FALSE
SYMMETRY Symmetric
PROPERTIES
  ImplementsTill
