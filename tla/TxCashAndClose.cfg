CONSTANTS
  Cashiers = {"awa"}
  MaxDay = 1
  BatchLimit = 9
  None = None
  Enrollments = {"traore"}
  FeeCount = 2
  EnrollmentOf <- MCEnrollmentOf
  Nominal <- MCNominal
  AcceptsInKind = {1, 2}
  Methods = {"cash"}
  Keys = {}
  Amounts = {1, 2, 3}
  Counts = {0, 2}
  MaxPayments = 3
  WithPending = FALSE
  Tx = {t1, t2}
  Requests <- CashAndClose
  MaxRequests = 3
SPECIFICATION TxSpec
CHECK_DEADLOCK FALSE
SYMMETRY Symmetric
INVARIANTS
  NothingTakenOnALockedDay
