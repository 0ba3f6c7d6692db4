CONSTANTS
  Cashiers = {"awa"}
  MaxDay = 2
  BatchLimit = 9
  None = None
  Enrollments = {"traore"}
  FeeCount = 2
  EnrollmentOf <- MCEnrollmentOf
  Nominal <- MCNominal
  AcceptsInKind = {1, 2}
  Methods = {"cash", "transfer"}
  Keys = {"k1"}
  Amounts = {1, 2}
  Counts = {0, 2}
  MaxPayments = 2
  WithPending = TRUE
  Tx = {t1, t2}
  Requests <- EveryRequest
  MaxRequests = 3
SPECIFICATION FairTxSpec
CHECK_DEADLOCK FALSE
INVARIANTS
  OnePaymentPerKey
PROPERTIES
  HistoryIsKept
  LockedRowsStand
  OnlyThePastDeparts
  OnlyAStaleMoveUnbalances
  EveryRequestEnds
