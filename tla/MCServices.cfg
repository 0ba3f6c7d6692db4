CONSTANTS
  Request = {r1, r2}
  Revoker = {v1}
  Facts = {f1, f2}
  Expires = TRUE
  StaleAfter = 1
  Validity = 1
  MaxRevision = 3
  MaxClock = 1
  None = None
  Phone = {p1, p2}
  Screen = {o1, o2}
  File = {g1, g2}
  TTL = 2
  MAX_RETAKES = 1
  Drift = 2
  MaxUpload = 1
  MaxNow = 9
  Nothing = Nothing
  Student = {1, 2}
  Class = {a, b}
  Worker = {w1, w2}
  max_students <- Places
  FreeClass = {b}
  MaxRequests = 3
  MaxRows = 2
  Dossier = {e1}
  Category = {"inscription", "option"}
  Mandatory = {"inscription"}
  InKind = {"inscription"}
  Variant = {"base", "nouveau", "affecte", "cantine"}
  tariff <- Tariffs
  Scope = {"A"}
  Profile = {"N"}
  Series = {}
  Amount = {1, 2}
  NotSet = NotSet
  MaxOps = 3
  Group = {"a", "b"}
  Teacher = {"maths", "arts"}
  Room = {"lab"}
  hours <- Owed
  home <- Homes
  Clerk = {k1, k2}
  LastHour = 2
  Everyone = Everyone
  NoRoom = NoRoom
  Nobody = Nobody
  MaxEdits = 3
  Pupil = {1, 2, 3}
  Evaluation = {"essay", "test"}
  Subject = {"french", "maths"}
  exam <- Exams
  coefficient <- Coefficients
  trimester = 3
  earlier <- Before
  Day = {"monday"}
  Sheets <- ThreeSheets
  Calls <- TwoCalls
  Rulings <- OneRuling
  Unset = Unset
  MaxServed = 4
SPECIFICATION Spec
CHECK_DEADLOCK FALSE
INVARIANTS
  ServicesTypeOK
  HandedOutIsSealed
  RecordedOnce
  PreviewAddsUp
  ClashesComeFromThePast
  BreaksStandButForThePast
  PapersAgree
PROPERTIES
  VerdictsAreFinal
  ImplementsPublication
  SweepSparesTheScreen
  NoPhotoStaysStaged
  OverfullOnlyByOverlap
  PaidDossierStays
  ValidatedOnlyPaid
  PromotionsEnd
  MoneyKeepsItsLine
  BilledAsEnrolled
