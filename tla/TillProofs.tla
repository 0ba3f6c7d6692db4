----------------------------- MODULE TillProofs -----------------------------
(***************************************************************************)
(* What the drawers promise, for any number of cashiers, days and amounts.  *)
(*                                                                         *)
(* The four invariants of Till are proved together: each needs the others    *)
(* (the variance of a regularization is a number because a day closed from   *)
(* office has an expected amount), and their conjunction is inductive.       *)
(***************************************************************************)
EXTENDS Till, TLAPS

IInv == TypeOK /\ CashHasASession /\ NothingTakenOnALockedDay /\ VarianceIsCounted

USE CashDayAssumption, TillAssumption

LEMMA Initially == Init => IInv
  BY DEF Init, CashDayInit, IInv, TypeOK, CashDayTypeOK, CashHasASession,
         NothingTakenOnALockedDay, VarianceIsCounted, NoSession, CashSession,
         CashSessionStatus, LOCKED_STATUSES, is_locked, Days

\* A step that only changes the row of one cashier and day, and leaves the money alone.
LEMMA OneRow ==
  ASSUME IInv, UNCHANGED <<today, takings>>,
         NEW c \in Cashiers, NEW d \in Days, NEW row \in CashSession,
         session' = [session EXCEPT ![c][d] = row],
         takings[c][d] > 0 => row.status # "none",
         is_locked(row) => row.expected # None /\ takings[c][d] <= row.expected,
         (row.status = "closed") <=> (row.counted # None),
         row.variance = IF row.counted = None THEN None ELSE row.counted - row.expected,
         row.regularized => row.status = "closed"
  PROVE  IInv'
<1> USE DEF IInv, TypeOK, CashDayTypeOK
<1>1. \A x \in Cashiers, y \in Days :
        session'[x][y] = IF x = c /\ y = d THEN row ELSE session[x][y]
  OBVIOUS
<1>2. TypeOK'
  <2>1. session' \in [Cashiers -> [Days -> CashSession]]
    OBVIOUS
  <2> QED BY <2>1
<1>3. CashHasASession'
  BY <1>1 DEF CashHasASession
<1>4. NothingTakenOnALockedDay'
  BY <1>1 DEF NothingTakenOnALockedDay, is_locked
<1>5. VarianceIsCounted'
  BY <1>1 DEF VarianceIsCounted
<1> QED
  BY <1>2, <1>3, <1>4, <1>5

\* A step that leaves the rows alone and takes money out of a drawer.
LEMMA LessMoney ==
  ASSUME IInv, UNCHANGED <<today, session>>,
         NEW c \in Cashiers, NEW d \in Days, NEW a \in Amounts, a <= takings[c][d],
         takings' = [takings EXCEPT ![c][d] = @ - a]
  PROVE  IInv'
<1> USE DEF IInv, TypeOK, CashDayTypeOK
<1>1. a \in Nat /\ takings[c][d] \in Nat /\ takings[c][d] - a \in Nat
  OBVIOUS
<1>2. \A x \in Cashiers, y \in Days :
        /\ takings'[x][y] = IF x = c /\ y = d THEN takings[c][d] - a ELSE takings[x][y]
        /\ takings'[x][y] <= takings[x][y]
  BY <1>1
<1>3. TypeOK'
  <2>1. takings' \in [Cashiers -> [Days -> Nat]]
    BY <1>1
  <2> QED BY <2>1
<1>4. CashHasASession'
  BY <1>2, <1>3 DEF CashHasASession
<1>5. NothingTakenOnALockedDay'
  <2> SUFFICES ASSUME NEW x \in Cashiers, NEW y \in Days, is_locked(session[x][y])
               PROVE  /\ session[x][y].expected # None
                      /\ takings'[x][y] <= session[x][y].expected
    BY DEF NothingTakenOnALockedDay
  <2>1. /\ session[x][y].expected # None
        /\ takings[x][y] <= session[x][y].expected
    BY DEF NothingTakenOnALockedDay
  <2>2. session[x][y].expected \in Nat
    BY <2>1 DEF CashSession
  <2>3. takings'[x][y] \in Nat /\ takings[x][y] \in Nat
    BY <1>3
  <2> QED BY <1>2, <2>1, <2>2, <2>3
<1>6. VarianceIsCounted'
  BY DEF VarianceIsCounted
<1> QED
  BY <1>3, <1>4, <1>5, <1>6

LEMMA EncashStep ==
  ASSUME IInv, NEW c \in Cashiers, NEW a \in Amounts, Encash(c, a)
  PROVE  IInv'
<1> USE DEF IInv, TypeOK, CashDayTypeOK
<1>1. a \in Nat /\ takings[c][today] \in Nat /\ takings[c][today] + a \in Nat
  OBVIOUS
<1>2. /\ today' = today
      /\ ~is_locked(session[c][today])
      /\ takings' = [takings EXCEPT ![c][today] = @ + a]
      /\ session' = IF session[c][today].status = "none"
                    THEN [session EXCEPT ![c][today] = NewSession] ELSE session
  BY DEF Encash, ensure_open_session
<1>3. NewSession = [status |-> "open", expected |-> None, counted |-> None,
                    variance |-> None, regularized |-> FALSE]
  BY DEF NewSession
<1>4. NewSession \in CashSession
  BY <1>3 DEF CashSession, CashSessionStatus
<1>5. \A x \in Cashiers, y \in Days :
        /\ takings'[x][y] = IF x = c /\ y = today THEN takings[c][today] + a ELSE takings[x][y]
        /\ session'[x][y] = IF x = c /\ y = today /\ session[c][today].status = "none"
                            THEN NewSession ELSE session[x][y]
  BY <1>1, <1>2, <1>4
<1>6. TypeOK'
  <2>1. takings' \in [Cashiers -> [Days -> Nat]]
    BY <1>1, <1>2
  <2>2. session' \in [Cashiers -> [Days -> CashSession]]
    BY <1>2, <1>4
  <2> QED BY <1>2, <2>1, <2>2
<1>7. CashHasASession'
  BY <1>3, <1>5 DEF CashHasASession
<1>8. NothingTakenOnALockedDay'
  BY <1>2, <1>3, <1>5 DEF NothingTakenOnALockedDay, is_locked, LOCKED_STATUSES
<1>9. VarianceIsCounted'
  BY <1>3, <1>5 DEF VarianceIsCounted
<1> QED
  BY <1>6, <1>7, <1>8, <1>9

LEMMA CancelStep ==
  ASSUME IInv, NEW c \in Cashiers, NEW d \in Days, NEW a \in Amounts,
         CashierCancels(c, d, a) \/ OfficeCancels(c, d, a)
  PROVE  IInv'
<1>1. /\ UNCHANGED <<today, session>>
      /\ a <= takings[c][d]
      /\ takings' = [takings EXCEPT ![c][d] = @ - a]
  BY DEF CashierCancels, OfficeCancels
<1> QED
  BY <1>1, LessMoney

LEMMA OpenScreenStep ==
  ASSUME IInv, NEW c \in Cashiers, NEW d \in Days, OpenScreen(c, d)
  PROVE  IInv'
<1> DEFINE row == [status |-> "open", expected |-> None, counted |-> None,
                   variance |-> None, regularized |-> FALSE]
<1>1. NewSession = row
  BY DEF NewSession
<1>2. row \in CashSession
  BY DEF CashSession, CashSessionStatus
<1>3. UNCHANGED <<today, takings>> /\ session' = [session EXCEPT ![c][d] = row]
  BY <1>1 DEF OpenScreen, get_my_session
<1>4. ~is_locked(row)
  BY DEF is_locked, LOCKED_STATUSES
<1> QED
  BY <1>2, <1>3, <1>4, OneRow

LEMMA CloseStep ==
  ASSUME IInv, NEW c \in Cashiers, NEW d \in Days, NEW n \in Counts, Close(c, d, n)
  PROVE  IInv'
<1> DEFINE row == Counted(takings[c][d], n, session[c][d].regularized)
<1>1. n \in Nat /\ takings[c][d] \in Nat /\ session[c][d] \in CashSession
  BY DEF IInv, TypeOK, CashDayTypeOK
<1>2. row \in CashSession
  BY <1>1 DEF CashSession, CashSessionStatus, Counted
<1>3. /\ row.status = "closed" /\ row.expected = takings[c][d]
      /\ row.counted = n /\ row.variance = n - takings[c][d]
  BY DEF Counted
<1>4. UNCHANGED <<today, takings>> /\ session' = [session EXCEPT ![c][d] = row]
  BY DEF Close, close_my_session
<1>5. n # None /\ takings[c][d] # None
  BY <1>1
<1> HIDE DEF row
<1>6. row.expected # None /\ takings[c][d] <= row.expected
  BY <1>1, <1>3, <1>5
<1>7. row.variance = IF row.counted = None THEN None ELSE row.counted - row.expected
  BY <1>3, <1>5
<1> QED
  BY <1>2, <1>3, <1>4, <1>5, <1>6, <1>7, OneRow

LEMMA RegularizeStep ==
  ASSUME IInv, NEW c \in Cashiers, NEW d \in Days, NEW n \in Counts, Regularize(c, d, n)
  PROVE  IInv'
<1> DEFINE was == session[c][d]
           row == Counted(was.expected, n, TRUE)
<1>1. n \in Nat /\ takings[c][d] \in Nat /\ was \in CashSession
  BY DEF IInv, TypeOK, CashDayTypeOK
<1>2. is_locked(was)
  BY DEF Regularize, regularize_my_session, is_locked, LOCKED_STATUSES
<1>3. was.expected \in Nat /\ takings[c][d] <= was.expected
  BY <1>1, <1>2 DEF IInv, NothingTakenOnALockedDay, CashSession
<1>4. row \in CashSession
  BY <1>1, <1>3 DEF CashSession, CashSessionStatus, Counted
<1>5. /\ row.status = "closed" /\ row.expected = was.expected
      /\ row.counted = n /\ row.variance = n - was.expected
  BY DEF Counted
<1>6. UNCHANGED <<today, takings>> /\ session' = [session EXCEPT ![c][d] = row]
  BY DEF Regularize, regularize_my_session
<1>7. n # None /\ was.expected # None
  BY <1>1, <1>3
<1> HIDE DEF row, was
<1> QED
  BY <1>1, <1>3, <1>4, <1>5, <1>6, <1>7, OneRow

\* What the night task makes of a record.
LEMMA AutoClosedRow ==
  ASSUME NEW s \in CashSession, NEW e \in Nat
  PROVE  /\ AutoClosed(s, e) \in CashSession
         /\ AutoClosed(s, e).status = "auto_closed"
         /\ AutoClosed(s, e).expected = e
         /\ AutoClosed(s, e).counted = s.counted
         /\ AutoClosed(s, e).variance = s.variance
         /\ AutoClosed(s, e).regularized = s.regularized
<1>1. "auto_closed" \in CashSessionStatus /\ e \in Nat \cup {None}
  BY DEF CashSessionStatus
<1>2. /\ s.counted \in Nat \cup {None}
      /\ s.variance \in Int \cup {None}
      /\ s.regularized \in BOOLEAN
  BY DEF CashSession
<1>3. AutoClosed(s, e) \in CashSession
  BY <1>1, <1>2 DEF CashSession, AutoClosed
<1>4. /\ AutoClosed(s, e).status = "auto_closed"
      /\ AutoClosed(s, e).expected = e
      /\ AutoClosed(s, e).counted = s.counted
      /\ AutoClosed(s, e).variance = s.variance
      /\ AutoClosed(s, e).regularized = s.regularized
  BY DEF AutoClosed
<1> QED
  BY <1>3, <1>4, Zenon

LEMMA SweepStep ==
  ASSUME IInv, Sweep
  PROVE  IInv'
<1> USE DEF IInv, TypeOK, CashDayTypeOK
<1>1. PICK B \in SUBSET StaleOpen :
        session' = [c \in Cashiers |-> [d \in Days |->
                      IF <<c, d>> \in B
                      THEN AutoClosed(session[c][d], takings[c][d])
                      ELSE session[c][d]]]
  BY DEF Sweep, auto_close_stale_sessions
<1>2. UNCHANGED <<today, takings>>
  BY DEF Sweep
<1>3. \A c \in Cashiers, d \in Days :
        <<c, d>> \in B => /\ session[c][d].status = "open"
                         /\ session'[c][d] = AutoClosed(session[c][d], takings[c][d])
  BY <1>1 DEF StaleOpen
<1>4. \A c \in Cashiers, d \in Days : <<c, d>> \notin B => session'[c][d] = session[c][d]
  BY <1>1
<1>5. ASSUME NEW c \in Cashiers, NEW d \in Days, <<c, d>> \in B
      PROVE  /\ session'[c][d] \in CashSession
             /\ session'[c][d].status = "auto_closed"
             /\ session'[c][d].expected = takings[c][d]
             /\ session'[c][d].counted = session[c][d].counted
             /\ session'[c][d].variance = session[c][d].variance
             /\ session'[c][d].regularized = session[c][d].regularized
  <2>1. session'[c][d] = AutoClosed(session[c][d], takings[c][d])
    BY <1>3, <1>5
  <2>2. session[c][d] \in CashSession /\ takings[c][d] \in Nat
    OBVIOUS
  <2>3. \A x \in Nat : /\ AutoClosed(session[c][d], x) \in CashSession
                       /\ AutoClosed(session[c][d], x).status = "auto_closed"
                       /\ AutoClosed(session[c][d], x).expected = x
                       /\ AutoClosed(session[c][d], x).counted = session[c][d].counted
                       /\ AutoClosed(session[c][d], x).variance = session[c][d].variance
                       /\ AutoClosed(session[c][d], x).regularized = session[c][d].regularized
    BY <2>2, AutoClosedRow
  <2> QED
    BY <2>1, <2>2, <2>3
<1>6. TypeOK'
  <2>1. ASSUME NEW c \in Cashiers, NEW d \in Days
        PROVE  session'[c][d] \in CashSession
    <3>1. CASE <<c, d>> \in B
      BY <1>5, <3>1
    <3>2. CASE <<c, d>> \notin B
      BY <1>4, <3>2
    <3> QED
      BY <3>1, <3>2
  <2>2. session' \in [Cashiers -> [Days -> CashSession]]
    BY <1>1, <2>1
  <2> QED BY <1>2, <2>2
<1>7. ASSUME NEW c \in Cashiers, NEW d \in Days
      PROVE  LET s == session'[c][d]
             IN  /\ takings'[c][d] > 0 => s.status # "none"
                 /\ is_locked(s) => s.expected # None /\ takings'[c][d] <= s.expected
                 /\ (s.status = "closed") <=> (s.counted # None)
                 /\ s.variance = IF s.counted = None THEN None ELSE s.counted - s.expected
                 /\ s.regularized => s.status = "closed"
  <2>1. CASE <<c, d>> \in B
    <3>1. session[c][d].status = "open"
      BY <1>3, <2>1
    <3>2. ~(session[c][d].status = "closed")
      BY <3>1
    <3>3. session[c][d].counted = None /\ session[c][d].variance = None
      BY <3>2 DEF VarianceIsCounted
    <3>4. ~session[c][d].regularized
      BY <3>2 DEF VarianceIsCounted
    <3>5. takings'[c][d] = takings[c][d] /\ takings[c][d] \in Nat
      BY <1>2
    <3> QED
      BY <1>5, <2>1, <3>3, <3>4, <3>5
  <2>2. CASE <<c, d>> \notin B
    <3>1. session'[c][d] = session[c][d] /\ takings'[c][d] = takings[c][d]
      BY <1>2, <1>4, <2>2
    <3> QED
      BY <3>1 DEF CashHasASession, NothingTakenOnALockedDay, VarianceIsCounted
  <2> QED
    BY <2>1, <2>2
<1>8. CashHasASession' /\ NothingTakenOnALockedDay' /\ VarianceIsCounted'
  BY <1>7 DEF CashHasASession, NothingTakenOnALockedDay, VarianceIsCounted, is_locked
<1> QED
  BY <1>6, <1>8

LEMMA TickStep ==
  ASSUME IInv, Tick
  PROVE  IInv'
  BY DEF Tick, Midnight, Days, IInv, TypeOK, CashDayTypeOK, CashHasASession,
         NothingTakenOnALockedDay, VarianceIsCounted

LEMMA Inductive == IInv /\ [Next]_tvars => IInv'
<1> SUFFICES ASSUME IInv, [Next]_tvars PROVE IInv'
  OBVIOUS
<1>1. CASE \E c \in Cashiers, a \in Amounts : Encash(c, a)
  BY <1>1, EncashStep
<1>2. CASE \E c \in Cashiers, d \in Days, a \in Amounts :
             CashierCancels(c, d, a) \/ OfficeCancels(c, d, a)
  BY <1>2, CancelStep
<1>3. CASE \E c \in Cashiers, d \in Days : OpenScreen(c, d)
  BY <1>3, OpenScreenStep
<1>4. CASE \E c \in Cashiers, d \in Days, n \in Counts : Close(c, d, n)
  BY <1>4, CloseStep
<1>5. CASE Sweep
  BY <1>5, SweepStep
<1>6. CASE \E c \in Cashiers, d \in Days, n \in Counts : Regularize(c, d, n)
  BY <1>6, RegularizeStep
<1>7. CASE Tick
  BY <1>7, TickStep
<1>8. CASE UNCHANGED tvars
  BY <1>8 DEF tvars, IInv, TypeOK, CashDayTypeOK, CashHasASession,
              NothingTakenOnALockedDay, VarianceIsCounted
<1> QED
  BY <1>1, <1>2, <1>3, <1>4, <1>5, <1>6, <1>7, <1>8 DEF Next

\* The inductive invariant holds for ever.
LEMMA Always == Spec => []IInv
  BY Initially, Inductive, PTL DEF Spec

\* A drawer is always described by well-formed rows.
THEOREM TypeCorrect == Spec => []TypeOK
<1>1. IInv => TypeOK
  BY DEF IInv
<1> QED
  BY <1>1, Always, PTL

\* Cash is only ever held on a day that has a row (ensure_open_session).
THEOREM CashIsShown == Spec => []CashHasASession
<1>1. IInv => CashHasASession
  BY DEF IInv
<1> QED
  BY <1>1, Always, PTL

\* No drawer holds more than what was frozen when its day was locked.
THEOREM LockedDaysGetNothing == Spec => []NothingTakenOnALockedDay
<1>1. IInv => NothingTakenOnALockedDay
  BY DEF IInv
<1> QED
  BY <1>1, Always, PTL

\* A variance is known exactly when somebody counted, and is the difference of the two.
THEOREM VarianceStands == Spec => []VarianceIsCounted
<1>1. IInv => VarianceIsCounted
  BY DEF IInv
<1> QED
  BY <1>1, Always, PTL

-----------------------------------------------------------------------------
\* One step never touches a signed row, nor the expected amount of a locked one.
Signed ==
  \A c \in Cashiers, d \in Days :
    /\ session[c][d].status = "closed" => session'[c][d] = session[c][d]
    /\ is_locked(session[c][d]) => session'[c][d].expected = session[c][d].expected

LEMMA SignedStep ==
  ASSUME TypeOK, [Next]_tvars
  PROVE  Signed
<1> USE DEF TypeOK, CashDayTypeOK
<1>1. ASSUME NEW c \in Cashiers, NEW a \in Amounts, Encash(c, a)
      PROVE  Signed
  BY <1>1 DEF Encash, ensure_open_session, Signed, is_locked, LOCKED_STATUSES
<1>2. ASSUME NEW c \in Cashiers, NEW d \in Days, OpenScreen(c, d)
      PROVE  Signed
  BY <1>2 DEF OpenScreen, get_my_session, Signed, is_locked, LOCKED_STATUSES
<1>3. ASSUME NEW c \in Cashiers, NEW d \in Days, NEW n \in Counts, Close(c, d, n)
      PROVE  Signed
  BY <1>3 DEF Close, close_my_session, Signed, is_locked, LOCKED_STATUSES
<1>4. ASSUME NEW c \in Cashiers, NEW d \in Days, NEW n \in Counts, Regularize(c, d, n)
      PROVE  Signed
  <2>1. Counted(session[c][d].expected, n, TRUE).expected = session[c][d].expected
    BY DEF Counted
  <2> QED
    BY <1>4, <2>1 DEF Regularize, regularize_my_session, Signed, is_locked
<1>5. ASSUME Sweep
      PROVE  Signed
  <2>1. \A c \in Cashiers, d \in Days :
          session[c][d].status # "open" => session'[c][d] = session[c][d]
    BY <1>5 DEF Sweep, auto_close_stale_sessions, StaleOpen
  <2> QED
    BY <2>1 DEF Signed, is_locked, LOCKED_STATUSES
<1>6. ASSUME UNCHANGED session
      PROVE  Signed
  BY <1>6 DEF Signed
<1> QED
  BY <1>1, <1>2, <1>3, <1>4, <1>5, <1>6
     DEF Next, CashierCancels, OfficeCancels, Tick, tvars

\* What a cashier signed, and what was frozen for an absent one, never moves.
THEOREM SignaturesStand == Spec => SignedStands
<1>1. TypeOK /\ [Next]_tvars => [Signed]_tvars
  BY SignedStep
<1> QED
  BY <1>1, TypeCorrect, PTL DEF Spec, SignedStands, Signed
=============================================================================
