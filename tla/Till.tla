-------------------------------- MODULE Till --------------------------------
(***************************************************************************)
(* What the cash sessions promise about the money of the drawers, whatever  *)
(* the payments are made of: takings[c][d] is the cash counted for cashier  *)
(* c on day d (aggregate_day).  Counter implements this module with takings *)
(* computed from the payments.                                              *)
(***************************************************************************)
EXTENDS CashDay

CONSTANTS Amounts,       \* amounts a payment may have
          Counts,        \* amounts a cashier may count
          Totals         \* bound: the totals a drawer may reach

ASSUME TillAssumption ==
  /\ Amounts \subseteq Nat \ {0}
  /\ Counts \subseteq Nat
  /\ 0 \in Totals /\ Totals \subseteq Nat

VARIABLE takings
tvars == <<today, session, takings>>

TypeOK ==
  /\ CashDayTypeOK
  /\ takings \in [Cashiers -> [Days -> Nat]]

Init ==
  /\ CashDayInit
  /\ takings = [c \in Cashiers |-> [d \in Days |-> 0]]

-----------------------------------------------------------------------------
\* Cash comes in at the counter, today.
Encash(c, a) ==
  /\ ensure_open_session(c, today)
  /\ takings[c][today] + a \in Totals
  /\ takings' = [takings EXCEPT ![c][today] = @ + a]
  /\ UNCHANGED today

\* A cashier cancels a cash payment of a day that is still open.
CashierCancels(c, d, a) ==
  /\ ~is_locked(session[c][d])
  /\ a <= takings[c][d]
  /\ takings' = [takings EXCEPT ![c][d] = @ - a]
  /\ UNCHANGED <<today, session>>

\* The accounts office cancels a cash payment of any day.
OfficeCancels(c, d, a) ==
  /\ a <= takings[c][d]
  /\ takings' = [takings EXCEPT ![c][d] = @ - a]
  /\ UNCHANGED <<today, session>>

OpenScreen(c, d) == get_my_session(c, d) /\ UNCHANGED <<today, takings>>

Close(c, d, counted) ==
  /\ close_my_session(c, d, counted, takings[c][d])
  /\ UNCHANGED <<today, takings>>

Sweep == auto_close_stale_sessions(takings) /\ UNCHANGED <<today, takings>>

Regularize(c, d, counted) ==
  /\ regularize_my_session(c, d, counted)
  /\ UNCHANGED <<today, takings>>

Tick == Midnight /\ UNCHANGED <<session, takings>>

Next ==
  \/ \E c \in Cashiers, a \in Amounts : Encash(c, a)
  \/ \E c \in Cashiers, d \in Days, a \in Amounts : CashierCancels(c, d, a)
  \/ \E c \in Cashiers, d \in Days, a \in Amounts : OfficeCancels(c, d, a)
  \/ \E c \in Cashiers, d \in Days : OpenScreen(c, d)
  \/ \E c \in Cashiers, d \in Days, n \in Counts : Close(c, d, n)
  \/ Sweep
  \/ \E c \in Cashiers, d \in Days, n \in Counts : Regularize(c, d, n)
  \/ Tick

Spec == Init /\ [][Next]_tvars

\* The scheduler runs the closure every night; a night that fails is followed by
\* another one.
FairSpec == Spec /\ WF_tvars(Sweep)

-----------------------------------------------------------------------------
\* Counted money has a row: no drawer holds cash on a day that the daily point of the
\* accountant (list_sessions_for_date) does not show.
CashHasASession ==
  \A c \in Cashiers, d \in Days : takings[c][d] > 0 => session[c][d].status # "none"

\* Once a day is locked nothing is taken on it any more: what is counted for it is at
\* most what was frozen, and less only when the office cancelled.  This is what makes a
\* signed variance stay true (cash_session_service.ensure_open_session).
NothingTakenOnALockedDay ==
  \A c \in Cashiers, d \in Days :
    is_locked(session[c][d]) =>
      /\ session[c][d].expected # None
      /\ takings[c][d] <= session[c][d].expected

\* A variance exists exactly on the days somebody counted, it is what was counted less
\* what was frozen, and a day closed from office has none until it is regularized
\* (cash_closure_service: an unknown variance is not a variance of zero).
VarianceIsCounted ==
  \A c \in Cashiers, d \in Days :
    LET s == session[c][d]
    IN  /\ (s.status = "closed") <=> (s.counted # None)
        /\ s.variance = IF s.counted = None THEN None ELSE s.counted - s.expected
        /\ s.regularized => s.status = "closed"

\* A signed row never changes again, and the expected amount of a day closed from office
\* is the one the regularization counts against.
SignedStands ==
  [][\A c \in Cashiers, d \in Days :
       /\ session[c][d].status = "closed" => session'[c][d] = session[c][d]
       /\ is_locked(session[c][d]) => session'[c][d].expected = session[c][d].expected]_tvars

\* A day left open ends locked once it is over, however many days are late and although
\* the nightly batch is bounded.
LateDaysGetLocked ==
  \A c \in Cashiers, d \in Days :
    (session[c][d].status = "open" /\ d < today) ~> is_locked(session[c][d])
=============================================================================
