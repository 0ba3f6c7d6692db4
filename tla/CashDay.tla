------------------------------ MODULE CashDay ------------------------------
(***************************************************************************)
(* The day of a cash drawer: one row of cash_sessions per cashier and       *)
(* business date, opened lazily by the first cash payment, closed by the    *)
(* cashier who counts, or closed from office after midnight and counted     *)
(* later.  The operators below are the handlers' effects on that table; the *)
(* modules that extend this one say when they run and where the money comes *)
(* from (Till, Counter).                                                    *)
(***************************************************************************)
EXTENDS Integers, FiniteSets

CONSTANTS Cashiers,
          MaxDay,       \* bound: the last business date looked at
          BatchLimit,   \* BATCH_LIMIT of the nightly closure
          None          \* SQL NULL

ASSUME CashDayAssumption ==
  /\ MaxDay \in Nat \ {0}
  /\ BatchLimit \in Nat \ {0}
  /\ None \notin Int

Days == 1..MaxDay

VARIABLES today,        \* the school's current business date
          session       \* session[c][d], status "none" when there is no row

CashSessionStatus == {"none", "open", "closed", "auto_closed"}
LOCKED_STATUSES   == {"closed", "auto_closed"}

CashSession ==
  [status : CashSessionStatus, expected : Nat \cup {None}, counted : Nat \cup {None},
   variance : Int \cup {None}, regularized : BOOLEAN]

NoSession  == [status |-> "none", expected |-> None, counted |-> None, variance |-> None,
               regularized |-> FALSE]
NewSession == [status |-> "open", expected |-> None, counted |-> None, variance |-> None,
               regularized |-> FALSE]

\* A drawer counted against an expected amount.
Counted(expected, counted, regularized) ==
  [status |-> "closed", expected |-> expected, counted |-> counted,
   variance |-> counted - expected, regularized |-> regularized]

\* Mutant: zero written for a drawer nobody opened.
auto_closed_at_zero(s, expected) ==
  [status |-> "auto_closed", expected |-> expected, counted |-> 0,
   variance |-> 0 - expected, regularized |-> s.regularized]

\* A drawer nobody counted.
AutoClosed(s, expected) ==
  [status |-> "auto_closed", expected |-> expected, counted |-> s.counted,
   variance |-> s.variance, regularized |-> s.regularized]

is_locked(s) == s.status \in LOCKED_STATUSES

CashDayTypeOK ==
  /\ today \in Days
  /\ session \in [Cashiers -> [Days -> CashSession]]

CashDayInit ==
  /\ today = 1
  /\ session = [c \in Cashiers |-> [d \in Days |-> NoSession]]

-----------------------------------------------------------------------------
\* Mutant: a locked day still takes cash.
session_lock_ignored(c, d) ==
  session' = IF session[c][d].status = "none"
             THEN [session EXCEPT ![c][d] = NewSession]
             ELSE session

\* Called by the two recording handlers before they take cash.
ensure_open_session(c, d) ==
  /\ ~is_locked(session[c][d])
  /\ session' = IF session[c][d].status = "none"
                THEN [session EXCEPT ![c][d] = NewSession]
                ELSE session

\* "My drawer": reading a day that has no row creates it, any date accepted.
get_my_session(c, d) ==
  /\ session[c][d].status = "none"
  /\ session' = [session EXCEPT ![c][d] = NewSession]

\* Mutant: a day already closed is closed again.
close_again(c, d, counted, expected) ==
  /\ session[c][d].status \in {"open", "closed"}
  /\ session' = [session EXCEPT ![c][d] = Counted(expected, counted, @.regularized)]

\* expected is the aggregate of the day at this instant.
close_my_session(c, d, counted, expected) ==
  /\ session[c][d].status = "open"
  /\ session' = [session EXCEPT ![c][d] = Counted(expected, counted, @.regularized)]

\* Mutant: one day too late.
stale_day_before_yesterday ==
  {cd \in Cashiers \X Days : session[cd[1]][cd[2]].status = "open" /\ cd[2] < today - 1}

StaleOpen == {cd \in Cashiers \X Days : session[cd[1]][cd[2]].status = "open" /\ cd[2] < today}

\* Oldest dates first, BatchLimit rows at most (rows of a same date come in id
\* order, which is not tracked: any of them).
IsBatch(B) ==
  /\ B \subseteq StaleOpen
  /\ Cardinality(B) = IF Cardinality(StaleOpen) < BatchLimit
                      THEN Cardinality(StaleOpen) ELSE BatchLimit
  /\ \A x \in B, y \in StaleOpen \ B : x[2] <= y[2]

\* expected[c][d] is the aggregate of each day of the batch.
auto_close_stale_sessions(expected) ==
  \E B \in SUBSET StaleOpen :
    /\ B # {}
    /\ IsBatch(B)
    /\ session' = [c \in Cashiers |-> [d \in Days |->
                     IF <<c, d>> \in B
                     THEN AutoClosed(session[c][d], expected[c][d])
                     ELSE session[c][d]]]

\* The variance is against the expected amount frozen that night.
regularize_my_session(c, d, counted) ==
  /\ session[c][d].status = "auto_closed"
  /\ session' = [session EXCEPT ![c][d] = Counted(@.expected, counted, TRUE)]

\* The school's clock passes midnight.
Midnight ==
  /\ today < MaxDay
  /\ today' = today + 1
=============================================================================
