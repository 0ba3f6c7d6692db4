------------------------------ MODULE Counter ------------------------------
(***************************************************************************)
(* The school's counter, one request at a time: the fee lines of the        *)
(* enrollments, the payments and their allocations, and the cash sessions.  *)
(* Every action is one committed request (service function and commit); a   *)
(* refused request changes nothing and is not an action.  CounterTx takes   *)
(* the same handlers apart into transactions that overlap.                  *)
(*                                                                         *)
(* Fee lines are numbered in the order the cascade reads them (FeeRules),   *)
(* payments by their id.  alloc[p][f] is the amount of the allocation of    *)
(* payment p on fee f, 0 when there is no row: no handler leaves a row at 0. *)
(***************************************************************************)
EXTENDS CashDay, FeeRules

CONSTANTS Enrollments,
          FeeCount,       \* number of fee lines
          EnrollmentOf,   \* enrollment of each line
          Nominal,        \* amount of each line before any discount
          AcceptsInKind,  \* lines whose category takes a deposit in kind
          Methods,        \* payment methods; "cash" goes through a drawer
          Keys,           \* idempotency keys drawn by the screens
          Amounts,        \* amounts handed over, named, moved or discounted
          Counts,         \* amounts a cashier may count
          MaxPayments,    \* bound: number of payments
          WithPending     \* TRUE: an old transfer may still be waiting (see Init)

Fees     == 1..FeeCount
Payments == 1..MaxPayments

ASSUME CounterAssumption ==
  /\ FeeCount \in Nat /\ MaxPayments \in Nat
  /\ EnrollmentOf \in [Fees -> Enrollments]
  /\ Nominal \in [Fees -> Nat \ {0}]
  /\ AcceptsInKind \subseteq Fees
  /\ Amounts \subseteq Nat \ {0} /\ Counts \subseteq Nat
  /\ None \notin Keys
  /\ WithPending \in BOOLEAN

VARIABLES fee,            \* enrollment_fees: status, amount, original (None: no discount)
          payment,        \* payments
          alloc           \* payment_allocations

money == <<fee, payment, alloc>>
vars  == <<today, session, fee, payment, alloc>>

FeeLine == [status : FeeStatuses, amount : Nat, original : (Nat \ {0}) \cup {None}]

PaymentStatus == {"none", "pending", "completed", "cancelled"}
LIVE_STATUSES == {"pending", "completed"}

Payment ==
  [status : PaymentStatus, enrollment : Enrollments \cup {None}, amount : Nat,
   method : Methods \cup {None}, received_by : Cashiers \cup {None}, day : Days,
   key : Keys \cup {None}]

NoPayment == [status |-> "none", enrollment |-> None, amount |-> 0, method |-> None,
              received_by |-> None, day |-> 1, key |-> None]
NoLines   == [f \in Fees |-> 0]

TypeOK ==
  /\ CashDayTypeOK
  /\ fee \in [Fees -> FeeLine]
  /\ payment \in [Payments -> Payment]
  /\ alloc \in [Payments -> [Fees -> Nat]]

-----------------------------------------------------------------------------
(* What the queries of the handlers read. *)

FeesOf(e) == {f \in Fees : EnrollmentOf[f] = e}

\* What is paid on a line: completed payments only (fees_paid._verse_par_frais).
PaidOn(pay, al, f) ==
  Sum([p \in Payments |-> IF pay[p].status = "completed" THEN al[p][f] ELSE 0], MaxPayments)

\* Mutant: only the cash is seen.
paid_in_cash_only(pay, al) ==
  [f \in Fees |-> Sum([p \in Payments |->
                        IF pay[p].status = "completed" /\ pay[p].method = "cash"
                        THEN al[p][f] ELSE 0], MaxPayments)]

Paid(pay, al) == [f \in Fees |-> PaidOn(pay, al, f)]

\* What is reserved on a line: pending payments too.
LiveAllocated(f) ==
  Sum([p \in Payments |-> IF payment[p].status \in LIVE_STATUSES THEN alloc[p][f] ELSE 0],
      MaxPayments)

\* Mutant: a pending transfer is not seen.
fee_carries_completed_payment(f) ==
  \E p \in Payments : payment[p].status = "completed" /\ alloc[p][f] > 0

fee_carries_live_payment(f) ==
  \E p \in Payments : payment[p].status \in LIVE_STATUSES /\ alloc[p][f] > 0

\* The cash of a cashier's day (aggregate_day, method cash, counted statuses).
DayCash(pay, c, d) ==
  Sum([p \in Payments |->
         IF /\ pay[p].status \in LIVE_STATUSES
            /\ pay[p].method = "cash" /\ pay[p].received_by = c /\ pay[p].day = d
         THEN pay[p].amount ELSE 0], MaxPayments)

\* Mutant: computed on what was paid before the write.
recomputed_before_flush(touched, pay, al) ==
  [f \in Fees |-> IF f \in touched
                  THEN recompute_fee_status(fee[f], PaidOn(payment, alloc, f)) ELSE fee[f]]

\* The statuses of the lines touched are recomputed from what is now paid.
Recomputed(touched, pay, al) ==
  [f \in Fees |-> IF f \in touched THEN recompute_fee_status(fee[f], PaidOn(pay, al, f))
                  ELSE fee[f]]

NextId(p) == payment[p].status = "none" /\ \A q \in 1..(p - 1) : payment[q].status # "none"

-----------------------------------------------------------------------------
(* Taking money. *)

\* The payment, its lines and the statuses of those lines, written together.
WritePayment(p, e, amount, method, c, key, lines) ==
  /\ payment' = [payment EXCEPT ![p] =
                   [status |-> "completed", enrollment |-> e, amount |-> amount,
                    method |-> method, received_by |-> c, day |-> today, key |-> key]]
  /\ alloc' = [alloc EXCEPT ![p] = lines]
  /\ fee' = Recomputed({f \in Fees : lines[f] > 0}, payment', alloc')

\* Mutant: the drawer is not looked at.
drawer_not_guarded(c, method) == session' = session

GuardDrawer(c, method) ==
  IF method = "cash" THEN ensure_open_session(c, today) ELSE session' = session

\* Mutant: only the payments that still count are looked up.
key_free_among_completed(key) ==
  key # None => \A q \in Payments : payment[q].status = "completed" => payment[q].key # key

KeyIsFree(key) == key # None => \A q \in Payments : payment[q].key # key

\* A key already used is replayed: the payment written is returned, nothing changes.
record_enrollment_payment(p, c, e, amount, items, method, key) ==
  LET paid == Paid(payment, alloc)
  IN  /\ NextId(p)
      /\ KeyIsFree(key)
      /\ GuardDrawer(c, method)
      /\ may_record(amount, items, FeesOf(e), fee, paid, FeeCount)
      /\ WritePayment(p, e, amount, method, c, key,
                      resolve_allocation(amount, items, FeesOf(e), fee, paid, FeeCount).splits)
      /\ UNCHANGED today

\* The old route: one line, chosen by the caller, no key.
create_payment(p, c, f, amount, method) ==
  LET lines == [g \in Fees |-> IF g = f THEN amount ELSE 0]
  IN  /\ NextId(p)
      /\ GuardDrawer(c, method)
      /\ amount <= cash_remaining(fee[f], PaidOn(payment, alloc, f))
      /\ verifier(amount, lines, FeeCount)
      /\ WritePayment(p, EnrollmentOf[f], amount, method, c, None, lines)
      /\ UNCHANGED today

-----------------------------------------------------------------------------
(* Correcting. *)

VALID_TRANSITIONS == [s \in PaymentStatus |->
  CASE s = "pending"   -> {"completed", "cancelled"}
    [] s = "completed" -> {"cancelled"}    \* and "refunded", which nothing writes
    [] OTHER           -> {}]

\* The cashier corrects what he entered himself, his day not locked.
ensure_cashier_may_correct(p, c) ==
  /\ payment[p].received_by = c
  /\ ~is_locked(session[c][payment[p].day])

Transition(p, target) ==
  /\ target \in VALID_TRANSITIONS[payment[p].status]
  /\ payment' = [payment EXCEPT ![p].status = target]
  /\ fee' = Recomputed({f \in Fees : alloc[p][f] > 0}, payment', alloc)
  /\ UNCHANGED <<alloc, session, today>>

validate_payment(p) == Transition(p, "completed")

\* may_cancel_any is what the accounts office has and a cashier has not.
cancel_payment(p, c, may_cancel_any) ==
  /\ may_cancel_any \/ ensure_cashier_may_correct(p, c)
  /\ Transition(p, "cancelled")

\* Mutant: a line that holds nothing may give.
any_line_gives(lines, from, amount) == from \in DOMAIN lines

LineHolds(lines, from, amount) == lines[from] > 0 /\ amount <= lines[from]

\* Mutant: the other family's line will do.
any_two_fees(f, g) == {f, g} \subseteq Fees

SameEnrollment(f, g) == EnrollmentOf[f] = EnrollmentOf[g]

reallocate_payment(p, from, to, amount, c, may_reallocate_any) ==
  LET lines == [alloc[p] EXCEPT ![from] = @ - amount, ![to] = @ + amount]
  IN  /\ from # to
      /\ payment[p].status = "completed"
      /\ may_reallocate_any \/ ensure_cashier_may_correct(p, c)
      /\ LineHolds(alloc[p], from, amount)
      /\ SameEnrollment(to, from)
      /\ can_receive_cash(fee[to], PaidOn(payment, alloc, to))
      /\ amount <= cash_remaining(fee[to], PaidOn(payment, alloc, to))
      /\ verifier(payment[p].amount, lines, FeeCount)
      /\ alloc' = [alloc EXCEPT ![p] = lines]
      /\ fee' = Recomputed({from, to}, payment, alloc')
      /\ UNCHANGED <<payment, session, today>>

-----------------------------------------------------------------------------
(* Deposits in kind and discounts. *)

mark_in_kind_deposit(f) ==
  /\ fee[f].status = "pending"
  /\ ~fee_carries_live_payment(f)
  /\ f \in AcceptsInKind
  /\ fee' = [fee EXCEPT ![f].status = "in_kind"]
  /\ UNCHANGED <<payment, alloc, session, today>>

cancel_in_kind_deposit(f) ==
  /\ fee[f].status = "in_kind"
  /\ ~fee_carries_live_payment(f)
  /\ fee' = [fee EXCEPT ![f].status = "pending"]
  /\ UNCHANGED <<payment, alloc, session, today>>

\* The reduction as compute_discount returns it, between one XOF and the amount.
set_discount(f, reduction) ==
  LET nominal == IF fee[f].original # None THEN fee[f].original ELSE fee[f].amount
      net     == nominal - reduction
      line    == [status |-> "pending", amount |-> net, original |-> nominal]
  IN  /\ fee[f].status \in NOT_CASH_DUE => fee[f].original # None
      /\ reduction <= nominal
      /\ net >= LiveAllocated(f)
      /\ fee' = [fee EXCEPT ![f] =
                   IF net = 0 THEN [line EXCEPT !.status = "waived"]
                   ELSE recompute_fee_status(line, PaidOn(payment, alloc, f))]
      /\ UNCHANGED <<payment, alloc, session, today>>

remove_discount(f) ==
  /\ fee[f].original # None
  /\ fee' = [fee EXCEPT ![f] =
               recompute_fee_status([status |-> "pending", amount |-> fee[f].original,
                                     original |-> None], PaidOn(payment, alloc, f))]
  /\ UNCHANGED <<payment, alloc, session, today>>

-----------------------------------------------------------------------------
(* The drawers, with the cash of the payments. *)

OpenScreen(c, d) == get_my_session(c, d) /\ UNCHANGED <<today, money>>

CloseDay(c, d, counted) ==
  /\ close_my_session(c, d, counted, DayCash(payment, c, d))
  /\ UNCHANGED <<today, money>>

Sweep ==
  /\ auto_close_stale_sessions([c \in Cashiers |-> [d \in Days |-> DayCash(payment, c, d)]])
  /\ UNCHANGED <<today, money>>

Regularize(c, d, counted) ==
  /\ regularize_my_session(c, d, counted)
  /\ UNCHANGED <<today, money>>

Tick == Midnight /\ UNCHANGED <<session, money>>

-----------------------------------------------------------------------------
\* A school taken over from the old counter may hold one transfer recorded as pending,
\* with the line that the migration gave it: nothing writes that status any more.
OldPending(p, c, f, amount) ==
  /\ payment = [q \in Payments |->
                  IF q = p THEN [NoPayment EXCEPT !.status = "pending", !.amount = amount,
                                                  !.enrollment = EnrollmentOf[f],
                                                  !.method = "transfer", !.received_by = c]
                  ELSE NoPayment]
  /\ alloc = [q \in Payments |-> IF q = p THEN [g \in Fees |-> IF g = f THEN amount ELSE 0]
                                 ELSE NoLines]

Init ==
  /\ CashDayInit
  /\ fee = [f \in Fees |-> [status |-> "pending", amount |-> Nominal[f], original |-> None]]
  /\ \/ /\ payment = [p \in Payments |-> NoPayment]
        /\ alloc = [p \in Payments |-> NoLines]
     \/ /\ WithPending /\ MaxPayments > 0 /\ "transfer" \in Methods
        /\ \E c \in Cashiers, f \in Fees, a \in Amounts :
             a <= Nominal[f] /\ OldPending(1, c, f, a)

\* What the cashier names: nothing, or one or two lines.
Items == UNION {[1..k -> [fee : Fees, amount : Amounts]] : k \in 0..2}

Next ==
  \/ \E p \in Payments, c \in Cashiers, e \in Enrollments, a \in Amounts, items \in Items,
        m \in Methods, k \in Keys \cup {None} :
       record_enrollment_payment(p, c, e, a, items, m, k)
  \/ \E p \in Payments, c \in Cashiers, f \in Fees, a \in Amounts, m \in Methods :
       create_payment(p, c, f, a, m)
  \/ \E p \in Payments : validate_payment(p)
  \/ \E p \in Payments, c \in Cashiers, any \in BOOLEAN : cancel_payment(p, c, any)
  \/ \E p \in Payments, from, to \in Fees, a \in Amounts, c \in Cashiers, any \in BOOLEAN :
       reallocate_payment(p, from, to, a, c, any)
  \/ \E f \in Fees : mark_in_kind_deposit(f) \/ cancel_in_kind_deposit(f)
  \/ \E f \in Fees, r \in Amounts : set_discount(f, r)
  \/ \E f \in Fees : remove_discount(f)
  \/ \E c \in Cashiers, d \in Days : OpenScreen(c, d)
  \/ \E c \in Cashiers, d \in Days, n \in Counts : CloseDay(c, d, n)
  \/ Sweep
  \/ \E c \in Cashiers, d \in Days, n \in Counts : Regularize(c, d, n)
  \/ Tick

Spec == Init /\ [][Next]_vars

-----------------------------------------------------------------------------
(***************************************************************************)
(* Properties.                                                              *)
(***************************************************************************)

\* Every payment, cancelled ones included, is split over lines of its own enrollment that
\* add up to it: the journal and the statement by category tell the same total
\* (allocation_invariant.py).
LinesCoverPayment ==
  \A p \in Payments :
    /\ Sum(alloc[p], FeeCount) = payment[p].amount
    /\ \A f \in Fees : alloc[p][f] > 0 => EnrollmentOf[f] = payment[p].enrollment

\* "On n'impute jamais plus que le reste du": no line holds more money than it is worth,
\* through cascades, named lines, moves and discounts alike.
Overpaid(f)        == PaidOn(payment, alloc, f) > fee[f].amount
NeverOverAllocated == \A f \in Fees : ~Overpaid(f)

\* The one way around it: an old pending transfer goes through no check when it is
\* validated (models/fee.py, LIVE_PAYMENT_STATUSES).  No other step overpays a line, and
\* an overpaid line never gets more.
OnlyValidationOverpays ==
  [][\A f \in Fees :
       \/ ~Overpaid(f)'
       \/ Overpaid(f) /\ PaidOn(payment', alloc', f) <= PaidOn(payment, alloc, f)
       \/ \E p \in Payments : payment[p].status = "pending" /\ payment'[p].status = "completed"]_vars

\* The status stored on a line is the one its payments give it; no correction, discount
\* or deposit leaves a stale one behind.
StatusTellsWhatIsPaid ==
  \A f \in Fees : fee[f] = recompute_fee_status(fee[f], PaidOn(payment, alloc, f))

\* No money lies on a line that is out of the cash circuit, deposited or waived, not even
\* a pending transfer (models/fee.py, LIVE_PAYMENT_STATUSES).
NoMoneyOffTheCircuit ==
  \A f \in Fees : is_not_cash_due(fee[f]) => ~fee_carries_live_payment(f)

\* However often a screen sends it, a key stands for one payment.
OnePaymentPerKey ==
  \A p, q \in Payments : payment[p].key # None /\ payment[p].key = payment[q].key => p = q

\* A cancelled payment stays as it was cancelled, its lines too, and what a payment says
\* of the money received never changes; lines only move while it is completed.
HistoryIsKept ==
  [][\A p \in Payments :
       payment[p].status # "none" =>
         /\ payment'[p] = [payment[p] EXCEPT !.status = payment'[p].status]
         /\ alloc'[p] # alloc[p] => payment[p].status = "completed" /\ payment'[p] = payment[p]
         /\ payment[p].status = "cancelled" => payment'[p] = payment[p]]_vars

\* The drawers of the counter are those of Till: the cash of the payments obeys what the
\* sessions promise.
Drawers == INSTANCE Till WITH
  takings <- [c \in Cashiers |-> [d \in Days |-> DayCash(payment, c, d)]],
  Totals  <- Nat

ImplementsTill == Drawers!Spec

\* A deposit in kind is undone by cancelling the deposit, nothing else puts the line back
\* among what is due.
DepositUndoneOnlyByCancel ==
  [][\A f \in Fees : fee[f].status = "in_kind" /\ fee'[f].status # "in_kind" =>
       cancel_in_kind_deposit(f)]_vars
=============================================================================
