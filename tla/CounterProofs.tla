---------------------------- MODULE CounterProofs ----------------------------
(***************************************************************************)
(* The books of the counter, for any number of enrollments, lines,          *)
(* payments, cashiers and days.                                             *)
(*                                                                         *)
(* What is paid on a line is a sum over the payments, so every step is       *)
(* first reduced to what it does to one term of that sum (PaidOnChange).     *)
(* The invariants are proved together with three facts about the lines       *)
(* (LinesOrdered) and one about the drawers (FrozenWhenLocked).             *)
(***************************************************************************)
EXTENDS Counter, FeeRulesProofs

USE CashDayAssumption, CounterAssumption

MoneyTypeOK ==
  /\ fee \in [Fees -> FeeLine]
  /\ payment \in [Payments -> Payment]
  /\ alloc \in [Payments -> [Fees -> Nat]]

\* A deposited line was due, a waived one is worth nothing, a discounted one is at most its
\* nominal amount.
LinesOrdered ==
  \A f \in Fees : /\ fee[f].status = "in_kind" => fee[f].amount > 0
                  /\ fee[f].status = "waived" => fee[f].amount = 0
                  /\ fee[f].original # None => fee[f].amount <= fee[f].original

MoneyInv ==
  /\ MoneyTypeOK /\ LinesOrdered
  /\ LinesCoverPayment /\ StatusTellsWhatIsPaid /\ NoMoneyOffTheCircuit /\ OnePaymentPerKey

FrozenWhenLocked ==
  \A c \in Cashiers, d \in Days : is_locked(session[c][d]) => session[c][d].expected # None

DrawerInv == CashDayTypeOK /\ FrozenWhenLocked

IInv == MoneyInv /\ DrawerInv

\* One step of OnlyValidationOverpays and of HistoryIsKept.
NoNewOverpayment ==
  \A f \in Fees :
    \/ ~Overpaid(f)'
    \/ Overpaid(f) /\ PaidOn(payment', alloc', f) <= PaidOn(payment, alloc, f)
    \/ \E p \in Payments : payment[p].status = "pending" /\ payment'[p].status = "completed"

Kept ==
  \A p \in Payments :
    payment[p].status # "none" =>
      /\ payment'[p] = [payment[p] EXCEPT !.status = payment'[p].status]
      /\ alloc'[p] # alloc[p] => payment[p].status = "completed" /\ payment'[p] = payment[p]
      /\ payment[p].status = "cancelled" => payment'[p] = payment[p]

-----------------------------------------------------------------------------
(* What is paid on a line. *)

\* The term of payment p in what is paid on line f.
Part(pay, al, p, f) == IF pay[p].status = "completed" THEN al[p][f] ELSE 0

LEMMA PaidOnIsNat ==
  ASSUME NEW pay, NEW al \in [Payments -> [Fees -> Nat]], NEW f \in Fees
  PROVE  /\ PaidOn(pay, al, f) \in Nat
         /\ \A p \in Payments : Part(pay, al, p, f) \in Nat /\ Part(pay, al, p, f) <= PaidOn(pay, al, f)
<1> DEFINE a == [p \in Payments |-> IF pay[p].status = "completed" THEN al[p][f] ELSE 0]
<1>1. a \in [1..MaxPayments -> Nat]
  BY DEF Payments
<1>2. PaidOn(pay, al, f) = Sum(a, MaxPayments)
  BY DEF PaidOn
<1>3. \A p \in Payments : a[p] = Part(pay, al, p, f) /\ a[p] \in Nat
  BY <1>1 DEF Part, Payments
<1> HIDE DEF a
<1>4. Sum(a, MaxPayments) \in Nat /\ \A p \in 1..MaxPayments : a[p] <= Sum(a, MaxPayments)
  BY <1>1, SumNat
<1> QED
  BY <1>2, <1>3, <1>4 DEF Payments

\* SumUpdate, for a sum over the payments.
LEMMA PaymentSumUpdate ==
  ASSUME NEW a \in [1..MaxPayments -> Int], NEW b \in [1..MaxPayments -> Int],
         NEW p \in 1..MaxPayments, \A i \in 1..MaxPayments : i # p => b[i] = a[i]
  PROVE  Sum(b, MaxPayments) = Sum(a, MaxPayments) + b[p] - a[p]
<1>1. MaxPayments \in Nat
  BY CounterAssumption
<1>2. \A x, y \in [1..MaxPayments -> Int] : \A q \in 1..MaxPayments :
        (\A i \in 1..MaxPayments : i # q => y[i] = x[i])
          => Sum(y, MaxPayments) = Sum(x, MaxPayments) + y[q] - x[q]
  BY <1>1, SumUpdateAll, Zenon
<1>3. \A y \in [1..MaxPayments -> Int] : \A q \in 1..MaxPayments :
        (\A i \in 1..MaxPayments : i # q => y[i] = a[i])
          => Sum(y, MaxPayments) = Sum(a, MaxPayments) + y[q] - a[q]
  BY <1>2, Zenon
<1> QED
  BY <1>3, Zenon

\* Changing one payment changes what is paid by the change of its term.
LEMMA PaidOnChange ==
  ASSUME NEW pay, NEW al \in [Payments -> [Fees -> Nat]],
         NEW pay2, NEW al2 \in [Payments -> [Fees -> Nat]],
         NEW p \in Payments, NEW f \in Fees,
         \A q \in Payments : q # p => Part(pay2, al2, q, f) = Part(pay, al, q, f)
  PROVE  PaidOn(pay2, al2, f)
           = PaidOn(pay, al, f) + Part(pay2, al2, p, f) - Part(pay, al, p, f)
<1> DEFINE a == [q \in Payments |-> IF pay[q].status = "completed" THEN al[q][f] ELSE 0]
           b == [q \in Payments |-> IF pay2[q].status = "completed" THEN al2[q][f] ELSE 0]
<1>1. a \in [1..MaxPayments -> Int] /\ b \in [1..MaxPayments -> Int]
  BY DEF Payments
<1>2. PaidOn(pay, al, f) = Sum(a, MaxPayments) /\ PaidOn(pay2, al2, f) = Sum(b, MaxPayments)
  BY DEF PaidOn
<1>3. \A q \in Payments : a[q] = Part(pay, al, q, f) /\ b[q] = Part(pay2, al2, q, f)
  BY DEF Part
<1> HIDE DEF a, b
<1>4. p \in 1..MaxPayments /\ \A i \in 1..MaxPayments : i # p => b[i] = a[i]
  BY <1>3 DEF Payments
<1>5. Sum(b, MaxPayments) = Sum(a, MaxPayments) + b[p] - a[p]
  BY <1>1, <1>4, PaymentSumUpdate, Zenon
<1>6. a[p] = Part(pay, al, p, f) /\ b[p] = Part(pay2, al2, p, f)
  BY <1>3
<1> QED
  BY <1>2, <1>5, <1>6

\* A line without a live allocation has nothing paid on it.
LEMMA NothingPaid ==
  ASSUME NEW f \in Fees, MoneyTypeOK, ~fee_carries_live_payment(f)
  PROVE  PaidOn(payment, alloc, f) = 0
<1> DEFINE a == [p \in Payments |-> IF payment[p].status = "completed" THEN alloc[p][f] ELSE 0]
<1>1. ASSUME NEW p \in Payments
      PROVE  a[p] = 0
  <2>1. alloc[p][f] \in Nat
    BY DEF MoneyTypeOK
  <2> QED
    BY <2>1 DEF fee_carries_live_payment, LIVE_STATUSES
<1>2. a = [p \in 1..MaxPayments |-> 0]
  BY <1>1 DEF Payments
<1>3. PaidOn(payment, alloc, f) = Sum(a, MaxPayments)
  BY DEF PaidOn
<1> QED
  BY <1>2, <1>3, SumZero

\* What is reserved covers what is paid, and is zero only without a live allocation.
LEMMA ReservedCoversPaid ==
  ASSUME NEW f \in Fees, MoneyTypeOK
  PROVE  /\ LiveAllocated(f) \in Nat
         /\ PaidOn(payment, alloc, f) <= LiveAllocated(f)
         /\ LiveAllocated(f) = 0 => ~fee_carries_live_payment(f)
<1> DEFINE a == [p \in Payments |-> IF payment[p].status = "completed" THEN alloc[p][f] ELSE 0]
           b == [p \in Payments |-> IF payment[p].status \in LIVE_STATUSES THEN alloc[p][f] ELSE 0]
<1>1. \A p \in Payments : alloc[p][f] \in Nat
  BY DEF MoneyTypeOK
<1>2. /\ a \in [1..MaxPayments -> Int] /\ b \in [1..MaxPayments -> Int]
      /\ b \in [1..MaxPayments -> Nat]
      /\ \A p \in 1..MaxPayments : a[p] <= b[p]
  BY <1>1 DEF Payments, LIVE_STATUSES
<1>3. PaidOn(payment, alloc, f) = Sum(a, MaxPayments) /\ LiveAllocated(f) = Sum(b, MaxPayments)
  BY DEF PaidOn, LiveAllocated
<1>4. \A p \in Payments : payment[p].status \in LIVE_STATUSES => b[p] = alloc[p][f]
  OBVIOUS
<1> HIDE DEF a, b
<1>5. Sum(a, MaxPayments) <= Sum(b, MaxPayments)
  BY <1>2, SumMonotone
<1>6. Sum(b, MaxPayments) \in Nat /\ \A p \in 1..MaxPayments : b[p] <= Sum(b, MaxPayments)
  BY <1>2, SumNat
<1>7. Sum(b, MaxPayments) = 0 => ~fee_carries_live_payment(f)
  BY <1>1, <1>4, <1>6 DEF fee_carries_live_payment, Payments
<1> QED
  BY <1>3, <1>5, <1>6, <1>7

-----------------------------------------------------------------------------
(* The statuses of the lines. *)

LEMMA Recomputing ==
  ASSUME NEW line \in FeeLine, NEW n \in Nat
  PROVE  LET r == recompute_fee_status(line, n)
         IN  /\ r \in FeeLine
             /\ r.amount = line.amount /\ r.original = line.original
             /\ is_not_cash_due(r) <=> is_not_cash_due(line)
             /\ is_not_cash_due(line) => r.status = line.status
             /\ r = recompute_fee_status(r, n)
<1> DEFINE r == recompute_fee_status(line, n)
<1>1. line.amount \in Nat /\ line.status \in FeeStatuses
  BY DEF FeeLine
<1>2. StatusAfter(line, n) \in FeeStatuses
  BY <1>1 DEF StatusAfter, FeeStatuses
<1>3. r = [line EXCEPT !.status = StatusAfter(line, n)]
  BY DEF recompute_fee_status
<1>4. r \in FeeLine /\ r.amount = line.amount /\ r.original = line.original
      /\ r.status = StatusAfter(line, n)
  BY <1>2, <1>3 DEF FeeLine
<1> HIDE DEF r
<1>5. is_not_cash_due(line) => r.status = line.status
  BY <1>4 DEF StatusAfter
<1>6. ~is_not_cash_due(line) => r.status \in {"paid", "partial", "pending"}
  BY <1>4 DEF StatusAfter
<1>7. is_not_cash_due(r) <=> is_not_cash_due(line)
  BY <1>5, <1>6 DEF is_not_cash_due, NOT_CASH_DUE
<1>8. StatusAfter(r, n) = r.status
  <2>1. CASE is_not_cash_due(line)
    BY <1>7, <2>1 DEF StatusAfter
  <2>2. CASE ~is_not_cash_due(line)
    <3>1. r.amount = line.amount /\ r.status = StatusAfter(line, n)
      BY <1>4
    <3> QED
      BY <1>7, <2>2, <3>1 DEF StatusAfter
  <2> QED
    BY <2>1, <2>2
<1>9. r = recompute_fee_status(r, n)
  BY <1>4, <1>8 DEF recompute_fee_status, FeeLine
<1> QED
  BY <1>4, <1>5, <1>7, <1>9 DEF r

\* A step that recomputes the lines it touches keeps every line well-formed and its status
\* true, and moves no line in or out of the cash circuit.
LEMMA RecomputedLines ==
  ASSUME MoneyInv, NEW touched,
         payment' \in [Payments -> Payment], alloc' \in [Payments -> [Fees -> Nat]],
         fee' = Recomputed(touched, payment', alloc'),
         \A f \in Fees : f \notin touched =>
            PaidOn(payment', alloc', f) = PaidOn(payment, alloc, f)
  PROVE  /\ MoneyTypeOK' /\ LinesOrdered' /\ StatusTellsWhatIsPaid'
         /\ \A f \in Fees : /\ fee'[f].amount = fee[f].amount
                            /\ is_not_cash_due(fee'[f]) <=> is_not_cash_due(fee[f])
<1>1. \A f \in Fees : fee[f] \in FeeLine
  BY DEF MoneyInv, MoneyTypeOK
<1>2. \A f \in Fees : PaidOn(payment', alloc', f) \in Nat
  BY PaidOnIsNat
<1>3. fee' = [f \in Fees |-> IF f \in touched
                             THEN recompute_fee_status(fee[f], PaidOn(payment', alloc', f))
                             ELSE fee[f]]
  BY DEF Recomputed
<1>4. ASSUME NEW f \in Fees
      PROVE  /\ fee'[f] \in FeeLine
             /\ fee'[f].amount = fee[f].amount /\ fee'[f].original = fee[f].original
             /\ is_not_cash_due(fee'[f]) <=> is_not_cash_due(fee[f])
             /\ is_not_cash_due(fee[f]) => fee'[f].status = fee[f].status
             /\ fee'[f] = recompute_fee_status(fee'[f], PaidOn(payment', alloc', f))
  <2>1. CASE f \in touched
    <3>1. fee'[f] = recompute_fee_status(fee[f], PaidOn(payment', alloc', f))
      BY <1>3, <2>1
    <3> QED
      BY <1>1, <1>2, <3>1, Recomputing
  <2>2. CASE f \notin touched
    <3>1. fee'[f] = fee[f]
      BY <1>3, <2>2
    <3>2. fee[f] = recompute_fee_status(fee[f], PaidOn(payment, alloc, f))
      BY DEF MoneyInv, StatusTellsWhatIsPaid
    <3>3. PaidOn(payment', alloc', f) = PaidOn(payment, alloc, f)
      BY <2>2
    <3> QED
      BY <1>1, <3>1, <3>2, <3>3
  <2> QED
    BY <2>1, <2>2
<1>5. MoneyTypeOK'
  BY <1>3, <1>4 DEF MoneyTypeOK
<1>6. LinesOrdered'
  <2>1. \A f \in Fees : /\ fee'[f].status = "in_kind" => fee[f].status = "in_kind"
                        /\ fee'[f].status = "waived" => fee[f].status = "waived"
    BY <1>4 DEF is_not_cash_due, NOT_CASH_DUE
  <2> QED
    BY <1>4, <2>1 DEF MoneyInv, LinesOrdered
<1>7. StatusTellsWhatIsPaid'
  BY <1>4 DEF StatusTellsWhatIsPaid
<1> QED
  BY <1>4, <1>5, <1>6, <1>7

-----------------------------------------------------------------------------
(* Taking money: the two routes write a payment under the same conditions. *)

LEMMA WriteStep ==
  ASSUME MoneyInv, today \in Days,
         NEW p \in Payments, NextId(p),
         NEW e \in Enrollments, NEW amount \in Nat, NEW method \in Methods,
         NEW c \in Cashiers, NEW key \in Keys \cup {None}, KeyIsFree(key),
         NEW lines \in [Fees -> Nat], Sum(lines, FeeCount) = amount,
         \A f \in Fees : lines[f] > 0 =>
            /\ EnrollmentOf[f] = e
            /\ ~is_not_cash_due(fee[f])
            /\ PaidOn(payment, alloc, f) + lines[f] <= fee[f].amount,
         WritePayment(p, e, amount, method, c, key, lines)
  PROVE  MoneyInv' /\ NoNewOverpayment /\ Kept
<1> DEFINE row == [status |-> "completed", enrollment |-> e, amount |-> amount,
                   method |-> method, received_by |-> c, day |-> today, key |-> key]
           touched == {f \in Fees : lines[f] > 0}
<1>1. /\ fee \in [Fees -> FeeLine] /\ payment \in [Payments -> Payment]
      /\ alloc \in [Payments -> [Fees -> Nat]]
  BY DEF MoneyInv, MoneyTypeOK
<1>2. payment' = [payment EXCEPT ![p] = row] /\ alloc' = [alloc EXCEPT ![p] = lines]
      /\ fee' = Recomputed(touched, payment', alloc')
  BY DEF WritePayment
<1>3. row \in Payment
  BY DEF Payment, PaymentStatus
<1>4. row.status = "completed" /\ row.amount = amount /\ row.enrollment = e /\ row.key = key
  OBVIOUS
<1> HIDE DEF row
<1>5. payment' \in [Payments -> Payment] /\ alloc' \in [Payments -> [Fees -> Nat]]
  BY <1>1, <1>2, <1>3
<1>6. payment'[p] = row /\ alloc'[p] = lines
  BY <1>1, <1>2
<1>7. \A q \in Payments : q # p => payment'[q] = payment[q] /\ alloc'[q] = alloc[q]
  BY <1>1, <1>2
<1>8. payment[p].status = "none"
  BY DEF NextId
<1>9. \A f \in Fees : PaidOn(payment', alloc', f) = PaidOn(payment, alloc, f) + lines[f]
  <2>1. ASSUME NEW f \in Fees
        PROVE  PaidOn(payment', alloc', f) = PaidOn(payment, alloc, f) + lines[f]
    <3>1. \A q \in Payments : q # p =>
            Part(payment', alloc', q, f) = Part(payment, alloc, q, f)
      BY <1>7 DEF Part
    <3>2. Part(payment', alloc', p, f) = lines[f] /\ Part(payment, alloc, p, f) = 0
      BY <1>4, <1>6, <1>8 DEF Part
    <3>3. PaidOn(payment', alloc', f)
            = PaidOn(payment, alloc, f) + Part(payment', alloc', p, f)
                - Part(payment, alloc, p, f)
      BY <1>1, <1>5, <3>1, PaidOnChange
    <3>4. PaidOn(payment, alloc, f) \in Nat /\ lines[f] \in Nat
      BY <1>1, PaidOnIsNat
    <3> QED
      BY <3>2, <3>3, <3>4
  <2> QED
    BY <2>1
<1>10. \A f \in Fees : PaidOn(payment, alloc, f) \in Nat
  BY <1>1, PaidOnIsNat
<1>11. \A f \in Fees : f \notin touched =>
         PaidOn(payment', alloc', f) = PaidOn(payment, alloc, f)
  BY <1>9, <1>10
<1>12. /\ MoneyTypeOK' /\ LinesOrdered' /\ StatusTellsWhatIsPaid'
       /\ \A f \in Fees : /\ fee'[f].amount = fee[f].amount
                          /\ is_not_cash_due(fee'[f]) <=> is_not_cash_due(fee[f])
  <2> HIDE DEF touched
  <2> QED
    BY <1>2, <1>5, <1>11, RecomputedLines
<1>13. LinesCoverPayment'
  BY <1>4, <1>6, <1>7 DEF MoneyInv, LinesCoverPayment
<1>14. NoMoneyOffTheCircuit'
  <2> SUFFICES ASSUME NEW f \in Fees, is_not_cash_due(fee[f]), NEW q \in Payments
               PROVE  ~(payment'[q].status \in LIVE_STATUSES /\ alloc'[q][f] > 0)
    BY <1>12 DEF NoMoneyOffTheCircuit, fee_carries_live_payment
  <2>1. CASE q = p
    BY <1>6, <2>1
  <2>2. CASE q # p
    BY <1>7, <2>2 DEF MoneyInv, NoMoneyOffTheCircuit, fee_carries_live_payment
  <2> QED
    BY <2>1, <2>2
<1>15. OnePaymentPerKey'
  BY <1>4, <1>6, <1>7 DEF MoneyInv, OnePaymentPerKey, KeyIsFree
<1>16. NoNewOverpayment
  <2> SUFFICES ASSUME NEW f \in Fees
               PROVE  \/ ~(PaidOn(payment', alloc', f) > fee'[f].amount)
                      \/ /\ PaidOn(payment, alloc, f) > fee[f].amount
                         /\ PaidOn(payment', alloc', f) <= PaidOn(payment, alloc, f)
    BY DEF NoNewOverpayment, Overpaid
  <2>1. fee[f].amount \in Nat /\ lines[f] \in Nat
    BY <1>1 DEF FeeLine
  <2>2. CASE lines[f] > 0
    BY <1>9, <1>10, <1>12, <2>1, <2>2
  <2>3. CASE lines[f] = 0
    BY <1>9, <1>10, <1>12, <2>1, <2>3
  <2> QED
    BY <2>1, <2>2, <2>3
<1>17. Kept
  <2>1. \A q \in Payments : q # p => payment'[q] = payment[q] /\ alloc'[q] = alloc[q]
    BY <1>7
  <2>2. \A q \in Payments : payment[q] = [payment[q] EXCEPT !.status = payment[q].status]
    BY <1>1 DEF Payment
  <2> QED
    BY <1>8, <2>1, <2>2 DEF Kept
<1> QED
  BY <1>12, <1>13, <1>14, <1>15, <1>16, <1>17 DEF MoneyInv

LEMMA ItemsAreNamedLines == Items \subseteq NamedLines(FeeCount)
<1> SUFFICES ASSUME NEW k \in 0..2, NEW s \in [1..k -> [fee : Fees, amount : Amounts]]
             PROVE  s \in Seq([fee : 1..FeeCount, amount : Nat])
  BY DEF Items, NamedLines
<1>1. k \in Nat /\ \A i \in 1..k : s[i] \in [fee : 1..FeeCount, amount : Nat]
  <2>1. \A i \in 1..k : s[i] \in [fee : Fees, amount : Amounts]
    OBVIOUS
  <2>2. \A r \in [fee : Fees, amount : Amounts] : r \in [fee : 1..FeeCount, amount : Nat]
    BY DEF Fees
  <2>3. \A i \in 1..k : s[i] \in [fee : 1..FeeCount, amount : Nat]
    BY <2>1, <2>2, Zenon
  <2> QED
    BY <2>3
<1>2. s = [i \in 1..k |-> s[i]]
  OBVIOUS
<1> QED
  BY <1>1, <1>2, IsASeq

LEMMA RecordStep ==
  ASSUME MoneyInv, today \in Days,
         NEW p \in Payments, NEW c \in Cashiers, NEW e \in Enrollments, NEW amount \in Amounts,
         NEW items \in Items, NEW method \in Methods, NEW key \in Keys \cup {None},
         record_enrollment_payment(p, c, e, amount, items, method, key)
  PROVE  MoneyInv' /\ NoNewOverpayment /\ Kept
<1> DEFINE paid  == Paid(payment, alloc)
           issue == resolve_allocation(amount, items, FeesOf(e), fee, paid, FeeCount)
           lines == issue.splits
           room  == RoomOf(FeesOf(e), fee, paid)
<1>1. /\ NextId(p) /\ KeyIsFree(key)
      /\ may_record(amount, items, FeesOf(e), fee, paid, FeeCount)
      /\ WritePayment(p, e, amount, method, c, key, lines)
  BY DEF record_enrollment_payment
<1>2. /\ fee \in [Fees -> FeeLine] /\ alloc \in [Payments -> [Fees -> Nat]]
  BY DEF MoneyInv, MoneyTypeOK
<1>3. \A f \in Fees : paid[f] = PaidOn(payment, alloc, f) /\ paid[f] \in Nat
  BY <1>2, PaidOnIsNat DEF Paid
<1>4. issue.accepted /\ Sum(lines, FeeCount) = amount
  BY <1>1 DEF may_record, verifier
<1> HIDE DEF paid
<1>5. LinesOK(fee, paid, FeeCount)
  BY <1>2, <1>3 DEF LinesOK, FeeLine, Fees
<1>6. FeeCount \in Nat /\ amount \in Nat /\ items \in NamedLines(FeeCount)
  BY ItemsAreNamedLines
<1>7. lines \in [1..FeeCount -> Nat] /\ \A f \in 1..FeeCount : lines[f] <= room[f]
  BY <1>4, <1>5, <1>6, SplitsHonour
<1>8. /\ room \in [1..FeeCount -> Nat]
      /\ \A f \in 1..FeeCount :
           room[f] = IF f \in FeesOf(e) /\ can_receive_cash(fee[f], paid[f])
                     THEN cash_remaining(fee[f], paid[f]) ELSE 0
  BY <1>5, <1>6, RoomIsNat
<1> HIDE DEF issue, room
<1>9. ASSUME NEW f \in Fees, lines[f] > 0
      PROVE  /\ EnrollmentOf[f] = e
             /\ ~is_not_cash_due(fee[f])
             /\ PaidOn(payment, alloc, f) + lines[f] <= fee[f].amount
  <2>1. lines[f] \in Nat /\ room[f] \in Nat /\ lines[f] <= room[f] /\ room[f] > 0
    BY <1>7, <1>8, <1>9 DEF Fees
  <2>2. /\ f \in FeesOf(e) /\ can_receive_cash(fee[f], paid[f])
        /\ room[f] = cash_remaining(fee[f], paid[f])
    BY <1>8, <2>1 DEF Fees
  <2>3. fee[f].amount \in Nat
    BY <1>2 DEF FeeLine
  <2>4. ~is_not_cash_due(fee[f])
    BY <2>2 DEF can_receive_cash, is_not_cash_due, NOT_CASH_DUE
  <2>5. room[f] = fee[f].amount - paid[f]
    BY <2>1, <2>2, <2>4 DEF cash_remaining
  <2> QED
    BY <1>3, <2>1, <2>2, <2>3, <2>4, <2>5 DEF FeesOf
<1>10. lines \in [Fees -> Nat]
  BY <1>7 DEF Fees
<1> HIDE DEF lines
<1> QED
  BY <1>1, <1>4, <1>6, <1>9, <1>10, WriteStep

LEMMA CreateStep ==
  ASSUME MoneyInv, today \in Days,
         NEW p \in Payments, NEW c \in Cashiers, NEW f \in Fees, NEW amount \in Amounts,
         NEW method \in Methods, create_payment(p, c, f, amount, method)
  PROVE  MoneyInv' /\ NoNewOverpayment /\ Kept
<1> DEFINE lines == [g \in Fees |-> IF g = f THEN amount ELSE 0]
<1>1. /\ NextId(p)
      /\ amount <= cash_remaining(fee[f], PaidOn(payment, alloc, f))
      /\ Sum(lines, FeeCount) = amount
      /\ WritePayment(p, EnrollmentOf[f], amount, method, c, None, lines)
  BY DEF create_payment, verifier
<1>2. amount \in Nat /\ amount > 0 /\ EnrollmentOf[f] \in Enrollments
  OBVIOUS
<1>3. lines \in [Fees -> Nat] /\ \A g \in Fees : lines[g] > 0 => g = f /\ lines[g] = amount
  BY <1>2
<1>4. fee[f].amount \in Nat /\ PaidOn(payment, alloc, f) \in Nat
  BY PaidOnIsNat DEF MoneyInv, MoneyTypeOK, FeeLine
<1>5. ~is_not_cash_due(fee[f]) /\ PaidOn(payment, alloc, f) + amount <= fee[f].amount
  BY <1>1, <1>2, <1>4 DEF cash_remaining
<1> HIDE DEF lines
<1>6. None \in Keys \cup {None} /\ KeyIsFree(None)
  BY DEF KeyIsFree
<1>7. \A g \in Fees : lines[g] > 0 =>
        /\ EnrollmentOf[g] = EnrollmentOf[f]
        /\ ~is_not_cash_due(fee[g])
        /\ PaidOn(payment, alloc, g) + lines[g] <= fee[g].amount
  BY <1>3, <1>5
<1> QED
  BY <1>1, <1>2, <1>3, <1>6, <1>7, WriteStep

-----------------------------------------------------------------------------
(* Correcting. *)

LEMMA TransitionStep ==
  ASSUME MoneyInv, NEW p \in Payments, NEW target \in {"completed", "cancelled"},
         Transition(p, target)
  PROVE  MoneyInv' /\ NoNewOverpayment /\ Kept
<1> DEFINE touched == {f \in Fees : alloc[p][f] > 0}
<1>1. /\ fee \in [Fees -> FeeLine] /\ payment \in [Payments -> Payment]
      /\ alloc \in [Payments -> [Fees -> Nat]]
  BY DEF MoneyInv, MoneyTypeOK
<1>2. /\ target \in VALID_TRANSITIONS[payment[p].status]
      /\ payment' = [payment EXCEPT ![p].status = target] /\ alloc' = alloc
      /\ fee' = Recomputed(touched, payment', alloc')
  BY DEF Transition
<1>3. payment[p] \in Payment /\ payment[p].status \in PaymentStatus
  BY <1>1 DEF Payment
<1>4. /\ payment[p].status \in {"pending", "completed"}
      /\ target = "completed" => payment[p].status = "pending"
  BY <1>2, <1>3 DEF VALID_TRANSITIONS, PaymentStatus
<1>5. /\ payment'[p] = [payment[p] EXCEPT !.status = target]
      /\ \A q \in Payments : q # p => payment'[q] = payment[q]
  BY <1>1, <1>2
<1>6. /\ payment'[p] \in Payment /\ payment'[p].status = target
      /\ payment'[p].amount = payment[p].amount
      /\ payment'[p].enrollment = payment[p].enrollment
      /\ payment'[p].key = payment[p].key
  BY <1>3, <1>5 DEF Payment, PaymentStatus
<1>7. payment' \in [Payments -> Payment] /\ alloc' \in [Payments -> [Fees -> Nat]]
  BY <1>1, <1>2, <1>5, <1>6
<1>8. \A f \in Fees :
        /\ alloc[p][f] \in Nat
        /\ PaidOn(payment', alloc', f)
             = PaidOn(payment, alloc, f) + Part(payment', alloc', p, f) - Part(payment, alloc, p, f)
        /\ PaidOn(payment, alloc, f) \in Nat /\ PaidOn(payment', alloc', f) \in Nat
        /\ fee[f].amount \in Nat
  <2>1. ASSUME NEW f \in Fees
        PROVE  PaidOn(payment', alloc', f)
                 = PaidOn(payment, alloc, f) + Part(payment', alloc', p, f)
                     - Part(payment, alloc, p, f)
    <3>1. \A q \in Payments : q # p =>
            Part(payment', alloc', q, f) = Part(payment, alloc, q, f)
      BY <1>2, <1>5 DEF Part
    <3> QED
      BY <1>1, <1>7, <3>1, PaidOnChange
  <2>2. \A f \in Fees : alloc[p][f] \in Nat /\ fee[f].amount \in Nat
    BY <1>1 DEF FeeLine
  <2>3. \A f \in Fees : PaidOn(payment, alloc, f) \in Nat /\ PaidOn(payment', alloc', f) \in Nat
    BY <1>1, <1>7, PaidOnIsNat
  <2> QED
    BY <2>1, <2>2, <2>3
<1>9. \A f \in Fees : f \notin touched =>
         PaidOn(payment', alloc', f) = PaidOn(payment, alloc, f)
  <2>1. \A f \in Fees : f \notin touched =>
          Part(payment', alloc', p, f) = 0 /\ Part(payment, alloc, p, f) = 0
    BY <1>2, <1>8 DEF Part
  <2> QED
    BY <1>8, <2>1
<1>10. /\ MoneyTypeOK' /\ LinesOrdered' /\ StatusTellsWhatIsPaid'
       /\ \A f \in Fees : /\ fee'[f].amount = fee[f].amount
                          /\ is_not_cash_due(fee'[f]) <=> is_not_cash_due(fee[f])
  <2> HIDE DEF touched
  <2> QED
    BY <1>2, <1>7, <1>9, RecomputedLines
<1>11. \A q \in Payments : /\ payment'[q].amount = payment[q].amount
                           /\ payment'[q].enrollment = payment[q].enrollment
                           /\ payment'[q].key = payment[q].key
                           /\ payment'[q].status \in LIVE_STATUSES
                                => payment[q].status \in LIVE_STATUSES
  BY <1>4, <1>5, <1>6 DEF LIVE_STATUSES
<1>12. LinesCoverPayment'
  BY <1>2, <1>11 DEF MoneyInv, LinesCoverPayment
<1>13. NoMoneyOffTheCircuit'
  BY <1>2, <1>10, <1>11 DEF MoneyInv, NoMoneyOffTheCircuit, fee_carries_live_payment
<1>14. OnePaymentPerKey'
  BY <1>11 DEF MoneyInv, OnePaymentPerKey
<1>15. NoNewOverpayment
  <2>1. CASE target = "completed"
    BY <1>4, <1>6, <2>1 DEF NoNewOverpayment
  <2>2. CASE target = "cancelled"
    <3>1. \A f \in Fees : Part(payment', alloc', p, f) = 0 /\ Part(payment, alloc, p, f) \in Nat
      BY <1>6, <1>8, <2>2 DEF Part
    <3>2. \A f \in Fees : PaidOn(payment', alloc', f) <= PaidOn(payment, alloc, f)
      BY <1>8, <3>1
    <3> QED
      BY <1>8, <1>10, <3>2 DEF NoNewOverpayment, Overpaid
  <2> QED
    BY <2>1, <2>2
<1>16. Kept
  <2>1. \A q \in Payments : q # p =>
          payment'[q] = [payment[q] EXCEPT !.status = payment'[q].status]
    BY <1>1, <1>5 DEF Payment
  <2> QED
    BY <1>2, <1>4, <1>5, <1>6, <2>1 DEF Kept
<1> QED
  BY <1>10, <1>12, <1>13, <1>14, <1>15, <1>16 DEF MoneyInv

LEMMA ReallocateStep ==
  ASSUME MoneyInv, NEW p \in Payments, NEW from \in Fees, NEW to \in Fees,
         NEW amount \in Amounts, NEW c \in Cashiers, NEW any,
         reallocate_payment(p, from, to, amount, c, any)
  PROVE  MoneyInv' /\ NoNewOverpayment /\ Kept
<1> DEFINE lines == [alloc[p] EXCEPT ![from] = @ - amount, ![to] = @ + amount]
<1>1. /\ fee \in [Fees -> FeeLine] /\ payment \in [Payments -> Payment]
      /\ alloc \in [Payments -> [Fees -> Nat]]
  BY DEF MoneyInv, MoneyTypeOK
<1>2. /\ from # to
      /\ payment[p].status = "completed"
      /\ alloc[p][from] > 0 /\ amount <= alloc[p][from]
      /\ EnrollmentOf[to] = EnrollmentOf[from]
      /\ can_receive_cash(fee[to], PaidOn(payment, alloc, to))
      /\ amount <= cash_remaining(fee[to], PaidOn(payment, alloc, to))
      /\ Sum(lines, FeeCount) = payment[p].amount
      /\ alloc' = [alloc EXCEPT ![p] = lines]
      /\ payment' = payment
      /\ fee' = Recomputed({from, to}, payment', alloc')
  BY DEF reallocate_payment, LineHolds, SameEnrollment, verifier
<1>3. /\ amount \in Nat /\ amount > 0 /\ alloc[p] \in [Fees -> Nat]
      /\ \A f \in Fees : alloc[p][f] \in Nat
  BY <1>1
<1>4. /\ lines \in [Fees -> Nat]
      /\ lines[from] = alloc[p][from] - amount
      /\ lines[to] = alloc[p][to] + amount
      /\ \A f \in Fees : f # from /\ f # to => lines[f] = alloc[p][f]
  BY <1>2, <1>3
<1> HIDE DEF lines
<1>5. payment' \in [Payments -> Payment] /\ alloc' \in [Payments -> [Fees -> Nat]]
  BY <1>1, <1>2, <1>4
<1>6. alloc'[p] = lines /\ \A q \in Payments : q # p => alloc'[q] = alloc[q]
  BY <1>1, <1>2
<1>7. ASSUME NEW f \in Fees
      PROVE  /\ PaidOn(payment', alloc', f) = PaidOn(payment, alloc, f) + lines[f] - alloc[p][f]
             /\ PaidOn(payment, alloc, f) \in Nat /\ PaidOn(payment', alloc', f) \in Nat
             /\ fee[f].amount \in Nat
  <2>1. \A q \in Payments : q # p => Part(payment', alloc', q, f) = Part(payment, alloc, q, f)
    BY <1>2, <1>6 DEF Part
  <2>2. Part(payment', alloc', p, f) = lines[f] /\ Part(payment, alloc, p, f) = alloc[p][f]
    BY <1>2, <1>6 DEF Part
  <2>3. PaidOn(payment', alloc', f)
          = PaidOn(payment, alloc, f) + Part(payment', alloc', p, f) - Part(payment, alloc, p, f)
    BY <1>1, <1>5, <2>1, PaidOnChange
  <2>4. PaidOn(payment, alloc, f) \in Nat /\ PaidOn(payment', alloc', f) \in Nat
    BY <1>1, <1>5, PaidOnIsNat
  <2>5. fee[f].amount \in Nat
    BY <1>1 DEF FeeLine
  <2> QED
    BY <2>2, <2>3, <2>4, <2>5
<1>8. \A f \in Fees : f \notin {from, to} =>
         PaidOn(payment', alloc', f) = PaidOn(payment, alloc, f)
  BY <1>3, <1>4, <1>7
<1>9. /\ MoneyTypeOK' /\ LinesOrdered' /\ StatusTellsWhatIsPaid'
      /\ \A f \in Fees : /\ fee'[f].amount = fee[f].amount
                         /\ is_not_cash_due(fee'[f]) <=> is_not_cash_due(fee[f])
  BY <1>2, <1>5, <1>8, RecomputedLines
<1>10. /\ ~is_not_cash_due(fee[to])
       /\ PaidOn(payment, alloc, to) + amount <= fee[to].amount
  <2>1. ~is_not_cash_due(fee[to])
    BY <1>2 DEF can_receive_cash, is_not_cash_due, NOT_CASH_DUE
  <2>2. PaidOn(payment, alloc, to) \in Nat /\ fee[to].amount \in Nat
    BY <1>7
  <2> QED
    BY <1>2, <1>3, <2>1, <2>2 DEF cash_remaining
<1>11. LinesCoverPayment'
  <2> SUFFICES ASSUME NEW q \in Payments
               PROVE  /\ Sum(alloc'[q], FeeCount) = payment[q].amount
                      /\ \A f \in Fees : alloc'[q][f] > 0 => EnrollmentOf[f] = payment[q].enrollment
    BY <1>2 DEF LinesCoverPayment
  <2>1. \A f \in Fees : alloc[p][f] > 0 => EnrollmentOf[f] = payment[p].enrollment
    BY DEF MoneyInv, LinesCoverPayment
  <2>2. \A f \in Fees : lines[f] > 0 => EnrollmentOf[f] = payment[p].enrollment
    BY <1>2, <1>3, <1>4, <2>1
  <2>3. CASE q = p
    BY <1>2, <1>6, <2>2, <2>3
  <2>4. CASE q # p
    BY <1>6, <2>4 DEF MoneyInv, LinesCoverPayment
  <2> QED
    BY <2>3, <2>4
<1>12. NoMoneyOffTheCircuit'
  <2> SUFFICES ASSUME NEW f \in Fees, is_not_cash_due(fee[f]), NEW q \in Payments
               PROVE  ~(payment[q].status \in LIVE_STATUSES /\ alloc'[q][f] > 0)
    BY <1>2, <1>9 DEF NoMoneyOffTheCircuit, fee_carries_live_payment
  <2>1. ~(payment[q].status \in LIVE_STATUSES /\ alloc[q][f] > 0)
    BY DEF MoneyInv, NoMoneyOffTheCircuit, fee_carries_live_payment
  <2>2. f # to
    BY <1>10
  <2>3. alloc'[q][f] > 0 => alloc[q][f] > 0
    BY <1>2, <1>3, <1>4, <1>6, <2>2
  <2> QED
    BY <2>1, <2>3
<1>13. OnePaymentPerKey'
  BY <1>2 DEF MoneyInv, OnePaymentPerKey
<1>14. NoNewOverpayment
  <2> SUFFICES ASSUME NEW f \in Fees
               PROVE  \/ ~(PaidOn(payment', alloc', f) > fee'[f].amount)
                      \/ /\ PaidOn(payment, alloc, f) > fee[f].amount
                         /\ PaidOn(payment', alloc', f) <= PaidOn(payment, alloc, f)
    BY DEF NoNewOverpayment, Overpaid
  <2>1. CASE f = to
    BY <1>3, <1>4, <1>7, <1>9, <1>10, <2>1
  <2>2. CASE f # to
    <3>1. lines[f] <= alloc[p][f] /\ lines[f] \in Nat /\ alloc[p][f] \in Nat
      BY <1>2, <1>3, <1>4, <2>2
    <3> QED
      BY <1>7, <1>9, <3>1
  <2> QED
    BY <2>1, <2>2
<1>15. Kept
  <2>1. \A q \in Payments : payment[q] = [payment[q] EXCEPT !.status = payment[q].status]
    BY <1>1 DEF Payment
  <2> QED
    BY <1>2, <1>6, <2>1 DEF Kept
<1> QED
  BY <1>9, <1>11, <1>12, <1>13, <1>14, <1>15 DEF MoneyInv

-----------------------------------------------------------------------------
(* Deposits in kind and discounts: one line is rewritten, the money stays where it is. *)

LEMMA LineStep ==
  ASSUME MoneyInv, UNCHANGED <<payment, alloc>>,
         NEW f \in Fees, NEW line \in FeeLine, fee' = [fee EXCEPT ![f] = line],
         line.status = "in_kind" => line.amount > 0,
         line.status = "waived" => line.amount = 0,
         line.original # None => line.amount <= line.original,
         line = recompute_fee_status(line, PaidOn(payment, alloc, f)),
         is_not_cash_due(line) => ~fee_carries_live_payment(f),
         PaidOn(payment, alloc, f) <= line.amount \/ fee[f].amount <= line.amount
  PROVE  MoneyInv' /\ NoNewOverpayment /\ Kept
<1>1. /\ fee \in [Fees -> FeeLine] /\ payment \in [Payments -> Payment]
      /\ alloc \in [Payments -> [Fees -> Nat]]
  BY DEF MoneyInv, MoneyTypeOK
<1>2. payment' = payment /\ alloc' = alloc
  OBVIOUS
<1>3. fee'[f] = line /\ \A g \in Fees : g # f => fee'[g] = fee[g]
  BY <1>1
<1>4. MoneyTypeOK'
  BY <1>1, <1>2, <1>3 DEF MoneyTypeOK
<1>5. LinesOrdered'
  BY <1>3 DEF MoneyInv, LinesOrdered
<1>6. LinesCoverPayment' /\ OnePaymentPerKey'
  BY <1>2 DEF MoneyInv, LinesCoverPayment, OnePaymentPerKey
<1>7. StatusTellsWhatIsPaid'
  <2> SUFFICES ASSUME NEW g \in Fees
               PROVE  fee'[g] = recompute_fee_status(fee'[g], PaidOn(payment, alloc, g))
    BY <1>2 DEF StatusTellsWhatIsPaid
  <2>1. CASE g = f
    BY <1>3, <2>1
  <2>2. CASE g # f
    BY <1>3, <2>2 DEF MoneyInv, StatusTellsWhatIsPaid
  <2> QED
    BY <2>1, <2>2
<1>8. NoMoneyOffTheCircuit'
  <2> SUFFICES ASSUME NEW g \in Fees, is_not_cash_due(fee'[g])
               PROVE  ~fee_carries_live_payment(g)
    BY <1>2 DEF NoMoneyOffTheCircuit, fee_carries_live_payment
  <2>1. CASE g = f
    BY <1>3, <2>1
  <2>2. CASE g # f
    BY <1>3, <2>2 DEF MoneyInv, NoMoneyOffTheCircuit
  <2> QED
    BY <2>1, <2>2
<1>9. NoNewOverpayment
  <2> SUFFICES ASSUME NEW g \in Fees
               PROVE  \/ ~(PaidOn(payment, alloc, g) > fee'[g].amount)
                      \/ PaidOn(payment, alloc, g) > fee[g].amount
    <3>1. \A g \in Fees : PaidOn(payment, alloc, g) \in Nat
      BY <1>1, PaidOnIsNat
    <3> QED
      BY <1>2, <3>1 DEF NoNewOverpayment, Overpaid
  <2>1. CASE g = f
    <3>1. PaidOn(payment, alloc, f) \in Nat /\ line.amount \in Nat /\ fee[f].amount \in Nat
      BY <1>1, PaidOnIsNat DEF FeeLine
    <3> QED
      BY <1>3, <2>1, <3>1
  <2>2. CASE g # f
    BY <1>3, <2>2
  <2> QED
    BY <2>1, <2>2
<1>10. Kept
  <2>1. \A q \in Payments : payment[q] = [payment[q] EXCEPT !.status = payment[q].status]
    BY <1>1 DEF Payment
  <2> QED
    BY <1>2, <2>1 DEF Kept
<1> QED
  BY <1>4, <1>5, <1>6, <1>7, <1>8, <1>9, <1>10 DEF MoneyInv

LEMMA DepositStep ==
  ASSUME MoneyInv, NEW f \in Fees, mark_in_kind_deposit(f)
  PROVE  MoneyInv' /\ NoNewOverpayment /\ Kept
<1> DEFINE line == [fee[f] EXCEPT !.status = "in_kind"]
<1>1. fee[f] \in FeeLine /\ fee[f].amount \in Nat /\ fee \in [Fees -> FeeLine]
  BY DEF MoneyInv, MoneyTypeOK, FeeLine
<1>2. /\ fee[f].status = "pending" /\ ~fee_carries_live_payment(f)
      /\ fee' = [fee EXCEPT ![f] = line] /\ UNCHANGED <<payment, alloc>>
  BY <1>1 DEF mark_in_kind_deposit
<1>3. PaidOn(payment, alloc, f) = 0
  BY <1>2, NothingPaid DEF MoneyInv
<1>4. fee[f] = recompute_fee_status(fee[f], 0)
  BY <1>3 DEF MoneyInv, StatusTellsWhatIsPaid
<1>5. fee[f].amount > 0
  <2>1. fee[f].status = StatusAfter(fee[f], 0)
    BY <1>1, <1>4 DEF recompute_fee_status, FeeLine
  <2>2. ~is_not_cash_due(fee[f])
    BY <1>2 DEF is_not_cash_due, NOT_CASH_DUE
  <2> QED
    BY <1>1, <1>2, <2>1, <2>2 DEF StatusAfter
<1>6. /\ line \in FeeLine /\ line.status = "in_kind"
      /\ line.amount = fee[f].amount /\ line.original = fee[f].original
  BY <1>1 DEF FeeLine, FeeStatuses, NOT_CASH_DUE
<1> HIDE DEF line
<1>7. is_not_cash_due(line)
  BY <1>6 DEF is_not_cash_due, NOT_CASH_DUE
<1>8. line = recompute_fee_status(line, PaidOn(payment, alloc, f))
  BY <1>6, <1>7 DEF recompute_fee_status, StatusAfter, FeeLine
<1>9. line.original # None => line.amount <= line.original
  BY <1>6 DEF MoneyInv, LinesOrdered
<1>10. line.amount > 0 /\ fee[f].amount <= line.amount
  BY <1>1, <1>5, <1>6
<1> QED
  BY <1>2, <1>6, <1>8, <1>9, <1>10, LineStep

LEMMA CancelDepositStep ==
  ASSUME MoneyInv, NEW f \in Fees, cancel_in_kind_deposit(f)
  PROVE  MoneyInv' /\ NoNewOverpayment /\ Kept
<1> DEFINE line == [fee[f] EXCEPT !.status = "pending"]
<1>1. fee[f] \in FeeLine /\ fee[f].amount \in Nat /\ fee \in [Fees -> FeeLine]
  BY DEF MoneyInv, MoneyTypeOK, FeeLine
<1>2. /\ fee[f].status = "in_kind" /\ ~fee_carries_live_payment(f)
      /\ fee' = [fee EXCEPT ![f] = line] /\ UNCHANGED <<payment, alloc>>
  BY <1>1 DEF cancel_in_kind_deposit
<1>3. PaidOn(payment, alloc, f) = 0 /\ fee[f].amount > 0
  BY <1>2, NothingPaid DEF MoneyInv, LinesOrdered
<1>4. /\ line \in FeeLine /\ line.status = "pending"
      /\ line.amount = fee[f].amount /\ line.original = fee[f].original
  BY <1>1 DEF FeeLine, FeeStatuses, NOT_CASH_DUE
<1> HIDE DEF line
<1>5. ~is_not_cash_due(line)
  BY <1>4 DEF is_not_cash_due, NOT_CASH_DUE
<1>6. StatusAfter(line, 0) = "pending"
  BY <1>1, <1>3, <1>4, <1>5 DEF StatusAfter
<1>7. line = recompute_fee_status(line, PaidOn(payment, alloc, f))
  BY <1>3, <1>4, <1>6 DEF recompute_fee_status, FeeLine
<1>8. line.original # None => line.amount <= line.original
  BY <1>4 DEF MoneyInv, LinesOrdered
<1>9. line.status # "in_kind" /\ fee[f].amount <= line.amount
  BY <1>1, <1>4
<1> QED
  BY <1>2, <1>4, <1>5, <1>7, <1>8, <1>9, LineStep

LEMMA DiscountStep ==
  ASSUME MoneyInv, NEW f \in Fees, NEW reduction \in Amounts, set_discount(f, reduction)
  PROVE  MoneyInv' /\ NoNewOverpayment /\ Kept
<1> DEFINE nominal == IF fee[f].original # None THEN fee[f].original ELSE fee[f].amount
           net     == nominal - reduction
           due     == [status |-> "pending", amount |-> net, original |-> nominal]
           line    == IF net = 0 THEN [due EXCEPT !.status = "waived"]
                      ELSE recompute_fee_status(due, PaidOn(payment, alloc, f))
<1>1. fee[f] \in FeeLine /\ fee[f].amount \in Nat /\ fee \in [Fees -> FeeLine]
  BY DEF MoneyInv, MoneyTypeOK, FeeLine
<1>2. /\ reduction <= nominal /\ net >= LiveAllocated(f)
      /\ fee' = [fee EXCEPT ![f] = line] /\ UNCHANGED <<payment, alloc>>
  BY DEF set_discount
<1>3. /\ LiveAllocated(f) \in Nat
      /\ PaidOn(payment, alloc, f) <= LiveAllocated(f)
      /\ LiveAllocated(f) = 0 => ~fee_carries_live_payment(f)
  BY ReservedCoversPaid DEF MoneyInv
<1>4. PaidOn(payment, alloc, f) \in Nat
  BY PaidOnIsNat DEF MoneyInv, MoneyTypeOK
<1>5. /\ reduction \in Nat /\ reduction > 0 /\ nominal \in Nat
      /\ net \in Nat /\ net <= nominal /\ nominal > 0
  <2>1. reduction \in Nat /\ reduction > 0
    OBVIOUS
  <2>2. nominal \in Nat
    BY <1>1 DEF FeeLine
  <2> QED
    BY <1>2, <2>1, <2>2
<1>6. PaidOn(payment, alloc, f) <= net
  BY <1>2, <1>3, <1>4, <1>5
<1> HIDE DEF nominal
<1>7. /\ due \in FeeLine /\ due.status = "pending"
      /\ due.amount = net /\ due.original = nominal
  BY <1>5 DEF FeeLine, FeeStatuses
<1> HIDE DEF net, due
<1>8. ~is_not_cash_due(due)
  BY <1>7 DEF is_not_cash_due, NOT_CASH_DUE
<1>9. CASE net = 0
  <2>1. /\ line \in FeeLine /\ line.status = "waived"
        /\ line.amount = net /\ line.original = nominal
    BY <1>7, <1>9 DEF FeeLine, FeeStatuses, NOT_CASH_DUE
  <2>2. ~fee_carries_live_payment(f)
    BY <1>2, <1>3, <1>9
  <2> HIDE DEF line
  <2>3. is_not_cash_due(line)
    BY <2>1 DEF is_not_cash_due, NOT_CASH_DUE
  <2>4. line = recompute_fee_status(line, PaidOn(payment, alloc, f))
    BY <2>1, <2>3 DEF recompute_fee_status, StatusAfter, FeeLine
  <2>5. /\ fee' = [fee EXCEPT ![f] = line] /\ UNCHANGED <<payment, alloc>>
        /\ line.amount = 0 /\ line.status # "in_kind"
        /\ line.original # None => line.amount <= line.original
        /\ PaidOn(payment, alloc, f) <= line.amount
    BY <1>2, <1>5, <1>6, <1>9, <2>1
  <2> QED
    BY <2>1, <2>2, <2>4, <2>5, LineStep
<1>10. CASE net # 0
  <2>1. line = recompute_fee_status(due, PaidOn(payment, alloc, f))
    BY <1>10
  <2> HIDE DEF line
  <2>2. /\ line \in FeeLine
        /\ line.amount = net /\ line.original = nominal
        /\ ~is_not_cash_due(line)
        /\ line = recompute_fee_status(line, PaidOn(payment, alloc, f))
    BY <1>4, <1>7, <1>8, <2>1, Recomputing
  <2>3. line.status \notin {"in_kind", "waived"}
    BY <2>2 DEF is_not_cash_due, NOT_CASH_DUE
  <2> QED
    BY <1>2, <1>5, <1>6, <2>2, <2>3, LineStep
<1> QED
  BY <1>9, <1>10

LEMMA UndiscountStep ==
  ASSUME MoneyInv, NEW f \in Fees, remove_discount(f)
  PROVE  MoneyInv' /\ NoNewOverpayment /\ Kept
<1> DEFINE due  == [status |-> "pending", amount |-> fee[f].original, original |-> None]
           line == recompute_fee_status(due, PaidOn(payment, alloc, f))
<1>1. fee[f] \in FeeLine /\ fee[f].amount \in Nat /\ fee \in [Fees -> FeeLine]
  BY DEF MoneyInv, MoneyTypeOK, FeeLine
<1>2. /\ fee[f].original # None
      /\ fee' = [fee EXCEPT ![f] = line] /\ UNCHANGED <<payment, alloc>>
  BY DEF remove_discount
<1>3. fee[f].original \in Nat \ {0} /\ fee[f].amount <= fee[f].original
  BY <1>1, <1>2 DEF MoneyInv, LinesOrdered, FeeLine
<1>4. PaidOn(payment, alloc, f) \in Nat
  BY PaidOnIsNat DEF MoneyInv, MoneyTypeOK
<1>5. /\ due \in FeeLine /\ due.status = "pending"
      /\ due.amount = fee[f].original /\ due.original = None
  BY <1>3 DEF FeeLine, FeeStatuses
<1> HIDE DEF due
<1>6. ~is_not_cash_due(due)
  BY <1>5 DEF is_not_cash_due, NOT_CASH_DUE
<1>7. /\ line \in FeeLine
      /\ line.amount = fee[f].original /\ line.original = None
      /\ ~is_not_cash_due(line)
      /\ line = recompute_fee_status(line, PaidOn(payment, alloc, f))
  BY <1>4, <1>5, <1>6, Recomputing
<1> HIDE DEF line
<1>8. line.status \notin {"in_kind", "waived"}
  BY <1>7 DEF is_not_cash_due, NOT_CASH_DUE
<1> QED
  BY <1>2, <1>3, <1>7, <1>8, LineStep

-----------------------------------------------------------------------------
(* The drawers. *)

LEMMA DayCashIsNat ==
  ASSUME NEW pay \in [Payments -> Payment], NEW c, NEW d
  PROVE  DayCash(pay, c, d) \in Nat
<1> DEFINE a == [p \in Payments |->
                  IF /\ pay[p].status \in LIVE_STATUSES
                     /\ pay[p].method = "cash" /\ pay[p].received_by = c /\ pay[p].day = d
                  THEN pay[p].amount ELSE 0]
<1>1. \A p \in Payments : pay[p].amount \in Nat
  BY DEF Payment
<1>2. a \in [1..MaxPayments -> Nat]
  BY <1>1 DEF Payments
<1>3. DayCash(pay, c, d) = Sum(a, MaxPayments)
  BY DEF DayCash
<1> HIDE DEF a
<1> QED
  BY <1>2, <1>3, SumNat

\* A step that writes one row, with an expected amount if it locks the day.
LEMMA DrawerRow ==
  ASSUME DrawerInv, today' = today, NEW c \in Cashiers, NEW d \in Days,
         NEW row \in CashSession, is_locked(row) => row.expected # None,
         session' = [session EXCEPT ![c][d] = row]
  PROVE  DrawerInv'
<1>1. \A x \in Cashiers, y \in Days :
        session'[x][y] = IF x = c /\ y = d THEN row ELSE session[x][y]
  BY DEF DrawerInv, CashDayTypeOK
<1>2. CashDayTypeOK'
  <2>1. session' \in [Cashiers -> [Days -> CashSession]]
    BY DEF DrawerInv, CashDayTypeOK
  <2> QED
    BY <2>1 DEF DrawerInv, CashDayTypeOK
<1>3. FrozenWhenLocked'
  BY <1>1 DEF DrawerInv, FrozenWhenLocked, is_locked
<1> QED
  BY <1>2, <1>3 DEF DrawerInv

LEMMA NewRow == NewSession \in CashSession /\ ~is_locked(NewSession)
<1>1. NewSession = [status |-> "open", expected |-> None, counted |-> None,
                    variance |-> None, regularized |-> FALSE]
  BY DEF NewSession
<1> QED
  BY <1>1 DEF CashSession, CashSessionStatus, is_locked, LOCKED_STATUSES

LEMMA GuardStep ==
  ASSUME DrawerInv, today' = today, NEW c \in Cashiers, NEW method, GuardDrawer(c, method)
  PROVE  DrawerInv'
<1>1. CASE session' = session
  BY <1>1 DEF DrawerInv, CashDayTypeOK, FrozenWhenLocked
<1>2. CASE session' = [session EXCEPT ![c][today] = NewSession]
  <2>1. today \in Days
    BY DEF DrawerInv, CashDayTypeOK
  <2> QED
    BY <1>2, <2>1, NewRow, DrawerRow
<1> QED
  BY <1>1, <1>2 DEF GuardDrawer, ensure_open_session

LEMMA DrawersLeftAlone ==
  ASSUME DrawerInv, UNCHANGED <<today, session>>
  PROVE  DrawerInv'
  BY DEF DrawerInv, CashDayTypeOK, FrozenWhenLocked

LEMMA OpenScreenStep ==
  ASSUME DrawerInv, NEW c \in Cashiers, NEW d \in Days, OpenScreen(c, d)
  PROVE  DrawerInv'
<1>1. today' = today /\ session' = [session EXCEPT ![c][d] = NewSession]
  BY DEF OpenScreen, get_my_session
<1> QED
  BY <1>1, NewRow, DrawerRow

LEMMA CloseStep ==
  ASSUME IInv, NEW c \in Cashiers, NEW d \in Days, NEW n \in Counts, CloseDay(c, d, n)
  PROVE  DrawerInv'
<1> DEFINE expected == DayCash(payment, c, d)
           row      == Counted(expected, n, session[c][d].regularized)
<1>1. DrawerInv /\ session[c][d] \in CashSession /\ n \in Nat
  BY DEF IInv, DrawerInv, CashDayTypeOK
<1>2. today' = today /\ session' = [session EXCEPT ![c][d] = row]
  BY DEF CloseDay, close_my_session
<1>3. expected \in Nat
  BY DayCashIsNat DEF IInv, MoneyInv, MoneyTypeOK
<1> HIDE DEF expected
<1>4. row \in CashSession /\ row.expected = expected
  BY <1>1, <1>3 DEF CashSession, CashSessionStatus, Counted
<1>5. row.expected # None
  BY <1>3, <1>4
<1> HIDE DEF row
<1> QED
  BY <1>1, <1>2, <1>4, <1>5, DrawerRow

LEMMA RegularizeStep ==
  ASSUME DrawerInv, NEW c \in Cashiers, NEW d \in Days, NEW n \in Counts, Regularize(c, d, n)
  PROVE  DrawerInv'
<1> DEFINE was == session[c][d]
           row == Counted(was.expected, n, TRUE)
<1>1. was \in CashSession /\ n \in Nat
  BY DEF DrawerInv, CashDayTypeOK
<1>2. /\ today' = today /\ session' = [session EXCEPT ![c][d] = row]
      /\ is_locked(was)
  BY DEF Regularize, regularize_my_session, is_locked, LOCKED_STATUSES
<1>3. was.expected \in Nat
  BY <1>1, <1>2 DEF DrawerInv, FrozenWhenLocked, CashSession
<1> HIDE DEF was
<1>4. row \in CashSession /\ row.expected = was.expected
  BY <1>1, <1>3 DEF CashSession, CashSessionStatus, Counted
<1> HIDE DEF row
<1>5. row.expected # None
  <2>1. \A x \in Nat : x # None
    OBVIOUS
  <2> QED
    BY <1>3, <1>4, <2>1
<1> QED
  BY <1>2, <1>4, <1>5, DrawerRow

LEMMA SweepStep ==
  ASSUME IInv, Sweep
  PROVE  DrawerInv'
<1> DEFINE cash == [c \in Cashiers |-> [d \in Days |-> DayCash(payment, c, d)]]
<1>1. \A c \in Cashiers, d \in Days : cash[c][d] \in Nat
  BY DayCashIsNat DEF IInv, MoneyInv, MoneyTypeOK
<1>2. today' = today /\ auto_close_stale_sessions(cash)
  BY DEF Sweep
<1> HIDE DEF cash
<1>3. PICK B \in SUBSET StaleOpen :
        session' = [c \in Cashiers |-> [d \in Days |->
                      IF <<c, d>> \in B THEN AutoClosed(session[c][d], cash[c][d])
                      ELSE session[c][d]]]
  BY <1>2 DEF auto_close_stale_sessions
<1>4. ASSUME NEW c \in Cashiers, NEW d \in Days
      PROVE  /\ session'[c][d] \in CashSession
             /\ is_locked(session'[c][d]) => session'[c][d].expected # None
  <2>1. session[c][d] \in CashSession /\ cash[c][d] \in Nat
    BY <1>1 DEF IInv, DrawerInv, CashDayTypeOK
  <2>2. CASE <<c, d>> \in B
    <3>1. session'[c][d] = AutoClosed(session[c][d], cash[c][d])
      BY <1>3, <2>2
    <3>2. session'[c][d] \in CashSession /\ session'[c][d].expected = cash[c][d]
      BY <2>1, <3>1 DEF AutoClosed, CashSession, CashSessionStatus
    <3> QED
      BY <2>1, <3>2
  <2>3. CASE <<c, d>> \notin B
    <3>1. session'[c][d] = session[c][d]
      BY <1>3, <2>3
    <3> QED
      BY <2>1, <3>1 DEF IInv, DrawerInv, FrozenWhenLocked
  <2> QED
    BY <2>2, <2>3
<1>5. CashDayTypeOK'
  <2>1. session' \in [Cashiers -> [Days -> CashSession]]
    BY <1>3, <1>4
  <2> QED
    BY <1>2, <2>1 DEF IInv, DrawerInv, CashDayTypeOK
<1>6. FrozenWhenLocked'
  BY <1>4 DEF FrozenWhenLocked
<1> QED
  BY <1>5, <1>6 DEF DrawerInv

LEMMA TickStep ==
  ASSUME DrawerInv, Tick
  PROVE  DrawerInv'
  BY DEF Tick, Midnight, Days, DrawerInv, CashDayTypeOK, FrozenWhenLocked

\* The drawers' own steps, and stuttering, leave the books as they are.
LEMMA BooksLeftAlone ==
  ASSUME MoneyInv, UNCHANGED money
  PROVE  MoneyInv' /\ NoNewOverpayment /\ Kept
<1>1. fee' = fee /\ payment' = payment /\ alloc' = alloc
  BY DEF money
<1>2. MoneyInv'
  BY <1>1 DEF MoneyInv, MoneyTypeOK, LinesOrdered, LinesCoverPayment, StatusTellsWhatIsPaid,
              NoMoneyOffTheCircuit, fee_carries_live_payment, OnePaymentPerKey
<1>3. NoNewOverpayment
  <2>1. \A f \in Fees : PaidOn(payment, alloc, f) \in Nat
    BY PaidOnIsNat DEF MoneyInv, MoneyTypeOK
  <2> QED
    BY <1>1, <2>1 DEF NoNewOverpayment, Overpaid
<1>4. Kept
  <2>1. \A q \in Payments : payment[q] = [payment[q] EXCEPT !.status = payment[q].status]
    BY DEF MoneyInv, MoneyTypeOK, Payment
  <2> QED
    BY <1>1, <2>1 DEF Kept
<1> QED
  BY <1>2, <1>3, <1>4

-----------------------------------------------------------------------------
(* The invariant. *)

LEMMA Initially == Init => IInv
<1> SUFFICES ASSUME Init PROVE IInv
  OBVIOUS
<1>1. DrawerInv
  BY DEF Init, CashDayInit, DrawerInv, CashDayTypeOK, FrozenWhenLocked, NoSession,
         CashSession, CashSessionStatus, is_locked, LOCKED_STATUSES, Days
<1>2. /\ fee \in [Fees -> FeeLine]
      /\ \A f \in Fees : fee[f].status = "pending" /\ fee[f].amount \in Nat \ {0}
                         /\ fee[f].original = None
  <2>1. fee = [f \in Fees |-> [status |-> "pending", amount |-> Nominal[f], original |-> None]]
    BY DEF Init
  <2>2. \A f \in Fees : Nominal[f] \in Nat \ {0}
    OBVIOUS
  <2>3. \A f \in Fees : fee[f] = [status |-> "pending", amount |-> Nominal[f], original |-> None]
    BY <2>1
  <2>4. ASSUME NEW f \in Fees
        PROVE  fee[f] \in FeeLine
    <3>1. \A n \in Nat : [status |-> "pending", amount |-> n, original |-> None] \in FeeLine
      BY DEF FeeLine, FeeStatuses
    <3> QED
      BY <2>2, <2>3, <3>1
  <2> QED
    BY <2>1, <2>2, <2>3, <2>4
<1>3. NoPayment \in Payment /\ NoPayment.status = "none" /\ NoPayment.amount = 0
      /\ NoPayment.key = None /\ 1 \in Days
  BY DEF NoPayment, Payment, PaymentStatus, Days
<1>4. NoLines \in [Fees -> Nat] /\ Sum(NoLines, FeeCount) = 0 /\ \A f \in Fees : NoLines[f] = 0
  <2>1. NoLines = [f \in 1..FeeCount |-> 0]
    BY DEF NoLines, Fees
  <2>2. Sum(NoLines, FeeCount) = 0
    BY <2>1, SumZero
  <2> QED
    BY <2>2 DEF NoLines
<1>5. /\ MoneyTypeOK /\ LinesCoverPayment /\ OnePaymentPerKey
      /\ \A p \in Payments : payment[p].status \in {"none", "pending"}
  <2>1. CASE /\ payment = [p \in Payments |-> NoPayment]
             /\ alloc = [p \in Payments |-> NoLines]
    <3> HIDE DEF NoPayment, NoLines
    <3>1. \A p \in Payments : payment[p] = NoPayment /\ alloc[p] = NoLines
      BY <2>1
    <3>2. MoneyTypeOK
      BY <1>2, <1>3, <1>4, <2>1 DEF MoneyTypeOK
    <3>3. LinesCoverPayment
      BY <1>3, <1>4, <3>1 DEF LinesCoverPayment
    <3>4. OnePaymentPerKey
      BY <1>3, <3>1 DEF OnePaymentPerKey
    <3> QED
      BY <1>3, <3>1, <3>2, <3>3, <3>4
  <2>2. ASSUME MaxPayments > 0, "transfer" \in Methods,
               NEW c \in Cashiers, NEW f \in Fees, NEW a \in Amounts, OldPending(1, c, f, a)
        PROVE  /\ MoneyTypeOK /\ LinesCoverPayment /\ OnePaymentPerKey
               /\ \A p \in Payments : payment[p].status \in {"none", "pending"}
    <3> DEFINE row   == [NoPayment EXCEPT !.status = "pending", !.amount = a,
                                          !.enrollment = EnrollmentOf[f],
                                          !.method = "transfer", !.received_by = c]
               lines == [g \in Fees |-> IF g = f THEN a ELSE 0]
    <3>1. payment = [q \in Payments |-> IF q = 1 THEN row ELSE NoPayment]
      BY <2>2 DEF OldPending
    <3>2. alloc = [q \in Payments |-> IF q = 1 THEN lines ELSE NoLines]
      BY <2>2 DEF OldPending
    <3>3. a \in Nat /\ EnrollmentOf[f] \in Enrollments
      OBVIOUS
    <3>4. /\ row \in Payment /\ row.status = "pending" /\ row.amount = a
          /\ row.enrollment = EnrollmentOf[f] /\ row.key = None
      BY <1>3, <2>2, <3>3 DEF NoPayment, Payment, PaymentStatus
    <3>5. lines \in [Fees -> Nat] /\ \A g \in Fees : lines[g] > 0 => g = f
      BY <3>3
    <3>6. Sum(lines, FeeCount) = a
      <4>1. FeeCount \in Nat /\ f \in 1..FeeCount /\ a \in Int
        BY <3>3 DEF Fees
      <4>2. Sum([g \in 1..FeeCount |-> IF g = f THEN a ELSE 0], FeeCount) = a
        BY <4>1, SumSingle
      <4> QED
        BY <4>2 DEF Fees
    <3> HIDE DEF row, lines
    <3>7. payment[1] = row /\ alloc[1] = lines /\
          \A q \in Payments : q # 1 => payment[q] = NoPayment /\ alloc[q] = NoLines
      BY <2>2, <3>1, <3>2 DEF Payments
    <3>8. MoneyTypeOK
      BY <1>2, <1>3, <1>4, <3>1, <3>2, <3>4, <3>5 DEF MoneyTypeOK
    <3>9. LinesCoverPayment
      BY <1>3, <1>4, <3>4, <3>5, <3>6, <3>7 DEF LinesCoverPayment
    <3>10. OnePaymentPerKey
      BY <1>3, <3>4, <3>7 DEF OnePaymentPerKey
    <3> QED
      BY <1>3, <3>4, <3>7, <3>8, <3>9, <3>10
  <2> QED
    BY <2>1, <2>2 DEF Init
<1>6. \A f \in Fees : PaidOn(payment, alloc, f) = 0
  <2> SUFFICES ASSUME NEW f \in Fees PROVE PaidOn(payment, alloc, f) = 0
    OBVIOUS
  <2>1. [p \in Payments |-> IF payment[p].status = "completed" THEN alloc[p][f] ELSE 0]
          = [p \in 1..MaxPayments |-> 0]
    BY <1>5 DEF Payments
  <2> QED
    BY <2>1, SumZero DEF PaidOn
<1>7. \A f \in Fees : ~is_not_cash_due(fee[f])
  BY <1>2 DEF is_not_cash_due, NOT_CASH_DUE
<1>8. StatusTellsWhatIsPaid
  <2> SUFFICES ASSUME NEW f \in Fees PROVE fee[f] = recompute_fee_status(fee[f], 0)
    BY <1>6 DEF StatusTellsWhatIsPaid
  <2>1. StatusAfter(fee[f], 0) = "pending"
    BY <1>2, <1>7 DEF StatusAfter
  <2> QED
    BY <1>2, <2>1 DEF recompute_fee_status, FeeLine
<1>9. NoMoneyOffTheCircuit /\ LinesOrdered
  BY <1>2, <1>7 DEF NoMoneyOffTheCircuit, LinesOrdered
<1> QED
  BY <1>1, <1>5, <1>8, <1>9 DEF IInv, MoneyInv

\* Every step keeps the invariant, and obeys the two action properties.
LEMMA Step == IInv /\ [Next]_vars => IInv' /\ NoNewOverpayment /\ Kept
<1> DEFINE Goal == IInv' /\ NoNewOverpayment /\ Kept
<1> SUFFICES ASSUME IInv, [Next]_vars PROVE Goal
  OBVIOUS
<1>1. MoneyInv /\ DrawerInv /\ today \in Days
  BY DEF IInv, DrawerInv, CashDayTypeOK
<1>2. ASSUME NEW p \in Payments, NEW c \in Cashiers, NEW e \in Enrollments, NEW a \in Amounts,
             NEW items \in Items, NEW m \in Methods, NEW k \in Keys \cup {None},
             record_enrollment_payment(p, c, e, a, items, m, k)
      PROVE  Goal
  <2>1. MoneyInv' /\ NoNewOverpayment /\ Kept
    BY <1>1, <1>2, RecordStep
  <2>2. today' = today /\ GuardDrawer(c, m)
    BY <1>2 DEF record_enrollment_payment
  <2> QED
    BY <1>1, <2>1, <2>2, GuardStep DEF IInv
<1>3. ASSUME NEW p \in Payments, NEW c \in Cashiers, NEW f \in Fees, NEW a \in Amounts,
             NEW m \in Methods, create_payment(p, c, f, a, m)
      PROVE  Goal
  <2>1. MoneyInv' /\ NoNewOverpayment /\ Kept
    BY <1>1, <1>3, CreateStep
  <2>2. today' = today /\ GuardDrawer(c, m)
    BY <1>3 DEF create_payment
  <2> QED
    BY <1>1, <2>1, <2>2, GuardStep DEF IInv
<1>4. ASSUME NEW p \in Payments, NEW target \in {"completed", "cancelled"}, Transition(p, target)
      PROVE  Goal
  <2>1. MoneyInv' /\ NoNewOverpayment /\ Kept
    BY <1>1, <1>4, TransitionStep
  <2>2. UNCHANGED <<today, session>>
    BY <1>4 DEF Transition
  <2> QED
    BY <1>1, <2>1, <2>2, DrawersLeftAlone DEF IInv
<1>5. ASSUME NEW p \in Payments, NEW from \in Fees, NEW to \in Fees, NEW a \in Amounts,
             NEW c \in Cashiers, NEW any,
             reallocate_payment(p, from, to, a, c, any)
      PROVE  Goal
  <2>1. MoneyInv' /\ NoNewOverpayment /\ Kept
    BY <1>1, <1>5, ReallocateStep
  <2>2. UNCHANGED <<today, session>>
    BY <1>5 DEF reallocate_payment
  <2> QED
    BY <1>1, <2>1, <2>2, DrawersLeftAlone DEF IInv
<1>6. ASSUME NEW f \in Fees, NEW r \in Amounts, set_discount(f, r)
      PROVE  Goal
  <2>1. MoneyInv' /\ NoNewOverpayment /\ Kept
    BY <1>1, <1>6, DiscountStep
  <2>2. UNCHANGED <<today, session>>
    BY <1>6 DEF set_discount
  <2> QED
    BY <1>1, <2>1, <2>2, DrawersLeftAlone DEF IInv
<1>7. ASSUME UNCHANGED money, DrawerInv'
      PROVE  Goal
  BY <1>1, <1>7, BooksLeftAlone DEF IInv
<1>8. ASSUME NEW c \in Cashiers, NEW d \in Days, OpenScreen(c, d)
      PROVE  Goal
  BY <1>1, <1>7, <1>8, OpenScreenStep DEF OpenScreen
<1>9. ASSUME NEW c \in Cashiers, NEW d \in Days, NEW n \in Counts, CloseDay(c, d, n)
      PROVE  Goal
  BY <1>7, <1>9, CloseStep DEF CloseDay
<1>10. CASE Sweep
  BY <1>7, <1>10, SweepStep DEF Sweep
<1>11. ASSUME NEW c \in Cashiers, NEW d \in Days, NEW n \in Counts, Regularize(c, d, n)
       PROVE  Goal
  BY <1>1, <1>7, <1>11, RegularizeStep DEF Regularize
<1>12. CASE Tick
  BY <1>1, <1>7, <1>12, TickStep DEF Tick
<1>13. CASE UNCHANGED vars
  <2>1. UNCHANGED money /\ UNCHANGED <<today, session>>
    BY <1>13 DEF vars, money
  <2> QED
    BY <1>1, <1>7, <2>1, DrawersLeftAlone
<1>14. ASSUME NEW f \in Fees, remove_discount(f) \/ mark_in_kind_deposit(f) \/ cancel_in_kind_deposit(f)
       PROVE  Goal
  <2>1. MoneyInv' /\ NoNewOverpayment /\ Kept
    BY <1>1, <1>14, DepositStep, CancelDepositStep, UndiscountStep
  <2>2. UNCHANGED <<today, session>>
    BY <1>14 DEF mark_in_kind_deposit, cancel_in_kind_deposit, remove_discount
  <2> QED
    BY <1>1, <2>1, <2>2, DrawersLeftAlone DEF IInv
<1> HIDE DEF Goal
<1>15. CASE \E p \in Payments, c \in Cashiers, e \in Enrollments, a \in Amounts, items \in Items,
              m \in Methods, k \in Keys \cup {None} :
              record_enrollment_payment(p, c, e, a, items, m, k)
  BY <1>2, <1>15, Zenon
<1>16. CASE \E p \in Payments, c \in Cashiers, f \in Fees, a \in Amounts, m \in Methods :
              create_payment(p, c, f, a, m)
  BY <1>3, <1>16, Zenon
<1>17. CASE \/ \E p \in Payments : validate_payment(p)
            \/ \E p \in Payments, c \in Cashiers, any \in BOOLEAN : cancel_payment(p, c, any)
  <2>1. \E p \in Payments, target \in {"completed", "cancelled"} : Transition(p, target)
    BY <1>17 DEF validate_payment, cancel_payment
  <2> QED
    BY <1>4, <2>1, Zenon
<1>18. CASE \E p \in Payments, from, to \in Fees, a \in Amounts, c \in Cashiers, any \in BOOLEAN :
              reallocate_payment(p, from, to, a, c, any)
  BY <1>5, <1>18, Zenon
<1>19. CASE \/ \E f \in Fees : mark_in_kind_deposit(f) \/ cancel_in_kind_deposit(f)
            \/ \E f \in Fees : remove_discount(f)
  BY <1>14, <1>19, Zenon
<1>20. CASE \E f \in Fees, r \in Amounts : set_discount(f, r)
  BY <1>6, <1>20, Zenon
<1>21. CASE \/ \E c \in Cashiers, d \in Days : OpenScreen(c, d)
            \/ \E c \in Cashiers, d \in Days, n \in Counts : CloseDay(c, d, n)
            \/ \E c \in Cashiers, d \in Days, n \in Counts : Regularize(c, d, n)
  BY <1>8, <1>9, <1>11, <1>21, Zenon
<1> QED
  BY <1>10, <1>12, <1>13, <1>15, <1>16, <1>17, <1>18, <1>19, <1>20, <1>21, Zenon DEF Next

\* The inductive invariant holds for ever.
LEMMA Always == Spec => []IInv
<1>1. IInv /\ [Next]_vars => IInv'
  BY Step
<1> QED
  BY Initially, <1>1, PTL DEF Spec

\* Fee lines, payments, allocations and drawers are always well-formed.
THEOREM CounterTypes == Spec => []TypeOK
<1>1. IInv => TypeOK
  BY DEF IInv, MoneyInv, MoneyTypeOK, DrawerInv, TypeOK
<1> QED
  BY <1>1, Always, PTL

\* However it was recorded and moved since, a payment is split over lines of its own
\* enrollment that add up to it (allocation_invariant.py).
THEOREM LinesAlwaysCover == Spec => []LinesCoverPayment
<1>1. IInv => LinesCoverPayment
  BY DEF IInv, MoneyInv
<1> QED
  BY <1>1, Always, PTL

\* The status stored on a line is always the one its completed payments give it
\* (recompute_fee_status).
THEOREM StatusIsTrue == Spec => []StatusTellsWhatIsPaid
<1>1. IInv => StatusTellsWhatIsPaid
  BY DEF IInv, MoneyInv
<1> QED
  BY <1>1, Always, PTL

\* No payment, pending or completed, lies on a deposited or waived line.
THEOREM CircuitIsClean == Spec => []NoMoneyOffTheCircuit
<1>1. IInv => NoMoneyOffTheCircuit
  BY DEF IInv, MoneyInv
<1> QED
  BY <1>1, Always, PTL

\* One key, one payment, when the requests come one after the other.
THEOREM KeysAreUnique == Spec => []OnePaymentPerKey
<1>1. IInv => OnePaymentPerKey
  BY DEF IInv, MoneyInv
<1> QED
  BY <1>1, Always, PTL

\* Only the validation of an old pending transfer can overpay a line: no cascade, named
\* line, move or discount does.
THEOREM NothingElseOverpays == Spec => OnlyValidationOverpays
<1>1. IInv /\ [Next]_vars => [NoNewOverpayment]_vars
  BY Step
<1> QED
  BY <1>1, Always, PTL DEF Spec, OnlyValidationOverpays, NoNewOverpayment

\* Cancelled payments and their lines stay as they were, and what a payment says of the
\* money received never changes.
THEOREM HistoryStands == Spec => HistoryIsKept
<1>1. IInv /\ [Next]_vars => [Kept]_vars
  BY Step
<1> QED
  BY <1>1, Always, PTL DEF Spec, HistoryIsKept, Kept

-----------------------------------------------------------------------------
(* A school that starts afresh. *)

\* Nothing writes the status pending any more.
LEMMA NoNewPending ==
  ASSUME MoneyTypeOK, [Next]_vars, NEW q \in Payments, payment'[q].status = "pending"
  PROVE  payment[q].status = "pending"
<1>1. payment \in [Payments -> Payment]
  BY DEF MoneyTypeOK
<1>2. ASSUME NEW p \in Payments, NEW e, NEW a, NEW m, NEW c, NEW k, NEW lines,
             WritePayment(p, e, a, m, c, k, lines)
      PROVE  payment[q].status = "pending"
  BY <1>1, <1>2 DEF WritePayment
<1>3. ASSUME NEW p \in Payments, NEW target \in {"completed", "cancelled"}, Transition(p, target)
      PROVE  payment[q].status = "pending"
  <2>1. payment' = [payment EXCEPT ![p].status = target]
    BY <1>3 DEF Transition
  <2>2. p # q
    BY <1>1, <2>1 DEF Payment
  <2> QED
    BY <1>1, <2>1, <2>2
<1>4. CASE UNCHANGED payment
  BY <1>4
<1>5. CASE \/ \E p \in Payments, c \in Cashiers, e \in Enrollments, a \in Amounts, items \in Items,
                m \in Methods, k \in Keys \cup {None} :
                record_enrollment_payment(p, c, e, a, items, m, k)
           \/ \E p \in Payments, c \in Cashiers, f \in Fees, a \in Amounts, m \in Methods :
                create_payment(p, c, f, a, m)
  <2>1. ASSUME NEW p \in Payments, NEW c \in Cashiers, NEW e \in Enrollments, NEW a \in Amounts,
               NEW items \in Items, NEW m \in Methods, NEW k \in Keys \cup {None},
               record_enrollment_payment(p, c, e, a, items, m, k)
        PROVE  payment[q].status = "pending"
    BY <1>2, <2>1 DEF record_enrollment_payment
  <2>2. ASSUME NEW p \in Payments, NEW c \in Cashiers, NEW f \in Fees, NEW a \in Amounts,
               NEW m \in Methods, create_payment(p, c, f, a, m)
        PROVE  payment[q].status = "pending"
    BY <1>2, <2>2 DEF create_payment
  <2> QED
    BY <1>5, <2>1, <2>2
<1>6. CASE \/ \E p \in Payments : validate_payment(p)
           \/ \E p \in Payments, c \in Cashiers, any \in BOOLEAN : cancel_payment(p, c, any)
  BY <1>3, <1>6 DEF validate_payment, cancel_payment
<1>7. CASE \E p \in Payments, from, to \in Fees, a \in Amounts, c \in Cashiers, any \in BOOLEAN :
             reallocate_payment(p, from, to, a, c, any)
  BY <1>4, <1>7 DEF reallocate_payment
<1>8. CASE \/ \E f \in Fees : mark_in_kind_deposit(f) \/ cancel_in_kind_deposit(f)
           \/ \E f \in Fees, r \in Amounts : set_discount(f, r)
           \/ \E f \in Fees : remove_discount(f)
  BY <1>4, <1>8 DEF mark_in_kind_deposit, cancel_in_kind_deposit, set_discount, remove_discount
<1>9. CASE \/ \E c \in Cashiers, d \in Days : OpenScreen(c, d)
           \/ \E c \in Cashiers, d \in Days, n \in Counts : CloseDay(c, d, n)
           \/ Sweep
           \/ \E c \in Cashiers, d \in Days, n \in Counts : Regularize(c, d, n)
           \/ Tick
           \/ UNCHANGED vars
  BY <1>4, <1>9 DEF OpenScreen, CloseDay, Sweep, Regularize, Tick, money, vars
<1> QED
  BY <1>5, <1>6, <1>7, <1>8, <1>9 DEF Next

\* Without a transfer left by the old counter, no line ever holds more than it is worth
\* ("On n'impute jamais plus que le reste du"), whatever cascades, moves, discounts and
\* deposits follow one another.
THEOREM AFreshSchoolNeverOverpays ==
  ASSUME ~WithPending
  PROVE  Spec => []NeverOverAllocated
<1> DEFINE Clean == NeverOverAllocated /\ \A p \in Payments : payment[p].status # "pending"
<1>1. Init => Clean
  <2> SUFFICES ASSUME Init PROVE Clean
    OBVIOUS
  <2>1. \A p \in Payments : payment[p].status = "none"
    BY DEF Init, NoPayment
  <2>2. IInv
    BY Initially
  <2>3. \A f \in Fees : ~fee_carries_live_payment(f) /\ fee[f].amount \in Nat
    BY <2>1, <2>2 DEF fee_carries_live_payment, LIVE_STATUSES, IInv, MoneyInv, MoneyTypeOK, FeeLine
  <2>4. \A f \in Fees : PaidOn(payment, alloc, f) = 0
    BY <2>2, <2>3, NothingPaid DEF IInv, MoneyInv
  <2> QED
    BY <2>1, <2>3, <2>4 DEF NeverOverAllocated, Overpaid
<1>2. IInv /\ Clean /\ [Next]_vars => Clean'
  <2> SUFFICES ASSUME IInv, Clean, [Next]_vars PROVE Clean'
    OBVIOUS
  <2>1. NoNewOverpayment /\ MoneyTypeOK
    BY Step DEF IInv, MoneyInv
  <2>2. \A p \in Payments : payment'[p].status # "pending"
    BY <2>1, NoNewPending
  <2>3. NeverOverAllocated'
    BY <2>1 DEF NoNewOverpayment, NeverOverAllocated
  <2> QED
    BY <2>2, <2>3
<1>3. Clean => NeverOverAllocated
  OBVIOUS
<1> QED
  BY <1>1, <1>2, <1>3, Always, PTL DEF Spec

-----------------------------------------------------------------------------
(***************************************************************************)
(* The counter implements Till: the cash of the payments obeys what the     *)
(* drawers promise.  Every payment in cash is an Encash of Till, every      *)
(* cancellation of one takes its amount out of the drawer that received it, *)
(* and every other step of the books leaves all the drawers as they are.    *)
(***************************************************************************)

\* What Till sees of the payments.
cash == [c \in Cashiers |-> [d \in Days |-> DayCash(payment, c, d)]]

\* The term of payment p in the cash of c on day d.
CashPart(pay, p, c, d) ==
  IF /\ pay[p].status \in LIVE_STATUSES
     /\ pay[p].method = "cash" /\ pay[p].received_by = c /\ pay[p].day = d
  THEN pay[p].amount ELSE 0

\* A payment that exists was received by somebody, for an amount of the counter and by one
\* of its methods; no cash is pending.
PaymentsAreReal ==
  \A p \in Payments : payment[p].status # "none" =>
    /\ payment[p].received_by \in Cashiers /\ payment[p].amount \in Amounts
    /\ payment[p].method \in Methods
    /\ payment[p].status = "pending" => payment[p].method # "cash"

LEMMA DayCashChange ==
  ASSUME NEW pay \in [Payments -> Payment], NEW pay2 \in [Payments -> Payment],
         NEW p \in Payments, NEW c, NEW d,
         \A q \in Payments : q # p => pay2[q] = pay[q]
  PROVE  /\ DayCash(pay2, c, d) = DayCash(pay, c, d) + CashPart(pay2, p, c, d) - CashPart(pay, p, c, d)
         /\ CashPart(pay, p, c, d) \in Nat /\ CashPart(pay, p, c, d) <= DayCash(pay, c, d)
         /\ CashPart(pay2, p, c, d) \in Nat
<1> DEFINE a == [q \in Payments |->
                  IF /\ pay[q].status \in LIVE_STATUSES
                     /\ pay[q].method = "cash" /\ pay[q].received_by = c /\ pay[q].day = d
                  THEN pay[q].amount ELSE 0]
           b == [q \in Payments |->
                  IF /\ pay2[q].status \in LIVE_STATUSES
                     /\ pay2[q].method = "cash" /\ pay2[q].received_by = c /\ pay2[q].day = d
                  THEN pay2[q].amount ELSE 0]
<1>1. \A q \in Payments : pay[q].amount \in Nat /\ pay2[q].amount \in Nat
  BY DEF Payment
<1>2. a \in [1..MaxPayments -> Nat] /\ b \in [1..MaxPayments -> Nat]
  BY <1>1 DEF Payments
<1>3. DayCash(pay, c, d) = Sum(a, MaxPayments) /\ DayCash(pay2, c, d) = Sum(b, MaxPayments)
  BY DEF DayCash
<1>4. \A q \in Payments : a[q] = CashPart(pay, q, c, d) /\ b[q] = CashPart(pay2, q, c, d)
  BY DEF CashPart
<1>5. \A q \in Payments : q # p => b[q] = a[q]
  OBVIOUS
<1> HIDE DEF a, b
<1>6. p \in 1..MaxPayments /\ \A i \in 1..MaxPayments : i # p => b[i] = a[i]
  BY <1>5 DEF Payments
<1>7. a \in [1..MaxPayments -> Int] /\ b \in [1..MaxPayments -> Int]
  BY <1>2
<1>8. Sum(b, MaxPayments) = Sum(a, MaxPayments) + b[p] - a[p]
  BY <1>6, <1>7, PaymentSumUpdate, Zenon
<1>9. a[p] \in Nat /\ b[p] \in Nat /\ a[p] <= Sum(a, MaxPayments)
  BY <1>2, <1>6, SumNat
<1> QED
  BY <1>3, <1>4, <1>8, <1>9

\* The drawers as Till's variables see them after a step.
LEMMA CashPrimed ==
  cash' = [c \in Cashiers |-> [d \in Days |-> DayCash(payment', c, d)]]
  BY DEF cash

\* A step of the books that changes no payment is a stutter of Till.
LEMMA NoPaymentChanged ==
  ASSUME UNCHANGED <<today, session, payment>>
  PROVE  UNCHANGED Drawers!tvars
<1>1. payment' = payment /\ today' = today /\ session' = session
  OBVIOUS
<1>2. cash' = cash
  BY <1>1 DEF cash
<1> QED
  BY <1>1, <1>2 DEF Drawers!tvars, cash

\* Taking money: one payment is written where there was none.
LEMMA Taking ==
  ASSUME payment \in [Payments -> Payment], payment' \in [Payments -> Payment],
         today \in Days, today' = today,
         NEW p \in Payments, NEW c \in Cashiers, NEW a \in Amounts, NEW m,
         payment[p].status = "none",
         payment'[p].status = "completed", payment'[p].amount = a, payment'[p].method = m,
         payment'[p].received_by = c, payment'[p].day = today,
         \A q \in Payments : q # p => payment'[q] = payment[q],
         GuardDrawer(c, m)
  PROVE  [Drawers!Next]_(Drawers!tvars)
<1>1. \A x \in Cashiers, y \in Days :
        /\ DayCash(payment, x, y) \in Nat
        /\ DayCash(payment', x, y)
             = DayCash(payment, x, y)
                 + (IF m = "cash" /\ x = c /\ y = today THEN a ELSE 0)
  <2>1. ASSUME NEW x \in Cashiers, NEW y \in Days
        PROVE  /\ DayCash(payment, x, y) \in Nat
               /\ DayCash(payment', x, y)
                    = DayCash(payment, x, y)
                        + (IF m = "cash" /\ x = c /\ y = today THEN a ELSE 0)
    <3>1. DayCash(payment, x, y) \in Nat
      BY DayCashIsNat
    <3>2. DayCash(payment', x, y)
            = DayCash(payment, x, y) + CashPart(payment', p, x, y) - CashPart(payment, p, x, y)
      BY DayCashChange
    <3>3. CashPart(payment, p, x, y) = 0
      BY DEF CashPart, LIVE_STATUSES
    <3>4. CashPart(payment', p, x, y) = IF m = "cash" /\ x = c /\ y = today THEN a ELSE 0
      BY DEF CashPart, LIVE_STATUSES
    <3>5. (IF m = "cash" /\ x = c /\ y = today THEN a ELSE 0) \in Nat
      OBVIOUS
    <3> QED
      BY <3>1, <3>2, <3>3, <3>4, <3>5
  <2> QED
    BY <2>1
<1>2. CASE m = "cash"
  <2>1. cash' = [cash EXCEPT ![c][today] = @ + a]
    <3>1. \A x \in Cashiers, y \in Days :
            DayCash(payment', x, y) = IF x = c /\ y = today THEN DayCash(payment, x, y) + a
                                      ELSE DayCash(payment, x, y)
      BY <1>1, <1>2
    <3>2. cash' = [x \in Cashiers |-> [y \in Days |->
                     IF x = c /\ y = today THEN DayCash(payment, x, y) + a
                     ELSE DayCash(payment, x, y)]]
      BY <3>1, CashPrimed
    <3>3. cash = [x \in Cashiers |-> [y \in Days |-> DayCash(payment, x, y)]]
      BY DEF cash
    <3> QED
      BY <3>2, <3>3
  <2>2. cash[c][today] + a \in Nat
    <3>1. cash[c][today] \in Nat /\ a \in Nat
      BY <1>1 DEF cash
    <3> QED
      BY <3>1
  <2>3. ensure_open_session(c, today)
    BY <1>2 DEF GuardDrawer
  <2>4. Drawers!Encash(c, a)
    BY <2>1, <2>2, <2>3
       DEF Drawers!Encash, Drawers!ensure_open_session, ensure_open_session, cash,
           is_locked, LOCKED_STATUSES, Drawers!is_locked, Drawers!LOCKED_STATUSES,
           NewSession, Drawers!NewSession
  <2> QED
    BY <2>4 DEF Drawers!Next
<1>3. CASE m # "cash"
  <2>1. session' = session
    BY <1>3 DEF GuardDrawer
  <2>2. \A x \in Cashiers, y \in Days : DayCash(payment', x, y) = DayCash(payment, x, y)
    BY <1>1, <1>3
  <2>3. cash' = cash
    BY <2>2, CashPrimed DEF cash
  <2> QED
    BY <2>1, <2>3 DEF Drawers!tvars, cash
<1> QED
  BY <1>2, <1>3

\* Correcting: one payment changes status, what it says of the money does not.
LEMMA Correcting ==
  ASSUME payment \in [Payments -> Payment], PaymentsAreReal,
         NEW p \in Payments, NEW target \in {"completed", "cancelled"}, Transition(p, target)
  PROVE  [Drawers!Next]_(Drawers!tvars)
<1> DEFINE c == payment[p].received_by
           d == payment[p].day
           a == payment[p].amount
<1>1. /\ target \in VALID_TRANSITIONS[payment[p].status]
      /\ payment' = [payment EXCEPT ![p].status = target]
      /\ UNCHANGED <<today, session>>
  BY DEF Transition
<1>2. payment[p] \in Payment /\ payment[p].status \in PaymentStatus
  BY DEF Payment
<1>3. /\ payment[p].status \in {"pending", "completed"}
      /\ target = "completed" => payment[p].status = "pending"
  BY <1>1, <1>2 DEF VALID_TRANSITIONS, PaymentStatus
<1>4. payment'[p] = [payment[p] EXCEPT !.status = target]
      /\ \A q \in Payments : q # p => payment'[q] = payment[q]
  BY <1>1
<1>5. /\ payment'[p] \in Payment /\ payment'[p].status = target
      /\ payment'[p].method = payment[p].method /\ payment'[p].received_by = c
      /\ payment'[p].day = d /\ payment'[p].amount = a
  BY <1>2, <1>4 DEF Payment, PaymentStatus
<1>6. payment' \in [Payments -> Payment]
  BY <1>1, <1>4, <1>5
<1>7. c \in Cashiers /\ d \in Days /\ a \in Amounts /\ a \in Nat
  BY <1>2, <1>3 DEF PaymentsAreReal, Payment
<1> HIDE DEF c, d, a
<1>8. \A x \in Cashiers, y \in Days :
        /\ DayCash(payment, x, y) \in Nat
        /\ DayCash(payment', x, y)
             = DayCash(payment, x, y) + CashPart(payment', p, x, y) - CashPart(payment, p, x, y)
        /\ CashPart(payment, p, x, y) \in Nat
        /\ CashPart(payment, p, x, y) <= DayCash(payment, x, y)
  BY <1>4, <1>6, DayCashIsNat, DayCashChange
<1>9. \A x \in Cashiers, y \in Days :
        CashPart(payment, p, x, y)
          = IF payment[p].method = "cash" /\ x = c /\ y = d THEN a ELSE 0
  BY <1>3 DEF CashPart, LIVE_STATUSES, c, d, a
<1>10. CASE target = "completed" \/ payment[p].method # "cash"
  <2>1. \A x \in Cashiers, y \in Days : CashPart(payment', p, x, y) = CashPart(payment, p, x, y)
    BY <1>3, <1>5, <1>9, <1>10 DEF CashPart, LIVE_STATUSES
  <2>2. \A x \in Cashiers, y \in Days : DayCash(payment', x, y) = DayCash(payment, x, y)
    BY <1>8, <2>1
  <2>3. cash' = cash
    BY <2>2, CashPrimed DEF cash
  <2> QED
    BY <1>1, <2>3 DEF Drawers!tvars, cash
<1>11. CASE target = "cancelled" /\ payment[p].method = "cash"
  <2>1. \A x \in Cashiers, y \in Days : CashPart(payment', p, x, y) = 0
    BY <1>5, <1>11 DEF CashPart, LIVE_STATUSES
  <2>2. \A x \in Cashiers, y \in Days :
          DayCash(payment', x, y) = IF x = c /\ y = d THEN DayCash(payment, x, y) - a
                                    ELSE DayCash(payment, x, y)
    BY <1>7, <1>8, <1>9, <1>11, <2>1
  <2>3. cash' = [x \in Cashiers |-> [y \in Days |->
                   IF x = c /\ y = d THEN DayCash(payment, x, y) - a
                   ELSE DayCash(payment, x, y)]]
    BY <2>2, CashPrimed
  <2>4. cash' = [cash EXCEPT ![c][d] = @ - a]
    <3>1. cash = [x \in Cashiers |-> [y \in Days |-> DayCash(payment, x, y)]]
      BY DEF cash
    <3> QED
      BY <2>3, <3>1
  <2>5. a <= cash[c][d]
    BY <1>7, <1>8, <1>9, <1>11 DEF cash
  <2>6. Drawers!OfficeCancels(c, d, a)
    BY <1>1, <2>4, <2>5 DEF Drawers!OfficeCancels, cash
  <2> QED
    BY <1>7, <2>6 DEF Drawers!Next, Drawers!Days, Days
<1> QED
  BY <1>10, <1>11

-----------------------------------------------------------------------------
(* Every step. *)

\* The steps that write a payment, in the form Taking wants.
LEMMA WrittenPayment ==
  ASSUME payment \in [Payments -> Payment],
         NEW p \in Payments, NEW e, NEW a, NEW m, NEW c, NEW k, NEW lines, NextId(p),
         WritePayment(p, e, a, m, c, k, lines)
  PROVE  /\ payment[p].status = "none"
         /\ payment'[p].status = "completed" /\ payment'[p].amount = a
         /\ payment'[p].method = m /\ payment'[p].received_by = c /\ payment'[p].day = today
         /\ \A q \in Payments : q # p => payment'[q] = payment[q]
  BY DEF WritePayment, NextId

LEMMA RealStep == IInv /\ PaymentsAreReal /\ [Next]_vars => PaymentsAreReal'
<1> SUFFICES ASSUME IInv, PaymentsAreReal, [Next]_vars PROVE PaymentsAreReal'
  OBVIOUS
<1>1. payment \in [Payments -> Payment]
  BY DEF IInv, MoneyInv, MoneyTypeOK
<1>2. ASSUME NEW p \in Payments, NEW e, NEW a \in Amounts, NEW m \in Methods, NEW c \in Cashiers,
             NEW k, NEW lines, NextId(p), WritePayment(p, e, a, m, c, k, lines)
      PROVE  PaymentsAreReal'
  BY <1>1, <1>2, WrittenPayment DEF PaymentsAreReal
<1>3. ASSUME NEW p \in Payments, NEW target, Transition(p, target)
      PROVE  PaymentsAreReal'
  <2>1. /\ payment' = [payment EXCEPT ![p].status = target]
        /\ target \in VALID_TRANSITIONS[payment[p].status] /\ payment[p].status \in PaymentStatus
    BY <1>1, <1>3 DEF Transition, Payment
  <2>2. payment[p].status # "none" /\ target # "pending"
    BY <2>1 DEF VALID_TRANSITIONS, PaymentStatus
  <2>3. \A q \in Payments : payment'[q].received_by = payment[q].received_by
                            /\ payment'[q].amount = payment[q].amount
                            /\ payment'[q].method = payment[q].method
                            /\ (q = p => payment'[q].status = target)
                            /\ (q # p => payment'[q] = payment[q])
    BY <1>1, <2>1 DEF Payment
  <2> QED
    BY <2>2, <2>3 DEF PaymentsAreReal
<1>4. CASE UNCHANGED payment
  BY <1>4 DEF PaymentsAreReal
<1>5. CASE \E p \in Payments, c \in Cashiers, e \in Enrollments, a \in Amounts, items \in Items,
              m \in Methods, k \in Keys \cup {None} :
              record_enrollment_payment(p, c, e, a, items, m, k)
  BY <1>2, <1>5 DEF record_enrollment_payment
<1>6. CASE \E p \in Payments, c \in Cashiers, f \in Fees, a \in Amounts, m \in Methods :
              create_payment(p, c, f, a, m)
  BY <1>2, <1>6 DEF create_payment
<1>7. CASE \/ \E p \in Payments : validate_payment(p)
           \/ \E p \in Payments, c \in Cashiers, any \in BOOLEAN : cancel_payment(p, c, any)
  BY <1>3, <1>7 DEF validate_payment, cancel_payment
<1>8. CASE \E p \in Payments, from, to \in Fees, a \in Amounts, c \in Cashiers, any \in BOOLEAN :
              reallocate_payment(p, from, to, a, c, any)
  BY <1>4, <1>8 DEF reallocate_payment
<1>9. CASE \/ \E f \in Fees : mark_in_kind_deposit(f) \/ cancel_in_kind_deposit(f)
           \/ \E f \in Fees : remove_discount(f)
           \/ \E f \in Fees, r \in Amounts : set_discount(f, r)
  BY <1>4, <1>9 DEF mark_in_kind_deposit, cancel_in_kind_deposit, remove_discount, set_discount
<1>10. CASE \/ \E c \in Cashiers, d \in Days : OpenScreen(c, d)
            \/ \E c \in Cashiers, d \in Days, n \in Counts : CloseDay(c, d, n)
            \/ Sweep
            \/ \E c \in Cashiers, d \in Days, n \in Counts : Regularize(c, d, n)
            \/ Tick
            \/ UNCHANGED vars
  BY <1>4, <1>10 DEF OpenScreen, CloseDay, Sweep, Regularize, Tick, money, vars
<1> QED
  BY <1>5, <1>6, <1>7, <1>8, <1>9, <1>10 DEF Next

\* Every step of the counter is a step of the drawers, or leaves them alone.
LEMMA DrawersStep ==
  ASSUME IInv, IInv', PaymentsAreReal, [Next]_vars
  PROVE  [Drawers!Next]_(Drawers!tvars)
<1> DEFINE Goal == [Drawers!Next]_(Drawers!tvars)
<1> SUFFICES Goal
  OBVIOUS
<1>1. /\ payment \in [Payments -> Payment] /\ payment' \in [Payments -> Payment]
      /\ today \in Days
  BY DEF IInv, MoneyInv, MoneyTypeOK, DrawerInv, CashDayTypeOK
<1>2. ASSUME NEW p \in Payments, NEW e, NEW a \in Amounts, NEW m, NEW c \in Cashiers, NEW k,
             NEW lines, NextId(p), WritePayment(p, e, a, m, c, k, lines),
             GuardDrawer(c, m), today' = today
      PROVE  Goal
  BY <1>1, <1>2, WrittenPayment, Taking
<1>3. ASSUME NEW p \in Payments, NEW target \in {"completed", "cancelled"}, Transition(p, target)
      PROVE  Goal
  BY <1>1, <1>3, Correcting
<1>4. CASE UNCHANGED <<today, session, payment>>
  BY <1>4, NoPaymentChanged
<1>5. ASSUME NEW c \in Cashiers, NEW d \in Days, OpenScreen(c, d)
      PROVE  Goal
  <2>1. cash' = cash
    BY <1>5 DEF OpenScreen, money, cash
  <2>2. Drawers!OpenScreen(c, d)
    BY <1>5, <2>1 DEF OpenScreen, get_my_session, NewSession, cash,
       Drawers!OpenScreen, Drawers!get_my_session, Drawers!NewSession
  <2> QED
    BY <2>2 DEF Drawers!Next, Drawers!Days, Days
<1>6. ASSUME NEW c \in Cashiers, NEW d \in Days, NEW n \in Counts, CloseDay(c, d, n)
      PROVE  Goal
  <2>1. cash' = cash
    BY <1>6 DEF CloseDay, money, cash
  <2>2. cash[c][d] = DayCash(payment, c, d)
    BY DEF cash
  <2>3. Drawers!Close(c, d, n)
    BY <1>6, <2>1, <2>2 DEF CloseDay, close_my_session, Counted, cash,
       Drawers!Close, Drawers!close_my_session, Drawers!Counted
  <2> QED
    BY <2>3 DEF Drawers!Next, Drawers!Days, Days
<1>7. CASE Sweep
  <2>1. cash' = cash
    BY <1>7 DEF Sweep, money, cash
  <2>2. /\ Drawers!Days = Days /\ Drawers!StaleOpen = StaleOpen
        /\ \A B : Drawers!IsBatch(B) <=> IsBatch(B)
        /\ \A s, n : Drawers!AutoClosed(s, n) = AutoClosed(s, n)
    <3>1. Drawers!Days = Days
      BY DEF Days, Drawers!Days
    <3>2. Drawers!StaleOpen = StaleOpen
      BY <3>1 DEF StaleOpen, Drawers!StaleOpen
    <3>3. \A S : Drawers!Cardinality(S) = Cardinality(S)
      BY DEF Cardinality, Drawers!Cardinality
    <3>4. \A B : Drawers!IsBatch(B) <=> IsBatch(B)
      BY <3>2, <3>3 DEF IsBatch, Drawers!IsBatch
    <3>5. \A s, n : Drawers!AutoClosed(s, n) = AutoClosed(s, n)
      BY DEF AutoClosed, Drawers!AutoClosed
    <3> QED
      BY <3>1, <3>2, <3>4, <3>5
  <2>3. auto_close_stale_sessions(cash) /\ UNCHANGED today
    BY <1>7 DEF Sweep, cash
  <2>4. Drawers!auto_close_stale_sessions(cash)
    BY <2>2, <2>3 DEF auto_close_stale_sessions, Drawers!auto_close_stale_sessions
  <2>5. Drawers!Sweep
    BY <2>1, <2>3, <2>4 DEF Drawers!Sweep, cash
  <2> QED
    BY <2>5 DEF Drawers!Next
<1>8. ASSUME NEW c \in Cashiers, NEW d \in Days, NEW n \in Counts, Regularize(c, d, n)
      PROVE  Goal
  <2>1. cash' = cash
    BY <1>8 DEF Regularize, money, cash
  <2>2. Drawers!Regularize(c, d, n)
    BY <1>8, <2>1 DEF Regularize, regularize_my_session, Counted, cash,
       Drawers!Regularize, Drawers!regularize_my_session, Drawers!Counted
  <2> QED
    BY <2>2 DEF Drawers!Next, Drawers!Days, Days
<1>9. CASE Tick
  <2>1. cash' = cash
    BY <1>9 DEF Tick, money, cash
  <2>2. Drawers!Tick
    BY <1>9, <2>1 DEF Tick, Midnight, cash, Drawers!Tick, Drawers!Midnight
  <2> QED
    BY <2>2 DEF Drawers!Next
<1> HIDE DEF Goal
<1>10. CASE \E p \in Payments, c \in Cashiers, e \in Enrollments, a \in Amounts, items \in Items,
               m \in Methods, k \in Keys \cup {None} :
               record_enrollment_payment(p, c, e, a, items, m, k)
  BY <1>2, <1>10 DEF record_enrollment_payment
<1>11. CASE \E p \in Payments, c \in Cashiers, f \in Fees, a \in Amounts, m \in Methods :
               create_payment(p, c, f, a, m)
  BY <1>2, <1>11 DEF create_payment
<1>12. CASE \/ \E p \in Payments : validate_payment(p)
            \/ \E p \in Payments, c \in Cashiers, any \in BOOLEAN : cancel_payment(p, c, any)
  BY <1>3, <1>12 DEF validate_payment, cancel_payment
<1>13. CASE \E p \in Payments, from, to \in Fees, a \in Amounts, c \in Cashiers, any \in BOOLEAN :
               reallocate_payment(p, from, to, a, c, any)
  BY <1>4, <1>13 DEF reallocate_payment
<1>14. CASE \/ \E f \in Fees : mark_in_kind_deposit(f) \/ cancel_in_kind_deposit(f)
            \/ \E f \in Fees : remove_discount(f)
            \/ \E f \in Fees, r \in Amounts : set_discount(f, r)
  BY <1>4, <1>14 DEF mark_in_kind_deposit, cancel_in_kind_deposit, remove_discount, set_discount
<1>15. CASE UNCHANGED vars
  BY <1>4, <1>15 DEF vars
<1>16. CASE \/ \E c \in Cashiers, d \in Days : OpenScreen(c, d)
            \/ \E c \in Cashiers, d \in Days, n \in Counts : CloseDay(c, d, n)
            \/ \E c \in Cashiers, d \in Days, n \in Counts : Regularize(c, d, n)
  BY <1>5, <1>6, <1>8, <1>16, Zenon
<1> QED
  BY <1>7, <1>9, <1>10, <1>11, <1>12, <1>13, <1>14, <1>15, <1>16, Zenon DEF Next

-----------------------------------------------------------------------------
LEMMA DrawersInit == Init => Drawers!Init /\ PaymentsAreReal
<1> SUFFICES ASSUME Init PROVE Drawers!Init /\ PaymentsAreReal
  OBVIOUS
<1>2. ASSUME NEW p \in Payments
      PROVE  payment[p].status # "none" => /\ payment[p].method # "cash"
                                           /\ payment[p].received_by \in Cashiers
                                           /\ payment[p].amount \in Amounts
                                           /\ payment[p].method \in Methods
  <2>1. CASE payment = [q \in Payments |-> NoPayment]
    BY <2>1 DEF NoPayment
  <2>2. ASSUME NEW c \in Cashiers, NEW f \in Fees, NEW a \in Amounts, OldPending(1, c, f, a),
               "transfer" \in Methods
        PROVE  payment[p].status # "none" => /\ payment[p].method # "cash"
                                             /\ payment[p].received_by \in Cashiers
                                             /\ payment[p].amount \in Amounts
                                             /\ payment[p].method \in Methods
    <3>1. payment[p] = IF p = 1 THEN [NoPayment EXCEPT !.status = "pending", !.amount = a,
                                                       !.enrollment = EnrollmentOf[f],
                                                       !.method = "transfer", !.received_by = c]
                       ELSE NoPayment
      BY <2>2 DEF OldPending
    <3> QED
      BY <2>2, <3>1 DEF NoPayment
  <2> QED
    BY <2>1, <2>2 DEF Init
<1>3. PaymentsAreReal
  BY <1>2 DEF PaymentsAreReal
<1>4. \A c \in Cashiers, d \in Days : DayCash(payment, c, d) = 0
  <2> SUFFICES ASSUME NEW c \in Cashiers, NEW d \in Days PROVE DayCash(payment, c, d) = 0
    OBVIOUS
  <2>1. [p \in Payments |->
           IF /\ payment[p].status \in LIVE_STATUSES
              /\ payment[p].method = "cash" /\ payment[p].received_by = c /\ payment[p].day = d
           THEN payment[p].amount ELSE 0] = [p \in 1..MaxPayments |-> 0]
    BY <1>2 DEF Payments, LIVE_STATUSES
  <2> QED
    BY <2>1, SumZero DEF DayCash
<1>5. Drawers!Init
  <2>1. cash = [c \in Cashiers |-> [d \in Days |-> 0]]
    BY <1>4 DEF cash
  <2> QED
    BY <2>1 DEF Init, CashDayInit, NoSession, Days, cash,
       Drawers!Init, Drawers!CashDayInit, Drawers!NoSession, Drawers!Days
<1> QED
  BY <1>3, <1>5

\* The counter implements the drawers: whatever the payments do, the cash sessions are
\* handled as Till says, so that what Till promises holds of the counter's money.
THEOREM CounterImplementsTill == Spec => ImplementsTill
<1>1. Init => Drawers!Init /\ PaymentsAreReal
  BY DrawersInit
<1>2. IInv /\ PaymentsAreReal /\ [Next]_vars => PaymentsAreReal'
  BY RealStep
<1>3. IInv /\ IInv' /\ PaymentsAreReal /\ [Next]_vars => [Drawers!Next]_(Drawers!tvars)
  BY DrawersStep
<1> QED
  BY <1>1, <1>2, <1>3, Always, PTL DEF Spec, ImplementsTill, Drawers!Spec
=============================================================================
