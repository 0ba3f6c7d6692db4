------------------------------ MODULE FeeRules ------------------------------
(***************************************************************************)
(* The pure rules of the counter: what a fee line still owes in cash, which *)
(* lines a payment may serve, and how the amount handed over is split.      *)
(*                                                                         *)
(* A fee line is a record with (at least) the fields status and amount; the *)
(* lines are named 1..n by their rank in the order the cascade reads them   *)
(* (priority ASC, then id ASC), so "ordered by priority" is the order of    *)
(* the numbers.  Amounts are whole XOF.  Functions on 1..n stand for the    *)
(* lists of (fee, amount) pairs of the code; a fee that is not in the list  *)
(* is mapped to 0.                                                          *)
(***************************************************************************)
EXTENDS Sums, Sequences

NOT_CASH_DUE == {"waived", "in_kind"}
FeeStatuses  == {"pending", "partial", "paid"} \cup NOT_CASH_DUE

AtMost(a, b) == IF a <= b THEN a ELSE b

(***************************************************************************)
(* One line.                                                                *)
(***************************************************************************)
is_not_cash_due(fee) == fee.status \in NOT_CASH_DUE

cash_remaining(fee, paid) ==
  IF is_not_cash_due(fee) \/ paid >= fee.amount THEN 0 ELSE fee.amount - paid

can_receive_cash(fee, paid) ==
  /\ fee.status \in {"pending", "partial"}
  /\ cash_remaining(fee, paid) > 0

\* The status a line takes once `paid` has been paid on it.
StatusAfter(fee, paid) ==
  CASE is_not_cash_due(fee)                                -> fee.status
    [] ~is_not_cash_due(fee) /\ paid >= fee.amount         -> "paid"
    [] ~is_not_cash_due(fee) /\ paid \in 1..(fee.amount-1) -> "partial"
    [] OTHER                                               -> "pending"

\* Mutant: the status is left as it was.
status_not_recomputed(fee, paid) == [fee EXCEPT !.amount = @ + 0 * paid]

recompute_fee_status(fee, paid) == [fee EXCEPT !.status = StatusAfter(fee, paid)]

(***************************************************************************)
(* All the lines of an enrollment: fee and paid are functions on 1..n,      *)
(* mine is the set of lines of the enrollment the payment is for.           *)
(***************************************************************************)
plannable_fees(mine, fee, paid) == {f \in mine : can_receive_cash(fee[f], paid[f])}

\* What each line may still receive; 0 outside the plannable ones.
RoomOf(mine, fee, paid) ==
  [f \in DOMAIN fee |->
     IF f \in plannable_fees(mine, fee, paid) THEN cash_remaining(fee[f], paid[f]) ELSE 0]

(***************************************************************************)
(* The cascade: each line in turn takes what is left, up to its room.       *)
(***************************************************************************)
LeftAfter(amount, room, n) ==
  LET left[i \in 0..n] ==
        IF i = 0 THEN amount ELSE left[i - 1] - AtMost(left[i - 1], room[i])
  IN  left

\* Mutant: priority DESC.
cascade_backwards(amount, room, n) ==
  LET left == LeftAfter(amount, [f \in 1..n |-> room[n + 1 - f]], n)
  IN  [splits |-> [f \in 1..n |-> AtMost(left[n - f], room[f])], surplus |-> left[n]]

cascade_by_priority(amount, room, n) ==
  LET left == LeftAfter(amount, room, n)
  IN  [splits  |-> [f \in 1..n |-> AtMost(left[f - 1], room[f])],
       surplus |-> left[n]]

(***************************************************************************)
(* Lines the cashier named: a sequence of [fee, amount], the same fee       *)
(* possibly named twice.                                                    *)
(***************************************************************************)
merge_directed_lines(items, n) ==
  [f \in 1..n |->
     Sum([i \in 1..Len(items) |-> IF items[i].fee = f THEN items[i].amount ELSE 0],
         Len(items))]

Named(items) == {items[i].fee : i \in 1..Len(items)}

\* Mutant: a named line may exceed what it still owes.
acceptable_uncapped(named, directed, mine, fee, paid, amount, n) ==
  /\ Sum(directed, n) <= amount
  /\ named \subseteq mine
  /\ \A f \in named : can_receive_cash(fee[f], paid[f])

\* Nothing forbids writing these named amounts (no AllocationProblem).
Acceptable(named, directed, mine, fee, paid, amount, n) ==
  /\ Sum(directed, n) <= amount
  /\ named \subseteq mine
  /\ \A f \in named : /\ can_receive_cash(fee[f], paid[f])
                      /\ directed[f] <= cash_remaining(fee[f], paid[f])

plan_split(amount, directed, mine, fee, paid, n) ==
  LET room    == RoomOf(mine, fee, paid)
      cascade == cascade_by_priority(amount - Sum(directed, n),
                                     [f \in 1..n |-> room[f] - directed[f]], n)
  IN  [splits  |-> [f \in 1..n |-> directed[f] + cascade.splits[f]],
       surplus |-> cascade.surplus]

resolve_allocation(amount, items, mine, fee, paid, n) ==
  LET directed == merge_directed_lines(items, n)
      ok       == Acceptable(Named(items), directed, mine, fee, paid, amount, n)
      plan     == plan_split(amount, directed, mine, fee, paid, n)
  IN  [accepted |-> ok,
       directed |-> directed,
       splits   |-> IF ok THEN plan.splits ELSE [f \in 1..n |-> 0],
       surplus  |-> IF ok THEN plan.surplus ELSE 0]

(***************************************************************************)
(* The net under every writer: the lines of a payment cover it exactly.     *)
(* (The tolerance of the code is half a centime, less than the XOF unit;    *)
(* two lines on one fee cannot be expressed by a function.)                 *)
(***************************************************************************)
verifier(amount, splits, n) == Sum(splits, n) = amount

(***************************************************************************)
(* What the screen announces before the cashier presses the button, and     *)
(* what the counter decides when the button is pressed.                     *)
(***************************************************************************)
\* What the enrollment owes in cash once the payment is written.
remaining_cash(mine, fee, paid, n) == Sum(RoomOf(mine, fee, paid), n)

\* Mutant: the surplus is forgotten.
can_record_with_surplus(mine, issue) == mine # {} /\ issue.accepted

can_record(mine, issue) == mine # {} /\ issue.accepted /\ issue.surplus <= 0

preview_allocation(amount, items, mine, fee, paid, n) ==
  LET issue  == resolve_allocation(amount, items, mine, fee, paid, n)
      before == Sum([f \in 1..n |-> IF f \in mine THEN cash_remaining(fee[f], paid[f]) ELSE 0], n)
  IN  [can_record             |-> can_record(mine, issue),
       splits                 |-> issue.splits,
       total_remaining_before |-> before,
       total_remaining_after  |-> IF before > amount THEN before - amount ELSE 0,
       status_after           |-> [f \in mine |-> StatusAfter(fee[f], paid[f] + issue.splits[f])]]

\* The checks of _ecrire_versement before its first write, in their order.
may_record(amount, items, mine, fee, paid, n) ==
  /\ plannable_fees(mine, fee, paid) # {}
  /\ amount <= remaining_cash(mine, fee, paid, n)
  /\ LET issue == resolve_allocation(amount, items, mine, fee, paid, n)
     IN  issue.accepted /\ verifier(amount, issue.splits, n)
=============================================================================
