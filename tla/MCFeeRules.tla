----------------------------- MODULE MCFeeRules -----------------------------
(***************************************************************************)
(* The rules of FeeRules against reference definitions, over every small    *)
(* enrollment: three lines, each in any state the counter can leave it in,  *)
(* every amount and every list of at most two named lines.                  *)
(*                                                                         *)
(* A behaviour is one counter operation: the cashier asks (Init), the       *)
(* screen answers (Preview), the button is pressed (Record).                *)
(***************************************************************************)
EXTENDS FeeRules, FiniteSets

CONSTANTS Lines,        \* number of fee lines in the school's table
          MaxDue,       \* largest amount of a line
          MaxPaid,      \* largest sum already paid on a line
          MaxGiven      \* largest amount handed over

ASSUME MCFeeRulesAssumption ==
  Lines \in Nat /\ MaxDue \in Nat /\ MaxPaid \in Nat /\ MaxGiven \in Nat

VARIABLES fee, paid, mine, amount, items, screen, done
vars == <<fee, paid, mine, amount, items, screen, done>>

\* A line as the counter leaves it: status recomputed from what is paid, or
\* out of the cash circuit with nothing paid on it.
LineStates ==
  {s \in [status : FeeStatuses, amount : 1..MaxDue, paid : 0..MaxPaid] :
     IF is_not_cash_due(s) THEN s.paid = 0
     ELSE s.status = StatusAfter([s EXCEPT !.status = "pending"], s.paid)}

Items == UNION {[1..k -> [fee : 1..Lines, amount : 1..MaxDue]] : k \in 0..2}

Init ==
  /\ \E s \in [1..Lines -> LineStates] :
       /\ fee  = [f \in 1..Lines |-> [status |-> s[f].status, amount |-> s[f].amount]]
       /\ paid = [f \in 1..Lines |-> s[f].paid]
  /\ mine \in {1..Lines, 1..(Lines - 1)}
  /\ amount \in 1..MaxGiven
  /\ items \in Items
  /\ screen = "blank"
  /\ done = FALSE

Preview ==
  /\ screen = "blank"
  /\ screen' = IF preview_allocation(amount, items, mine, fee, paid, Lines).can_record
               THEN "ok" ELSE "refused"
  /\ UNCHANGED <<fee, paid, mine, amount, items, done>>

\* The writes of the recording: the splits, then the recomputed statuses.
Record ==
  /\ screen # "blank" /\ ~done
  /\ may_record(amount, items, mine, fee, paid, Lines)
  /\ LET splits == resolve_allocation(amount, items, mine, fee, paid, Lines).splits
     IN  /\ paid' = [f \in 1..Lines |-> paid[f] + splits[f]]
         /\ fee'  = [f \in 1..Lines |->
                       IF splits[f] > 0 THEN recompute_fee_status(fee[f], paid[f] + splits[f])
                       ELSE fee[f]]
  /\ done' = TRUE
  /\ UNCHANGED <<mine, amount, items, screen>>

Next == Preview \/ Record
Spec == Init /\ [][Next]_vars

-----------------------------------------------------------------------------
(***************************************************************************)
(* Reference: the vectors a payment may be split into, and the one that     *)
(* serves the lines in priority order.                                      *)
(***************************************************************************)
Asked(f) == {i \in 1..Len(items) : items[i].fee = f}
AskedSum(f) == LET a(i) == IF i \in Asked(f) THEN items[i].amount ELSE 0
               IN  IF Len(items) = 0 THEN 0
                   ELSE IF Len(items) = 1 THEN a(1) ELSE a(1) + a(2)

Due(f) == IF f \in mine /\ fee[f].status \in {"pending", "partial"} /\ fee[f].amount > paid[f]
          THEN fee[f].amount - paid[f] ELSE 0

Vectors == {v \in [1..Lines -> 0..MaxDue] :
              /\ \A f \in 1..Lines : v[f] >= AskedSum(f) /\ v[f] <= Due(f)
              /\ Sum(v, Lines) = amount}

\* A line beyond what was asked for it only after every earlier line is full.
InPriorityOrder(v) ==
  \A f, g \in 1..Lines : f < g /\ v[g] > AskedSum(g) => v[f] = Due(f)

Before == ~done

\* The counter takes a payment exactly when some split honours what the cashier
\* named within what each line still owes (recording.py, the three refusals).
RecordsExactlyTheFeasible ==
  Before => (may_record(amount, items, mine, fee, paid, Lines) <=> Vectors # {})

\* The split written is the one that serves the lines by priority once the named
\* lines are honoured (_plan_split, _cascade_by_priority), and no other.
SplitsByPriority ==
  Before /\ may_record(amount, items, mine, fee, paid, Lines) =>
    LET splits == resolve_allocation(amount, items, mine, fee, paid, Lines).splits
    IN  splits \in Vectors /\ InPriorityOrder(splits)

\* The screen never promises what the counter refuses, nor the reverse (preview.py
\* and recording.py ask the same question).
PreviewTellsTheTruth ==
  Before /\ screen # "blank" =>
    (screen = "ok" <=> may_record(amount, items, mine, fee, paid, Lines))

\* The rest and the statuses the screen announced are those found once the payment
\* is written, although preview.py sums over all lines and remaining.py only over
\* those that may be served.
AnnouncedIsWritten ==
  [][Record =>
       LET shown == preview_allocation(amount, items, mine, fee, paid, Lines)
       IN  /\ remaining_cash(mine, fee', paid', Lines) = shown.total_remaining_after
           /\ \A f \in mine : fee'[f].status = shown.status_after[f]]_vars

TypeOK ==
  /\ fee \in [1..Lines -> [status : FeeStatuses, amount : 1..MaxDue]]
  /\ paid \in [1..Lines -> 0..(MaxPaid + MaxDue)]
  /\ mine \subseteq 1..Lines
  /\ amount \in 1..MaxGiven
  /\ items \in Items
  /\ screen \in {"blank", "ok", "refused"}
  /\ done \in BOOLEAN
=============================================================================
