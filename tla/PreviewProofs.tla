---------------------------- MODULE PreviewProofs ----------------------------
(***************************************************************************)
(* The counter operation of MCFeeRules for any number of lines and any      *)
(* amounts: its types, what the counter takes and refuses, how it splits,    *)
(* and the screen that keeps its word.  The lines do not change between the  *)
(* preview and the button, so the invariant is the pure theorem             *)
(* PreviewAgrees carried along the behaviour, and the statuses, which follow *)
(* what is paid before and after the writes.                                *)
(***************************************************************************)
EXTENDS MCFeeRules, FeeRulesProofs

\* The stored status of a line is the one what is paid on it gives (payment_state.py); without
\* it the sum of preview.py over all the lines would not be that of remaining.py.
StatusFollows == \A f \in 1..Lines : fee[f].status = StatusAfter(fee[f], paid[f])

IInv == TypeOK /\ PreviewTellsTheTruth /\ StatusFollows

USE MCFeeRulesAssumption

\* At most two named lines are a list of named lines.
LEMMA ItemsAreNamedLines == Items \subseteq NamedLines(Lines)
<1> SUFFICES ASSUME NEW k \in 0..2,
                    NEW s \in [1..k -> [fee : 1..Lines, amount : 1..MaxDue]]
             PROVE  s \in Seq([fee : 1..Lines, amount : Nat])
  BY DEF Items, NamedLines
<1>1. k \in Nat /\ \A i \in 1..k : s[i] \in [fee : 1..Lines, amount : Nat]
  OBVIOUS
<1>2. s = [i \in 1..k |-> s[i]]
  OBVIOUS
<1> QED
  BY <1>1, <1>2, IsASeq

\* The state is what the rules are stated for.
LEMMA Readable ==
  ASSUME TypeOK
  PROVE  /\ LinesOK(fee, paid, Lines)
         /\ items \in NamedLines(Lines)
         /\ amount \in Nat \ {0}
         /\ mine \subseteq 1..Lines
<1>1. LinesOK(fee, paid, Lines)
  BY DEF TypeOK, LinesOK
<1> QED
  BY <1>1, ItemsAreNamedLines DEF TypeOK

-----------------------------------------------------------------------------
(* What the counter takes, and how it splits it.                            *)

\* The amounts merged from the named lines are those the reference asks for.
LEMMA DirectedIsAsked ==
  ASSUME TypeOK, NEW f \in 1..Lines
  PROVE  /\ merge_directed_lines(items, Lines)[f] = AskedSum(f)
         /\ AskedSum(f) > 0 <=> f \in Named(items)
<1> DEFINE given == [i \in 1..Len(items) |-> IF items[i].fee = f THEN items[i].amount ELSE 0]
<1>1. PICK k \in 0..2 : items \in [1..k -> [fee : 1..Lines, amount : 1..MaxDue]]
  BY DEF TypeOK, Items
<1>2. Len(items) = k
  <2>1. items \in Seq([fee : 1..Lines, amount : Nat])
    BY Readable DEF NamedLines
  <2> QED
    BY <1>1, <2>1
<1>3. \A i \in 1..k : items[i].amount \in 1..MaxDue /\ items[i].fee \in 1..Lines
  BY <1>1
<1>4. given \in [1..k -> Int]
  BY <1>2, <1>3
<1>5. merge_directed_lines(items, Lines)[f] = Sum(given, k)
  BY <1>2 DEF merge_directed_lines
<1>6. Asked(f) = {i \in 1..k : items[i].fee = f}
  BY <1>2 DEF Asked
<1>7. Named(items) = {items[i].fee : i \in 1..k}
  BY <1>2 DEF Named
<1>8. /\ Prefix(given, k)[0] = 0 /\ Sum(given, k) = Prefix(given, k)[k]
      /\ \A i \in 1..k : Prefix(given, k)[i] = Prefix(given, k)[i - 1] + given[i]
  <2>1. k \in Nat
    OBVIOUS
  <2> HIDE DEF given
  <2> QED
    BY <2>1, <1>4, SumRec
<1>9. \A i \in 1..k : given[i] = IF i \in Asked(f) THEN items[i].amount ELSE 0
  BY <1>2, <1>6
<1> HIDE DEF given
<1>10. CASE k = 0
  BY <1>2, <1>5, <1>7, <1>8, <1>10 DEF AskedSum
<1>11. CASE k = 1
  <2>1. Sum(given, k) = given[1]
    BY <1>4, <1>8, <1>11
  <2>2. AskedSum(f) = given[1]
    BY <1>2, <1>9, <1>11 DEF AskedSum
  <2>3. f \in Named(items) <=> items[1].fee = f
    BY <1>7, <1>11
  <2> QED
    BY <1>3, <1>5, <1>6, <1>9, <1>11, <2>1, <2>2, <2>3
<1>12. CASE k = 2
  <2>1. Sum(given, k) = given[1] + given[2]
    BY <1>4, <1>8, <1>12
  <2>2. AskedSum(f) = given[1] + given[2]
    BY <1>2, <1>9, <1>12 DEF AskedSum
  <2>3. f \in Named(items) <=> items[1].fee = f \/ items[2].fee = f
    BY <1>7, <1>12
  <2> QED
    BY <1>3, <1>5, <1>6, <1>9, <1>12, <2>1, <2>2, <2>3
<1> QED
  BY <1>10, <1>11, <1>12

\* What a line may receive is what the reference says it still owes.
LEMMA RoomIsDue ==
  ASSUME TypeOK, NEW f \in 1..Lines
  PROVE  /\ RoomOf(mine, fee, paid)[f] = Due(f)
         /\ Due(f) \in 0..MaxDue
         /\ Due(f) > 0 <=> f \in plannable_fees(mine, fee, paid)
<1>1. /\ fee[f].amount \in 1..MaxDue /\ fee[f].status \in FeeStatuses /\ paid[f] \in Nat
      /\ DOMAIN fee = 1..Lines
  BY DEF TypeOK
<1>2. f \in plannable_fees(mine, fee, paid) <=>
        f \in mine /\ fee[f].status \in {"pending", "partial"} /\ fee[f].amount > paid[f]
  BY <1>1 DEF plannable_fees, can_receive_cash, cash_remaining, is_not_cash_due, NOT_CASH_DUE,
              FeeStatuses
<1>3. f \in plannable_fees(mine, fee, paid) =>
        cash_remaining(fee[f], paid[f]) = fee[f].amount - paid[f]
  BY <1>1, <1>2 DEF cash_remaining, is_not_cash_due, NOT_CASH_DUE
<1>4. RoomOf(mine, fee, paid)[f] =
        IF f \in plannable_fees(mine, fee, paid) THEN cash_remaining(fee[f], paid[f]) ELSE 0
  BY <1>1 DEF RoomOf
<1> QED
  BY <1>1, <1>2, <1>3, <1>4 DEF Due

\* A split that serves the named lines within what is due: the counter takes the payment.
LEMMA FeasibleIsTaken ==
  ASSUME TypeOK, NEW v \in Vectors
  PROVE  may_record(amount, items, mine, fee, paid, Lines)
<1> DEFINE room == RoomOf(mine, fee, paid)
           directed == merge_directed_lines(items, Lines)
<1>1. /\ v \in [1..Lines -> 0..MaxDue] /\ Sum(v, Lines) = amount
      /\ \A f \in 1..Lines : directed[f] <= v[f] /\ v[f] <= room[f]
  BY DirectedIsAsked, RoomIsDue DEF Vectors
<1>2. /\ room \in [1..Lines -> Nat] /\ directed \in [1..Lines -> Nat] /\ amount \in Nat \ {0}
      /\ v \in [1..Lines -> Nat] /\ items \in NamedLines(Lines) /\ LinesOK(fee, paid, Lines)
      /\ mine \subseteq 1..Lines
  <2>1. v \in [1..Lines -> Nat]
    BY <1>1
  <2> QED
    BY <2>1, Readable, RoomIsNat, DirectedIsNat
<1>3. \A f \in Named(items) : f \in plannable_fees(mine, fee, paid) /\ directed[f] <= room[f] /\ f \in 1..Lines
  <2> SUFFICES ASSUME NEW f \in Named(items)
               PROVE  f \in plannable_fees(mine, fee, paid) /\ directed[f] <= room[f] /\ f \in 1..Lines
    OBVIOUS
  <2>1. f \in 1..Lines
    <3>1. PICK i \in 1..Len(items) : f = items[i].fee
      BY DEF Named
    <3>2. items \in Seq([fee : 1..Lines, amount : Nat])
      BY <1>2 DEF NamedLines
    <3> HIDE DEF room, directed
    <3>3. items[i] \in [fee : 1..Lines, amount : Nat]
      BY ONLY <3>1, <3>2, ElementOfSeq
    <3> QED
      BY <3>1, <3>3
  <2>2. AskedSum(f) > 0 /\ directed[f] = AskedSum(f)
    BY <2>1, DirectedIsAsked
  <2>3. directed[f] \in Nat /\ v[f] \in Nat /\ room[f] \in Nat /\ directed[f] <= v[f] /\ v[f] <= room[f]
    BY <1>1, <1>2, <2>1
  <2> HIDE DEF room, directed
  <2>4. room[f] > 0 /\ directed[f] <= room[f]
    BY <2>2, <2>3
  <2>5. room[f] = Due(f)
    BY <2>1, RoomIsDue DEF room
  <2>6. f \in plannable_fees(mine, fee, paid)
    BY <2>1, <2>4, <2>5, RoomIsDue
  <2> QED
    BY <2>1, <2>4, <2>6
<1>4. \A f \in plannable_fees(mine, fee, paid) :
         f \in mine /\ can_receive_cash(fee[f], paid[f])
  BY DEF plannable_fees
<1>5. \A f \in 1..Lines : f \in plannable_fees(mine, fee, paid) => room[f] = cash_remaining(fee[f], paid[f])
  BY <1>2 DEF RoomOf, LinesOK
<1> HIDE DEF room, directed
<1>6. Sum(directed, Lines) <= amount /\ amount <= Sum(room, Lines)
  <2>1. v \in [1..Lines -> Int] /\ room \in [1..Lines -> Int] /\ directed \in [1..Lines -> Int]
    BY <1>2
  <2>2. Sum(directed, Lines) <= Sum(v, Lines)
    BY <1>1, <2>1, MCFeeRulesAssumption, SumMonotone
  <2>3. Sum(v, Lines) <= Sum(room, Lines)
    BY <1>1, <2>1, MCFeeRulesAssumption, SumMonotone
  <2> QED
    BY <1>1, <2>2, <2>3
<1>7. Acceptable(Named(items), directed, mine, fee, paid, amount, Lines)
  BY <1>3, <1>4, <1>5, <1>6 DEF Acceptable
<1>8. resolve_allocation(amount, items, mine, fee, paid, Lines).accepted
  BY <1>7 DEF resolve_allocation, directed
<1>9. plannable_fees(mine, fee, paid) # {}
  <2> SUFFICES ASSUME plannable_fees(mine, fee, paid) = {} PROVE FALSE
    OBVIOUS
  <2>1. \A f \in 1..Lines : room[f] = 0
    BY RoomIsDue DEF room
  <2>2. v = [f \in 1..Lines |-> 0]
    BY <1>1, <1>2, <2>1
  <2>3. Sum(v, Lines) = 0
    BY <2>2, SumZero
  <2> QED
    BY <1>1, <1>2, <2>3
<1>10. amount <= remaining_cash(mine, fee, paid, Lines)
  BY <1>6 DEF remaining_cash, room
<1>11. verifier(amount, resolve_allocation(amount, items, mine, fee, paid, Lines).splits, Lines)
  BY <1>2, <1>8, <1>10, TheNetCatchesNothing
<1> QED
  BY <1>8, <1>9, <1>10, <1>11 DEF may_record

\* The split of a payment that is taken is one of those, and serves the lines in their order.
LEMMA TakenIsFeasible ==
  ASSUME TypeOK, may_record(amount, items, mine, fee, paid, Lines)
  PROVE  LET splits == resolve_allocation(amount, items, mine, fee, paid, Lines).splits
         IN  splits \in Vectors /\ InPriorityOrder(splits)
<1> DEFINE room == RoomOf(mine, fee, paid)
           directed == merge_directed_lines(items, Lines)
           splits == resolve_allocation(amount, items, mine, fee, paid, Lines).splits
<1>1. /\ amount \in Nat /\ items \in NamedLines(Lines) /\ LinesOK(fee, paid, Lines)
  BY Readable
<1>2. /\ resolve_allocation(amount, items, mine, fee, paid, Lines).accepted
      /\ Sum(splits, Lines) = amount
  BY DEF may_record, verifier
<1>3. /\ splits \in [1..Lines -> Nat]
      /\ \A f \in 1..Lines : directed[f] <= splits[f] /\ splits[f] <= room[f]
      /\ \A f, g \in 1..Lines : f < g /\ splits[g] > directed[g] => splits[f] = room[f]
  BY <1>1, <1>2, SplitsHonour
<1>4. \A f \in 1..Lines : room[f] = Due(f) /\ Due(f) \in 0..MaxDue /\ directed[f] = AskedSum(f)
  BY RoomIsDue, DirectedIsAsked
<1> HIDE DEF room, directed, splits
<1>5. \A f \in 1..Lines : splits[f] \in 0..MaxDue
  BY <1>3, <1>4
<1>6. splits \in [1..Lines -> 0..MaxDue]
  BY <1>3, <1>5
<1>7. splits \in Vectors
  BY <1>2, <1>3, <1>4, <1>6 DEF Vectors
<1>8. InPriorityOrder(splits)
  BY <1>3, <1>4 DEF InPriorityOrder
<1> QED
  BY <1>7, <1>8 DEF splits

-----------------------------------------------------------------------------
(* What the writes leave.                                                   *)

\* One line, its status before and after a split within its room.
LEMMA LineAfter ==
  ASSUME NEW line, NEW p \in Nat, NEW s \in Nat, NEW f, NEW M,
         line \in [status : FeeStatuses, amount : Nat], line.status = StatusAfter(line, p),
         NEW room, room = IF f \in M /\ can_receive_cash(line, p) THEN cash_remaining(line, p) ELSE 0,
         s <= room,
         NEW new, new = IF s > 0 THEN recompute_fee_status(line, p + s) ELSE line
  PROVE  /\ new.status = StatusAfter(line, p + s) /\ new.status = StatusAfter(new, p + s)
         /\ new.amount = line.amount
         /\ room = IF f \in M THEN cash_remaining(line, p) ELSE 0
         /\ room - s = IF f \in M /\ can_receive_cash(new, p + s) THEN cash_remaining(new, p + s) ELSE 0
<1>1. line.status \in FeeStatuses /\ line.amount \in Nat
  OBVIOUS
<1>2. s > 0 => f \in M /\ line.status \in {"pending", "partial"} /\ s <= line.amount - p
               /\ new = [line EXCEPT !.status = StatusAfter(line, p + s)]
  BY <1>1 DEF can_receive_cash, cash_remaining, is_not_cash_due, recompute_fee_status
<1>3. s = 0 => new = line /\ p + s = p
  OBVIOUS
<1>4. new.amount = line.amount
  BY <1>2, <1>3
<1>5. new.status = StatusAfter(line, p + s)
  BY <1>2, <1>3
<1>6. s > 0 => new.status = IF p + s >= line.amount THEN "paid" ELSE "partial"
  BY <1>1, <1>2, <1>5 DEF StatusAfter, is_not_cash_due, NOT_CASH_DUE
<1>7. new.status = StatusAfter(new, p + s)
  <2>1. CASE s = 0
    BY <1>3, <2>1
  <2>2. CASE s > 0
    BY <1>1, <1>2, <1>4, <1>6, <2>2 DEF StatusAfter, is_not_cash_due, NOT_CASH_DUE
  <2> QED
    BY <2>1, <2>2
<1>8. line.status \in NOT_CASH_DUE \/ line.status = IF p >= line.amount THEN "paid" ELSE IF p = 0 THEN "pending" ELSE "partial"
  BY <1>1 DEF StatusAfter, is_not_cash_due
<1>9. can_receive_cash(line, p) <=> cash_remaining(line, p) > 0
  BY <1>1, <1>8 DEF can_receive_cash, cash_remaining, is_not_cash_due
<1>10. cash_remaining(line, p) \in Nat
  BY <1>1 DEF cash_remaining
<1>11. room = IF f \in M THEN cash_remaining(line, p) ELSE 0
  BY <1>9, <1>10
<1>12. room - s = IF f \in M /\ can_receive_cash(new, p + s) THEN cash_remaining(new, p + s) ELSE 0
  <2>1. CASE s = 0
    BY <1>1, <1>3, <1>10, <1>11, <1>9, <2>1
  <2>2. CASE s > 0
    BY <1>1, <1>2, <1>4, <1>6, <2>2
    DEF can_receive_cash, cash_remaining, is_not_cash_due, NOT_CASH_DUE
  <2> QED
    BY <2>1, <2>2
<1> QED
  BY <1>4, <1>5, <1>7, <1>11, <1>12

\* The writes of a recording: every line loses its split from its room, and takes the status
\* of what is paid on it.
LEMMA WrittenLines ==
  ASSUME TypeOK, StatusFollows, Record
  PROVE  LET splits == resolve_allocation(amount, items, mine, fee, paid, Lines).splits
         IN  \A f \in 1..Lines :
               /\ fee'[f].status = StatusAfter(fee[f], paid[f] + splits[f])
               /\ fee'[f].status = StatusAfter(fee'[f], paid'[f])
               /\ RoomOf(mine, fee, paid)[f] = IF f \in mine THEN cash_remaining(fee[f], paid[f]) ELSE 0
               /\ RoomOf(mine, fee', paid')[f] = RoomOf(mine, fee, paid)[f] - splits[f]
<1> DEFINE splits == resolve_allocation(amount, items, mine, fee, paid, Lines).splits
           room == RoomOf(mine, fee, paid)
<1>1. /\ paid' = [f \in 1..Lines |-> paid[f] + splits[f]]
      /\ fee' = [f \in 1..Lines |-> IF splits[f] > 0 THEN recompute_fee_status(fee[f], paid[f] + splits[f])
                                    ELSE fee[f]]
  BY DEF Record
<1>2. /\ room \in [1..Lines -> Nat] /\ splits \in [1..Lines -> Nat]
      /\ \A f \in 1..Lines : splits[f] <= room[f]
  BY Readable, RoomIsNat, SplitsHonour DEF Record, may_record
<1>3. \A f \in 1..Lines : /\ fee[f] \in [status : FeeStatuses, amount : Nat] /\ paid[f] \in Nat
                          /\ fee[f].status = StatusAfter(fee[f], paid[f])
  BY DEF TypeOK, StatusFollows
<1>4. \A f \in 1..Lines :
        /\ room[f] = IF f \in mine /\ can_receive_cash(fee[f], paid[f])
                     THEN cash_remaining(fee[f], paid[f]) ELSE 0
        /\ RoomOf(mine, fee', paid')[f] = IF f \in mine /\ can_receive_cash(fee'[f], paid'[f])
                                          THEN cash_remaining(fee'[f], paid'[f]) ELSE 0
  <2>1. DOMAIN fee = 1..Lines /\ DOMAIN fee' = 1..Lines
    BY <1>1 DEF TypeOK
  <2> QED
    BY <2>1 DEF RoomOf, plannable_fees
<1> SUFFICES ASSUME NEW f \in 1..Lines
             PROVE  /\ fee'[f].status = StatusAfter(fee[f], paid[f] + splits[f])
                    /\ fee'[f].status = StatusAfter(fee'[f], paid'[f])
                    /\ room[f] = IF f \in mine THEN cash_remaining(fee[f], paid[f]) ELSE 0
                    /\ RoomOf(mine, fee', paid')[f] = room[f] - splits[f]
  OBVIOUS
<1> HIDE DEF splits, room
<1>5. /\ paid'[f] = paid[f] + splits[f]
      /\ fee'[f] = IF splits[f] > 0 THEN recompute_fee_status(fee[f], paid[f] + splits[f]) ELSE fee[f]
  BY <1>1
<1>6. splits[f] \in Nat /\ splits[f] <= room[f]
  BY <1>2
<1>7. /\ fee[f] \in [status : FeeStatuses, amount : Nat] /\ paid[f] \in Nat
      /\ fee[f].status = StatusAfter(fee[f], paid[f])
      /\ room[f] = IF f \in mine /\ can_receive_cash(fee[f], paid[f])
                   THEN cash_remaining(fee[f], paid[f]) ELSE 0
  BY <1>3, <1>4
<1>8. /\ fee'[f].status = StatusAfter(fee[f], paid[f] + splits[f])
      /\ fee'[f].status = StatusAfter(fee'[f], paid[f] + splits[f])
      /\ room[f] = IF f \in mine THEN cash_remaining(fee[f], paid[f]) ELSE 0
      /\ room[f] - splits[f] = IF f \in mine /\ can_receive_cash(fee'[f], paid[f] + splits[f])
                               THEN cash_remaining(fee'[f], paid[f] + splits[f]) ELSE 0
  BY <1>5, <1>6, <1>7, LineAfter
<1> QED
  BY <1>4, <1>5, <1>8

\* So the rest and the statuses announced are those written.
LEMMA AnnouncedStep ==
  ASSUME TypeOK, StatusFollows, Record
  PROVE  LET shown == preview_allocation(amount, items, mine, fee, paid, Lines)
         IN  /\ remaining_cash(mine, fee', paid', Lines) = shown.total_remaining_after
             /\ \A f \in mine : fee'[f].status = shown.status_after[f]
<1> DEFINE splits == resolve_allocation(amount, items, mine, fee, paid, Lines).splits
           room == RoomOf(mine, fee, paid)
           rest == RoomOf(mine, fee', paid')
           owed == [f \in 1..Lines |-> IF f \in mine THEN cash_remaining(fee[f], paid[f]) ELSE 0]
<1>1. \A f \in 1..Lines : /\ fee'[f].status = StatusAfter(fee[f], paid[f] + splits[f])
                          /\ room[f] = IF f \in mine THEN cash_remaining(fee[f], paid[f]) ELSE 0
                          /\ rest[f] = room[f] - splits[f]
  BY WrittenLines
<1>2. /\ room \in [1..Lines -> Nat] /\ splits \in [1..Lines -> Nat] /\ amount \in Nat
      /\ \A f \in 1..Lines : splits[f] <= room[f]
  BY Readable, RoomIsNat, SplitsHonour DEF Record, may_record
<1>3. Sum(splits, Lines) = amount /\ amount <= Sum(room, Lines)
  BY DEF Record, may_record, verifier, remaining_cash
<1>4. DOMAIN rest = 1..Lines /\ mine \subseteq 1..Lines
  BY DEF RoomOf, Record, TypeOK
<1>5. LET shown == preview_allocation(amount, items, mine, fee, paid, Lines)
      IN  /\ shown.total_remaining_after = IF Sum(owed, Lines) > amount THEN Sum(owed, Lines) - amount ELSE 0
          /\ shown.status_after = [f \in mine |-> StatusAfter(fee[f], paid[f] + splits[f])]
  BY DEF preview_allocation
<1>6. remaining_cash(mine, fee', paid', Lines) = Sum(rest, Lines)
  BY DEF remaining_cash
<1>7. owed = room
  <2> HIDE DEF room
  <2> QED
    BY <1>1, <1>2
<1>8. rest = [f \in 1..Lines |-> room[f] - splits[f]]
  <2>1. rest = [f \in 1..Lines |-> rest[f]]
    BY <1>4 DEF RoomOf
  <2> HIDE DEF room, rest, splits
  <2> QED
    BY <1>1, <2>1
<1> HIDE DEF room, rest, splits, owed
<1>9. Sum(rest, Lines) = Sum(room, Lines) - amount
  <2>1. rest \in [1..Lines -> Int] /\ splits \in [1..Lines -> Int] /\ room \in [1..Lines -> Int]
    BY <1>2, <1>8
  <2>2. room = [f \in 1..Lines |-> rest[f] + splits[f]]
    BY <1>2, <1>8
  <2>3. Sum(room, Lines) = Sum(rest, Lines) + Sum(splits, Lines)
    BY <2>1, <2>2, SumPlus
  <2>4. Sum(rest, Lines) \in Int
    BY <2>1, SumRec
  <2> QED
    BY <1>2, <1>3, <2>3, <2>4
<1>10. Sum(room, Lines) \in Nat
  BY <1>2, SumNat
<1> QED
  BY <1>1, <1>2, <1>3, <1>4, <1>5, <1>6, <1>7, <1>9, <1>10

-----------------------------------------------------------------------------
(* The behaviour.                                                           *)

\* The lines the counter leaves behind satisfy the invariant.
LEMMA Initially == Init => IInv
<1> SUFFICES ASSUME Init PROVE IInv
  OBVIOUS
<1>1. PICK s \in [1..Lines -> LineStates] :
        /\ fee  = [f \in 1..Lines |-> [status |-> s[f].status, amount |-> s[f].amount]]
        /\ paid = [f \in 1..Lines |-> s[f].paid]
  BY DEF Init
<1>2. \A f \in 1..Lines : /\ s[f].status \in FeeStatuses
                          /\ s[f].amount \in 1..MaxDue /\ s[f].paid \in 0..MaxPaid
  BY DEF LineStates
<1>3. fee \in [1..Lines -> [status : FeeStatuses, amount : 1..MaxDue]]
  BY <1>1, <1>2
<1>4. paid \in [1..Lines -> 0..(MaxPaid + MaxDue)]
  BY <1>1, <1>2
<1>5. /\ mine \in {1..Lines, 1..(Lines - 1)} /\ amount \in 1..MaxGiven
      /\ items \in Items /\ screen = "blank" /\ done = FALSE
  BY DEF Init
<1>6. mine \subseteq 1..Lines
  BY <1>5
<1>7. PreviewTellsTheTruth
  BY <1>5 DEF PreviewTellsTheTruth
<1>8. StatusFollows
  <2> SUFFICES ASSUME NEW f \in 1..Lines PROVE fee[f].status = StatusAfter(fee[f], paid[f])
    BY DEF StatusFollows
  <2>1. s[f] \in [status : FeeStatuses, amount : 1..MaxDue, paid : 0..MaxPaid]
    BY DEF LineStates
  <2>2. ~is_not_cash_due(s[f]) => s[f].status = StatusAfter([s[f] EXCEPT !.status = "pending"], s[f].paid)
    BY DEF LineStates
  <2>3. /\ fee[f].status = s[f].status /\ fee[f].amount = s[f].amount /\ paid[f] = s[f].paid
    BY <1>1
  <2>4. /\ [s[f] EXCEPT !.status = "pending"].status = "pending"
        /\ [s[f] EXCEPT !.status = "pending"].amount = s[f].amount
    BY <2>1
  <2> QED
    BY <2>1, <2>2, <2>3, <2>4 DEF StatusAfter, is_not_cash_due, NOT_CASH_DUE
<1> QED
  BY <1>3, <1>4, <1>5, <1>6, <1>7, <1>8 DEF IInv, TypeOK

\* The screen asks the question the counter will.
LEMMA PreviewStep == IInv /\ Preview => IInv'
<1> SUFFICES ASSUME IInv, Preview PROVE IInv'
  OBVIOUS
<1>1. UNCHANGED <<fee, paid, mine, amount, items, done>>
  BY DEF Preview
<1>2. screen' = IF preview_allocation(amount, items, mine, fee, paid, Lines).can_record
                THEN "ok" ELSE "refused"
  BY DEF Preview
<1>3. preview_allocation(amount, items, mine, fee, paid, Lines).can_record
        <=> may_record(amount, items, mine, fee, paid, Lines)
  BY Readable, PreviewAgrees DEF IInv
<1>4. TypeOK'
  BY <1>1, <1>2 DEF IInv, TypeOK
<1>5. screen' = "ok" <=> may_record(amount, items, mine, fee, paid, Lines)
  BY <1>2, <1>3
<1>6. PreviewTellsTheTruth'
  BY <1>1, <1>5 DEF PreviewTellsTheTruth
<1>7. StatusFollows'
  BY <1>1 DEF IInv, StatusFollows
<1> QED
  BY <1>4, <1>6, <1>7 DEF IInv

\* The button: the splits, then the statuses.
LEMMA RecordStep == IInv /\ Record => IInv'
<1> SUFFICES ASSUME IInv, Record PROVE IInv'
  OBVIOUS
<1> DEFINE splits == resolve_allocation(amount, items, mine, fee, paid, Lines).splits
           room   == RoomOf(mine, fee, paid)
<1>1. /\ paid' = [f \in 1..Lines |-> paid[f] + splits[f]]
      /\ fee'  = [f \in 1..Lines |->
                    IF splits[f] > 0 THEN recompute_fee_status(fee[f], paid[f] + splits[f])
                    ELSE fee[f]]
      /\ done' = TRUE /\ UNCHANGED <<mine, amount, items, screen>>
      /\ may_record(amount, items, mine, fee, paid, Lines)
  BY DEF Record
<1>2. \A f \in 1..Lines : splits[f] \in Nat /\ splits[f] <= room[f]
  <2>1. resolve_allocation(amount, items, mine, fee, paid, Lines).accepted
    BY <1>1 DEF may_record
  <2>2. amount \in Nat
    BY Readable DEF IInv
  <2> QED
    BY <2>1, <2>2, Readable, SplitsHonour DEF IInv
<1>3. \A f \in 1..Lines : /\ fee[f] \in [status : FeeStatuses, amount : 1..MaxDue]
                          /\ paid[f] \in 0..(MaxPaid + MaxDue)
  BY DEF IInv, TypeOK
<1>4. \A f \in 1..Lines : room[f] = 0 \/ room[f] = fee[f].amount - paid[f]
  <2>1. \A f \in 1..Lines : room[f] = IF f \in mine /\ can_receive_cash(fee[f], paid[f])
                                      THEN cash_remaining(fee[f], paid[f]) ELSE 0
    BY Readable, RoomIsNat DEF IInv
  <2> HIDE DEF room
  <2> QED
    BY <2>1 DEF cash_remaining
<1> HIDE DEF splits, room
<1>5. \A f \in 1..Lines : paid[f] + splits[f] \in 0..(MaxPaid + MaxDue)
  BY <1>2, <1>3, <1>4
<1>6. \A f \in 1..Lines : recompute_fee_status(fee[f], paid[f] + splits[f])
                            \in [status : FeeStatuses, amount : 1..MaxDue]
  <2>1. ASSUME NEW f \in 1..Lines, NEW n
        PROVE  StatusAfter(fee[f], n) \in FeeStatuses
    BY <1>3 DEF StatusAfter, FeeStatuses
  <2> QED
    BY <1>3, <2>1 DEF recompute_fee_status
<1>7. fee' \in [1..Lines -> [status : FeeStatuses, amount : 1..MaxDue]]
  BY <1>1, <1>3, <1>6
<1>8. paid' \in [1..Lines -> 0..(MaxPaid + MaxDue)]
  BY <1>1, <1>5
<1>9. TypeOK'
  BY <1>1, <1>7, <1>8 DEF IInv, TypeOK
<1>10. PreviewTellsTheTruth'
  BY <1>1 DEF PreviewTellsTheTruth, Before
<1>11. StatusFollows'
  <2>1. \A f \in 1..Lines : fee'[f].status = StatusAfter(fee'[f], paid'[f])
    BY WrittenLines DEF IInv
  <2> QED
    BY <2>1 DEF StatusFollows
<1> QED
  BY <1>9, <1>10, <1>11 DEF IInv

\* The invariant.
LEMMA Inductive == IInv /\ [Next]_vars => IInv'
<1>1. IInv /\ UNCHANGED vars => IInv'
  BY DEF vars, IInv, TypeOK, PreviewTellsTheTruth, Before, StatusFollows
<1> QED
  BY <1>1, PreviewStep, RecordStep DEF Next

\* The screen never promises what the counter refuses, nor the reverse, whatever the lines
\* and whatever the cashier names (preview.py, recording.py).
THEOREM ScreenKeepsItsWord == Spec => []PreviewTellsTheTruth
<1>1. IInv => PreviewTellsTheTruth
  BY DEF IInv
<1> QED
  BY <1>1, Initially, Inductive, PTL DEF Spec

\* The operation keeps its types: no split is negative, no line goes past its bounds.
THEOREM CounterTypes == Spec => []TypeOK
<1>1. IInv => TypeOK
  BY DEF IInv
<1> QED
  BY <1>1, Initially, Inductive, PTL DEF Spec

\* For any lines and any names the counter takes a payment exactly when a split honours what
\* was named within what is due: none of its refusals is a mistake, none is missing.
THEOREM CounterTakesTheFeasible == Spec => []RecordsExactlyTheFeasible
<1>1. ASSUME TypeOK
      PROVE  RecordsExactlyTheFeasible
  <2>1. Vectors # {} => may_record(amount, items, mine, fee, paid, Lines)
    BY <1>1, FeasibleIsTaken
  <2>2. may_record(amount, items, mine, fee, paid, Lines) => Vectors # {}
    BY <1>1, TakenIsFeasible
  <2> QED
    BY <2>1, <2>2 DEF RecordsExactlyTheFeasible
<1> QED
  BY <1>1, CounterTypes, PTL

\* The split written honours the named lines and serves the others in their order, for any
\* number of lines.
THEOREM PriorityIsServed == Spec => []SplitsByPriority
<1>1. TypeOK => SplitsByPriority
  BY TakenIsFeasible DEF SplitsByPriority
<1> QED
  BY <1>1, CounterTypes, PTL

\* The rest and the statuses announced are those the writes leave.
THEOREM AnnouncedStands == Spec => AnnouncedIsWritten
<1> DEFINE told ==
             LET shown == preview_allocation(amount, items, mine, fee, paid, Lines)
             IN  /\ remaining_cash(mine, fee', paid', Lines) = shown.total_remaining_after
                 /\ \A f \in mine : fee'[f].status = shown.status_after[f]
<1>1. IInv /\ [Next]_vars => [Record => told]_vars
  BY AnnouncedStep DEF IInv
<1>2. Spec => []IInv
  BY Initially, Inductive, PTL DEF Spec
<1> QED
  BY <1>1, <1>2, PTL DEF Spec, AnnouncedIsWritten
=============================================================================
