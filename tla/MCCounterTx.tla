---------------------------- MODULE MCCounterTx ----------------------------
(***************************************************************************)
(* CounterTx on small instances: the requests that meet, chosen per run.    *)
(***************************************************************************)
EXTENDS CounterTx, TLC

MCEnrollmentOf == <<"traore", "traore">>
MCNominal      == <<3, 2>>

\* Three lines, for two moves away from the same one.
MCEnrollmentOf3 == <<"traore", "traore", "traore">>
MCNominal3      == <<3, 1, 1>>

awa == "awa"

RecordReq(c, a, items, m, k) ==
  [op |-> "record", cashier |-> c, enrollment |-> "traore", amount |-> a, items |-> items,
   method |-> m, key |-> k]
CreateReq(c, f, a, m) ==
  [op |-> "create", cashier |-> c, fee |-> f, amount |-> a, method |-> m]
CancelReq(p, c, any) == [op |-> "cancel", payment |-> p, cashier |-> c, any |-> any]
MoveReq(p, from, to, a) ==
  [op |-> "reallocate", payment |-> p, from |-> from, to |-> to, amount |-> a,
   cashier |-> awa, any |-> TRUE]
LineReq(op, f) == [op |-> op, fee |-> f]

\* One request of each kind, the lock orders crossing: the whole enrollment then the key,
\* one line then its enrollment, the two lines of a move.
EveryRequest ==
  {RecordReq(awa, 2, << >>, "cash", "k1"), CreateReq(awa, 2, 1, "transfer"),
   CancelReq(1, awa, FALSE), MoveReq(1, 1, 2, 1),
   [op |-> "validate", payment |-> 1, cashier |-> awa],
   LineReq("mark_in_kind", 2), LineReq("cancel_in_kind", 2),
   [op |-> "set_discount", fee |-> 2, reduction |-> 1], LineReq("remove_discount", 2),
   [op |-> "open_screen", cashier |-> awa, day |-> 1],
   [op |-> "close", cashier |-> awa, day |-> 1, counted |-> 0],
   [op |-> "regularize", cashier |-> awa, day |-> 1, counted |-> 0],
   [op |-> "sweep"]}

\* Two payments on the same lines.
TwoPayments == {RecordReq(awa, 2, << >>, "transfer", None)}

\* Two corrections of the same payment, away from the same line.
TwoMoves ==
  {RecordReq(awa, 3, << >>, "transfer", None), MoveReq(1, 1, 2, 1), MoveReq(1, 1, 3, 1)}

\* A correction and a cancellation of the same payment.
MoveAndCancel ==
  {RecordReq(awa, 3, << >>, "transfer", None), MoveReq(1, 1, 2, 1), CancelReq(1, awa, TRUE)}

\* A deposit while the family pays.
DepositAndPayment == {RecordReq(awa, 2, << >>, "transfer", None), LineReq("mark_in_kind", 1)}

\* A cashier pays in while she closes.
CashAndClose ==
  {RecordReq(awa, 2, << >>, "cash", None),
   [op |-> "close", cashier |-> awa, day |-> 1, counted |-> 0]}

\* The nightly closure and a late cashier.
CloseAndSweep ==
  {[op |-> "open_screen", cashier |-> awa, day |-> 1],
   [op |-> "close", cashier |-> awa, day |-> 1, counted |-> 0], [op |-> "sweep"]}

\* A double click on "close".
TwoCounts ==
  {[op |-> "open_screen", cashier |-> awa, day |-> 1],
   [op |-> "close", cashier |-> awa, day |-> 1, counted |-> 0],
   [op |-> "close", cashier |-> awa, day |-> 1, counted |-> 2]}

\* Cash taken around midnight.
CashAtMidnight == {RecordReq(awa, 2, << >>, "cash", None)}

Symmetric == Permutations(Tx)
=============================================================================
