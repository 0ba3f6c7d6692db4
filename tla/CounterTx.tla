----------------------------- MODULE CounterTx -----------------------------
(***************************************************************************)
(* The handlers of Counter as overlapping database transactions.            *)
(*                                                                         *)
(* The engines set no isolation level, so MySQL runs them in REPEATABLE     *)
(* READ: the first read of a request (get_current_user, on the session the  *)
(* handler goes on with) fixes the snapshot that every plain SELECT of the  *)
(* request answers from, merged with the request's own writes.  A SELECT    *)
(* ... FOR UPDATE and an UPDATE work on the current row and hold it until    *)
(* the commit.  A request is here                                          *)
(*   Begin    the snapshot is taken, the clock read, the inputs known;       *)
(*   Acquire  one more row lock, when nobody holds it;                       *)
(*   Commit   the reads, checks and writes of the handler, with the locked   *)
(*            rows as they are and everything else as the snapshot shows it; *)
(*   Refuse   a check fails, a unique key is taken or an updated row is gone: *)
(*            rolled back;                                                  *)
(*   Victim   InnoDB breaks a cycle of waits: rolled back.                   *)
(* Uncommitted writes are visible to nobody else and lie on locked rows, so  *)
(* writing them at the commit loses no interleaving.                        *)
(***************************************************************************)
EXTENDS Counter, Sequences

CONSTANTS Tx,             \* concurrent requests (worker slots)
          Requests,       \* the requests of this instance, records with an op field
          MaxRequests     \* bound: how many requests are served

\* What the screens may send.
Request ==
  [op : {"record"}, cashier : Cashiers, enrollment : Enrollments, amount : Amounts,
   items : Items, method : Methods, key : Keys \cup {None}]
  \cup [op : {"create"}, cashier : Cashiers, fee : Fees, amount : Amounts, method : Methods]
  \cup [op : {"validate"}, payment : Payments, cashier : Cashiers]
  \cup [op : {"cancel"}, payment : Payments, cashier : Cashiers, any : BOOLEAN]
  \cup [op : {"reallocate"}, payment : Payments, from : Fees, to : Fees, amount : Amounts,
        cashier : Cashiers, any : BOOLEAN]
  \cup [op : {"mark_in_kind", "cancel_in_kind", "remove_discount"}, fee : Fees]
  \cup [op : {"set_discount"}, fee : Fees, reduction : Amounts]
  \cup [op : {"open_screen"}, cashier : Cashiers, day : Days]
  \cup [op : {"close", "regularize"}, cashier : Cashiers, day : Days, counted : Counts]
  \cup [op : {"sweep"}]

ASSUME RequestsAssumption ==
  Requests \subseteq Request /\ MaxRequests \in Nat /\ IsFiniteSet(Cashiers)

VARIABLES tx,             \* tx[t]: the request in progress of slot t
          begun           \* requests begun so far

txvars == <<today, session, fee, payment, alloc, tx, begun>>
db     == <<session, fee, payment, alloc>>

Idle == [pc |-> "idle"]

\* What a request reads as it begins: the rows, and the days that the nightly closure lists.
Database(B) ==
  [session |-> session, fee |-> fee, payment |-> payment, alloc |-> alloc, batch |-> B]

-----------------------------------------------------------------------------
(* Row locks.  A row is <<table, id...>>; a foreign key check takes it shared. *)

X(row) == [row |-> row, mode |-> "X"]
S(row) == [row |-> row, mode |-> "S"]

\* Mutant: the lines are read without FOR UPDATE.
lines_not_locked(F) == << >>

\* A set of lines locked one by one, in the order of the numbers.
FeeLocks(F) ==
  LET rank(f) == Cardinality({g \in F : g <= f})
  IN  [i \in 1..Cardinality(F) |-> X(<<"fee", CHOOSE f \in F : rank(f) = i>>)]

\* ensure_open_session: a plain SELECT; only the INSERT of a new row locks.
SessionLocks(r, snap, d) ==
  IF r.method = "cash" /\ snap.session[r.cashier][d].status = "none"
  THEN <<X(<<"session", r.cashier, d>>)>> ELSE << >>

LinesSeen(r, snap) == {f \in Fees : snap.alloc[r.payment][f] > 0}

\* The rows each handler locks, in its order.
LocksOf(r, snap, d) ==
  CASE r.op = "record" ->
         SessionLocks(r, snap, d) \o <<X(<<"enrollment", r.enrollment>>)>>
         \o FeeLocks(FeesOf(r.enrollment))
         \o (IF r.key = None THEN << >> ELSE <<X(<<"key", r.key>>)>>)
    [] r.op = "create" ->
         SessionLocks(r, snap, d)
         \o <<X(<<"fee", r.fee>>), S(<<"enrollment", EnrollmentOf[r.fee]>>)>>
    [] r.op \in {"validate", "cancel"} ->
         <<X(<<"payment", r.payment>>)>> \o FeeLocks(LinesSeen(r, snap))
    [] r.op = "reallocate" ->
         <<X(<<"payment", r.payment>>), X(<<"fee", r.from>>), X(<<"fee", r.to>>)>>
    [] r.op \in {"mark_in_kind", "cancel_in_kind", "set_discount", "remove_discount"} ->
         <<X(<<"fee", r.fee>>)>>
    [] r.op \in {"open_screen", "close", "regularize"} ->
         <<X(<<"session", r.cashier, r.day>>)>>
    [] r.op = "sweep" -> << >>      \* see SweepLocks

\* The closure lists the stale days of its snapshot, the oldest and BatchLimit of them at most,
\* and updates them one by one.
StaleIn(s, d) == {cd \in Cashiers \X Days : s[cd[1]][cd[2]].status = "open" /\ cd[2] < d}

Batches(stale) ==
  {B \in SUBSET stale :
     /\ Cardinality(B) = IF Cardinality(stale) < BatchLimit THEN Cardinality(stale) ELSE BatchLimit
     /\ \A x \in B, y \in stale \ B : x[2] <= y[2]}

SweepLocks(B) ==
  {q \in [1..Cardinality(B) -> B] :
     \A i, j \in 1..Cardinality(B) : i < j => q[i] # q[j] /\ q[i][2] <= q[j][2]}

Clash(a, b)   == a.row = b.row /\ (a.mode = "X" \/ b.mode = "X")
Running(t)    == tx[t].pc = "running"
Waiting(t)    == Running(t) /\ tx[t].todo # << >>
Holds(t, l)   == Running(t) /\ \E h \in tx[t].held : Clash(h, l)
WaitsFor(t, u) == t # u /\ Waiting(t) /\ Holds(u, Head(tx[t].todo))

-----------------------------------------------------------------------------
\* A correction names a payment a screen has shown; any other id is not found.
Addressed(r) ==
  r.op \in {"validate", "cancel", "reallocate"} => payment[r.payment].status # "none"

Begin(t) ==
  /\ tx[t].pc = "idle" /\ begun < MaxRequests
  /\ begun' = begun + 1
  /\ \E r \in {q \in Requests : Addressed(q)} :
       \E B \in IF r.op = "sweep" THEN Batches(StaleIn(session, today)) ELSE {{}} :
       \E todo \in IF r.op # "sweep" THEN {LocksOf(r, Database(B), today)}
                   ELSE {[i \in DOMAIN q |-> X(<<"session", q[i][1], q[i][2]>>)] :
                           q \in SweepLocks(B)} :
         tx' = [tx EXCEPT ![t] = [pc |-> "running", req |-> r, snap |-> Database(B),
                                  when |-> today, held |-> {}, todo |-> todo]]
  /\ UNCHANGED <<today, db>>

Acquire(t) ==
  /\ Waiting(t)
  /\ \A u \in Tx \ {t} : ~Holds(u, Head(tx[t].todo))
  /\ tx' = [tx EXCEPT ![t].held = @ \cup {Head(tx[t].todo)}, ![t].todo = Tail(@)]
  /\ UNCHANGED <<today, db, begun>>

\* Mutant: cycles are not looked for.
no_deadlock_detection(t) == FALSE

\* InnoDB finds the cycle and rolls one of its members back.
InCycle(t) ==
  \E U \in SUBSET Tx : t \in U /\ \A u \in U : \E v \in U : WaitsFor(u, v)

Victim(t) ==
  /\ Waiting(t) /\ InCycle(t)
  /\ tx' = [tx EXCEPT ![t] = Idle]
  /\ UNCHANGED <<today, db, begun>>

-----------------------------------------------------------------------------
(* The handlers, once their locks are held: r the request, s the snapshot, d *)
(* the day read by datetime.now() at the start.                             *)

\* The INSERT of the session waits for the lock, then finds the key taken or free.
DrawerOpened(r, s, d) ==
  IF r.method # "cash" THEN session' = session
  ELSE /\ ~is_locked(s.session[r.cashier][d])
       /\ IF s.session[r.cashier][d].status = "none"
          THEN /\ session[r.cashier][d].status = "none"
               /\ session' = [session EXCEPT ![r.cashier][d] = NewSession]
          ELSE session' = session

\* The payment takes the next id and the day of the database clock; its lines are
\* recomputed from the snapshot and these writes.
Insert(r, s, e, key, lines) ==
  \E p \in Payments :
    /\ NextId(p)
    /\ payment' = [payment EXCEPT ![p] =
                     [status |-> "completed", enrollment |-> e, amount |-> r.amount,
                      method |-> r.method, received_by |-> r.cashier, day |-> today,
                      key |-> key]]
    /\ alloc' = [alloc EXCEPT ![p] = lines]
    /\ LET seenpay == [s.payment EXCEPT ![p] = payment'[p]]
           seenal  == [s.alloc EXCEPT ![p] = lines]
       IN  fee' = Recomputed({f \in Fees : lines[f] > 0}, seenpay, seenal)

Record(r, s, d) ==
  LET paid  == Paid(s.payment, s.alloc)
      lines == resolve_allocation(r.amount, r.items, FeesOf(r.enrollment), fee, paid,
                                  FeeCount).splits
  IN  /\ KeyIsFree(r.key)
      /\ DrawerOpened(r, s, d)
      /\ may_record(r.amount, r.items, FeesOf(r.enrollment), fee, paid, FeeCount)
      /\ Insert(r, s, r.enrollment, r.key, lines)

Create(r, s, d) ==
  /\ DrawerOpened(r, s, d)
  /\ r.amount <= cash_remaining(fee[r.fee], PaidOn(s.payment, s.alloc, r.fee))
  /\ Insert(r, s, EnrollmentOf[r.fee], None,
            [f \in Fees |-> IF f = r.fee THEN r.amount ELSE 0])

\* Mutant: read without FOR UPDATE.
status_in_snapshot(p, s) == s.payment[p].status

\* FOR UPDATE reads the committed row.
StatusRead(p, s) == payment[p].status

\* The payment row is read under its lock.  Its allocations, and the fee rows hanging
\* from them, were loaded from the snapshot just before: locking those rows afterwards
\* does not refresh the objects, and a status that looks unchanged is not written.
TransitionTx(r, s, target) ==
  LET p    == r.payment
      seen == [s.payment EXCEPT ![p] = payment'[p]]
  IN  /\ target \in VALID_TRANSITIONS[StatusRead(p, s)]
      /\ payment' = [payment EXCEPT ![p].status = target]
      /\ fee' = [f \in Fees |->
                   LET status == StatusAfter(s.fee[f], PaidOn(seen, s.alloc, f))
                   IN  IF f \in LinesSeen(r, s) /\ status # s.fee[f].status
                       THEN [fee[f] EXCEPT !.status = status] ELSE fee[f]]
      /\ UNCHANGED <<alloc, session>>

\* The lock on the payment comes with a plain SELECT of its day's session.
MayCorrect(r, s) ==
  \/ r.any
  \/ /\ payment[r.payment].received_by = r.cashier
     /\ ~is_locked(s.session[r.cashier][payment[r.payment].day])

\* Mutant: the allocations go with the cancelled payment.
cancel_drops_the_lines(r, s) ==
  /\ MayCorrect(r, s) /\ "cancelled" \in VALID_TRANSITIONS[StatusRead(r.payment, s)]
  /\ payment' = [payment EXCEPT ![r.payment].status = "cancelled"]
  /\ alloc' = [alloc EXCEPT ![r.payment] = NoLines]
  /\ UNCHANGED <<fee, session>>

Cancel(r, s) == MayCorrect(r, s) /\ TransitionTx(r, s, "cancelled")

\* The allocations come from the snapshot.  Their rows are written with the amounts
\* computed from it: a row is deleted, or updated if it still exists, or inserted if
\* the unique key allows; the check that follows re-reads the snapshot and these writes.
Reallocate(r, s) ==
  LET p     == r.payment
      left  == s.alloc[p][r.from] - r.amount
      seen  == [s.alloc[p] EXCEPT ![r.from] = left, ![r.to] = @ + r.amount]
      paidT == PaidOn(s.payment, s.alloc, r.to)
      after == [s.alloc EXCEPT ![p] = seen]
  IN  /\ r.from # r.to
      /\ payment[p].status = "completed"
      /\ MayCorrect(r, s)
      /\ LineHolds(s.alloc[p], r.from, r.amount)
      /\ SameEnrollment(r.to, r.from)
      /\ can_receive_cash(fee[r.to], paidT)
      /\ r.amount <= cash_remaining(fee[r.to], paidT)
      /\ left > 0 => alloc[p][r.from] > 0
      /\ (s.alloc[p][r.to] = 0) <=> (alloc[p][r.to] = 0)
      /\ alloc' = [alloc EXCEPT ![p][r.from] = left, ![p][r.to] = seen[r.to]]
      /\ fee' = Recomputed({r.from, r.to}, s.payment, after)
      /\ verifier(payment[p].amount, seen, FeeCount)
      /\ UNCHANGED <<payment, session>>

\* No lock before the UPDATE: every check is made on the snapshot.
SeenLive(s, f) ==
  \E p \in Payments : s.payment[p].status \in LIVE_STATUSES /\ s.alloc[p][f] > 0

MarkInKind(r, s) ==
  /\ s.fee[r.fee].status = "pending" /\ ~SeenLive(s, r.fee) /\ r.fee \in AcceptsInKind
  /\ fee' = [fee EXCEPT ![r.fee].status = "in_kind"]
  /\ UNCHANGED <<payment, alloc, session>>

CancelInKind(r, s) ==
  /\ s.fee[r.fee].status = "in_kind" /\ ~SeenLive(s, r.fee)
  /\ fee' = [fee EXCEPT ![r.fee].status = "pending"]
  /\ UNCHANGED <<payment, alloc, session>>

\* The fee row is current, the discount row and the money come from the snapshot; the
\* discount is inserted if there is still none, or updated if it is still there.
SeenReserved(s, f) ==
  Sum([p \in Payments |-> IF s.payment[p].status \in LIVE_STATUSES THEN s.alloc[p][f] ELSE 0],
      MaxPayments)

SetDiscount(r, s) ==
  LET f        == r.fee
      existing == s.fee[f].original
      nominal  == IF existing # None THEN existing ELSE fee[f].amount
      net      == nominal - r.reduction
      line     == [status |-> "pending", amount |-> net, original |-> nominal]
  IN  /\ fee[f].status \in NOT_CASH_DUE => existing # None
      /\ r.reduction <= nominal
      /\ net >= SeenReserved(s, f)
      /\ (existing = None) <=> (fee[f].original = None)
      /\ fee' = [fee EXCEPT ![f] =
                   IF net = 0 THEN [line EXCEPT !.status = "waived"]
                   ELSE recompute_fee_status(line, PaidOn(s.payment, s.alloc, f))]
      /\ UNCHANGED <<payment, alloc, session>>

RemoveDiscount(r, s) ==
  LET f == r.fee
  IN  /\ s.fee[f].original # None
      /\ fee' = [fee EXCEPT ![f] =
                   recompute_fee_status([status |-> "pending", amount |-> s.fee[f].original,
                                         original |-> None], PaidOn(s.payment, s.alloc, f))]
      /\ UNCHANGED <<payment, alloc, session>>

\* The session handlers read the row and the aggregate in the snapshot and update the row
\* whatever it has become.
OpenScreenTx(r, s) ==
  /\ s.session[r.cashier][r.day].status = "none"
  /\ get_my_session(r.cashier, r.day)
  /\ UNCHANGED <<fee, payment, alloc>>

CloseTx(r, s) ==
  /\ s.session[r.cashier][r.day].status = "open"
  /\ session' = [session EXCEPT ![r.cashier][r.day] =
                   Counted(DayCash(s.payment, r.cashier, r.day), r.counted, @.regularized)]
  /\ UNCHANGED <<fee, payment, alloc>>

RegularizeTx(r, s) ==
  /\ s.session[r.cashier][r.day].status = "auto_closed"
  /\ LET expected == s.session[r.cashier][r.day].expected
     IN  session' = [session EXCEPT ![r.cashier][r.day] =
                       [@ EXCEPT !.status = "closed", !.counted = r.counted,
                                 !.variance = r.counted - expected, !.regularized = TRUE]]
  /\ UNCHANGED <<fee, payment, alloc>>

SweepTx(s) ==
  /\ session' = [c \in Cashiers |-> [d \in Days |->
                   IF <<c, d>> \in s.batch
                   THEN AutoClosed(session[c][d], DayCash(s.payment, c, d))
                   ELSE session[c][d]]]
  /\ UNCHANGED <<fee, payment, alloc>>

Handler(r, s, d) ==
  \/ r.op = "record" /\ Record(r, s, d)
  \/ r.op = "create" /\ Create(r, s, d)
  \/ r.op = "validate" /\ TransitionTx(r, s, "completed")
  \/ r.op = "cancel" /\ Cancel(r, s)
  \/ r.op = "reallocate" /\ Reallocate(r, s)
  \/ r.op = "mark_in_kind" /\ MarkInKind(r, s)
  \/ r.op = "cancel_in_kind" /\ CancelInKind(r, s)
  \/ r.op = "set_discount" /\ SetDiscount(r, s)
  \/ r.op = "remove_discount" /\ RemoveDiscount(r, s)
  \/ r.op = "open_screen" /\ OpenScreenTx(r, s)
  \/ r.op = "close" /\ CloseTx(r, s)
  \/ r.op = "regularize" /\ RegularizeTx(r, s)
  \/ r.op = "sweep" /\ SweepTx(s)

Granted(t) == Running(t) /\ tx[t].todo = << >>

Commit(t) ==
  /\ Granted(t)
  /\ Handler(tx[t].req, tx[t].snap, tx[t].when)
  /\ tx' = [tx EXCEPT ![t] = Idle]
  /\ UNCHANGED <<today, begun>>

\* A check of the handler fails, it has nothing to write (a replayed key), or the
\* connection is lost before the commit: rolled back.
Refuse(t) ==
  /\ Granted(t)
  /\ tx' = [tx EXCEPT ![t] = Idle]
  /\ UNCHANGED <<today, db, begun>>

TickTx == Midnight /\ UNCHANGED <<db, tx, begun>>

TxInit == Init /\ tx = [t \in Tx |-> Idle] /\ begun = 0

TxNext ==
  \/ \E t \in Tx : Begin(t) \/ Acquire(t) \/ Commit(t) \/ Refuse(t) \/ Victim(t)
  \/ TickTx

TxSpec == TxInit /\ [][TxNext]_txvars

Progress(t) == Acquire(t) \/ Victim(t) \/ Refuse(t) \/ Commit(t)

\* The event loop goes on with every request, InnoDB breaks every cycle.
FairTxSpec == TxSpec /\ \A t \in Tx : WF_txvars(Progress(t))
-----------------------------------------------------------------------------
(* Properties. *)

\* A request that waits for a row gets it in the end, or is rolled back: neither the
\* opposite lock orders of the handlers (fee then enrollment, enrollment then fee, the
\* two lines of a move) nor a busy enrollment leave a cashier waiting for ever.
EveryRequestEnds == \A t \in Tx : Running(t) ~> ~Running(t)

\* Every row is of its table, and a request knows the inputs, the snapshot and the locks
\* its handler needs.
Rows == {"enrollment"} \X Enrollments \cup {"fee"} \X Fees \cup {"payment"} \X Payments
        \cup {"key"} \X Keys \cup {"session"} \X Cashiers \X Days
RowLock == [row : Rows, mode : {"X", "S"}]

Snapshot ==
  [session : [Cashiers -> [Days -> CashSession]], fee : [Fees -> FeeLine],
   payment : [Payments -> Payment], alloc : [Payments -> [Fees -> Nat]],
   batch : SUBSET (Cashiers \X Days)]

TxTypeOK ==
  /\ TypeOK
  /\ tx \in [Tx -> {Idle} \cup [pc : {"running"}, req : Requests, snap : Snapshot,
                               when : Days, held : SUBSET RowLock, todo : Seq(RowLock)]]
  /\ begun \in 0..MaxRequests

\* A row that a request holds for itself changes under nobody else's hand, its allocations
\* and the drawer it is about to open included: what a handler read of it after its lock
\* is still there at its commit, whatever the other handlers write (payment.py, FOR UPDATE).
LockedRowsStand ==
  [][\A t \in Tx : Running(t) /\ tx'[t] = tx[t] =>
       /\ \A f \in Fees : X(<<"fee", f>>) \in tx[t].held => fee'[f] = fee[f]
       /\ \A p \in Payments : X(<<"payment", p>>) \in tx[t].held =>
            payment'[p] = payment[p] /\ alloc'[p] = alloc[p]
       /\ \A c \in Cashiers, d \in Days : X(<<"session", c, d>>) \in tx[t].held =>
            session'[c][d] = session[c][d]]_txvars

\* What a handler read without a lock and finds changed at its commit: money on a line, the
\* cash of a day, the row of a drawer, a line, the lines of a payment.
MoneyMoved(s, Q, f) ==
  \E q \in Q : \/ s.alloc[q][f] # alloc[q][f]
               \/ alloc[q][f] > 0 /\ s.payment[q].status # payment[q].status

CashMoved(s, c, d) ==
  \E q \in Payments :
    /\ s.payment[q] # payment[q]
    /\ \E x \in {s.payment[q], payment[q]} :
         x.method = "cash" /\ x.received_by = c /\ x.day = d

SessionMoved(s, c, d) == s.session[c][d] # session[c][d]

DrawerMoved(r, s, d) == r.method = "cash" /\ (d # today \/ SessionMoved(s, r.cashier, d))

RightMoved(r, s) == ~r.any /\ SessionMoved(s, r.cashier, payment[r.payment].day)

ReadsThePast(r, s, d) ==
  \/ /\ r.op = "record"
     /\ \/ DrawerMoved(r, s, d)
        \/ \E f \in FeesOf(r.enrollment) : MoneyMoved(s, Payments, f)
  \/ r.op = "create" /\ (DrawerMoved(r, s, d) \/ MoneyMoved(s, Payments, r.fee))
  \/ /\ r.op \in {"validate", "cancel"}
     /\ \/ s.alloc[r.payment] # alloc[r.payment]
        \/ \E f \in LinesSeen(r, s) :
             s.fee[f] # fee[f] \/ MoneyMoved(s, Payments \ {r.payment}, f)
        \/ r.op = "cancel" /\ RightMoved(r, s)
  \/ /\ r.op = "reallocate"
     /\ \/ s.alloc[r.payment] # alloc[r.payment] \/ RightMoved(r, s)
        \/ MoneyMoved(s, Payments, r.from) \/ MoneyMoved(s, Payments, r.to)
  \/ /\ r.op \in {"mark_in_kind", "cancel_in_kind"}
     /\ s.fee[r.fee] # fee[r.fee] \/ MoneyMoved(s, Payments, r.fee)
  \/ /\ r.op \in {"set_discount", "remove_discount"}
     /\ \/ s.fee[r.fee].original # fee[r.fee].original
        \/ MoneyMoved(s, Payments, r.fee)
  \/ r.op \in {"close", "regularize"} /\ SessionMoved(s, r.cashier, r.day)
  \/ r.op = "close" /\ CashMoved(s, r.cashier, r.day)
  \/ /\ r.op = "sweep"
     /\ \/ StaleIn(s.session, d) # StaleIn(session, today)
        \/ \E cd \in s.batch : CashMoved(s, cd[1], cd[2])

\* The operation of Counter that a request asks for.
Served(r) ==
  \/ /\ r.op = "record"
     /\ \E p \in Payments : record_enrollment_payment(p, r.cashier, r.enrollment, r.amount,
                                                     r.items, r.method, r.key)
  \/ /\ r.op = "create"
     /\ \E p \in Payments : create_payment(p, r.cashier, r.fee, r.amount, r.method)
  \/ r.op = "validate" /\ validate_payment(r.payment)
  \/ r.op = "cancel" /\ cancel_payment(r.payment, r.cashier, r.any)
  \/ /\ r.op = "reallocate"
     /\ reallocate_payment(r.payment, r.from, r.to, r.amount, r.cashier, r.any)
  \/ r.op = "mark_in_kind" /\ mark_in_kind_deposit(r.fee)
  \/ r.op = "cancel_in_kind" /\ cancel_in_kind_deposit(r.fee)
  \/ r.op = "set_discount" /\ set_discount(r.fee, r.reduction)
  \/ r.op = "remove_discount" /\ remove_discount(r.fee)
  \/ r.op = "open_screen" /\ OpenScreen(r.cashier, r.day)
  \/ r.op = "close" /\ CloseDay(r.cashier, r.day, r.counted)
  \/ r.op = "regularize" /\ Regularize(r.cashier, r.day, r.counted)
  \/ r.op = "sweep" /\ Sweep

\* The overlap is the only cause: a request that ends does what Counter does for it, on the
\* rows as they are, or nothing, unless its handler read, without a lock, rows that another
\* request changed since its snapshot.  Requests that touch other lines, other payments or
\* other drawers do not disturb one another.
OnlyThePastDeparts ==
  [][\A t \in Tx :
       /\ Granted(t) /\ tx'[t] # tx[t]
       /\ ~ReadsThePast(tx[t].req, tx[t].snap, tx[t].when)
       => UNCHANGED vars \/ Served(tx[t].req)]_txvars

\* One payment of LinesCoverPayment.
Balanced(p) ==
  /\ Sum(alloc[p], FeeCount) = payment[p].amount
  /\ \A f \in Fees : alloc[p][f] > 0 => EnrollmentOf[f] = payment[p].enrollment

\* Of all that the overlap can spoil, the lines of a payment are spoilt by one thing: a move
\* computed on lines that another move of the same payment changed since (the allocations are
\* read before the lock, reallocation.py).  Whatever else reads the past leaves every
\* payment split over lines of its enrollment that add up to it.
OnlyAStaleMoveUnbalances ==
  [][\A p \in Payments : Balanced(p) =>
       \/ Balanced(p)'
       \/ \E t \in Tx : /\ Granted(t) /\ tx'[t] # tx[t]
                        /\ tx[t].req.op = "reallocate" /\ tx[t].req.payment = p
                        /\ tx[t].snap.alloc[p] # alloc[p]]_txvars

\* What Till promises of the drawers, on the committed rows.
CashHasASession          == Drawers!CashHasASession
NothingTakenOnALockedDay == Drawers!NothingTakenOnALockedDay
VarianceIsCounted        == Drawers!VarianceIsCounted
SignedStands             == Drawers!SignedStands
=============================================================================
