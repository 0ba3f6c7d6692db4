# A verification project for the KLASSCI college backend

KLASSCI is the administrative backend of secondary schools: FastAPI routers, services written
over SQLAlchemy 2 (async), one MySQL database per school, Redis for the tokens and the hand-off of
files, Celery for the nightly tasks. This directory holds TLA+ modules of its core, the TLC runs
that check them on small instances, and the proofs that TLAPS checks for every value of the
constants. `PROJECT.json` is the index: which definition stands for which lines of the source, which
run checks which property, and which plausible bug breaks it.

## 1. The system

A request opens one database session (`core/database.py`), authenticates with it
(`core/dependencies.py`), calls a service, and the service commits. Several requests run at once, in
one event loop and in several workers; what separates them is only what the database does. The
engines set no isolation level, so MySQL applies its default, REPEATABLE READ: the first read of a
request fixes the snapshot every later plain `SELECT` answers from, while `SELECT ... FOR UPDATE`
and `UPDATE` see the current row and hold it. That sentence decides most of what can go wrong here.

| Component | State | Operations | Interacts with |
|---|---|---|---|
| Payment rules (`models/fee.py`, `payments/_allocation.py`, `allocation_invariant.py`, `preview.py`, `remaining.py`) | none | what a line owes, cascade, named lines, control of the lines, preview | called by the counter and by the screens |
| Counter (`payments/recording.py`, `lifecycle.py`, `reallocation.py`, `_replay.py`, `fee_discounts.py`) | `payments`, `payment_allocations`, `enrollment_fees`, `fee_discounts` | record (two routes), validate, cancel, move, set and remove a discount | drawers, notifications, receipts, audit |
| Deposits in kind, generation of the lines (`enrollment_fees.py`) | `enrollment_fees` | mark and cancel a deposit; generate, regenerate | counter, enrollments |
| Cash sessions (`cash_session_service.py`, `cash_closure_service.py`, `tasks/cash_tasks.py`) | `cash_sessions` | open, read, close, nightly closure, regularize | payments (aggregate of the day), Celery beat |
| Tenant sessions (`core/database.py`) | registry of engines | open, evict, dispose | every request |
| Tariffs and propagation (`fee_service.py`, `fee_propagation.py`) | tariffs, `enrollment_fees` | change a price and carry it to the lines without payment | counter |
| Installments (`installments/`) | grids of due dates, agreed schedules | what is due when, who is late, which documents are withheld | counter, documents |
| Enrollments, promotions, matricules | `enrollments`, `classes`, settings | create, validate, cancel, archive, promote, draw a number | fees, payments, documents |
| Document issuance (`document_seal_lineage.py`, `document_issuance_service.py`) | revisions of a document | pending, seal, fail, take over, revoke | signing service, storage |
| Timetable | slots, generation jobs | create, move, publish, generate | classes, teachers, rooms |
| Authentication | Redis refresh tokens, revocations | login, refresh, logout, revoke | Redis |
| Upload hand-off (`upload_handoff/`) | Redis session, staged file | open, claim, deposit, retake, confirm, close, expire, sweep | Redis, storage |
| Leave, incidents, summons | small request records | submit, review, cancel, resolve | notifications |
| Grades, bulletins, council (`grades_service.py`, `reports_service.py`, `council_service.py`) | evaluations, cells, bulletins, minutes | save a sheet; generate, publish; draw, settle, override, validate | enrollments, roll call, documents, portals |
| Roll call, entry slips, retake tickets | attendance records, authorizations | call, correct, excuse; lift a zero | grades, council |
| Archive and purge | archived flags, files | archive, restore, delete for good | all of the above |
| Notifications, audit, statements, exports, portals, statistics, provisioning, migrations | outputs and append-only lines | | |

What makes each of the parts that matter correct, and what is hard about it:

* **Payment rules.** No line receives more than it owes; what the cashier names is honoured; the
  rest goes by priority; the preview and the counter agree although they compute the answer
  differently. Hard: waived, deposited and nearly full lines, a line named twice.
* **Counter.** Lines add up to their payment; the stored status follows the money; a retry does not
  pay twice; a cancelled payment stays cancelled. Hard: every handler has its own lock order, and
  reads some rows under a lock and others in its snapshot.
* **Cash sessions.** A signed variance stays true: nothing is taken on a locked day, nobody rewrites
  a signed row, a day that nobody counted has no variance rather than a variance of zero. Hard: a
  bounded nightly batch, midnight, and handlers that lock nothing.
* **Enrollments.** No class above its capacity, no enrollment validated without its payment, a
  promotion that can be run again. Hard: counting in a snapshot under a lock, partial failure.
* **Document issuance.** At most one active revision, no superseded one comes back. Hard: a process
  dies between the pending row and the seal, and may come back late.
* **Marks and council.** Three computations rank the same pupils (the bulletins, the minutes, the
  recapitulation) and a family holds all three papers. Hard: no key keeps two bulletins of a pupil apart,
  papers are written again while marks change, a zero is a value and a status that may part.
* **Timetable, tokens, hand-off, registry.** Check-then-act on two systems at once (rows and
  snapshot, Redis and the disk).

`PROJECT.json` lists each hazard at its line, with the properties that would catch it.

## 2. The modules

The money:

| Module | What it stands for |
|---|---|
| `Sums` | `SUM` over rows, as a recursive function |
| `FeeRules` | the pure rules, one operator per function of the code, on functions from the rank of a line |
| `MCFeeRules` | a counter operation (asked, previewed, recorded) and the reference definition of a split |
| `CashDay` | the rows of `cash_sessions` and the handlers' effects on them, whatever the money comes from |
| `Till` | the abstract drawer: `takings` is any amount of cash per cashier and day. What the sessions promise |
| `Counter` | the committed effect of every request on lines, payments, allocations and drawers, one at a time |
| `CounterTx` | the same requests as transactions that overlap: snapshot, row locks in the code's order, commit, refusal, deadlock victim |
| `Statements` | what the school says of a family's money: schedules of instalments, documents withheld, the screens of the debt and of the takings |
| `MCTill`, `MCCounter`, `MCStatements`, `MCCounterTx` | instances: enrollments, prices, grids, sets of requests that meet |
| `FeeRulesProofs` | sums over rows and over sets; the cascade, the named lines, the final control |
| `PreviewProofs` | a counter operation: what it records, splits and announced |
| `TillProofs` | the promises of the drawers |
| `CounterProofs` | the books: the inductive invariant of `Counter`, its action properties, and that it implements `Till` |
| `BooksProofs` | the screens and the schedules of `Statements`; what requests that overlap keep, and what alone they may lose (`CounterTx`) |

The services around it:

| Module | What it stands for |
|---|---|
| `SealLineage` | the revisions of one document: issue, render, finalize, deliver, fail, take over, revoke, with crashes |
| `Publication` | what the register of seals promises: copies published in order, the last one alone in force |
| `UploadHandoff` | the hash in Redis, the staged files, the phone, the operator's requests, expiry and sweep |
| `Enrollments` | the dossiers of a year, created, edited, validated, paid, archived, purged, promoted, by requests that overlap |
| `FeeGrid` | from the grid of tariffs to the lines of a dossier: arbitration, generation, regeneration, propagation |
| `Timetable` | lessons, breaks, the hours of the teachers and the generation of a class's lessons, by requests and tasks that overlap |
| `Council` | one class and one trimester: sheets of marks, tickets, roll call and slips, bulletins, minutes of the council |
| `MCServices` | one instance of each; a behaviour runs one of them and the others rest, since they share no row |
| `MCEnrollments` | `Enrollments` alone in a year that begins without a dossier |
| `MCCouncil` | a class of three at the end of its year, alone or within `MCServices` |
| `WeekProofs`, `CouncilProofs` | the theorems on `Timetable` and on `Council` |
| `OfficeProofs` | the theorems on `SealLineage`, `UploadHandoff`, `Enrollments` and `FeeGrid`, and the types of `MCServices` |

`FeeRules` extends `Sums`; `Counter` extends `CashDay` and `FeeRules`; `CounterTx` extends
`Counter`, whose operators it evaluates on the snapshot where the code reads it; `Statements` extends
`Counter` with the grid and the agreements, and computes every screen from its rows. `Counter` instantiates
`Till` with `takings` computed from the payments (`DayCash`, the query `aggregate_day`), and
`ImplementsTill` says every step of the counter is a step of the abstract drawers or leaves them alone.
`SealLineage` instantiates `Publication` with the last revision that was a document once and the active
ones (`ImplementsPublication`).

How the state corresponds to the tables and to Redis:

* `fee[f]` is a row of `enrollment_fees` with the `original_amount` of its discount (`None` when it
  has none). Lines are numbered in the order `(priority, id)` in which the cascade reads them, so
  "by priority" is the order of the numbers.
* `payment[p]` is a row of `payments`, in the order of the ids; `alloc[p][f]` the amount of its
  allocation on `f`, 0 when there is no row (every handler deletes a row that reaches zero, and the
  table refuses two rows for one pair).
* `session[c][d]` is a row of `cash_sessions`; its status is `"none"` when there is no row.
* `today` is the date on the school's clock. The code reads it from the application
  (`datetime.now()`) for the drawer and from the database for the payment: `CounterTx` keeps the two
  apart (`tx[t].when` and `today`), `Counter` has no room for the difference.
* `tx[t]` is a request in progress: its input, its snapshot, the locks it holds and those it still
  wants. A snapshot holds the rows and, for the nightly closure, the batch it listed (`Batches`).
* `grid` (`Statements`) is `fee_installments`, `plan[e]` the rows of `enrollment_installments` of an
  enrollment, both in the order of their positions. A due date is a day number; every enrollment is open
  and of the current year, and the next due date that a screen shows is left out.
* `row[i]` (`SealLineage`) is revision `i` in `document_issuances`; `work[r]` is what the worker of a
  request does outside any transaction; `revoking[v]` the row a revocation read before it locked it,
  which SQLAlchemy does not refresh; `delivered` the PDF that left.
* `session` (`UploadHandoff`, an instance of its own) is the hash of one code, `"gone"` when Redis has
  no key; `staged[f]` a file of the shared directory; `phone[p]` and `screen[o]` the step a request has
  reached, what it loaded included.
* `dossier[s]` (`Enrollments`) is the row of a student for the year, with what decides on it: its
  payments (none, one that counts, only cancelled ones) and whether it is in the bin. `job[w].view` is the
  snapshot, `job[w].held` the classes a promotion keeps locked from one student to the next.
* `grid`, `file`, `line` (`FeeGrid`) are the price of each tariff, the dimensions of each dossier and its
  lines by category; `seen` is the snapshot of a request that is late.
* `lesson`, `pause`, `away` (`Timetable`) are `timetable_slots`, the schedule events that block lessons,
  and the hours a teacher declared closed. `task[k].view` is a snapshot, of the authentication for an
  edit, of the locks for a generation, whose session starts with them. `late` is a history variable: the
  rows last written by an edit whose snapshot was past when it committed.
* `marks[e][p]` (`Council`) is the cell of a pupil in `grades`, its value in hundredths and its status;
  `register[d][p]` a record of the roll call; `bulletins` a set of rows, since nothing but the code makes
  them one per pupil; `minutes` the one row that its unique key allows, with a decision per pupil. `opened`
  is the snapshot of the request that is late. A number that grows with each request stands for the ids
  and for `generated_at`. `torn` is a history variable: papers were written over papers not read.

Abstractions. Amounts are whole francs (centimes are out, see section 7). A discount is the reduction
that `compute_discount` gives, whatever percentage made it. The permissions that change what a handler
does (`may_cancel_any`, `may_reallocate_any`) are inputs; those that only refuse are left out.
Receipts, audit lines and notifications hang on the same transaction and are left out. The facts of a
document are a value and its PDF the pair of the code it bears and the facts it says. The solver of the
timetable is any week that satisfies its hard constraints; the preferences it weighs are left out.
Averages are integers, in hundredths, rounded half up where the code does; mentions, comments and the names
on the minutes are left out.

`CounterTx`, `Enrollments` and `Timetable` write everything at the commit. What a transaction wrote
before its commit is visible to nobody else and lies on rows it holds, so no interleaving is lost. The
places where a row is read under its lock but its objects stay those of the snapshot (SQLAlchemy does not
refresh a loaded instance without `populate_existing`) are written out in each handler: the fee rows of
`cancel` and `validate`, the allocations of a move, the whole of the session handlers, the count of a
class, the conflicts of a lesson. What the ORM writes is written out as well: only the columns whose value
differs from the one it loaded (`Wrote`, `Patched`).

## 3. The runs

| Run | Module | Checks |
|---|---|---|
| `fee_rules` | `MCFeeRules` | over every state of three lines, every amount and every list of at most two named lines: the counter records exactly what has a feasible split (`RecordsExactlyTheFeasible`), the split is the one by priority (`SplitsByPriority`), preview and counter agree (`PreviewTellsTheTruth`, `AnnouncedIsWritten`) |
| `till` | `MCTill` | two drawers over two days, a nightly batch of one row: `NothingTakenOnALockedDay`, `VarianceIsCounted`, `SignedStands`, and `LateDaysGetLocked` under fairness |
| `counter` | `MCStatements` | every order of requests on two families, under every grid and agreement: `LinesCoverPayment`, `StatusTellsWhatIsPaid`, `NoMoneyOffTheCircuit`, `OnlyValidationOverpays`; and of what the screens say, that who is late owes it (`LateIsOwed`), that the screens tell one debt (`OneDebt`) and that the journal, the summary and the ledgers count one till (`OneTill`) |
| `counter_drawers` | `MCCounter` | two cashiers, two days, cash and transfers: `ImplementsTill` |
| `counter_tx` | `MCCounterTx` | three requests of thirteen kinds, two at a time, and what every interleaving keeps: `OnePaymentPerKey`, `HistoryIsKept`, `LockedRowsStand`, `OnlyThePastDeparts`, `OnlyAStaleMoveUnbalances`, and `EveryRequestEnds` under fairness |
| `services` | `MCServices` | the six services below |
| `two_payments`, `cash_and_close`, `deposit_discount`, `archived_money`, `absence_zero`, `validated_minutes` | | the disagreements of section 4 |

Run `services` checks:

| Service | Properties |
|---|---|
| seals | `HandedOutIsSealed`, `VerdictsAreFinal`, `ImplementsPublication` |
| hand-off | `RecordedOnce`, `SweepSparesTheScreen`, and under fairness `NoPhotoStaysStaged` |
| dossiers | `OverfullOnlyByOverlap`, `PaidDossierStays`, `ValidatedOnlyPaid`, and under fairness `PromotionsEnd` |
| grid | `PreviewAddsUp`, `MoneyKeepsItsLine`, `BilledAsEnrolled` |
| week | `ClashesComeFromThePast`, `BreaksStandButForThePast` |
| council | `PapersAgree` |

`PapersAgree` relates what three computations say of the same pupils: a bulletin per pupil, its average that
of its lines, its rank that of its average among the bulletins generated with it (equal averages share a
rank, the last generation leaves no hole), minutes that quote the bulletins that were there, and a
recapitulation that ranks equal averages alike. Marks, the roll, the order of generations and of minutes
change freely meanwhile. Only papers written over papers that were not read (`torn`) may disagree.

`OnlyThePastDeparts` compares what each request of `CounterTx` leaves with the operation of `Counter` that
it asks for (`Served`): either the commit is that operation on the rows as they are, or nothing at all, or
its handler read, without a lock, something that another request has changed since its snapshot. What counts
as read is written out handler by handler (`ReadsThePast`): the money on the lines it looks at and nothing
else of the payments, the cash of the days it closes, the row of a drawer, a line, the lines of a payment.
`OnlyAStaleMoveUnbalances` says which of these reads may spoil the lines of a payment: the one of a move,
and no other.

Bounds, and why they are enough for what they ask:

* `fee_rules`: three lines are the least for a cascade with a middle line; amounts 1..2 on a line and
  1..5 in hand reach an empty, a full and an overfull payment; two named lines may be the same.
* `till`: `BatchLimit = 1` with two drawers makes days wait for another night; `Totals` stops the
  drawers at 2; two amounts let one payment out of several be cancelled.
* `counter`: two payments of 1 or 2 francs on lines of 2, 1 and 1 francs, in cash or by transfer, so that a
  second payment meets full lines; one old pending transfer may exist. A family has two mandatory lines, one
  of which may hide the debt of the other; the second family has one optional line, the uniform. Three
  grids: four quarters (of two francs, the last share is negative), a fixed amount that may exceed what is
  due before everything else, and one that is refused; two agreements, one of which may ask for more than
  is due. `MaxDay = 1`: due date 1 has come, 2 has not. Drawers are not counted here (`Counts = {}`):
  `counter_drawers` does. What larger numbers would show of the books is proved (`CounterProofs`).
* `counter_drawers`: the drawers see an amount, a method, a cashier and a day, so one franc and two lines of
  one family are enough; every operation of the counter happens. The two cashiers may be exchanged
  (`Symmetric`): every definition treats them alike, and the property is about initial states and steps.
* `counter_tx`: two slots are enough for a cycle of two waits and for one request to commit inside
  another; the third request (`MaxRequests`) is what comes before or after. Two payments at most, of 1 and
  2 francs on lines of 3 and 2, which leave lines untouched, partly paid or full. The days of this instance
  fit in one batch; that batches may be smaller is part of the theorems.
* `services`, seals: two requests, one revocation, three revisions, one tick (`MaxClock`): a pending row
  gets stale and a seal expires after one tick each, so a takeover may meet the late request it replaced,
  and a third revision the revocation of the first.
* hand-off: two phones, two requests of the operator, two files, one retake; the session lasts 2 ticks and
  the sweep waits for an age of more than 4, so `MaxNow = 9` is past the age of the last file that can be
  written, even for a clock late by `Drift = 2`, a whole session.
* dossiers: two students, two classes of one place (one of which makes nothing due), two requests at a
  time, three in all, so that two overlap and a third precedes or follows. `MaxRows = 2` lets a student be
  entered again after a purge.
* grid: one dossier, one mandatory category with a general price and two special ones, an option, two
  prices, three requests (`MaxOps`), one of which may be late. The canteen has a price at the start;
  inscription has none yet, the general one, or the special ones too, so that a propagation may find lines
  missing.
* week: two classes, two teachers, one room, a day of two hours, two requests or tasks at a time, three in
  all (`MaxEdits`; several breaks saved at once count for two): a generation, an edit that waits for it,
  and what was there before.
* council: three pupils, two of whom may be level, two subjects of one evaluation each with other
  coefficients, the third trimester; the third pupil has no average of the first, so he has no decision on
  the year. A test was given, an essay may come. Sheets: level marks, two zeros (one of an absence) around an
  empty cell, one cell emptied. Four requests (`MaxServed`), one of which may be late, the least for two
  generations that overlap and minutes of them. The violations run from every roll of the class.

Deadlock is not checked (`CHECK_DEADLOCK FALSE`): an instance stops when its last day is over and its
payments or requests are used up, because of the bounds.

Fairness. `Till!FairSpec` assumes only that the closure is run again and again while it has something
to do: Celery beat starts it every night at 00:10 and a night that fails is followed by another one. It
assumes nothing of the cashiers. `CounterTx!FairTxSpec` assumes that a request that can go on does:
the event loop runs every ready request, and InnoDB looks for cycles of waits and rolls a member back
(`Victim`). It does not assume that a request succeeds. `UploadHandoff!HandoffSpec` assumes that time
passes, that an upload that is served ends (its bytes, its refusal or its rejection), and that the sweep,
which the scheduler starts every fifteen minutes, comes back to each file that stays old; it assumes
nothing of the operator, and any process may die. `Enrollments!FairEnrolSpec` assumes that a promotion that
can take its next student does, deadlock detection included. `MCServices` states the last two for its
own next-state relation.

## 4. Where the code and its comments disagree

Each of these is a run whose single property TLC refutes; `PROJECT.json` quotes the comment.

* **Two payments** (`NeverOverAllocated`). Request A and request B authenticate, both with the
  snapshot of an unpaid line. A locks the lines and commits. B gets the locks, but what is paid on
  the lines is a plain `SELECT`: it still answers zero. B is accepted and the line holds more than
  it is worth. The lock orders the writes without making the read current.
* **Cash and close** (`NothingTakenOnALockedDay`). The drawer is found open by a plain `SELECT`; the
  cashier closes; the cash payment commits afterwards, on a day whose variance is signed.
* **Deposit and discount** (`DepositUndoneOnlyByCancel`), with no overlap at all: a line discounted,
  then deposited in kind, then discounted again becomes due in cash while `deposited_at` stays.
* **Money in the bin** (`HiddenHoldsNoMoney`), one request at a time. The guard of the bin looks at
  payments only when the dossier is validated, and a dossier is paid before.
* **The zero of an absence** (`AbsenceIsAZero`). A sheet marks a pupil absent: the cell gets a zero and the
  status. The next sheet, saved with this cell empty, erases the value and keeps the status. The pupil is
  still absent, and what the comments call an automatic zero counts in no average.
* **Validated minutes** (`ValidatedMinutesStand`). Validation is final in three sentences of the code, and
  `update_decisions_batch` refuses accordingly; the override of one decision does not look, and drawing the
  minutes again deletes the validated ones.

`MCCounterTx` holds further sets of requests. With `SPECIFICATION TxSpec`, the constants of
`TxTwoPayments.cfg`, `MaxRequests = 3` and `Requests` set to one of these, TLC shows in a few seconds:

| `Requests` | Property that fails | What happens |
|---|---|---|
| `TwoMoves` (three lines) | `LinesCoverPayment` | the payment is locked and its allocations read in the snapshot: two moves away from one line both subtract from the first amount, and the final control reads the same snapshot |
| `MoveAndCancel` | `StatusTellsWhatIsPaid` | the cancellation computes statuses from fee rows loaded before the move |
| `DepositAndPayment` | `NoMoneyOffTheCircuit` | a payment commits between the check of the deposit and its `UPDATE` |
| `CloseAndSweep` (`MaxDay = 2`) | `VarianceIsCounted` | the nightly closure overwrites the status of a day counted meanwhile |
| `TwoCounts` | `SignedStands` | a second count replaces the signed one |
| `CashAtMidnight` (cash, `MaxDay = 2`) | `CashHasASession` | the drawer of the day before is opened, the payment is dated the day after |

None of these contradicts a sentence the repository writes about overlapping requests as plainly as the
findings do, so they are kept as scenarios.

One request at a time, the only way to overpay a line is to validate a transfer left pending by the old
counter, which goes through no check (`OnlyValidationOverpays` says that there is no other).

Behaviours of the statements and of the services that the models show and that no sentence of the
repository denies as plainly:

* An agreed schedule is checked against what is due on the mandatory lines when it is set, and never again.
  `set_enrollment_plan` refuses a larger one because it would claim money nobody owes; a discount, a waiver
  or a deposit in kind granted later makes it do so. The screen then shows the family late and
  `ensure_releasable` still refuses its documents. `LateIsOwed` excludes exactly this and the third point
  below (`AsksTooMuch`): otherwise what is late is owed, and a family that owes nothing gets its documents.
* What was paid on the mandatory lines is summed without a cap per line (`paid_on_mandatory`): a line that
  the validation of an old transfer overpaid hides the debt of another in the schedule, and only there.
* Percentages are rounded share by share and the last one takes the rest, so four quarters of two francs ask
  for one, one, one, and minus one: when the first three are due the schedule asks for three.

* The comment "Serialize manual edits with in-flight generation." (`timetable_service.py:325`) is true of
  the writes. The edit that waited still checks the lessons of its own snapshot, which dates from its
  authentication, and locks the teacher and the room it read; the two properties of the week say exactly
  how far this goes: every clash involves a row written from a past snapshot.
* A partial edit writes only the columns it changed: two half-edits of one lesson may make a lesson nobody
  checked.
* A purge of a dossier that has fee lines always fails: nothing deletes the lines first, and the ORM would
  empty a column that refuses it (the guard `~HasLines` of `purge_record`).
* A regeneration drops the lines of optional services that carry nothing and creates the mandatory ones
  only. A request that was late bills the price it read.
* A promotion that was refused a place keeps the class locked, and its old snapshot, until its next
  commit; two promotions may then wait for each other, and InnoDB ends one. A student whose dossier is
  cancelled or in the bin in the target year always ends as an unexpected error.
* The branch of `reject_if_newer_revision` is never taken: the guard on pending rows already leaves no
  newer one (`Overtaken` is false in every state of `SealLineage`). A revocation that read its row before a
  newer copy was finalized revokes a superseded row.
* When the record of a confirmed photo cannot be written, its public file stays.
* `ensure_class_has_room` locks the class, then counts its dossiers by a plain `SELECT`: the request that
  waited for the lock does not count the dossier it waited for, and two creations fill one place.
  `OverfullOnlyByOverlap` says that this and a dossier that counts again (restored, reopened), which nothing
  checks, are the only ways to overfill a class.
* Two generations of bulletins that overlap both insert a bulletin for each pupil; from then on
  `get_bulletin` finds two rows, and neither bulletins nor minutes of this class can be generated. When the
  bulletins were there, the second generation replaces all the lines but writes only the columns that differ
  from what it had read: an average may then stand over lines that give another one.
* In the third trimester the bulletin carries a decision on the average of the year, the minutes one on the
  average of the trimester: a family may read `passage` on one and `repechage` on the other.
* A published bulletin generated again stays published, with its new content, and nobody is told. The
  bulletin of a pupil who has left keeps the rank it had.
* The recapitulation lists the pupils without an average among the zeros, by name. Two zeros with such a
  pupil between them do not share their rank, although the comment promises "1, 1, 3"
  (`grades_repository.py:416`); with every other average they do (`SummaryRanksTies`).
* A pupil enrolled after an evaluation was created has no cell in it; no operation adds one.

## 5. What is proved

`TillProofs`, for any set of cashiers, any number of days, any amounts, any batch limit, from
`CashDayAssumption` and `TillAssumption`:

| Theorem | Says |
|---|---|
| `TypeCorrect` | `Spec => []TypeOK` |
| `CashIsShown` | `Spec => []CashHasASession` |
| `LockedDaysGetNothing` | `Spec => []NothingTakenOnALockedDay` |
| `VarianceStands` | `Spec => []VarianceIsCounted` |
| `SignaturesStand` | `Spec => SignedStands` |

The inductive invariant is the conjunction of the four. None of the last three stands without the
others: a regularization computes a variance against the frozen amount, which is a number only because
a locked day has one; a closure freezes `takings`, which is a natural number only by the type. Most
steps change one row and leave the money alone, or the reverse, so the proof has two lemmas for those
two shapes (`OneRow`, `LessMoney`) and treats the nightly closure, which changes many rows, apart.
`SignaturesStand` takes each action in turn from the same invariant.

`FeeRulesProofs` begins with what the models need of `Sum`: its recurrence, that it is a natural number,
that it is monotone, that a single non-zero term is its own sum, and what an update or the addition of two
functions does to it. `Sum` is a recursive function, not a `RECURSIVE` operator, and these facts come
from an explicit induction over the naturals (as a set of counterexamples without a least element).

### The split of a payment

`FeeRulesProofs` is about the pure operators, for any number of lines, any amount and any list of named
lines. `CascadeSplits`: the parts and the surplus add up to the amount, no part exceeds its room,
priority is respected. `SplitsHonour`: an accepted split gives every line what was named for it and
never more than it may receive. From these, `TheNetCatchesNothing`: after the checks of
`_ecrire_versement` the final control (`verifier`) cannot refuse, so it guards against other writers
only; and `PreviewAgrees`: the preview asks "is there a surplus?", the counter asks three other
questions, and the answers are the same.

`PreviewProofs` carries that to the module the run checks, from `MCFeeRulesAssumption`:

| Theorem | Says |
|---|---|
| `CounterTypes` | `Spec => []TypeOK` |
| `ScreenKeepsItsWord` | `Spec => []PreviewTellsTheTruth` |
| `CounterTakesTheFeasible` | `Spec => []RecordsExactlyTheFeasible` |
| `PriorityIsServed` | `Spec => []SplitsByPriority` |
| `AnnouncedStands` | `Spec => []AnnouncedIsWritten` |

`RecordsExactlyTheFeasible` speaks of the existence of a split. That the counter's own split is one is
`SplitsHonour`; conversely any split bounds what the lines may receive, so the three questions of the
counter are answered as it wishes. `SplitsByPriority` is the cascade's property read on the rooms that the
named lines leave. The invariant is the type and `StatusFollows`: before a recording, every status is the
one its payments give, without which an announced status could differ from the written one.

### The books of the counter

`CounterProofs`, from `CashDayAssumption` and `CounterAssumption`, for any enrollments, lines,
payments, cashiers, days, amounts and keys:

| Theorem | Says |
|---|---|
| `CounterTypes` | `Spec => []TypeOK` |
| `LinesAlwaysCover` | `Spec => []LinesCoverPayment` |
| `StatusIsTrue` | `Spec => []StatusTellsWhatIsPaid` |
| `CircuitIsClean` | `Spec => []NoMoneyOffTheCircuit` |
| `KeysAreUnique` | `Spec => []OnePaymentPerKey` |
| `NothingElseOverpays` | `Spec => OnlyValidationOverpays` |
| `HistoryStands` | `Spec => HistoryIsKept` |
| `AFreshSchoolNeverOverpays` | without an old pending transfer, `Spec => []NeverOverAllocated` |

The invariant `IInv` is the conjunction of the five invariants with three facts none of them says:

* a line deposited in kind has a positive amount (`LinesOrdered`): cancelling the deposit writes
  `pending`, which is the true status only because something is due. It holds because a deposit
  starts from `pending`, which `StatusTellsWhatIsPaid` gives only to a line that owes something;
* a discounted line is at most its original amount (`LinesOrdered`): removing the discount therefore
  never overpays a line;
* a waived line is worth nothing (`LinesOrdered`): what the screens subtract for it is nothing either;
* a locked day has a frozen amount (`FrozenWhenLocked`), against which a regularization counts.

What is paid on a line is a sum over all payments. `PaidOnChange` says that a step on one payment
changes it by the change of that payment's term, and `RecomputedLines` that a step which recomputes the
lines it touched leaves every status true; the two recording routes share `WriteStep`, the deposits and
the discounts share `LineStep`. `Step` puts the actions together, for the invariant and for the two
action properties at once.

`CounterImplementsTill` is `Spec => ImplementsTill`. A payment in cash is an `Encash`, the cancellation of
one an `OfficeCancels` of its amount in the drawer that received it, a validation or a move leaves the
cash of every drawer as it was (both statuses count in `aggregate_day`), and the session handlers are
the same steps. The strengthening is `PaymentsAreReal`: a payment that exists has a cashier, a method and an
amount of the counter, and no payment in cash is pending. With `TillProofs`, which says what every behaviour
of `Till` satisfies, the promises of the drawers hold of the counter's money.

These theorems are about `Counter`, whose requests come one after the other. Section 4 shows which of
them overlapping requests break; what follows says what they do not break, and why they break the others.

### Requests that overlap

`BooksProofs` proves of `CounterTx`, from the assumptions above and `RequestsAssumption`, for any set of
requests that the screens may send, any number of them at a time, any snapshots and any interleaving of
their locks, commits, refusals and deadlocks:

| Theorem | Says |
|---|---|
| `TxKeysAreUnique` | `TxSpec => []OnePaymentPerKey` |
| `TxHistoryStands` | `TxSpec => HistoryIsKept` |
| `TxTypes` | `TxSpec => []TxTypeOK` |
| `LockedDaysStayLocked` | `TxSpec => [][LocksStay]_txvars` |
| `LockedRowsAlwaysStand` | `TxSpec => LockedRowsStand` |
| `OnlyThePastEverDeparts` | `TxSpec => OnlyThePastDeparts` |
| `SerialWhenNothingPastIsRead` | `TxSpec /\ NothingPastIsRead => Spec` |
| `TheBooksHoldWithoutThePast` | the same hypotheses imply what section 4 shows overlapping requests break |
| `OnlyAStaleMoveEverUnbalances` | `TxSpec => OnlyAStaleMoveUnbalances` |

The first two need little. `TxInv` is the uniqueness of the keys and the names of the fields of a row. It
says nothing of the locks and nothing of the snapshots, which is the point: `KeyIsFree` looks at the
committed rows, as the unique index does, so a stale snapshot cannot let a second payment in; and a
transition reads the status of the payment it locked, and writes nothing else over the row.

The others rest on `TxIInv`, which ties every request in progress to the committed rows:

* `Covered`: the locks it holds, with those it still wants, are locks on every row its handler will write.
  It is established by `Begin`, handler by handler, from the order in which the code asks for its locks
  (`RecordLocks`, `CreateLocks`, `CorrectionLocks`, `OneRowLocks`, `SweepLocksCover`), and moved along by
  `Acquire`. For the lines of an enrollment, locked in the order of their numbers, this takes a counting
  argument (`Ranks`).
* `Exclusive`: no two requests hold locks that clash. With `Covered` and the lemmas on what a handler leaves
  alone (`LinesLeft`, `PaymentsLeft`, `DrawersLeft`) it gives `LockedRowsAlwaysStand`.
* `Serves`: the snapshot is well-formed and of the past. A day that it shows locked is locked still; the
  payment that a correction names exists; the closure lists a batch of what it read.
* `Data`: the types, and two facts without which a handler that computes from the past would leave the
  types: a line without a discount is worth something (`Undiscounted`), and a day is locked exactly when its
  expected cash is there (`Frozen`). A regularization subtracts the expected amount of its snapshot: it is a
  number because the day was locked there.

`OnlyThePastEverDeparts` shows for each handler that, when nothing of what `ReadsThePast` names has changed,
what it computes from its snapshot is what the operation of `Counter` computes from the rows
(`RecordAsIs`, `CreateAsIs`, `CorrectionAsIs`, `MoveAsIs`, `LineAsIs`, `SessionAsIs`, `SweepAsIs`), and
`ServedByCounter` that this operation is a step of `Counter`: this is the refinement of `Counter` by
`CounterTx`, step by step, with its condition. `NothingPastIsRead` says that
no request ends on such a read. It is not a property of the code: `two_payments` and `cash_and_close` violate it. It
holds when requests come one by one, none of them astride midnight, and when those that meet touch other
lines, other payments and other drawers. With it the overlapping requests are a behaviour of `Counter`, and
`TheBooksHoldWithoutThePast` draws the conclusion, among which `NeverOverAllocated` (without old pending
transfers) and the promises of `Till`: locks, waits, refusals and deadlocks are not to blame, stale reads
are.

`OnlyAStaleMoveEverUnbalances` is sharper for the lines of a payment: a recording computes its lines from
stale totals but still splits the whole amount over lines of the enrollment (`SplitsHonour`), a
cancellation writes statuses only, and a move of a payment whose lines are those it read gives to one line
what it takes from another.

### The screens and the schedules

`BooksProofs` also proves of `Statements`, for any grid and any agreement the office types in, from
`CashDayAssumption`, `CounterAssumption` and `StatementsAssumption`:

| Theorem | Says |
|---|---|
| `ScreensOnlyRead` | `StatementsSpec => Spec` |
| `TillIsOne` | `StatementsSpec => []OneTill` |
| `DebtIsOne` | `StatementsSpec => []OneDebt` |
| `NothingWithheldUnowed` | `StatementsSpec => []LateIsOwed` |

By `ScreensOnlyRead` the invariant of the books holds beside any schedule; to it `BooksInv` adds
`PaymentsAreReal` and the type of the schedules. The rest is arithmetic about sums, which the screens compute
in different orders:

* every total is turned into a sum over a set of lines or of payments (`AmountIs`, `OverLines`), regrouped
  by category, family, method or cashier (`SetSumGroup`), and a table summed by rows is the same summed by
  columns (`SetSumExchange`, for payments by lines);
* the status of a line tells what it owes (`LineOwes`), which is where the books' invariant enters: a screen
  that filters by status and one that compares amounts then agree;
* the percentages of a grid share to the franc what its fixed amounts left, since the last share takes what
  the others left (`SharesAddUp`), so a grid never asks for more than is due (`GridAsksNoMore`);
* `ScheduleIs` says what a schedule is, the grid's or an agreement, and `LateIsTold` compares what is late
  with what is owed.

The sums over sets have their own induction, on the size of the set, in the same style as that on `Sum`.

### The register of seals

`OfficeProofs`, from `SealAssumption`, for any requests, members of staff, facts, delays, revisions and
clock:

| Theorem | Says |
|---|---|
| `SealTypes` | `SealSpec => []SealTypeOK` |
| `LastCopyStands` | `SealSpec => []OnlyTheLastStands` |
| `CopiesAreSealed` | `SealSpec => []HandedOutIsSealed` |
| `VerdictsStand` | `SealSpec => VerdictsAreFinal` |
| `SealsArePublication` | `SealSpec => ImplementsPublication` |

The invariant `SealInv` adds to the two properties what a row may look like (`WellKept`): a pending row is
the last one, of the current scheme and without bytes; a row that stands or was revoked was a document once;
bytes are those of their own row. It also says what is in the hands of the requests (`InHand`): what one has
sealed has bytes, and what a revocation read was published; and that there is a last copy once there is one
(`HasLast`). That a pending row is the last is why a late finalization cannot come back over a newer copy: a
takeover closes the row before it adds its own.

### The week of the classes

`WeekProofs`, from `TimetableAssumption`, for any classes, teachers, rooms, volumes, length of the day and
number of requests:

| Theorem | Says |
|---|---|
| `WeekTypes` | `WeekSpec => []WeekTypeOK` |
| `ClashesOnlyFromThePast` | `WeekSpec => []ClashesComeFromThePast` |
| `BreaksStand` | `WeekSpec => []BreaksStandButForThePast` |

The invariant `WeekInv` adds to the types and to the two properties: rows are numbered by the request that
wrote them (`Numbered`, `OneRowPerId`), no row is locked twice (`LocksApart`), and what a generation at
work does not see, a lesson or a break committed since its snapshot, either was written from a past
snapshot or shares no locked row with it (`UnseenIsApart`). The last is what the locks are for: it makes a
week computed on an old state still good when it is written. The lemma `EditKeeps` carries it, and both
properties, through any edit, whatever it changes.

### The hand-off of a photo

`OfficeProofs`, from `HandoffAssumption`, for any files, phones, operators and delays:

| Theorem | Says |
|---|---|
| `HandoffTypes` | `HandoffSpec => []HandoffTypeOK` |
| `RecordsOnce` | `HandoffSpec => []RecordedOnce` |
| `GoneSessionsStay` | `HandoffSpec => GoneStaysGone` |
| `SweepSpares` | `HandoffSpec => SweepSparesTheScreen` |

`RecordedOnce` counts what two operators did, so it needs to know who may still do it: `OneConfirmation` says
that at most one screen is between its claim and the end of its work, and only once the session is over for
everybody else, because the claim is a single command of Redis. `LivesInTime` says that a session which
lives has not reached its deadline, which a retake does not postpone: its file is then younger than
`AGE_MAXIMAL`, twice the delay, even by a clock that differs by as much as a session (`Drift`).

### The dossiers

`OfficeProofs`, from `EnrolAssumption`, for any students, classes, capacities and clerks whose requests
overlap:

| Theorem | Says |
|---|---|
| `DossierTypes` | `EnrolSpec => []EnrolTypeOK` |
| `PaidDossiersStay` | `EnrolSpec => PaidDossierStays` |
| `ValidatedPaid` | `EnrolSpec => ValidatedOnlyPaid` |
| `OverfullByOverlap` | `EnrolSpec => OverfullOnlyByOverlap` |

The invariant `EnrolInv` is the type and `PaidExist`: money was received only for a row that is there.
`FineRow` states what a request may make of one row, given the row it read and the row that is there, and
one lemma says that a request all of whose rows are fine keeps the invariant and the three action
properties. What is left for each request is to show that its rows are fine.

### The lines of a dossier

`OfficeProofs`, from `GridAssumption` and `NoRowAssumption`, for any categories, profiles, prices and
dossiers:

| Theorem | Says |
|---|---|
| `GridTypes` | `GridSpec => []GridTypeOK` |
| `MoneyKeepsLines` | `GridSpec => MoneyKeepsItsLine` |
| `NewLinesAtTheGrid` | `GridSpec => BilledAsEnrolled` |
| `PreviewIsExact` | `GridSpec => []PreviewAddsUp` |

`GridInv` adds to the type that a line stands in the column of its own category and never without a dossier
(`RowsTyped`), and the same of what a late request read (`SeenTyped`). Regeneration, propagation and
arbitration are pure operators on what was read, so their lemmas hold of any reading and are used twice,
for the committed rows and for the snapshot. `PreviewAddsUp` is about counts and sums: the dossiers that
bear the tariff and those that lack the line are disjoint, and what the confirmation would add to the debt
is summed over each of the two as the preview sums it.

### The papers of a class

`CouncilProofs`, from `CouncilAssumption` and `UnsetAssumption`, for any pupils, subjects, evaluations,
weights and days:

| Theorem | Says |
|---|---|
| `CouncilTypes` | `CouncilSpec => []CouncilTypeOK` |
| `PapersOfAClass` | `CouncilSpec => []PapersAgree` |

The types already need arithmetic: an average is a rounded quotient of two sums, at most the maximum of a
mark, and its divisor is not zero where the code divides. `PapersInv` then says that either papers were once
written over papers not read (`torn`), or the bulletins are one per pupil with the average of their lines
and the rank of their average among those dated alike, the minutes quote the bulletins they were drawn from,
and a request's snapshot matches what is committed as far as it will write. The part on the recapitulation
is a lemma about ranks in any list sorted by average and name, with no hypothesis on the state.

### The services together

`ServicesRunAsProved`: in `MCServices`, every step is a step of the one component that runs and leaves the
others alone; `ServicesTyped`, `Spec => []ServicesTypeOK`, follows from the types of each. The invariants of
the components are therefore those of the instance the run explores.

### Only model-checked

Every invariant and every action property that a passing run checks is the statement of a theorem above. The
theorems also state what no run checks: `CashHasASession` of the drawers, `OnlyTheLastStands` of the seals
(which the refinement of the abstract publication, run and proved, says in other words), `GoneStaysGone` of
the hand-off, and the types of the overlapping requests (`TxTypeOK`). What is left to TLC:

* the four liveness properties, `LateDaysGetLocked`, `EveryRequestEnds`, `NoPhotoStaysStaged` and
  `PromotionsEnd`: fairness and `ENABLED` are out of the prover's reach;
* the disagreements and the scenarios of section 4, which are counterexamples and need no proof.

The constants are assumed to be what the code or the database makes them: finite sets of rows, positive amounts,
positive delays, rows told apart by the unique keys. TLC evaluates each assumption on the instances.

## 6. Plan

What is left, in order:

1. For `CounterTx`, a condition on the requests alone under which `NothingPastIsRead` holds: which pairs
   of handlers may meet on one enrollment without a stale read.
2. Refresh tokens and personal tokens: rotation and revocation in Redis and in the database
   (a token created while its account is being closed may outlive it).
3. The registry of engines: first in, first out over 64 of them, with requests still using the oldest.
4. Leave requests, incidents and summons, which share one shape: a status read and written without a lock.
5. The bin and the purge of students, parents, teachers and staff, with the files they leave.
6. Centimes, and the periods, searches and pages of the journals.

A small component shares `MCServices` with the others, since a step of one cannot disturb another.

## 7. What is not modelled, and why

* Centimes: `Numeric(_, 2)` columns are rounded by the database while the control compares unrounded
  decimals. Amounts here are whole francs, the unit of the currency.
* What Redis, MySQL and Celery do inside. A row lock is granted when nobody clashes; gap locks, which
  only refuse or delay more, are represented by the lock on the key or row they protect.
* A lost connection before the commit is `Refuse` (`Abandon`, `give_up`); after it, the client's retry is
  another request with the same key.
* Signatures, PDF, exports, statistics, portals: they change no state the others read. The totals of the
  journals and of the statements are in `Statements`; their periods, searches, pages and labels are not.
* The search of the timetable solver: OR-Tools, of which only the hard constraints the code gives it are
  kept. Its preferred hours and the hours it may leave unplanned are left out, and so is the status of the
  Celery task, which is written outside its transaction. One day stands for the week: nothing relates two
  days but the volume of hours, which is then that of the day.
* Authentication: its tokens live in Redis under single commands and its cryptography is a library's. The
  plan has what is worth a model in it.
* Matricules: one counter, incremented under the row lock of the settings, and a unique key.
* Of the marks and the council: mentions, comments, the reasons of an override, notifications and PDF, which
  nothing reads back; the seal of a retake ticket is `SealLineage`'s. Two classes share nothing but a pupil
  who moves, who is then one of a class's `change_enrollment`. The attendance of teachers, the summons and
  the requests for a file are records without a protocol beyond unique keys.
* Provisioning and migrations: run by one operator; the unique keys they create are assumed.
* Administration and reference data: create, read, update and delete without a protocol.
* `refunded`, a payment status nothing writes.
* Other tenants: each has its own database, and the nightly task isolates the failures of each.
