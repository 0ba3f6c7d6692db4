----------------------------- MODULE Statements -----------------------------
(***************************************************************************)
(* What the school says of a family's money: the schedule of instalments    *)
(* that decides whether documents are withheld, and the screens that tell   *)
(* the debt and the takings, each computed by a query of its own from the   *)
(* lines, payments and allocations of Counter.                              *)
(*                                                                         *)
(* grid is the year's grid of instalments, plan[e] the schedule agreed with *)
(* a family; both are lists, <<>> when there are no rows.  A due date is a  *)
(* day of Counter's clock, or later than it goes.  All enrollments are open *)
(* and of the one current year.                                             *)
(***************************************************************************)
EXTENDS Counter, FiniteSetsExt

CONSTANTS CategoryOf,     \* fee category of each line
          Mandatory,      \* the categories that are not optional
          Grids,          \* grids the office types in
          Plans           \* schedules a family may agree on

Categories == {CategoryOf[f] : f \in Fees}

ASSUME StatementsAssumption ==
  /\ IsFiniteSet(Enrollments) /\ IsFiniteSet(Methods) /\ None \notin Cashiers
  /\ DOMAIN CategoryOf = Fees
  /\ Grids \subseteq Seq([fixed : BOOLEAN, value : Nat \ {0}, due : Nat])
  /\ Plans \subseteq Seq([amount : Nat \ {0}, due : Nat])

VARIABLES grid,           \* fee_installments: [fixed, value (XOF or percent), due]
          plan            \* enrollment_installments: [amount, due]

\* The sum over some of n rows.
SumAt(P, amount, n) == Sum([i \in 1..n |-> IF i \in P THEN amount[i] ELSE 0], n)

-----------------------------------------------------------------------------
(* The arithmetic of a grid. *)

\* A percentage of total, rounded half up to the franc.
rounded_share(total, percentage) == (2 * total * percentage + 100) \div 200

IsPercentage(line) == ~line.fixed
Percentages(lines) == {i \in DOMAIN lines : IsPercentage(lines[i])}

\* total over the percentages of a list, by their positions.  The last share takes what is
\* left, so that no franc is lost.
split_by_percentage(total, lines) ==
  LET P     == Percentages(lines)
      share == [i \in P |-> rounded_share(total, lines[i].value)]
  IN  [i \in P |-> IF \E j \in P : j > i THEN share[i]
                   ELSE total - SumAt(P \ {i}, share, Len(lines))]

is_complete_grid(lines) ==
  SumAt(Percentages(lines), [i \in DOMAIN lines |-> lines[i].value], Len(lines)) = 100

\* Mutant: the percentages are of the total.
percentages_of_total(total, lines) ==
  [i \in 1..Len(lines) |-> IF lines[i].fixed THEN AtMost(lines[i].value, total)
                           ELSE split_by_percentage(total, lines)[i]]

\* The fixed amounts first, in the order of the grid and as long as something is due,
\* as a cascade serves lines; the percentages share what is left.
resolve_grid_amounts(total, lines) ==
  LET n     == Len(lines)
      fixed == cascade_by_priority(
                 total, [i \in 1..n |-> IF lines[i].fixed THEN lines[i].value ELSE 0], n)
  IN  [i \in 1..n |-> IF lines[i].fixed THEN fixed.splits[i]
                      ELSE split_by_percentage(fixed.surplus, lines)[i]]

-----------------------------------------------------------------------------
(* The queries. *)

SumOver(L, amount) == SumAt(L, amount, FeeCount)

\* Mandatory lines still due in cash: _frais_dus, _allocations_sur_frais_dus.
DueLines(e) == {f \in FeesOf(e) : CategoryOf[f] \in Mandatory /\ ~is_not_cash_due(fee[f])}

LineAmount == [f \in Fees |-> fee[f].amount]
LinePaid   == Paid(payment, alloc)
LineRest   == [f \in Fees |-> cash_remaining(fee[f], LinePaid[f])]

mandatory_total(e)   == SumOver(DueLines(e), LineAmount)
paid_on_mandatory(e) == SumOver(DueLines(e), LinePaid)

\* Mutant: the money of a cancelled payment comes back.
paid_whatever_the_status(c) ==
  [f \in Fees |-> Sum([p \in Payments |-> IF c \in {None, payment[p].received_by}
                                         THEN alloc[p][f] ELSE 0], MaxPayments)]

\* Completed payments, of one cashier or of all.
CompletedBy(c) == {p \in Payments : payment[p].status = "completed"
                                    /\ c \in {None, payment[p].received_by}}

paid_by_fee_for_scope(c) ==
  [f \in Fees |-> SumAt(CompletedBy(c), [p \in Payments |-> alloc[p][f]], MaxPayments)]

\* The same of some lines only; a line that is not asked for is not in the answer.
paid_by_fee_ids(L, c) == [f \in L |-> paid_by_fee_for_scope(c)[f]]

-----------------------------------------------------------------------------
(* The schedule of a family, and what it withholds. *)

\* What is already due and not paid.
compute_arrears(rows, paid) ==
  LET due_so_far == Sum([i \in 1..Len(rows) |-> IF rows[i].due <= today THEN rows[i].amount ELSE 0],
                        Len(rows))
  IN  due_so_far - AtMost(due_so_far, paid)

ScheduleRows(e) ==
  LET amounts == resolve_grid_amounts(mandatory_total(e), grid)
  IN  IF plan[e] # <<>> THEN plan[e]
      ELSE [i \in 1..Len(grid) |-> [amount |-> amounts[i], due |-> grid[i].due]]

Scheduled(rows) == Sum([i \in 1..Len(rows) |-> rows[i].amount], Len(rows))

resolve_schedule(e) ==
  LET rows  == ScheduleRows(e)
      total == mandatory_total(e)
  IN  [source             |-> CASE plan[e] # <<>>                 -> "negotiated"
                                [] plan[e] = <<>> /\ grid # <<>>  -> "standard"
                                [] OTHER                          -> "none",
       rows               |-> rows,
       total_mandatory    |-> total,
       late_amount        |-> compute_arrears(rows, paid_on_mandatory(e)),
       unscheduled_amount |-> total - AtMost(total, Scheduled(rows))]

\* Documents are withheld from a family that is late, whatever it owes in all.
evaluate_release(e) == [blocked     |-> resolve_schedule(e).late_amount > 0,
                        late_amount |-> resolve_schedule(e).late_amount]

ensure_releasable(e, may_override, has_reason) ==
  evaluate_release(e).blocked => may_override /\ has_reason

\* The row of a family on the screen of all schedules, its states in the order tried.
overview(e) ==
  LET s    == resolve_schedule(e)
      due  == s.total_mandatory
      paid == paid_on_mandatory(e)
  IN  [due       |-> due,
       paid      |-> paid,
       remaining |-> due - AtMost(due, paid),
       state     |-> IF due <= 0 THEN "no_fees"
                     ELSE IF s.late_amount > 0 THEN "late"
                     ELSE IF s.source = "none" THEN "unconfigured"
                     ELSE IF s.unscheduled_amount > 0 THEN "partial_schedule"
                     ELSE IF paid >= due THEN "settled" ELSE "on_track"]

-----------------------------------------------------------------------------
(* The screens of the debt. *)

\* Mutant: what one line has too much pays for the next.
remaining_pooled(e) ==
  LET due == {f \in FeesOf(e) : ~is_not_cash_due(fee[f])}
  IN  SumOver(due, LineAmount) - AtMost(SumOver(due, LineAmount), SumOver(due, LinePaid))

\* Capped line by line; read for a re-enrollment and by the portals.
remaining_by_enrollment(e) == SumOver(FeesOf(e), LineRest)

\* The table of a receipt: deposits in kind are not money.
situation_from_fees(e) ==
  LET money_lines == {f \in FeesOf(e) : fee[f].status # "in_kind"}
  IN  [total_due       |-> SumOver(money_lines, LineAmount),
       total_paid      |-> SumOver(money_lines, LinePaid),
       total_remaining |-> SumOver(FeesOf(e), LineRest)]

LinesOf(category) == {f \in Fees : CategoryOf[f] = category}

\* verse is what one cashier took, or all; the debt is told only to who reads every drawer
\* (c = None), on all that was paid.
totaliser(L, verse, verse_total, c) ==
  LET rest == [f \in L |-> cash_remaining(fee[f], verse_total[f])]
  IN  [total_en_argent   |-> SumOver(L, verse),
       eleves_en_argent  |-> Cardinality({f \in L : verse[f] > 0}),
       total_attendu     |-> IF c # None THEN None
                             ELSE SumOver({f \in L : ~is_not_cash_due(fee[f])}, LineAmount),
       total_restant_du  |-> IF c # None THEN None ELSE SumOver(L, rest),
       eleves_restant_du |-> IF c # None THEN None ELSE Cardinality({f \in L : rest[f] > 0}),
       compteurs         |-> IF c # None THEN None
                             ELSE [st \in FeeStatuses |-> Cardinality({f \in L : fee[f].status = st})]]

\* The tabs over the list of a point; "impayes" is all that is still due in cash.
SEAUX == [seau \in FeeStatuses \cup {"impayes"} |->
            IF seau = "impayes" THEN {"pending", "partial"} ELSE {seau}]

\* The point of a category, and the cards of all the categories.
load_category_ledger(category, c) ==
  LET L == LinesOf(category)
  IN  totaliser(L, paid_by_fee_ids(L, c), paid_by_fee_ids(L, None), c)

ListedUnder(category, seau) == {f \in LinesOf(category) : fee[f].status \in SEAUX[seau]}

load_categories_overview(c) ==
  [category \in Categories |->
     totaliser(LinesOf(category), paid_by_fee_for_scope(c), paid_by_fee_for_scope(None), c)]

-----------------------------------------------------------------------------
(* The screens of the takings. *)

AmountOf(P) == SumAt(P, [p \in Payments |-> payment[p].amount], MaxPayments)
WithStatus(s) == {p \in Payments : payment[p].status = s}

\* The journal of payments, of one cashier or of all.
build_journal(c) ==
  [total_encaisse |-> AmountOf(CompletedBy(c)),
   by_method      |-> [m \in Methods |-> AmountOf({p \in CompletedBy(c) : payment[p].method = m})]]

\* The figures above the list of payments: who reads one drawer is told what it took in the
\* place of what the school recovered.
get_payments_summary(c) ==
  LET due     == UNION {DueLines(e) : e \in Enrollments}
      mine(s) == {p \in WithStatus(s) : c \in {None, payment[p].received_by}}
  IN  [total_expected  |-> IF c # None THEN None ELSE SumOver(due, LineAmount),
       total_paid      |-> IF c # None THEN AmountOf(mine("completed"))
                           ELSE SumOver(due, LinePaid),
       total_collected |-> AmountOf(mine("completed")),
       total_pending   |-> AmountOf(mine("pending")),
       total_cancelled |-> AmountOf(mine("cancelled"))]

\* The daily book: what a drawer took, by method.
cashier_breakdown(c, d) ==
  [m \in Methods |-> AmountOf({p \in CompletedBy(c) : payment[p].day = d
                                                      /\ payment[p].method = m})]

-----------------------------------------------------------------------------
(* Writing the schedules. *)

replace_grid(g) ==
  /\ g # <<>>
  /\ Percentages(g) # {} => is_complete_grid(g)
  /\ grid' = g
  /\ UNCHANGED <<plan, vars>>

\* The agreement covers what is mandatory when it is made.
set_enrollment_plan(e, s) ==
  /\ s # <<>>
  /\ Scheduled(s) = mandatory_total(e)
  /\ plan' = [plan EXCEPT ![e] = s]
  /\ UNCHANGED <<grid, vars>>

clear_enrollment_plan(e) ==
  /\ plan[e] # <<>>
  /\ plan' = [plan EXCEPT ![e] = <<>>]
  /\ UNCHANGED <<grid, vars>>

StatementsInit == Init /\ grid = <<>> /\ plan = [e \in Enrollments |-> <<>>]

StatementsNext ==
  \/ Next /\ UNCHANGED <<grid, plan>>
  \/ \E g \in Grids : replace_grid(g)
  \/ \E e \in Enrollments, s \in Plans : set_enrollment_plan(e, s)
  \/ \E e \in Enrollments : clear_enrollment_plan(e)

StatementsSpec == StatementsInit /\ [][StatementsNext]_<<vars, grid, plan>>

-----------------------------------------------------------------------------
(***************************************************************************)
(* Properties.                                                              *)
(***************************************************************************)

TotalOf(amount, S) == MapThenSumSet(LAMBDA x : amount[x], S)

OwedOnMandatory(e) == SumOver(DueLines(e), LineRest)

\* An agreement asks for more than is owed when a discount, a waiver or a deposit in kind
\* came after it; a grid, when roundings up leave a negative last share.
AsksTooMuch(s) ==
  \/ s.source = "negotiated" /\ Scheduled(s.rows) > s.total_mandatory
  \/ \E i \in DOMAIN s.rows : s.rows[i].amount < 0

NoLineOverpaid(e) == \A f \in FeesOf(e) : ~Overpaid(f)

\* "Un montant ferme ne reclame jamais plus que l'eleve ne doit": documents are never
\* withheld for more than the mandatory lines still owe, whatever was discounted,
\* deposited, moved or cancelled since the grid was typed in, outside the two cases of
\* AsksTooMuch; and a schedule that covers everything and is all due hides no debt
\* (_math.py, document_release_service.py).
LateIsOwed ==
  \A e \in Enrollments :
    LET s       == resolve_schedule(e)
        all_due == \A i \in DOMAIN s.rows : s.rows[i].due <= today
    IN  ~AsksTooMuch(s) =>
          /\ s.late_amount <= OwedOnMandatory(e)
          /\ OwedOnMandatory(e) = 0 => ensure_releasable(e, FALSE, FALSE)
          /\ all_due /\ s.unscheduled_amount = 0 /\ NoLineOverpaid(e)
               => s.late_amount = OwedOnMandatory(e)
          /\ overview(e).state = "settled" /\ NoLineOverpaid(e) => OwedOnMandatory(e) = 0

\* "Un montant du ne peut pas valoir trois sommes differentes selon l'ecran": the counter,
\* the re-enrollment, the receipt, the schedules and the points by category tell one debt,
\* after any correction, and who is in the list of the unpaid owes something (fees_paid.py,
\* fee_situation.py, fee_category_ledger.py).
OneDebt ==
  /\ \A e \in Enrollments :
       LET situation == situation_from_fees(e)
       IN  /\ remaining_cash(FeesOf(e), fee, LinePaid, FeeCount) = remaining_by_enrollment(e)
           /\ situation.total_remaining = remaining_by_enrollment(e)
           /\ overview(e).remaining <= OwedOnMandatory(e)
           /\ NoLineOverpaid(e) =>
                /\ situation.total_due - situation.total_paid = situation.total_remaining
                /\ overview(e).remaining = OwedOnMandatory(e)
  /\ \A category \in Categories :
       LET point == load_category_ledger(category, None)
       IN  /\ point = load_categories_overview(None)[category]
           /\ point.eleves_restant_du = Cardinality(ListedUnder(category, "impayes"))
           /\ point.total_restant_du <= point.total_attendu
  /\ TotalOf([category \in Categories |-> load_category_ledger(category, None).total_restant_du],
             Categories)
       = TotalOf([e \in Enrollments |-> remaining_by_enrollment(e)], Enrollments)
  /\ get_payments_summary(None).total_expected
       = TotalOf([e \in Enrollments |-> overview(e).due], Enrollments)
  /\ get_payments_summary(None).total_paid
       = TotalOf([e \in Enrollments |-> overview(e).paid], Enrollments)

\* "Le meme filtre completed": the points by category, the journal, the summary and the
\* daily book tell one sum of takings, for each cashier and for the school, and the book's
\* cash is what the drawer expects, although one reads allocations and the other payments,
\* and the drawer counts pending payments too (_verse_par_frais, build_journal,
\* aggregate_day).
OneTill ==
  /\ \A c \in Cashiers \cup {None} :
       LET told == build_journal(c).total_encaisse
       IN  /\ told = TotalOf([category \in Categories |->
                                load_category_ledger(category, c).total_en_argent], Categories)
           /\ told = get_payments_summary(c).total_collected
           /\ told = TotalOf(build_journal(c).by_method, Methods)
  /\ \A c \in Cashiers, d \in Days :
       "cash" \in Methods => cashier_breakdown(c, d)["cash"] = DayCash(payment, c, d)
=============================================================================
