------------------------------ MODULE FeeGrid ------------------------------
(***************************************************************************)
(* From the grid of tariffs to the lines of a dossier: which tariff reaches    *)
(* whom, the lines written when a student is enrolled, their regeneration when  *)
(* he changes, and the propagation of a price to those already enrolled.        *)
(*                                                                            *)
(* One level and one year.  A request reads the committed rows, or, when it     *)
(* was late, those of a snapshot taken before other requests committed.          *)
(***************************************************************************)
EXTENDS Integers, FiniteSets, FiniteSetsExt

CONSTANTS Dossier, Category, Mandatory, InKind, Variant,
          tariff,         \* the category and the dimensions of each tariff
          Scope, Profile, Series, Amount,
          NotSet,         \* a dimension left empty, no tariff named, no row
          MaxOps          \* bound: requests served

ASSUME GridAssumption ==
  /\ Mandatory \subseteq Category /\ InKind \subseteq Category
  /\ tariff \in [Variant -> [category : Category, scope : Scope \cup {NotSet},
                             profile : Profile \cup {NotSet}, series : Series \cup {NotSet}]]
  /\ Amount \subseteq Nat \ {0} /\ IsFiniteSet(Amount)
  /\ IsFiniteSet(Dossier) /\ MaxOps \in Nat
  \* uq_fee_variant_dimensions
  /\ \A v, w \in Variant : tariff[v] = tariff[w] => v = w

VARIABLES grid,           \* the price of each tariff: 0 before the school enters it,
                          \* NotSet once deleted
          file,           \* what each dossier says of its student
          line,           \* its lines, one per category
          seen,           \* the snapshot of the request that is late
          ops             \* how many were served; it numbers the rows

gridvars == <<grid, file, line, seen, ops>>

Dims == [scope : Scope \cup {NotSet}, profile : Profile \cup {NotSet},
         series : Series \cup {NotSet}]

\* A propagation leaves aside a dossier that is closed, no request sees one in the bin.
Reach == {"live", "closed", "hidden"}

FileRow == [dims : Dims, reach : Reach] \cup {NotSet}

\* amount: before any discount; money: its allocations, if they are of a live payment or
\* only of cancelled ones; kept: a discount, a deposit in kind or, the one granted before
\* the other, both.
Line == [variant : Variant, amount : Amount, money : {"none", "live", "cancelled"},
         kept : SUBSET {"discount", "in_kind"}, id : Nat]

Lines == [Category -> Line \cup {NotSet}]

\* No row is not a row.
ASSUME NoRowAssumption == NotSet \notin Line \cup [dims : Dims, reach : Reach]

Committed == [grid |-> grid, file |-> file, line |-> line]

NoLines == [k \in Category |-> NotSet]

-----------------------------------------------------------------------------
(* Which tariff reaches whom.                                                *)

Entered(g) == {v \in Variant : g[v] \in Amount}

\* A dimension left empty, on the tariff, is for everybody; on the dossier, it lets only
\* those tariffs in.
Reaches(key, value) == key \in {NotSet, value}

variant_applies_to(v, d) ==
  /\ Reaches(tariff[v].scope, d.scope)
  /\ Reaches(tariff[v].profile, d.profile)
  /\ Reaches(tariff[v].series, d.series)

\* The comparison of the three booleans, scope first.
Weight(key, w) == IF key = NotSet THEN 0 ELSE w

specificity_series_first(v) ==
  Weight(tariff[v].series, 4) + Weight(tariff[v].scope, 1) + Weight(tariff[v].profile, 2)

specificity(v) ==
  Weight(tariff[v].scope, 4) + Weight(tariff[v].profile, 2) + Weight(tariff[v].series, 1)

most_specific_variant_per_category(V) ==
  {v \in V : \A w \in V : tariff[w].category = tariff[v].category
                            => specificity(w) <= specificity(v)}

Applicable(g, d) == {v \in Entered(g) : variant_applies_to(v, d)}

get_mandatory_fee_variants(g, d) ==
  most_specific_variant_per_category(
    {v \in Applicable(g, d) : tariff[v].category \in Mandatory})

-----------------------------------------------------------------------------
(* The lines of one dossier.                                                 *)

NewLine(v, g) ==
  [variant |-> v, amount |-> g[v], money |-> "none", kept |-> {}, id |-> ops + 1]

\* A category already billed is not billed again.
create_mandatory_enrollment_fees(g, d, ls) ==
  LET due == get_mandatory_fee_variants(g, d)
      For(k) == {v \in due : tariff[v].category = k}
  IN  [k \in Category |-> IF ls[k] = NotSet /\ For(k) # {}
                            THEN NewLine(CHOOSE v \in For(k) : TRUE, g) ELSE ls[k]]

create_explicit_enrollment_fee(g, v) ==
  IF v = NotSet THEN NoLines
  ELSE [k \in Category |-> IF k = tariff[v].category THEN NewLine(v, g) ELSE NotSet]

apply_in_kind_deposits(ls, D) ==
  [k \in Category |-> IF k \in D \cap InKind /\ ls[k] # NotSet
                        THEN [ls[k] EXCEPT !.kept = {"in_kind"}] ELSE ls[k]]

attach_fees(g, d, v, D) ==
  apply_in_kind_deposits(
    create_mandatory_enrollment_fees(g, d, create_explicit_enrollment_fee(g, v)), D)

\* An allocation, even of a cancelled payment, a discount or a deposit.
Kept(l) == l.money # "none" \/ l.kept # {}

Deleted(ls) == {k \in Category : ls[k] # NotSet /\ ~Kept(ls[k])}

Remaining(ls) == [k \in Category |-> IF k \in Deleted(ls) THEN NotSet ELSE ls[k]]

regenerate_enrollment_fees(g, d, ls) == create_mandatory_enrollment_fees(g, d, Remaining(ls))

SameLine(l, m) == l # NotSet /\ m # NotSet /\ l.id = m.id

\* What the deletions and insertions decided on the lines `ls` do to the committed ones: a
\* foreign key holds a line that received money, the unique key one that was inserted.
MayWrite(e, ls, new) ==
  \A k \in Category :
    /\ k \in Deleted(ls) /\ SameLine(ls[k], line[e][k]) => line[e][k].money = "none"
    /\ new[k] # NotSet /\ ~SameLine(new[k], ls[k])
         => line[e][k] = NotSet \/ (k \in Deleted(ls) /\ SameLine(ls[k], line[e][k]))

Rewritten(e, ls, new) ==
  [k \in Category |->
     IF new[k] # NotSet /\ ~SameLine(new[k], ls[k]) THEN new[k]
     ELSE IF k \in Deleted(ls) /\ SameLine(ls[k], line[e][k]) THEN NotSet
     ELSE line[e][k]]

-----------------------------------------------------------------------------
(* What the service starts from: a grid, and dossiers enrolled under it.        *)

Opening(g, d) ==
  LET ls == create_mandatory_enrollment_fees(g, d, NoLines)
  IN  [k \in Category |-> IF ls[k] = NotSet THEN NotSet ELSE [ls[k] EXCEPT !.id = 0]]

GridInit ==
  /\ grid \in [Variant -> Amount \cup {0}]
  /\ ops = 0
  /\ \E E \in SUBSET Dossier, dims \in [Dossier -> Dims] :
       /\ file = [e \in Dossier |-> IF e \in E THEN [dims |-> dims[e], reach |-> "live"] ELSE NotSet]
       /\ line = [e \in Dossier |-> IF e \in E THEN Opening(grid, dims[e]) ELSE NoLines]
  /\ seen = NotSet

-----------------------------------------------------------------------------
(* The requests.                                                             *)

\* The rows a request read: the committed ones, or those it saw when it began.
Read(late) == IF late THEN seen ELSE Committed

Serve(late) ==
  /\ ops < MaxOps /\ ops' = ops + 1
  /\ late => seen # NotSet
  /\ seen' = IF late THEN NotSet ELSE seen

\* With room left for another request and then for this one.
get_tenant_db ==
  /\ seen = NotSet /\ ops + 2 <= MaxOps
  /\ seen' = Committed
  /\ UNCHANGED <<grid, file, line, ops>>

\* The foreign key of the lines: no tariff of theirs was deleted meanwhile.
TariffsStand(ls) == \A k \in Category : ls[k] # NotSet => grid[ls[k].variant] # NotSet

enroll(late, e, d, v, D) ==
  LET R == Read(late)
  IN  /\ Serve(late)
      /\ file[e] = NotSet
      /\ v # NotSet => v \in Applicable(R.grid, d)
      /\ file' = [file EXCEPT ![e] = [dims |-> d, reach |-> "live"]]
      /\ line' = [line EXCEPT ![e] = attach_fees(R.grid, d, v, D)]
      /\ TariffsStand(line'[e])
      /\ UNCHANGED grid

Regenerated(R, e, d) ==
  LET ls == R.line[e]
      new == regenerate_enrollment_fees(R.grid, d, ls)
  IN  /\ MayWrite(e, ls, new)
      /\ line' = [line EXCEPT ![e] = Rewritten(e, ls, new)]
      /\ TariffsStand(line'[e])

\* Only what the edition changes of what it read is written.
EditedDims(d, read, now) ==
  LET Field(new, old, committed) == IF new = old THEN committed ELSE new
  IN  [scope |-> Field(d.scope, read.scope, now.scope),
       profile |-> Field(d.profile, read.profile, now.profile),
       series |-> Field(d.series, read.series, now.series)]

\* Class, profile or assignment: each changes the tariffs that apply.
update_enrollment_dims(late, e, d) ==
  LET R == Read(late)
  IN  /\ Serve(late)
      /\ R.file[e] # NotSet /\ R.file[e].reach # "hidden" /\ d # R.file[e].dims
      /\ file' = [file EXCEPT ![e].dims = EditedDims(d, R.file[e].dims, @)]
      /\ Regenerated(R, e, d)
      /\ UNCHANGED grid

regenerate(late, e) ==
  LET R == Read(late)
  IN  /\ Serve(late)
      /\ R.file[e] # NotSet /\ R.file[e].reach # "hidden"
      /\ Regenerated(R, e, R.file[e].dims)
      /\ UNCHANGED <<grid, file>>

\* Closed by an edition, put in the bin, or back.
change_reach(e) ==
  /\ Serve(FALSE) /\ file[e] # NotSet
  /\ \E r \in Reach \ {file[e].reach} : file' = [file EXCEPT ![e].reach = r]
  /\ UNCHANGED <<grid, line>>

\* Entered, or corrected.
set_price(v, a) ==
  /\ Serve(FALSE) /\ grid[v] \notin {a, NotSet}
  /\ grid' = [grid EXCEPT ![v] = a]
  /\ UNCHANGED <<file, line>>

\* The foreign key of the lines refuses it for a tariff in use.
delete_fee_variant(v) ==
  /\ Serve(FALSE) /\ grid[v] \in Amount
  /\ \A e \in Dossier, k \in Category : line[e][k] # NotSet => line[e][k].variant # v
  /\ grid' = [grid EXCEPT ![v] = NotSet]
  /\ UNCHANGED <<file, line>>

\* What the counter does to a line (module Counter has the conditions in full).
Touch(e, k, l) ==
  /\ Serve(FALSE) /\ line[e][k] # NotSet
  /\ line' = [line EXCEPT ![e][k] = l]
  /\ UNCHANGED <<grid, file>>

take_payment(e, k) ==
  /\ line[e][k].money # "live" /\ "in_kind" \notin line[e][k].kept
  /\ Touch(e, k, [line[e][k] EXCEPT !.money = "live"])

cancel_payment(e, k) ==
  /\ line[e][k].money = "live"
  /\ Touch(e, k, [line[e][k] EXCEPT !.money = "cancelled"])

\* Granted again on a line that has one, it undoes the deposit made since.
set_discount(e, k) ==
  /\ line[e][k].kept # {"in_kind"}
  /\ Touch(e, k, [line[e][k] EXCEPT !.kept = {"discount"}])

remove_discount(e, k) ==
  /\ "discount" \in line[e][k].kept
  /\ Touch(e, k, [line[e][k] EXCEPT !.kept = {}])

mark_in_kind_deposit(e, k) ==
  /\ k \in InKind /\ line[e][k].money # "live" /\ "in_kind" \notin line[e][k].kept
  /\ Touch(e, k, [line[e][k] EXCEPT !.kept = @ \cup {"in_kind"}])

cancel_in_kind_deposit(e, k) ==
  /\ "in_kind" \in line[e][k].kept
  /\ Touch(e, k, [line[e][k] EXCEPT !.kept = @ \ {"in_kind"}])

CounterStep(e, k) ==
  /\ line[e][k] # NotSet
  /\ \/ take_payment(e, k) \/ cancel_payment(e, k)
     \/ set_discount(e, k) \/ remove_discount(e, k)
     \/ mark_in_kind_deposit(e, k) \/ cancel_in_kind_deposit(e, k)

-----------------------------------------------------------------------------
(* The propagation of a tariff.                                              *)

Carries(R, v, e) ==
  /\ R.file[e] # NotSet /\ R.file[e].reach = "live"
  /\ R.line[e][tariff[v].category] # NotSet
  /\ R.line[e][tariff[v].category].variant = v

LineFor(R, v, e) == R.line[e][tariff[v].category]

\* The packages of _repartir.
DueLines(R, v) == {e \in Dossier : Carries(R, v, e) /\ LineFor(R, v, e).kept = {}}

UpToDate(R, v) == {e \in DueLines(R, v) : LineFor(R, v, e).amount = R.grid[v]}

paid_lines_by_old_column(R, v) == {}

\* Whatever became of the payment.
PaidLines(R, v) == {e \in DueLines(R, v) \ UpToDate(R, v) : LineFor(R, v, e).money # "none"}

ToUpdate(R, v) == (DueLines(R, v) \ UpToDate(R, v)) \ PaidLines(R, v)

Discounted(R, v) == {e \in Dossier : Carries(R, v, e) /\ "discount" \in LineFor(R, v, e).kept}

deposited_at_all(R, v) == {e \in Dossier : Carries(R, v, e) /\ "in_kind" \in LineFor(R, v, e).kept}

Deposited(R, v) == {e \in Dossier : Carries(R, v, e) /\ LineFor(R, v, e).kept = {"in_kind"}}

to_create_if_it_reaches(R, v) ==
  {e \in Dossier :
     /\ R.file[e] # NotSet /\ R.file[e].reach = "live" /\ LineFor(R, v, e) = NotSet
     /\ v \in Applicable(R.grid, R.file[e].dims)}

\* _a_creer: only where this tariff is the one the counter would have written.
ToCreate(R, v) ==
  {e \in Dossier :
     /\ tariff[v].category \in Mandatory
     /\ R.file[e] # NotSet /\ R.file[e].reach = "live" /\ LineFor(R, v, e) = NotSet
     /\ v \in most_specific_variant_per_category(
               {w \in Applicable(R.grid, R.file[e].dims) :
                  tariff[w].category = tariff[v].category})}

concernees(R, v) ==
  Cardinality(ToUpdate(R, v)) + Cardinality(ToCreate(R, v)) + Cardinality(UpToDate(R, v))
  + Cardinality(PaidLines(R, v)) + Cardinality(Discounted(R, v)) + Cardinality(Deposited(R, v))

\* What the preview says the confirmation adds to the debt, and the missing lines.
debt_delta(R, v) ==
  MapThenSumSet(LAMBDA e : R.grid[v] - LineFor(R, v, e).amount, ToUpdate(R, v))

ecart_des_creations(R, v) == R.grid[v] * Cardinality(ToCreate(R, v))

Propagated(R, v, create_missing) ==
  [e \in Dossier |->
    [line[e] EXCEPT ![tariff[v].category] =
       IF e \in ToUpdate(R, v) THEN [@ EXCEPT !.amount = R.grid[v]]
       ELSE IF create_missing /\ e \in ToCreate(R, v) THEN NewLine(v, R.grid)
       ELSE @]]

\* A line rewritten must still be there, a line created must not be.
apply_variant_propagation(late, v, create_missing) ==
  LET R == Read(late)
  IN  /\ Serve(late) /\ R.grid[v] \in Amount /\ grid[v] # NotSet
      /\ \A e \in ToUpdate(R, v) : SameLine(LineFor(R, v, e), line[e][tariff[v].category])
      /\ create_missing => \A e \in ToCreate(R, v) : line[e][tariff[v].category] = NotSet
      /\ line' = Propagated(R, v, create_missing)
      /\ UNCHANGED <<grid, file>>

-----------------------------------------------------------------------------
DossierStep(e) ==
  \/ \E late \in BOOLEAN, d \in Dims, v \in Variant \cup {NotSet}, D \in SUBSET InKind :
       enroll(late, e, d, v, D)
  \/ \E late \in BOOLEAN, d \in Dims : update_enrollment_dims(late, e, d)
  \/ \E late \in BOOLEAN : regenerate(late, e)
  \/ change_reach(e)
  \/ \E k \in Category : CounterStep(e, k)

GridStep(v) ==
  \/ \E a \in Amount : set_price(v, a)
  \/ delete_fee_variant(v)
  \/ \E late, cm \in BOOLEAN : apply_variant_propagation(late, v, cm)

GridNext == get_tenant_db \/ (\E e \in Dossier : DossierStep(e)) \/ (\E v \in Variant : GridStep(v))

GridSpec == GridInit /\ [][GridNext]_gridvars

-----------------------------------------------------------------------------
(***************************************************************************)
(* Properties.                                                              *)
(***************************************************************************)

\* The grid, the files and the lines keep their types, and each line is in the column of
\* its tariff's category.
GridTypeOK ==
  /\ grid \in [Variant -> Amount \cup {0, NotSet}]
  /\ file \in [Dossier -> FileRow]
  /\ line \in [Dossier -> Lines]
  /\ \A e \in Dossier, k \in Category :
       line[e][k] # NotSet => tariff[line[e][k].variant].category = k /\ file[e] # NotSet
  /\ seen # NotSet => seen.file \in [Dossier -> FileRow] /\ seen.line \in [Dossier -> Lines]
  /\ ops \in 0..MaxOps

\* A line that carries a payment, even a cancelled one, is neither deleted nor repriced by
\* a regeneration or a propagation (fee_ids_with_allocations), unless the request read the
\* lines before the money came.
MoneyKeepsItsLine ==
  [][\A e \in Dossier, k \in Category :
       LET l == line[e][k]
       IN  l # NotSet /\ l.money # "none" =>
             /\ SameLine(l, line'[e][k])
             /\ \/ l.amount = line'[e][k].amount
                \/ /\ seen # NotSet /\ seen' = NotSet
                   /\ SameLine(l, seen.line[e][k]) /\ seen.line[e][k].money = "none"]_gridvars

\* The tariff that bills a dossier for a category, said another way: of those that reach
\* it, none is set on an earlier dimension than it is.
Beats(w, v) ==
  LET Set(x, field) == tariff[x][field] # NotSet
  IN  \/ Set(w, "scope") /\ ~Set(v, "scope")
      \/ Set(w, "scope") = Set(v, "scope") /\ Set(w, "profile") /\ ~Set(v, "profile")
      \/ /\ Set(w, "scope") = Set(v, "scope") /\ Set(w, "profile") = Set(v, "profile")
         /\ Set(w, "series") /\ ~Set(v, "series")

Bills(g, d, v) ==
  /\ v \in Applicable(g, d)
  /\ \A w \in Applicable(g, d) : tariff[w].category = tariff[v].category => ~Beats(w, v)

\* Whatever wrote it, the counter, a regeneration or a propagation, a new line bears the
\* price and the tariff that a dossier enrolled now would be billed in that category; only
\* a tariff named at the counter may be another.  Requests that were late are left out:
\* they bill what they read.
BilledAsEnrolled ==
  [][\A e \in Dossier :
       LET NewLines == {k \in Category : line'[e][k] # NotSet /\ ~SameLine(line[e][k], line'[e][k])}
           Named == {k \in NewLines : ~Bills(grid', file'[e].dims, line'[e][k].variant)}
       IN  seen = NotSet \/ seen' # NotSet =>
             /\ \A k \in NewLines : /\ line'[e][k].amount = grid'[line'[e][k].variant]
                                    /\ line'[e][k].variant \in Applicable(grid', file'[e].dims)
             /\ Named # {} => file[e] = NotSet /\ Cardinality(Named) = 1]_gridvars

\* What is due in money on the lines of a category, discounts aside.
Debt(ls, k) ==
  MapThenSumSet(LAMBDA e : IF ls[e][k] = NotSet \/ "in_kind" \in ls[e][k].kept
                             THEN 0 ELSE ls[e][k].amount, Dossier)

\* What the preview of a tariff announces is what its confirmation would do: its packages
\* add up to the living dossiers that carry the tariff or are billed it and lack the line,
\* and its two gaps are the debt that the rewriting and the creation would add.
PreviewAddsUp ==
  \A v \in Entered(grid) :
    LET k == tariff[v].category
        Lacking == {e \in Dossier : /\ k \in Mandatory /\ file[e] # NotSet /\ file[e].reach = "live"
                                    /\ line[e][k] = NotSet /\ Bills(grid, file[e].dims, v)}
        Bearing == {e \in Dossier : Carries(Committed, v, e)}
    IN  /\ concernees(Committed, v) = Cardinality(Lacking) + Cardinality(Bearing)
        /\ Debt(Propagated(Committed, v, FALSE), k) - Debt(line, k) = debt_delta(Committed, v)
        /\ Debt(Propagated(Committed, v, TRUE), k) - Debt(line, k)
             = debt_delta(Committed, v) + ecart_des_creations(Committed, v)

=============================================================================
