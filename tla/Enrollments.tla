---------------------------- MODULE Enrollments ----------------------------
(***************************************************************************)
(* The dossiers of one school year (enrollments): creation at the counter, by  *)
(* the form with the student and by the promotion of whole classes, edition,   *)
(* validation against a payment, recycle bin and purge, with what a payment    *)
(* does to them.                                                              *)
(*                                                                            *)
(* A request reads in the snapshot of its session, opened when it               *)
(* authenticates, and writes at its commit.  Only the row of a class is locked  *)
(* on the way, which a promotion may keep from one student to the next.          *)
(***************************************************************************)
EXTENDS Naturals, FiniteSets

CONSTANTS Student,        \* the ids, in the order a promotion takes them
          Class, Worker,
          max_students,   \* the places of each class
          FreeClass,      \* the classes whose grid makes nothing due
          MaxRequests, MaxRows   \* bounds: requests served, dossiers of one student

ASSUME EnrolAssumption ==
  /\ Student \subseteq Nat /\ IsFiniteSet(Student) /\ Class # {}
  /\ max_students \in [Class -> Nat]
  /\ FreeClass \subseteq Class
  /\ MaxRequests \in Nat /\ MaxRows \in Nat

VARIABLES dossier,        \* the committed row of each student
          job,            \* the request each worker is serving
          served          \* how many were begun

enrolvars == <<dossier, job, served>>

\* prospect and en_validation meet the same tests everywhere: "open".  annule and rejete
\* do too: "closed".
EnrollmentStatus == {"none", "open", "valide", "closed"}

\* payments: no row, one that is completed, or only cancelled ones.
Paid == {"never", "received", "cancelled"}

\* What a student has in the year; `rows` counts the rows inserted for him and tells
\* one from the next.
Row == [status : EnrollmentStatus, class : Class, hidden : BOOLEAN,
        paid : Paid, rows : Nat]

NoRow(n) == [status |-> "none", class |-> CHOOSE c \in Class : TRUE, hidden |-> FALSE,
             paid |-> "never", rows |-> n]

Exists(r) == r.status # "none"

\* The archive filter of the session: what a query may see.
Visible(r) == Exists(r) /\ ~r.hidden

Counted(r) == Visible(r) /\ r.status # "closed"

\* A cancelled payment keeps its allocations, and they keep their lines.
HasLines(r) == r.class \notin FreeClass \/ r.paid # "never"

InClass(rows, c) == {s \in Student : Counted(rows[s]) /\ rows[s].class = c}

count_active_enrollments_for_class(rows, c) == Cardinality(InClass(rows, c))

Blank == [s \in Student |-> NoRow(0)]

Idle == [step |-> "idle", view |-> Blank, todo |-> <<>>, held |-> {}]

Targets == UNION {[S -> Class] : S \in SUBSET Student}

\* A year under way: closed dossiers, and open ones in the bin.
Left == {r \in [status : {"open", "closed"}, class : Class, hidden : BOOLEAN,
                paid : {"never"}, rows : {1}] : r.hidden <=> r.status = "open"}

EnrolInit ==
  /\ dossier \in [Student -> {NoRow(0)} \cup Left]
  /\ \A c \in Class : Cardinality({s \in Student : Exists(dossier[s]) /\ dossier[s].class = c})
                        <= max_students[c]
  /\ job = [w \in Worker |-> Idle]
  /\ served = 0

-----------------------------------------------------------------------------
(* A request and its session.                                                *)

get_db(w) ==
  /\ job[w].step = "idle" /\ served < MaxRequests
  /\ job' = [job EXCEPT ![w].step = "read", ![w].view = dossier]
  /\ served' = served + 1
  /\ UNCHANGED dossier

\* Whatever was refused, or whose process died: nothing it wrote remains but what a
\* promotion had committed.
Abandon(w) ==
  /\ job[w].step # "idle"
  /\ job' = [job EXCEPT ![w] = Idle]
  /\ UNCHANGED <<dossier, served>>

Commit(w, s, row) ==
  /\ dossier' = [dossier EXCEPT ![s] = row]
  /\ job' = [job EXCEPT ![w] = Idle]
  /\ UNCHANGED served

Reads(w) == job[w].step = "read"

LockFree(w, c) == \A v \in Worker \ {w} : c \notin job[v].held

valid_has_room(rows, c) ==
  Cardinality({s \in InClass(rows, c) : rows[s].status = "valide"}) < max_students[c]

\* The class is locked, the places taken are counted in the snapshot.
HasRoom(rows, c) == count_active_enrollments_for_class(rows, c) < max_students[c]

\* A row loaded in the snapshot can be written only if it is still there.
SameRow(w, s) == Exists(dossier[s]) /\ dossier[s].rows = job[w].view[s].rows

\* SQLAlchemy writes the columns whose value changed since they were loaded.
Wrote(loaded, new, now) == IF new = loaded THEN now ELSE new

-----------------------------------------------------------------------------
(* The counter and the office.                                               *)

Created(s, c) == [status |-> "open", class |-> c, hidden |-> FALSE, paid |-> "never",
                  rows |-> dossier[s].rows + 1]

\* uq_enrollment_student_year: a row in the bin or a closed one is in the way too.
KeyFree(s) == ~Exists(dossier[s])

\* _ensure_no_active_enrollment, and the insertion.
create_enrollment(w, s, c) ==
  /\ Reads(w) /\ LockFree(w, c)
  /\ HasRoom(job[w].view, c)
  /\ ~Counted(job[w].view[s])
  /\ KeyFree(s)
  /\ Commit(w, s, Created(s, c))

\* awaiting_payment: no payment that counts, and a line due in cash.
AwaitingPayment(r) == r.paid # "received" /\ HasLines(r)

verifier_statut(r) == r.status = "open"

MayValidate(r) == verifier_statut(r) /\ ~AwaitingPayment(r)

\* A change of class regenerates the lines: those of the snapshot that carry nothing are
\* deleted, and the foreign key refuses it when one received money since.
MayRegenerate(w, s) ==
  HasLines(job[w].view[s]) /\ job[w].view[s].paid = "never" => dossier[s].paid = "never"

may_be_valid_before(w, s, c) == MayValidate(job[w].view[s])

\* The validation comes after the regeneration: the lines are those of the new class.
MayBeValid(w, s, c) == MayValidate([job[w].view[s] EXCEPT !.class = c])

update_enrollment(w, s, st, c) ==
  LET r == job[w].view[s]
  IN  /\ Reads(w) /\ Visible(r)
      /\ c # r.class => LockFree(w, c) /\ HasRoom(job[w].view, c) /\ MayRegenerate(w, s)
      /\ st = "valide" /\ r.status # "valide" => MayBeValid(w, s, c)
      /\ SameRow(w, s)
      /\ Commit(w, s, [dossier[s] EXCEPT !.status = Wrote(r.status, st, @),
                                         !.class = Wrote(r.class, c, @)])

\* One dossier, or each of a list in a transaction of its own.
validate_enrollment(w, s) ==
  /\ Reads(w) /\ Visible(job[w].view[s])
  /\ MayValidate(job[w].view[s])
  /\ SameRow(w, s)
  /\ Commit(w, s, [dossier[s] EXCEPT !.status = "valide"])

\* The counter locks the dossier and its lines: it sees the committed row.
record_payment(w, s) ==
  /\ Reads(w) /\ Visible(dossier[s]) /\ HasLines(dossier[s])
  /\ Commit(w, s, [dossier[s] EXCEPT !.paid = "received"])

cancel_last_payment(w, s) ==
  /\ Reads(w) /\ dossier[s].paid = "received"
  /\ Commit(w, s, [dossier[s] EXCEPT !.paid = "cancelled"])

-----------------------------------------------------------------------------
(* The recycle bin.                                                          *)

\* _refuse_if_money_moved.
MayArchive(r) == r.status = "valide" => r.paid = "never"

archive_record(w, s) ==
  LET r == job[w].view[s]
  IN  /\ Reads(w) /\ Visible(r) /\ MayArchive(r) /\ SameRow(w, s)
      /\ Commit(w, s, [dossier[s] EXCEPT !.hidden = TRUE])

restore_record(w, s) ==
  /\ Reads(w) /\ Exists(job[w].view[s]) /\ job[w].view[s].hidden /\ SameRow(w, s)
  /\ Commit(w, s, [dossier[s] EXCEPT !.hidden = FALSE])

purge_cascading(w, s) ==
  /\ Reads(w) /\ job[w].view[s].hidden /\ job[w].view[s].paid = "never"
  /\ SameRow(w, s) /\ dossier[s].rows < MaxRows
  /\ Commit(w, s, NoRow(dossier[s].rows))

\* _purge_enrollment refuses a dossier with payments in its snapshot.  The ORM has no
\* cascade over the lines: it would empty their key, which the column refuses; and a line
\* or a payment committed since is held by its foreign key.
purge_record(w, s) ==
  LET r == job[w].view[s]
  IN  /\ Reads(w) /\ Exists(r) /\ r.hidden /\ r.paid = "never" /\ ~HasLines(r)
      /\ SameRow(w, s) /\ ~HasLines(dossier[s]) /\ dossier[s].rows < MaxRows
      /\ Commit(w, s, NoRow(dossier[s].rows))

-----------------------------------------------------------------------------
(* execute_promotion: one creation per student, each with its own commit.      *)

Next1(todo) == CHOOSE s \in DOMAIN todo : \A t \in DOMAIN todo : s <= t

Without(todo, s) == [t \in DOMAIN todo \ {s} |-> todo[t]]

execute_promotion(w, todo) ==
  /\ Reads(w) /\ DOMAIN todo # {}
  /\ job' = [job EXCEPT ![w].step = "promote", ![w].todo = todo]
  /\ UNCHANGED <<dossier, served>>

Promotes(w) == job[w].step = "promote" /\ DOMAIN job[w].todo # {}

\* Already enrolled, as the snapshot has it: skipped.
Skip(w) ==
  LET s == Next1(job[w].todo)
  IN  /\ Promotes(w) /\ Counted(job[w].view[s])
      /\ job' = [job EXCEPT ![w].todo = Without(@, s)]
      /\ UNCHANGED <<dossier, served>>

\* The commit of one student releases the class and the next read opens a new snapshot.
Promote(w) ==
  LET s == Next1(job[w].todo)  c == job[w].todo[s]
  IN  /\ Promotes(w) /\ ~Counted(job[w].view[s]) /\ LockFree(w, c)
      /\ HasRoom(job[w].view, c) /\ KeyFree(s)
      /\ dossier' = [dossier EXCEPT ![s] = Created(s, c)]
      /\ job' = [job EXCEPT ![w].todo = Without(@, s), ![w].view = dossier', ![w].held = {}]
      /\ UNCHANGED served

\* Full, or the unique key: the error is noted and the loop goes on, in the same
\* transaction, with the snapshot it had and the class still locked.
PromoteFails(w) ==
  LET s == Next1(job[w].todo)  c == job[w].todo[s]
  IN  /\ Promotes(w) /\ ~Counted(job[w].view[s]) /\ LockFree(w, c)
      /\ ~HasRoom(job[w].view, c) \/ Exists(dossier[s])
      /\ job' = [job EXCEPT ![w].todo = Without(@, s), ![w].held = @ \cup {c}]
      /\ UNCHANGED <<dossier, served>>

PromotionEnds(w) ==
  /\ job[w].step = "promote" /\ DOMAIN job[w].todo = {}
  /\ job' = [job EXCEPT ![w] = Idle]
  /\ UNCHANGED <<dossier, served>>

\* A promotion waits for a class that another one keeps.
WaitsFor(w, v) ==
  /\ Promotes(w) /\ w # v
  /\ job[w].todo[Next1(job[w].todo)] \in job[v].held

no_deadlock_found(w, v) == FALSE

\* InnoDB rolls one of the two back; its session is no longer usable and every student
\* that was left is an error.
InDeadlock(w, v) == WaitsFor(w, v) /\ WaitsFor(v, w)

Victim(w) ==
  /\ \E v \in Worker : InDeadlock(w, v)
  /\ job' = [job EXCEPT ![w] = Idle]
  /\ UNCHANGED <<dossier, served>>

-----------------------------------------------------------------------------
PromotionStep(w) == Skip(w) \/ Promote(w) \/ PromoteFails(w) \/ PromotionEnds(w) \/ Victim(w)

OfficeStep(w, s) ==
  \/ \E c \in Class : create_enrollment(w, s, c)
  \/ \E st \in {"open", "valide", "closed"}, c \in Class : update_enrollment(w, s, st, c)
  \/ validate_enrollment(w, s)
  \/ record_payment(w, s) \/ cancel_last_payment(w, s)
  \/ archive_record(w, s) \/ restore_record(w, s) \/ purge_record(w, s)

WorkerStep(w) ==
  \/ get_db(w) \/ Abandon(w) \/ PromotionStep(w)
  \/ \E s \in Student : OfficeStep(w, s)
  \/ \E todo \in Targets : execute_promotion(w, todo)

EnrolNext == \E w \in Worker : WorkerStep(w)

EnrolSpec == EnrolInit /\ [][EnrolNext]_enrolvars

FairEnrolSpec == EnrolSpec /\ \A w \in Worker : WF_enrolvars(PromotionStep(w))

-----------------------------------------------------------------------------
(***************************************************************************)
(* Properties.                                                              *)
(***************************************************************************)

Steps == {"idle", "read", "promote"}

\* The rows and the requests keep their types.
EnrolTypeOK ==
  /\ dossier \in [Student -> Row]
  /\ job \in [Worker -> [step : Steps, view : [Student -> Row], todo : Targets \cup {<<>>},
                         held : SUBSET Class]]
  /\ served \in 0..MaxRequests

\* The rows a request works on are no longer the committed ones.
WorksOnThePast(w) == job'[w] # job[w] /\ job[w].view # dossier

\* A row of the class that counts again: reopened or restored.
BackInClass(s, c) ==
  Exists(dossier[s]) /\ dossier[s].class = c /\ ~Counted(dossier[s]) /\ Counted(dossier'[s])

\* A class gets more pupils than it has places only from a row that comes back, which no
\* operation counts, or from a request that counted in a snapshot already past
\* (ensure_class_has_room).
OverfullOnlyByOverlap ==
  [][\A c \in Class :
       LET before == Cardinality(InClass(dossier, c))  after == Cardinality(InClass(dossier', c))
       IN  after > before /\ after > max_students[c] =>
             \/ \E s \in Student : BackInClass(s, c)
             \/ \E w \in Worker : WorksOnThePast(w)]_enrolvars

\* A dossier that ever received a payment, even cancelled since, is never purged, however
\* old the snapshot in which the purge looked for payments.
PaidDossierStays ==
  [][\A s \in Student : dossier[s].paid # "never" => Exists(dossier'[s])]_enrolvars

\* A dossier becomes valid with a payment that counts, or with nothing due in cash once its
\* lines are those of its class; unless it changed since the request read it.
ValidatedOnlyPaid ==
  [][\A s \in Student :
       dossier'[s].status = "valide" /\ dossier[s].status # "valide" =>
         \/ ~AwaitingPayment(dossier'[s])
         \/ \E w \in Worker : job'[w] # job[w] /\ job[w].view[s] # dossier[s]]_enrolvars

\* Two promotions that keep each other's class do not wait for ever: every promotion ends.
PromotionsEnd == \A w \in Worker : job[w].step = "promote" ~> job[w].step # "promote"

\* What the recycle bin promises: no money received is in a dossier out of sight.
HiddenHoldsNoMoney == \A s \in Student : dossier[s].hidden => dossier[s].paid # "received"

=============================================================================
