------------------------------ MODULE Council ------------------------------
(***************************************************************************)
(* One class and one trimester, from the marks to the council: the sheets of    *)
(* the teachers, the tickets that lift a zero, the roll call and its entry       *)
(* slips, the bulletins with their ranks, and the minutes of the council.         *)
(*                                                                            *)
(* Averages are in hundredths.  A request reads the committed rows or, when it   *)
(* was late, those of a snapshot taken before another request committed.          *)
(***************************************************************************)
EXTENDS Integers, FiniteSets, FiniteSetsExt

CONSTANTS Pupil,          \* numbered in the order of their names
          Evaluation, Subject,
          exam,           \* the subject and the coefficient of each evaluation
          coefficient,    \* of each subject
          trimester,
          earlier,        \* each pupil's averages of the first two trimesters
          Day,
          Sheets,         \* the sheets a teacher may save
          Calls,          \* the roll calls
          Rulings,        \* the decisions the council may settle at once
          Unset,          \* no value, no row
          MaxServed       \* bound: requests handled

Mark == 0..2000
Average == Mark \cup {Unset}

\* What a sheet says of a pupil: an absence, else a mark or a cell left empty.
GradeEntry == [value : Average, absent : BOOLEAN]

Attendance == {"present", "absent", "late", "excused"}
CouncilDecision == {"passage", "repechage", "redoublement", "exclusion"}

ASSUME CouncilAssumption ==
  /\ Pupil \subseteq Nat /\ IsFiniteSet(Pupil) /\ IsFiniteSet(Evaluation)
  /\ IsFiniteSet(Subject) /\ IsFiniteSet(Day)
  /\ exam \in [Evaluation -> [subject : Subject, coefficient : 1..10]]
  /\ coefficient \in [Subject -> Nat]
  /\ trimester \in 1..3
  /\ earlier \in [Pupil -> Average \X Average]
  /\ \A s \in Sheets : DOMAIN s \subseteq Pupil /\ \A p \in DOMAIN s : s[p] \in GradeEntry
  /\ \A c \in Calls : DOMAIN c \subseteq Pupil /\ \A p \in DOMAIN c : c[p] \in Attendance
  /\ \A d \in Rulings : DOMAIN d \subseteq Pupil /\ \A p \in DOMAIN d : d[p] \in CouncilDecision
  /\ MaxServed \in Nat

VARIABLES roll,           \* the pupils with a valid enrollment in the class
          marks,          \* the cells of each evaluation, once it is created
          tickets,        \* the authorizations to retake
          register,       \* the roll call of each day
          bulletins,      \* rows: nothing but the code makes them one per pupil
          minutes,        \* the minutes of the council, one row by its unique key
          opened,          \* the snapshot of the request that is late
          torn,           \* history: papers were written over papers not read
          handled          \* how many requests were; it numbers the rows

councilvars == <<roll, marks, tickets, register, bulletins, minutes, opened, torn, handled>>

Cell ==
  [value : Average, status : {"pending", "entered", "absent", "retake_allowed"}]

Bulletin ==
  [pupil : Pupil, id : 1..MaxServed, average : Average, rank : Nat \cup {Unset},
   lines : [Subject -> Average], decision : CouncilDecision \cup {Unset},
   published : BOOLEAN, generated_at : 1..MaxServed]

StudentDecision ==
  [average : Average, rank : Nat \cup {Unset}, absences : Nat,
   auto : CouncilDecision, final : CouncilDecision \cup {Unset}]

\* No value, no cell, no column, no decision is not one.
ASSUME UnsetAssumption ==
  Unset \notin Nat \cup Cell \cup [Pupil -> Cell \cup {Unset}]
                 \cup Attendance \cup [Pupil -> Attendance \cup {Unset}] \cup StudentDecision

Stored == [roll |-> roll, marks |-> marks, register |-> register,
           bulletins |-> bulletins, minutes |-> minutes]

PendingFor(P) ==
  [p \in Pupil |-> IF p \in P THEN [value |-> Unset, status |-> "pending"] ELSE Unset]

CouncilInit ==
  /\ roll \in SUBSET Pupil
  /\ marks \in [Evaluation -> {Unset, PendingFor(roll)}]
  /\ tickets = {} /\ bulletins = {} /\ minutes = Unset
  /\ register = [d \in Day |-> Unset]
  /\ opened = Unset /\ torn = FALSE /\ handled = 0

-----------------------------------------------------------------------------
(* Averages and ranks.                                                       *)

quantize(n, d) == (2 * n + d) \div (2 * d)

weighted_avg(value, weight) ==
  LET S == DOMAIN value
      total == MapThenSumSet(LAMBDA x : weight[x], S)
  IN  IF total = 0 THEN Unset
      ELSE quantize(MapThenSumSet(LAMBDA x : value[x] * weight[x], S), total)

Given(R) == {e \in Evaluation : R.marks[e] # Unset}

\* The evaluations whose mark enters the averages of a pupil.
CountedMarks(R, p) ==
  {e \in Given(R) : /\ R.marks[e][p] # Unset
                    /\ R.marks[e][p].status \in {"entered", "absent"}
                    /\ R.marks[e][p].value # Unset}

SubjectAverages(R, p) ==
  [s \in Subject |->
     LET E == {e \in CountedMarks(R, p) : exam[e].subject = s}
     IN  weighted_avg([e \in E |-> R.marks[e][p].value], [e \in E |-> exam[e].coefficient])]

\* The mean of the rounded averages of the subjects, each with its coefficient.
TermAverage(lines) ==
  weighted_avg([s \in {x \in Subject : lines[x] # Unset} |-> lines[s]], coefficient)

\* What a generation computes of each pupil, before the ranks.
Drafts(R) ==
  {[pupil |-> p, lines |-> SubjectAverages(R, p),
    average |-> TermAverage(SubjectAverages(R, p))] : p \in R.roll}

Better(D, avg) == {d \in D : d.average # Unset /\ d.average > avg}

dense_rank(D, avg) ==
  IF avg = Unset THEN Unset ELSE 1 + Cardinality({d.average : d \in Better(D, avg)})

\* 1, 1, 3: those level share a rank, those without an average have none.
CompetitionRank(D, avg) == IF avg = Unset THEN Unset ELSE 1 + Cardinality(Better(D, avg))

compute_council_decision(avg) ==
  IF avg >= 1000 THEN "passage"
  ELSE IF avg >= 950 THEN "repechage"
  ELSE IF avg >= 850 THEN "redoublement"
  ELSE "exclusion"

\* On the year's average, and in the third trimester alone.
BulletinDecision(p, avg) ==
  IF trimester # 3 \/ Unset \in {avg, earlier[p][1], earlier[p][2]} THEN Unset
  ELSE compute_council_decision(quantize(earlier[p][1] + 2 * earlier[p][2] + 2 * avg, 5))

\* The minutes decide on the trimester's.
get_auto_decision(avg) == IF avg = Unset THEN "exclusion" ELSE compute_council_decision(avg)

\* The recapitulation weighs each mark by both coefficients at once.  It lists those
\* without an average among the zeros, by name, and ranks by place in the list.
SummaryAverage(R, p) ==
  weighted_avg([e \in CountedMarks(R, p) |-> R.marks[e][p].value],
               [e \in Evaluation |-> exam[e].coefficient * coefficient[exam[e].subject]])

get_grades_summary(R) ==
  LET L == {[pupil |-> p, average |-> SummaryAverage(R, p)] : p \in R.roll}
      Key(x) == IF x.average = Unset THEN 0 ELSE x.average
      Above(x) == {y \in L : Key(y) > Key(x) \/ (Key(y) = Key(x) /\ y.pupil < x.pupil)}
      \* The marked ones above who do not share the rank: the better, and those before a gap.
      Apart(x) == {y \in Above(x) : /\ y.average # Unset
                                    /\ \/ y.average # x.average
                                       \/ \E u \in Above(x) \ Above(y) : u.average = Unset}
      Rank(x) == IF x.average = Unset THEN Unset
                 ELSE 1 + Max({0} \cup {1 + Cardinality(Above(y)) : y \in Apart(x)})
  IN  {[pupil |-> x.pupil, average |-> x.average, rank |-> Rank(x)] : x \in L}

-----------------------------------------------------------------------------
(* The requests.                                                             *)

Sees(late) == IF late THEN opened ELSE Stored

Takes(late) ==
  /\ handled < MaxServed /\ handled' = handled + 1
  /\ late => opened # Unset
  /\ opened' = IF late THEN Unset ELSE opened

\* With room left for another request and then for this one.
open_snapshot ==
  /\ opened = Unset /\ handled + 2 <= MaxServed
  /\ opened' = Stored
  /\ UNCHANGED <<roll, marks, tickets, register, bulletins, minutes, torn, handled>>

\* The column as the request leaves it: written only when it differs from what was read.
Column(read, new, committed) == IF new = read THEN committed ELSE new

\* An enrollment of the class becomes valid, or ceases to be.
change_enrollment(p) ==
  /\ Takes(FALSE)
  /\ roll' = IF p \in roll THEN roll \ {p} ELSE roll \cup {p}
  /\ UNCHANGED <<marks, tickets, register, bulletins, minutes, torn>>

create_evaluation(late, e) ==
  /\ Takes(late) /\ marks[e] = Unset
  /\ marks' = [marks EXCEPT ![e] = PendingFor(Sees(late).roll)]
  /\ UNCHANGED <<roll, tickets, register, bulletins, minutes, torn>>

\* An empty cell keeps the status of an absence or of a retake, and loses its value.
Saved(entry, cell) ==
  CASE entry.absent -> [value |-> 0, status |-> "absent"]
    [] ~entry.absent /\ entry.value # Unset -> [value |-> entry.value, status |-> "entered"]
    [] OTHER -> [value |-> Unset,
                 status |-> IF cell.status = "entered" THEN "pending" ELSE cell.status]

\* grades:edit is asked of a mark that replaces another, not of an absence.
HasRealEdits(cells, sheet) ==
  \E p \in DOMAIN sheet :
    Unset \notin {sheet[p].value, cells[p].value} /\ cells[p].value # sheet[p].value

batch_update_grades(late, e, sheet, may_edit) ==
  LET R == Sees(late)
  IN  /\ Takes(late) /\ R.marks[e] # Unset
      /\ \A p \in DOMAIN sheet : R.marks[e][p] # Unset
      /\ HasRealEdits(R.marks[e], sheet) => may_edit
      /\ marks' = [marks EXCEPT ![e] =
           [p \in Pupil |-> IF p \in DOMAIN sheet THEN Saved(sheet[p], @[p]) ELSE @[p]]]
      /\ UNCHANGED <<roll, tickets, register, bulletins, minutes, torn>>

\* The ticket reopens the cells; it never enters a mark.
create_authorization(late, p, E) ==
  LET R == Sees(late)
      Reopened(e) == [status |-> "retake_allowed",
                      value |-> Column(R.marks[e][p].value, Unset, marks[e][p].value)]
  IN  /\ Takes(late) /\ p \in R.roll /\ E # {} /\ E \subseteq Given(R)
      /\ \A e \in E : R.marks[e][p] # Unset /\ R.marks[e][p].status = "absent"
      /\ tickets' = tickets \cup {[pupil |-> p, evaluations |-> E, id |-> handled']}
      /\ marks' = [e \in Evaluation |->
                     IF e \in E THEN [marks[e] EXCEPT ![p] = Reopened(e)] ELSE marks[e]]
      /\ UNCHANGED <<roll, register, bulletins, minutes, torn>>

-----------------------------------------------------------------------------
(* The roll call.                                                            *)

\* uq_attendance_context_day: one call a day, whatever was read.
create_session(d, call) ==
  /\ Takes(FALSE) /\ register[d] = Unset
  /\ register' = [register EXCEPT ![d] =
       [p \in Pupil |-> IF p \in DOMAIN call THEN call[p] ELSE Unset]]
  /\ UNCHANGED <<roll, marks, tickets, bulletins, minutes, torn>>

\* A pupil who was not on the call is added: uq_attendance_record_student.
update_session(late, d, call) ==
  LET R == Sees(late)
  IN  /\ Takes(late) /\ R.register[d] # Unset
      /\ \A p \in DOMAIN call : R.register[d][p] = Unset => register[d][p] = Unset
      /\ register' = [register EXCEPT ![d] =
           [p \in Pupil |-> IF p \in DOMAIN call THEN Column(R.register[d][p], call[p], @[p])
                            ELSE @[p]]]
      /\ UNCHANGED <<roll, marks, tickets, bulletins, minutes, torn>>

\* compose, the PDF, then close_absence; a slip printed again writes nothing.
close_absence(late, d, p) ==
  LET R == Sees(late)
  IN  /\ Takes(late) /\ R.register[d] # Unset
      /\ R.register[d][p] \in {"absent", "late"} /\ p \in R.roll
      /\ register' = [register EXCEPT ![d][p] = "excused"]
      /\ UNCHANGED <<roll, marks, tickets, bulletins, minutes, torn>>

count_absences_for_student(R, p) ==
  Cardinality({d \in Day : R.register[d] # Unset /\ R.register[d][p] = "absent"})

-----------------------------------------------------------------------------
(* The bulletins.                                                            *)

Of(rows, p) == {b \in rows : b.pupil = p}

\* scalar_one_or_none: a pupil with two bulletins stops the request.
NoDuplicates(R) == \A p \in R.roll : Cardinality(Of(R.bulletins, p)) <= 1

\* The columns a generation has for a draft.
Computed(D, d) ==
  [average |-> d.average, rank |-> CompetitionRank(D, d.average), lines |-> d.lines,
   decision |-> BulletinDecision(d.pupil, d.average)]

Inserted(new, p, n) ==
  [pupil |-> p, id |-> n, average |-> new.average, rank |-> new.rank, lines |-> new.lines,
   decision |-> new.decision, published |-> FALSE, generated_at |-> n]

\* The lines are deleted and inserted again, the columns written where they changed.
Updated(new, old, b, n) ==
  [b EXCEPT !.average = Column(old.average, new.average, @),
            !.rank = Column(old.rank, new.rank, @),
            !.decision = Column(old.decision, new.decision, @),
            !.lines = new.lines, !.generated_at = n]

\* A row that was read is updated; a pupil of whom none was read gets one.
upsert_bulletins(R, n) ==
  LET D == Drafts(R)
      Draft(p) == CHOOSE d \in D : d.pupil = p
      After(b) ==
        LET read == {old \in R.bulletins : old.pupil = b.pupil /\ old.id = b.id}
        IN  IF b.pupil \notin R.roll \/ read = {} THEN b
            ELSE Updated(Computed(D, Draft(b.pupil)), CHOOSE old \in read : TRUE, b, n)
  IN  {After(b) : b \in bulletins}
      \cup {Inserted(Computed(D, d), d.pupil, n) : d \in {x \in D : Of(R.bulletins, x.pupil) = {}}}

\* The papers of the class were written again since this request read them.
Overwrites(R) ==
  LET Writings(rows) == {<<b.pupil, b.id, b.generated_at>> : b \in rows}
  IN  Writings(bulletins) # Writings(R.bulletins)

generate_bulletins(late) ==
  LET R == Sees(late)
  IN  /\ Takes(late)
      /\ R.roll # {} /\ Given(R) # {} /\ NoDuplicates(R)
      /\ bulletins' = upsert_bulletins(R, handled')
      /\ torn' = (torn \/ Overwrites(R))
      /\ UNCHANGED <<roll, marks, tickets, register, minutes>>

publish_bulletins ==
  /\ Takes(FALSE) /\ \E b \in bulletins : ~b.published
  /\ bulletins' = {[b EXCEPT !.published = TRUE] : b \in bulletins}
  /\ UNCHANGED <<roll, marks, tickets, register, minutes, torn>>

-----------------------------------------------------------------------------
(* The minutes of the council.                                               *)

Decided(R, p) ==
  LET B == Of(R.bulletins, p)
      b == CHOOSE x \in B : TRUE
      avg == IF B = {} THEN Unset ELSE b.average
  IN  [average |-> avg, rank |-> IF B = {} THEN Unset ELSE b.rank,
       absences |-> count_absences_for_student(R, p),
       auto |-> get_auto_decision(avg), final |-> Unset]

SameMinutes(R) == R.minutes # Unset /\ minutes # Unset /\ R.minutes.id = minutes.id

\* The minutes that were read are deleted; uq_council_class_year_trim refuses a second row.
generate_council_minutes(late) ==
  LET R == Sees(late)
  IN  /\ Takes(late) /\ R.roll # {} /\ NoDuplicates(R)
      /\ minutes = Unset \/ SameMinutes(R)
      /\ minutes' = [id |-> handled', published |-> FALSE,
                     of |-> [p \in Pupil |-> IF p \in R.roll THEN Decided(R, p) ELSE Unset]]
      /\ torn' = (torn \/ Overwrites(R))
      /\ UNCHANGED <<roll, marks, tickets, register, bulletins>>

Ruled(row, read, decision) == [row EXCEPT !.final = Column(read.final, decision, @)]

Settled(read, ruling) ==
  [minutes EXCEPT !.of =
    [p \in Pupil |-> IF p \in DOMAIN ruling /\ read.of[p] # Unset
                       THEN Ruled(@[p], read.of[p], ruling[p]) ELSE @[p]]]

\* Refused once the minutes are validated, as far as the request read.
update_decisions_batch(late, ruling) ==
  LET R == Sees(late)
  IN  /\ Takes(late) /\ SameMinutes(R) /\ ~R.minutes.published
      /\ minutes' = Settled(R.minutes, ruling)
      /\ UNCHANGED <<roll, marks, tickets, register, bulletins, torn>>

\* For one pupil, validated or not.
override_decision(late, p, decision) ==
  LET R == Sees(late)
  IN  /\ Takes(late) /\ SameMinutes(R) /\ R.minutes.of[p] # Unset
      /\ minutes' = Settled(R.minutes, [q \in {p} |-> decision])
      /\ UNCHANGED <<roll, marks, tickets, register, bulletins, torn>>

validate_council_minutes(late) ==
  /\ Takes(late) /\ SameMinutes(Sees(late))
  /\ minutes' = [minutes EXCEPT !.published = TRUE]
  /\ UNCHANGED <<roll, marks, tickets, register, bulletins, torn>>

-----------------------------------------------------------------------------
MarksStep ==
  \/ \E p \in Pupil : change_enrollment(p)
  \/ \E e \in Evaluation, late \in BOOLEAN : create_evaluation(late, e)
  \/ \E e \in Evaluation, late, may_edit \in BOOLEAN, s \in Sheets :
       batch_update_grades(late, e, s, may_edit)
  \/ \E p \in Pupil, late \in BOOLEAN, E \in SUBSET Evaluation : create_authorization(late, p, E)

CallStep ==
  \E d \in Day :
    \/ \E c \in Calls : create_session(d, c)
    \/ \E c \in Calls, late \in BOOLEAN : update_session(late, d, c)
    \/ \E p \in Pupil, late \in BOOLEAN : close_absence(late, d, p)

CouncilStep ==
  \/ \E late \in BOOLEAN : generate_bulletins(late)
  \/ publish_bulletins
  \/ \E late \in BOOLEAN : generate_council_minutes(late)
  \/ \E late \in BOOLEAN, d \in Rulings : update_decisions_batch(late, d)
  \/ \E late \in BOOLEAN, d \in Rulings : \E p \in DOMAIN d : override_decision(late, p, d[p])
  \/ \E late \in BOOLEAN : validate_council_minutes(late)

CouncilNext == open_snapshot \/ MarksStep \/ CallStep \/ CouncilStep

CouncilSpec == CouncilInit /\ [][CouncilNext]_councilvars

-----------------------------------------------------------------------------
(***************************************************************************)
(* Properties.                                                              *)
(***************************************************************************)

\* The rows keep their types, and a cell without a value is not an entered mark.
CouncilTypeOK ==
  /\ roll \subseteq Pupil
  /\ marks \in [Evaluation -> [Pupil -> Cell \cup {Unset}] \cup {Unset}]
  /\ \A e \in Given(Stored), p \in Pupil :
       marks[e][p] # Unset /\ marks[e][p].status = "entered" => marks[e][p].value # Unset
  /\ register \in [Day -> [Pupil -> Attendance \cup {Unset}] \cup {Unset}]
  /\ tickets \subseteq [pupil : Pupil, evaluations : SUBSET Evaluation, id : 1..MaxServed]
  /\ \A b \in bulletins : b \in Bulletin
  /\ minutes # Unset => /\ minutes.id \in 1..MaxServed /\ minutes.published \in BOOLEAN
                        /\ minutes.of \in [Pupil -> StudentDecision \cup {Unset}]
  /\ torn \in BOOLEAN /\ handled \in 0..MaxServed

OneBulletinEach == \A b, c \in bulletins : b.pupil = c.pupil => b = c

\* The averages are those of the lines, and the ranks those of the averages: in order among
\* the bulletins generated together, without a hole in the last generation, which wrote all
\* of its class.
RanksFollowAverages ==
  LET last == Max({b.generated_at : b \in bulletins})
  IN  \A b \in bulletins :
        LET Peers == {c \in bulletins : c.generated_at = b.generated_at /\ c.average # Unset}
        IN  /\ b.average = TermAverage(b.lines)
            /\ b.rank = Unset <=> b.average = Unset
            /\ b \in Peers =>
                 /\ \A c \in Peers : b.rank < c.rank <=> b.average > c.average
                 /\ b.generated_at = last =>
                      b.rank + Cardinality({c \in Peers : c.average <= b.average})
                        = Cardinality(Peers) + 1

\* The minutes quote the bulletins, for whoever's was not generated again since.
MinutesQuoteBulletins ==
  minutes # Unset =>
    \A p \in Pupil :
      LET B == Of(bulletins, p)
          said == minutes.of[p]
      IN  said # Unset =>
            /\ said.auto = "exclusion" <=> said.average = Unset \/ said.average < 850
            /\ B = {} => said.average = Unset
            /\ \A b \in B : b.generated_at < minutes.id
                             => said.average = b.average /\ said.rank = b.rank

\* The recapitulation too gives one rank to equal averages, and the better rank to the
\* better: except among zeros, which an unmarked pupil listed between them separates.
SummaryRanksTies ==
  LET Marked == {x \in get_grades_summary(Stored) : x.average # Unset}
  IN  \A x, y \in Marked :
        /\ x.average > y.average => x.rank < y.rank
        /\ x.average = y.average /\ x.average # 0 => x.rank = y.rank

\* The papers of a class agree: one bulletin per pupil, its average that of its lines, its
\* rank that of its average among those generated with it, and minutes that quote the
\* bulletins.  Only a generation that overlapped another, or minutes drawn from bulletins
\* rewritten meanwhile, may break that: no key keeps the bulletins apart
\* (reports_repository.upsert_bulletin).
PapersAgree ==
  /\ torn \/ (OneBulletinEach /\ RanksFollowAverages /\ MinutesQuoteBulletins)
  /\ SummaryRanksTies

\* A pupil absent from an evaluation has a zero for it, which enters his averages: only a
\* cell never filled is left out of them (get_entered_grades_for_evaluations).
AbsenceIsAZero ==
  \A e \in Given(Stored), p \in Pupil :
    marks[e][p] # Unset /\ marks[e][p].status = "absent" => marks[e][p].value = 0

\* Minutes that were validated change no more (validate_council_minutes).
ValidatedMinutesStand ==
  [][minutes # Unset /\ minutes.published => minutes' = minutes]_councilvars
=============================================================================
