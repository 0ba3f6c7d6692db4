---------------------------- MODULE CouncilProofs ----------------------------
(***************************************************************************)
(* Proofs about the papers of a class (module Council), for any pupils,          *)
(* evaluations, marks, calls and decisions, and any number of requests, late or  *)
(* not: the rows keep their types, and bulletins, ranks, minutes and              *)
(* recapitulation agree unless a paper was written over papers not read.          *)
(***************************************************************************)
EXTENDS Council, FeeRulesProofs

-----------------------------------------------------------------------------
(* Averages. *)

\* The best mark.
Top == 2000

\* Rounding a quotient that is at most twenty stays at most twenty.
LEMMA QuantizeBounds ==
  ASSUME NEW n \in Nat, NEW d \in Nat, d > 0, n <= Top * d
  PROVE  quantize(n, d) \in 0..Top
<1> USE DEF Top
<1> DEFINE x == 2 * n + d
           y == 2 * d
           q == x \div y
<1>1. x \in Nat /\ y \in Nat /\ y > 0 /\ x < 2001 * y
  OBVIOUS
<1>2. q \in Int /\ q * y <= x /\ x < (q + 1) * y
  <2> HIDE DEF x, y
  <2> QED
    BY <1>1
<1>3. q >= 0
  <2> HIDE DEF x, q
  <2>1. CASE q <= -1
    <3>1. (q + 1) * y <= 0
      BY <1>1, <1>2, <2>1
    <3> QED
      BY <1>1, <1>2, <3>1
  <2> QED
    BY <1>2, <2>1
<1>4. q <= 2000
  <2> HIDE DEF x, q
  <2>1. CASE q >= 2001
    <3>1. q * y >= 2001 * y
      BY <1>1, <1>2, <2>1
    <3> QED
      BY <1>1, <1>2, <3>1
  <2> QED
    BY <1>2, <2>1
<1> QED
  BY <1>2, <1>3, <1>4 DEF quantize

\* The two folds of a weighted average are sums over a set.
LEMMA WeighedIs ==
  ASSUME NEW value, NEW weight, IsFiniteSet(DOMAIN value),
         \A x \in DOMAIN value : value[x] \in Mark /\ weight[x] \in Nat
  PROVE  LET S == DOMAIN value
             w == [x \in S |-> value[x] * weight[x]]
         IN  /\ MapThenSumSet(LAMBDA x : weight[x], S) = SetSum(weight, S)
             /\ MapThenSumSet(LAMBDA x : value[x] * weight[x], S) = SetSum(w, S)
<1> DEFINE S == DOMAIN value
           w == [x \in S |-> value[x] * weight[x]]
           more(f, s) == IF s = {} THEN 0
                         ELSE (value[CHOOSE x \in s : TRUE] * weight[CHOOSE x \in s : TRUE])
                              + f[s \ {CHOOSE x \in s : TRUE}]
           F == CHOOSE f : f = [s \in SUBSET S |-> more(f, s)]
<1>1. \A f, s : s \in SUBSET S => more(f, s) = NextSum(f, w, s)
  BY DEF NextSum, Chosen
<1>2. w \in [S -> Int]
  <2>1. \A m \in Mark, n \in Nat : m * n \in Int
    BY DEF Mark
  <2> QED
    BY <2>1
<1>3. PICK g : Adds(g, w, S)
  <2> HIDE DEF w, more, S
  <2> QED
    BY <1>2, AddsExists DEF S
<1>4. g = [s \in SUBSET S |-> more(g, s)]
  <2> HIDE DEF more, w, S
  <2> QED
    BY <1>1, <1>3 DEF Adds
<1>5. F = [s \in SUBSET S |-> more(F, s)]
  <2> HIDE DEF more, S
  <2> QED
    BY <1>4
<1>6. Adds(F, w, S)
  <2> HIDE DEF more, F, w, S
  <2> QED
    BY <1>1, <1>5 DEF Adds
<1>7. MapThenSumSet(LAMBDA x : value[x] * weight[x], S) = F[S]
  BY Zenon DEF MapThenSumSet, MapThenFoldSet
<1>8. SetSum(w, S) = F[S]
  <2>1. \A x \in S : w[x] \in Int
    BY <1>2
  <2> HIDE DEF F, w, S
  <2> QED
    BY <1>6, <2>1, SetSumIs DEF S
<1>9. MapThenSumSet(LAMBDA x : weight[x], S) = SetSum(weight, S)
  BY Zenon DEF SetSum
<1> QED
  BY <1>7, <1>8, <1>9, Zenon

\* A weighted average of marks is a mark, or none.
LEMMA WeightedAvgType ==
  ASSUME NEW value, NEW weight, IsFiniteSet(DOMAIN value),
         \A x \in DOMAIN value : value[x] \in Mark /\ weight[x] \in Nat
  PROVE  weighted_avg(value, weight) \in Average
<1> DEFINE S == DOMAIN value
           w == [x \in S |-> value[x] * weight[x]]
           u == [x \in S |-> Top * weight[x]]
<1>1. \A m \in Mark, n \in Nat : m * n \in Nat /\ m * n <= Top * n
  <2> SUFFICES ASSUME NEW m \in Mark, NEW n \in Nat PROVE m * n \in Nat /\ m * n <= Top * n
    OBVIOUS
  <2>1. m \in Int /\ 0 <= m /\ m <= Top /\ Top \in Nat
    BY DEF Mark, Top
  <2> QED
    BY <2>1
<1>2. \A x \in S : w[x] \in Nat /\ u[x] \in Int /\ w[x] <= u[x]
  BY <1>1 DEF Top
<1> DEFINE total == SetSum(weight, S)
           sum == SetSum(w, S)
<1>3. total \in Nat
  BY SetSumNat
<1>4. sum \in Nat /\ sum <= Top * total
  <2>0. Top \in Int
    BY DEF Top
  <2>1. \A x \in S : weight[x] \in Int /\ u[x] = Top * weight[x]
    OBVIOUS
  <2> HIDE DEF w, u, S
  <2>2. sum \in Nat /\ sum <= SetSum(u, S)
    BY <1>2, SetSumNat, SetSumMono DEF S
  <2>3. SetSum(u, S) = Top * total
    BY <2>0, <2>1, SetSumScale DEF S
  <2> QED
    BY <2>2, <2>3
<1>5. weighted_avg(value, weight) = IF total = 0 THEN Unset ELSE quantize(sum, total)
  BY WeighedIs, Zenon DEF weighted_avg
<1> HIDE DEF total, sum
<1>6. CASE total = 0
  BY <1>5, <1>6 DEF Average
<1>7. CASE total # 0
  <2>1. total > 0
    BY <1>3, <1>7
  <2>2. quantize(sum, total) \in 0..Top
    <3> HIDE DEF S, w, u
    <3> QED
      BY <1>3, <1>4, <2>1, QuantizeBounds
  <2> QED
    BY <1>5, <1>7, <2>2 DEF Average, Mark, Top
<1> QED
  BY <1>6, <1>7

-----------------------------------------------------------------------------
(* The rows. *)

Columns == [Pupil -> Cell \cup {Unset}]
CallOf == [Pupil -> Attendance \cup {Unset}]
Minutes == [id : 1..MaxServed, published : BOOLEAN, of : [Pupil -> StudentDecision \cup {Unset}]]

RowsOK(R) ==
  /\ R.roll \subseteq Pupil
  /\ R.marks \in [Evaluation -> Columns \cup {Unset}]
  /\ \A e \in Evaluation, p \in Pupil :
       R.marks[e] # Unset /\ R.marks[e][p] # Unset =>
         (R.marks[e][p].status = "entered" => R.marks[e][p].value # Unset)
  /\ R.register \in [Day -> CallOf \cup {Unset}]
  /\ \A b \in R.bulletins : b \in Bulletin
  /\ R.minutes # Unset => R.minutes \in Minutes /\ R.minutes.id <= handled

\* What a request read, against what is committed now.
ReadOK(R) ==
  /\ RowsOK(R)
  /\ \A e \in Evaluation : R.marks[e] # Unset =>
       marks[e] # Unset /\ \A p \in Pupil : R.marks[e][p] # Unset => marks[e][p] # Unset
  /\ \A d \in Day : R.register[d] # Unset => register[d] # Unset
  /\ R.minutes # Unset /\ minutes # Unset /\ R.minutes.id = minutes.id =>
       \A p \in Pupil : R.minutes.of[p] # Unset => minutes.of[p] \in StudentDecision

Books ==
  /\ tickets \subseteq [pupil : Pupil, evaluations : SUBSET Evaluation, id : 1..MaxServed]
  /\ torn \in BOOLEAN /\ handled \in 0..MaxServed

RowsInv == ReadOK(Stored) /\ (opened # Unset => ReadOK(opened)) /\ Books

\* What a request reads, now or from its snapshot, is well formed.
LEMMA SeesOK ==
  ASSUME RowsInv, NEW late \in BOOLEAN, Takes(late)
  PROVE  /\ ReadOK(Sees(late))
         /\ handled' \in 1..MaxServed /\ handled' = handled + 1 /\ handled \in Nat
<1>1. ReadOK(Sees(late))
  BY DEF RowsInv, Takes, Sees
<1> QED
  BY <1>1, CouncilAssumption DEF RowsInv, Books, Takes

\* What a request leaves.
LEMMA StepOK ==
  ASSUME RowsInv, NEW late \in BOOLEAN, Takes(late), RowsOK(Stored)',
         \A e \in Evaluation : marks[e] # Unset =>
            marks'[e] # Unset /\ \A p \in Pupil : marks[e][p] # Unset => marks'[e][p] # Unset,
         \A d \in Day : register[d] # Unset => register'[d] # Unset,
         minutes' # Unset => minutes'.id > handled \/
            /\ minutes # Unset /\ minutes.id = minutes'.id
            /\ \A p \in Pupil : minutes.of[p] \in StudentDecision => minutes'.of[p] \in StudentDecision,
         tickets' \subseteq [pupil : Pupil, evaluations : SUBSET Evaluation, id : 1..MaxServed],
         torn' \in BOOLEAN
  PROVE  RowsInv'
<1>1. handled' = handled + 1 /\ handled' \in 0..MaxServed /\ handled \in Nat
  BY SeesOK
<1>2. Books'
  BY <1>1 DEF Books
<1>3. ReadOK(Stored)'
  <2>1. \A p \in Pupil : minutes' # Unset /\ minutes'.of[p] # Unset => minutes'.of[p] \in StudentDecision
    BY DEF RowsOK, Stored, Minutes
  <2> QED
    BY <2>1 DEF ReadOK, Stored
<1>4. ASSUME opened' # Unset PROVE ReadOK(opened)'
  <2>1. opened' = opened /\ ReadOK(opened)
    BY <1>4 DEF Takes, RowsInv
  <2>2. RowsOK(opened)'
    BY <1>1, <2>1 DEF ReadOK, RowsOK, Minutes
  <2>3. \A e \in Evaluation : opened.marks[e] # Unset =>
          marks'[e] # Unset /\ \A p \in Pupil : opened.marks[e][p] # Unset => marks'[e][p] # Unset
    BY <2>1 DEF ReadOK
  <2>4. \A d \in Day : opened.register[d] # Unset => register'[d] # Unset
    BY <2>1 DEF ReadOK
  <2>5. ASSUME opened.minutes # Unset, minutes' # Unset, opened.minutes.id = minutes'.id
        PROVE  \A p \in Pupil : opened.minutes.of[p] # Unset => minutes'.of[p] \in StudentDecision
    <3>1. opened.minutes.id <= handled /\ opened.minutes.id \in Nat
      BY <2>1, <2>5 DEF ReadOK, RowsOK, Minutes
    <3>2. ~(minutes'.id > handled)
      BY <1>1, <2>5, <3>1
    <3> QED
      BY <2>1, <2>5, <3>2 DEF ReadOK
  <2> QED
    BY <2>1, <2>2, <2>3, <2>4, <2>5 DEF ReadOK
<1> QED
  BY <1>2, <1>3, <1>4 DEF RowsInv

\* A request that leaves these alone.
LEMMA Kept5 ==
  ASSUME RowsInv, NEW late \in BOOLEAN, Takes(late)
  PROVE  /\ UNCHANGED minutes => (minutes' # Unset => minutes'.id > handled \/
            /\ minutes # Unset /\ minutes.id = minutes'.id
            /\ \A p \in Pupil : minutes.of[p] \in StudentDecision => minutes'.of[p] \in StudentDecision)
         /\ UNCHANGED minutes => (minutes' # Unset => minutes' \in Minutes /\ minutes'.id <= handled')
         /\ UNCHANGED bulletins => \A b \in bulletins' : b \in Bulletin
         /\ UNCHANGED roll => roll' \subseteq Pupil
         /\ UNCHANGED register => register' \in [Day -> CallOf \cup {Unset}]
         /\ UNCHANGED marks => /\ marks' \in [Evaluation -> Columns \cup {Unset}]
                               /\ \A e \in Evaluation, p \in Pupil :
                                    marks'[e] # Unset /\ marks'[e][p] # Unset =>
                                      (marks'[e][p].status = "entered" => marks'[e][p].value # Unset)
<1>1. handled' = handled + 1 /\ handled \in Nat /\ RowsOK(Stored)
  BY SeesOK DEF RowsInv, ReadOK
<1> QED
  BY <1>1 DEF RowsOK, Stored, Minutes

\* A mark that counts was entered.
LEMMA CountedIs ==
  ASSUME NEW R, RowsOK(R), NEW p \in Pupil, NEW e \in CountedMarks(R, p)
  PROVE  /\ e \in Evaluation /\ R.marks[e][p].value \in Mark
         /\ exam[e].coefficient \in Nat /\ exam[e].subject \in Subject
<1>1. e \in Evaluation /\ R.marks[e] \in Columns /\ R.marks[e][p] # Unset /\ R.marks[e][p].value # Unset
  BY DEF CountedMarks, Given, RowsOK
<1>2. R.marks[e][p] \in Cell
  BY <1>1 DEF Columns
<1>3. exam[e] \in [subject : Subject, coefficient : 1..10]
  BY <1>1, CouncilAssumption
<1> QED
  BY <1>1, <1>2, <1>3 DEF Cell, Average

\* The averages by subject are marks, or none.
LEMMA LinesType ==
  ASSUME NEW R, RowsOK(R), NEW p \in Pupil
  PROVE  SubjectAverages(R, p) \in [Subject -> Average]
<1> SUFFICES ASSUME NEW s \in Subject
             PROVE  LET E == {e \in CountedMarks(R, p) : exam[e].subject = s}
                    IN  weighted_avg([e \in E |-> R.marks[e][p].value],
                                     [e \in E |-> exam[e].coefficient]) \in Average
  BY DEF SubjectAverages
<1> DEFINE E == {e \in CountedMarks(R, p) : exam[e].subject = s}
           value == [e \in E |-> R.marks[e][p].value]
           weight == [e \in E |-> exam[e].coefficient]
<1>1. E \in SUBSET Evaluation /\ \A e \in E : value[e] \in Mark /\ weight[e] \in Nat
  BY CountedIs
<1>2. IsFiniteSet(E)
  BY <1>1, CouncilAssumption, FS_Subset
<1>3. DOMAIN value = E
  OBVIOUS
<1> HIDE DEF E, value, weight
<1>4. weighted_avg(value, weight) \in Average
  BY <1>1, <1>2, <1>3, WeightedAvgType
<1> QED
  BY <1>4 DEF E, value, weight

\* So is the average of the term.
LEMMA TermType ==
  ASSUME NEW lines \in [Subject -> Average]
  PROVE  TermAverage(lines) \in Average
<1> DEFINE S == {x \in Subject : lines[x] # Unset}
           value == [s \in S |-> lines[s]]
<1>1. S \in SUBSET Subject /\ DOMAIN value = S
  OBVIOUS
<1>2. \A s \in S : value[s] \in Mark /\ coefficient[s] \in Nat
  BY CouncilAssumption DEF Average
<1>3. IsFiniteSet(S)
  BY <1>1, CouncilAssumption, FS_Subset
<1> HIDE DEF value, S
<1>4. weighted_avg(value, coefficient) \in Average
  BY <1>1, <1>2, <1>3, WeightedAvgType
<1> QED
  BY <1>4 DEF TermAverage, value, S

\* So is the average of the recapitulation.
LEMMA SummaryType ==
  ASSUME NEW R, RowsOK(R), NEW p \in Pupil
  PROVE  SummaryAverage(R, p) \in Average
<1> DEFINE E == CountedMarks(R, p)
           value == [e \in E |-> R.marks[e][p].value]
           weight == [e \in Evaluation |-> exam[e].coefficient * coefficient[exam[e].subject]]
<1>1. ASSUME NEW e \in E PROVE e \in Evaluation /\ value[e] \in Mark /\ weight[e] \in Nat
  <2>1. e \in Evaluation /\ value[e] \in Mark /\ exam[e].coefficient \in Nat /\ exam[e].subject \in Subject
    BY CountedIs
  <2>2. coefficient[exam[e].subject] \in Nat
    BY <2>1, CouncilAssumption
  <2>3. \A m, n \in Nat : m * n \in Nat
    OBVIOUS
  <2> HIDE DEF E, value
  <2> QED
    BY <2>1, <2>2, <2>3
<1>2. E \in SUBSET Evaluation
  BY <1>1
<1>3. IsFiniteSet(E) /\ DOMAIN value = E
  BY <1>2, CouncilAssumption, FS_Subset
<1> HIDE DEF E, value, weight
<1>4. weighted_avg(value, weight) \in Average
  BY <1>1, <1>3, WeightedAvgType
<1> QED
  BY <1>4 DEF SummaryAverage, value, weight, E

\* A draft is typed, and there is one for each pupil of the class.
Draft == [pupil : Pupil, lines : [Subject -> Average], average : Average]

\* A generation drafts one bulletin for each pupil on the roll.
LEMMA DraftsType ==
  ASSUME NEW R, RowsOK(R)
  PROVE  /\ \A d \in Drafts(R) : /\ d \in Draft /\ d.pupil \in R.roll
                                 /\ d.average = TermAverage(d.lines)
         /\ \A c, d \in Drafts(R) : c.pupil = d.pupil => c = d
         /\ \A p \in R.roll : \E d \in Drafts(R) : d.pupil = p
         /\ IsFiniteSet(Drafts(R))
<1> DEFINE f == [p \in R.roll |-> [pupil |-> p, lines |-> SubjectAverages(R, p),
                                   average |-> TermAverage(SubjectAverages(R, p))]]
<1>1. R.roll \in SUBSET Pupil
  BY DEF RowsOK
<1>2. Drafts(R) = {f[p] : p \in R.roll}
  BY DEF Drafts
<1>3. ASSUME NEW p \in R.roll
      PROVE  f[p] \in Draft /\ f[p].pupil = p /\ f[p].average = TermAverage(f[p].lines)
  <2>1. SubjectAverages(R, p) \in [Subject -> Average] /\ TermAverage(SubjectAverages(R, p)) \in Average
    BY <1>1, LinesType, TermType
  <2> QED
    BY <1>1, <2>1 DEF Draft
<1>4. IsFiniteSet(R.roll)
  BY <1>1, CouncilAssumption, FS_Subset
<1> HIDE DEF f
<1>5. IsFiniteSet(Drafts(R))
  <2>1. DOMAIN f = R.roll /\ f \in [R.roll -> Drafts(R)]
    BY <1>2 DEF f
  <2>2. f \in Surjection(R.roll, Drafts(R))
    BY <1>2, <2>1 DEF Surjection
  <2> QED
    BY <1>4, <2>2, FS_Surjection
<1> QED
  BY <1>2, <1>3, <1>5

-----------------------------------------------------------------------------
(* The requests keep the rows. *)

\* No value of these sorts is the mark of none.
LEMMA NotUnset ==
  /\ \A n \in Nat : n # Unset
  /\ \A c \in Cell : c # Unset
  /\ \A c \in Columns : c # Unset
  /\ \A a \in Attendance : a # Unset
  /\ \A c \in CallOf : c # Unset
  /\ \A c \in StudentDecision : c # Unset
<1> QED
  BY UnsetAssumption, Zenon DEF Columns, CallOf

\* A column just created awaits all its marks.
LEMMA PendingType ==
  ASSUME NEW P
  PROVE  /\ PendingFor(P) \in Columns
         /\ \A p \in Pupil : PendingFor(P)[p] # Unset => PendingFor(P)[p].status = "pending"
<1>1. [value |-> Unset, status |-> "pending"] \in Cell
  BY DEF Cell, Average
<1> QED
  BY <1>1 DEF PendingFor, Columns

\* Each of the requests keeps the rows well formed: a snapshot is what is stored;
LEMMA OpenSnapshotKeeps == RowsInv /\ open_snapshot => RowsInv'
<1> SUFFICES ASSUME RowsInv, open_snapshot PROVE RowsInv'
  OBVIOUS
<1>1. opened' = Stored /\ Stored' = Stored /\ UNCHANGED <<roll, marks, tickets, register, bulletins, minutes, torn, handled>>
  BY DEF open_snapshot, Stored
<1>2. ReadOK(Stored)'
  BY <1>1 DEF RowsInv, ReadOK, RowsOK
<1>3. ReadOK(opened)'
  BY <1>1, <1>2 DEF ReadOK, RowsOK
<1> QED
  BY <1>1, <1>2, <1>3 DEF RowsInv, Books

\* a pupil comes or leaves;
LEMMA EnrollmentKeeps ==
  ASSUME RowsInv, NEW p \in Pupil, change_enrollment(p) PROVE RowsInv'
<1>1. Takes(FALSE) /\ UNCHANGED <<marks, tickets, register, bulletins, minutes, torn>>
  BY DEF change_enrollment
<1>2. roll' \subseteq Pupil
  BY DEF change_enrollment, RowsInv, ReadOK, RowsOK, Stored
<1>3. RowsOK(Stored)'
  BY <1>1, <1>2, Kept5 DEF RowsOK, Stored
<1>4. tickets' \subseteq [pupil : Pupil, evaluations : SUBSET Evaluation, id : 1..MaxServed] /\ torn' \in BOOLEAN
  BY <1>1 DEF RowsInv, Books
<1> QED
  BY <1>1, <1>3, <1>4, StepOK, Kept5

\* an evaluation is given;
LEMMA EvaluationKeeps ==
  ASSUME RowsInv, NEW late \in BOOLEAN, NEW e \in Evaluation, create_evaluation(late, e) PROVE RowsInv'
<1>1. Takes(late) /\ UNCHANGED <<roll, tickets, register, bulletins, minutes, torn>> /\ marks[e] = Unset
      /\ marks' = [marks EXCEPT ![e] = PendingFor(Sees(late).roll)]
  BY DEF create_evaluation
<1>2. marks \in [Evaluation -> Columns \cup {Unset}]
      /\ \A f \in Evaluation, p \in Pupil :
           marks[f] # Unset /\ marks[f][p] # Unset => (marks[f][p].status = "entered" => marks[f][p].value # Unset)
  BY DEF RowsInv, ReadOK, RowsOK, Stored
<1> DEFINE new == PendingFor(Sees(late).roll)
<1>3. new \in Columns /\ \A p \in Pupil : new[p] # Unset => new[p].status = "pending"
  BY PendingType
<1> HIDE DEF new
<1>4. marks' \in [Evaluation -> Columns \cup {Unset}]
      /\ \A f \in Evaluation, p \in Pupil :
           marks'[f] # Unset /\ marks'[f][p] # Unset => (marks'[f][p].status = "entered" => marks'[f][p].value # Unset)
  <2>1. \A f \in Evaluation : marks'[f] = IF f = e THEN new ELSE marks[f]
    BY <1>1, <1>2 DEF new
  <2>2. marks' \in [Evaluation -> Columns \cup {Unset}]
    BY <1>1, <1>2, <1>3 DEF new
  <2> QED
    BY <1>2, <1>3, <2>1, <2>2
<1>5. RowsOK(Stored)'
  BY <1>1, <1>4, Kept5 DEF RowsOK, Stored
<1>6. \A f \in Evaluation : marks[f] # Unset =>
            marks'[f] # Unset /\ \A p \in Pupil : marks[f][p] # Unset => marks'[f][p] # Unset
  BY <1>1, <1>2
<1>7. tickets' \subseteq [pupil : Pupil, evaluations : SUBSET Evaluation, id : 1..MaxServed] /\ torn' \in BOOLEAN
  BY <1>1 DEF RowsInv, Books
<1>8. \A d \in Day : register[d] # Unset => register'[d] # Unset
  BY <1>1
<1> QED
  BY <1>1, <1>5, <1>6, <1>7, <1>8, StepOK, Kept5

\* a cell that is saved as entered has a value,
LEMMA SavedType ==
  ASSUME NEW entry \in GradeEntry, NEW cell \in Cell
  PROVE  /\ Saved(entry, cell) \in Cell
         /\ Saved(entry, cell).status = "entered" => Saved(entry, cell).value # Unset
<1>1. 0 \in Average
  BY DEF Average, Mark
<1>2. 0 \in Nat
  OBVIOUS
<1>a. entry.value \in Average /\ entry.absent \in BOOLEAN /\ cell.status \in {"pending", "entered", "absent", "retake_allowed"}
  BY DEF GradeEntry, Cell
<1>3. CASE entry.absent
  BY <1>1, <1>3 DEF Saved, Cell
<1>4. CASE ~entry.absent /\ entry.value # Unset
  BY <1>a, <1>4 DEF Saved, Cell
<1>5. CASE ~entry.absent /\ entry.value = Unset
  <2>1. Unset \in Average
    BY DEF Average
  <2>2. Saved(entry, cell) = [value |-> Unset,
                 status |-> IF cell.status = "entered" THEN "pending" ELSE cell.status]
    BY <1>5 DEF Saved
  <2> QED
    BY <1>a, <2>1, <2>2 DEF Cell
<1> QED
  BY <1>3, <1>4, <1>5

\* a sheet of marks is saved;
LEMMA SheetKeeps ==
  ASSUME RowsInv, NEW late \in BOOLEAN, NEW may_edit \in BOOLEAN, NEW e \in Evaluation, NEW s \in Sheets,
         batch_update_grades(late, e, s, may_edit)
  PROVE  RowsInv'
<1>1. Takes(late) /\ UNCHANGED <<roll, tickets, register, bulletins, minutes, torn>>
      /\ Sees(late).marks[e] # Unset /\ (\A p \in DOMAIN s : Sees(late).marks[e][p] # Unset)
      /\ marks' = [marks EXCEPT ![e] =
           [p \in Pupil |-> IF p \in DOMAIN s THEN Saved(s[p], marks[e][p]) ELSE marks[e][p]]]
  BY DEF batch_update_grades
<1>2. marks \in [Evaluation -> Columns \cup {Unset}]
      /\ \A f \in Evaluation, p \in Pupil :
           marks[f] # Unset /\ marks[f][p] # Unset => (marks[f][p].status = "entered" => marks[f][p].value # Unset)
  BY DEF RowsInv, ReadOK, RowsOK, Stored
<1>3. marks[e] # Unset /\ \A p \in DOMAIN s : p \in Pupil /\ marks[e][p] # Unset
  BY <1>1, SeesOK, CouncilAssumption DEF ReadOK
<1>4. marks[e] \in Columns
  BY <1>2, <1>3
<1> DEFINE new == [p \in Pupil |-> IF p \in DOMAIN s THEN Saved(s[p], marks[e][p]) ELSE marks[e][p]]
<1>5. ASSUME NEW p \in Pupil
      PROVE  /\ new[p] \in Cell \cup {Unset} /\ (marks[e][p] # Unset => new[p] # Unset)
             /\ new[p] # Unset => (new[p].status = "entered" => new[p].value # Unset)
  <2>1. CASE p \in DOMAIN s
    <3>1. s[p] \in GradeEntry /\ marks[e][p] \in Cell
      BY <1>3, <1>4, <2>1, CouncilAssumption DEF Columns
    <3> QED
      BY <2>1, <3>1, SavedType, NotUnset
  <2>2. CASE p \notin DOMAIN s
    BY <1>2, <1>3, <1>4, <2>2 DEF Columns
  <2> QED
    BY <2>1, <2>2
<1>6. new \in Columns
  BY <1>5 DEF Columns
<1>7. new # Unset
  BY <1>6, NotUnset
<1>8. marks' = [marks EXCEPT ![e] = new]
  BY <1>1
<1> HIDE DEF new
<1>9. \A f \in Evaluation : marks'[f] = IF f = e THEN new ELSE marks[f]
  BY <1>2, <1>8
<1>10. marks' \in [Evaluation -> Columns \cup {Unset}]
      /\ \A f \in Evaluation, p \in Pupil :
           marks'[f] # Unset /\ marks'[f][p] # Unset => (marks'[f][p].status = "entered" => marks'[f][p].value # Unset)
  BY <1>2, <1>5, <1>6, <1>8, <1>9
<1>11. RowsOK(Stored)'
  BY <1>1, <1>10, Kept5 DEF RowsOK, Stored
<1>12. \A f \in Evaluation : marks[f] # Unset =>
            marks'[f] # Unset /\ \A p \in Pupil : marks[f][p] # Unset => marks'[f][p] # Unset
  BY <1>5, <1>7, <1>9
<1>13. tickets' \subseteq [pupil : Pupil, evaluations : SUBSET Evaluation, id : 1..MaxServed] /\ torn' \in BOOLEAN
  BY <1>1 DEF RowsInv, Books
<1>14. \A d \in Day : register[d] # Unset => register'[d] # Unset
  BY <1>1
<1> QED
  BY <1>1, <1>11, <1>12, <1>13, <1>14, StepOK, Kept5

\* a retake is authorised;
LEMMA TicketKeeps ==
  ASSUME RowsInv, NEW late \in BOOLEAN, NEW p \in Pupil, NEW E \in SUBSET Evaluation,
         create_authorization(late, p, E)
  PROVE  RowsInv'
<1> DEFINE R == Sees(late)
           Reopened(e) == [status |-> "retake_allowed",
                           value |-> Column(R.marks[e][p].value, Unset, marks[e][p].value)]
<1>1. Takes(late) /\ UNCHANGED <<roll, register, bulletins, minutes, torn>> /\ E \subseteq Given(R)
      /\ (\A e \in E : R.marks[e][p] # Unset)
      /\ tickets' = tickets \cup {[pupil |-> p, evaluations |-> E, id |-> handled']}
      /\ marks' = [e \in Evaluation |->
                     IF e \in E THEN [marks[e] EXCEPT ![p] = Reopened(e)] ELSE marks[e]]
  BY DEF create_authorization
<1>2. marks \in [Evaluation -> Columns \cup {Unset}]
      /\ \A f \in Evaluation, q \in Pupil :
           marks[f] # Unset /\ marks[f][q] # Unset => (marks[f][q].status = "entered" => marks[f][q].value # Unset)
  BY DEF RowsInv, ReadOK, RowsOK, Stored
<1>3. \A e \in E : marks[e] # Unset /\ marks[e][p] # Unset
  BY <1>1, SeesOK DEF ReadOK, Given
<1>4. \A e \in E : Reopened(e) \in Cell /\ Reopened(e).status = "retake_allowed"
  <2> SUFFICES ASSUME NEW e \in E PROVE Reopened(e) \in Cell
    OBVIOUS
  <2>1. marks[e] \in Columns
    BY <1>2, <1>3
  <2>2. marks[e][p] \in Cell
    BY <1>3, <2>1 DEF Columns
  <2>3. Column(R.marks[e][p].value, Unset, marks[e][p].value) \in Average
    BY <2>2 DEF Column, Cell, Average
  <2> QED
    BY <2>3 DEF Cell
<1> HIDE DEF Reopened, R
<1>5. \A f \in Evaluation : /\ marks'[f] \in Columns \cup {Unset}
                            /\ f \notin E => marks'[f] = marks[f]
                            /\ f \in E => /\ marks[f] \in Columns /\ marks'[f] \in Columns
                                          /\ \A q \in Pupil : marks'[f][q] = IF q = p THEN Reopened(f) ELSE marks[f][q]
  <2> SUFFICES ASSUME NEW f \in Evaluation, f \in E
               PROVE  /\ marks[f] \in Columns /\ marks'[f] \in Columns
                      /\ \A q \in Pupil : marks'[f][q] = IF q = p THEN Reopened(f) ELSE marks[f][q]
    BY <1>1, <1>2
  <2>1. marks[f] \in Columns
    BY <1>2, <1>3
  <2>2. marks'[f] = [marks[f] EXCEPT ![p] = Reopened(f)]
    BY <1>1
  <2> QED
    BY <1>4, <2>1, <2>2 DEF Columns
<1>6. marks' \in [Evaluation -> Columns \cup {Unset}]
  BY <1>1, <1>5
<1>7. \A f \in Evaluation, q \in Pupil :
           marks'[f] # Unset /\ marks'[f][q] # Unset => (marks'[f][q].status = "entered" => marks'[f][q].value # Unset)
  <2> SUFFICES ASSUME NEW f \in Evaluation, NEW q \in Pupil,
                      marks'[f] # Unset /\ marks'[f][q] # Unset
               PROVE  marks'[f][q].status = "entered" => marks'[f][q].value # Unset
    OBVIOUS
  <2>1. CASE f \notin E
    BY <1>2, <1>5, <2>1
  <2>2. CASE f \in E
    BY <1>2, <1>3, <1>4, <1>5, <2>2
  <2> QED
    BY <2>1, <2>2
<1>8. RowsOK(Stored)'
  BY <1>1, <1>6, <1>7, Kept5 DEF RowsOK, Stored
<1>9. \A f \in Evaluation : marks[f] # Unset =>
            marks'[f] # Unset /\ \A q \in Pupil : marks[f][q] # Unset => marks'[f][q] # Unset
  BY <1>4, <1>5, NotUnset
<1>10. torn' \in BOOLEAN /\ \A d \in Day : register[d] # Unset => register'[d] # Unset
  BY <1>1 DEF RowsInv, Books
<1>11. tickets' \subseteq [pupil : Pupil, evaluations : SUBSET Evaluation, id : 1..MaxServed]
  <2>1. handled' \in 1..MaxServed
    BY <1>1, SeesOK
  <2>2. tickets \subseteq [pupil : Pupil, evaluations : SUBSET Evaluation, id : 1..MaxServed]
    BY DEF RowsInv, Books
  <2> QED
    BY <1>1, <2>1, <2>2
<1> QED
  BY <1>1, <1>8, <1>9, <1>10, <1>11, StepOK, Kept5

\* What the three steps of the roll call share.
LEMMA RegisterKeeps ==
  ASSUME RowsInv, NEW late \in BOOLEAN, Takes(late), NEW d \in Day, NEW new \in CallOf,
         register' = [register EXCEPT ![d] = new],
         UNCHANGED <<roll, marks, tickets, bulletins, minutes, torn>>
  PROVE  RowsInv'
<1>1. register \in [Day -> CallOf \cup {Unset}]
  BY DEF RowsInv, ReadOK, RowsOK, Stored
<1>2. register' \in [Day -> CallOf \cup {Unset}] /\ \A x \in Day : register[x] # Unset => register'[x] # Unset
  BY <1>1, NotUnset
<1>3. RowsOK(Stored)'
  BY <1>2, Kept5 DEF RowsOK, Stored
<1>4. tickets' \subseteq [pupil : Pupil, evaluations : SUBSET Evaluation, id : 1..MaxServed] /\ torn' \in BOOLEAN
  BY DEF RowsInv, Books
<1>5. \A e \in Evaluation : marks[e] # Unset =>
            marks'[e] # Unset /\ \A p \in Pupil : marks[e][p] # Unset => marks'[e][p] # Unset
  OBVIOUS
<1> QED
  BY <1>2, <1>3, <1>4, <1>5, StepOK, Kept5

\* the call is made,
LEMMA CallKeeps ==
  ASSUME RowsInv, NEW d \in Day, NEW call \in Calls, create_session(d, call) PROVE RowsInv'
<1> DEFINE new == [p \in Pupil |-> IF p \in DOMAIN call THEN call[p] ELSE Unset]
<1>1. new \in CallOf
  BY CouncilAssumption DEF CallOf
<1>2. Takes(FALSE) /\ register' = [register EXCEPT ![d] = new] /\ UNCHANGED <<roll, marks, tickets, bulletins, minutes, torn>>
  BY DEF create_session
<1> HIDE DEF new
<1> QED
  BY <1>1, <1>2, RegisterKeeps

\* or made again;
LEMMA CallAgainKeeps ==
  ASSUME RowsInv, NEW late \in BOOLEAN, NEW d \in Day, NEW call \in Calls, update_session(late, d, call)
  PROVE  RowsInv'
<1> DEFINE R == Sees(late)
           new == [p \in Pupil |-> IF p \in DOMAIN call THEN Column(R.register[d][p], call[p], register[d][p])
                                   ELSE register[d][p]]
<1>1. Takes(late) /\ register' = [register EXCEPT ![d] = new] /\ R.register[d] # Unset
      /\ UNCHANGED <<roll, marks, tickets, bulletins, minutes, torn>>
  BY DEF update_session
<1>2. register[d] \in CallOf
  BY <1>1, SeesOK DEF ReadOK, RowsInv, RowsOK, Stored
<1>3. new \in CallOf
  BY <1>2, CouncilAssumption DEF CallOf, Column
<1> HIDE DEF new
<1> QED
  BY <1>1, <1>3, RegisterKeeps

\* an absence is closed;
LEMMA SlipKeeps ==
  ASSUME RowsInv, NEW late \in BOOLEAN, NEW d \in Day, NEW p \in Pupil, close_absence(late, d, p)
  PROVE  RowsInv'
<1> DEFINE new == [register[d] EXCEPT ![p] = "excused"]
<1>1. Takes(late) /\ register' = [register EXCEPT ![d] = new] /\ Sees(late).register[d] # Unset
      /\ UNCHANGED <<roll, marks, tickets, bulletins, minutes, torn>>
  BY DEF close_absence
<1>2. register[d] \in CallOf
  BY <1>1, SeesOK DEF ReadOK, RowsInv, RowsOK, Stored
<1>3. new \in CallOf
  BY <1>2 DEF CallOf, Attendance
<1> HIDE DEF new
<1> QED
  BY <1>1, <1>3, RegisterKeeps

\* The columns of a draft have their types, and Updated and Inserted make rows of them.
LEMMA ComputedType ==
  ASSUME NEW R, RowsOK(R), NEW d \in Drafts(R)
  PROVE  /\ CompetitionRank(Drafts(R), d.average) \in Nat \cup {Unset}
         /\ Computed(Drafts(R), d) \in [average : Average, rank : Nat \cup {Unset},
                                        lines : [Subject -> Average], decision : CouncilDecision \cup {Unset}]
<1>1. d \in Draft
  BY DraftsType
<1>2. CompetitionRank(Drafts(R), d.average) \in Nat \cup {Unset}
  <2>1. IsFiniteSet(Better(Drafts(R), d.average))
    BY DraftsType, FS_Subset DEF Better
  <2>2. Cardinality(Better(Drafts(R), d.average)) \in Nat
    BY <2>1, FS_CardinalityType
  <2> QED
    BY <2>2 DEF CompetitionRank
<1>3. \A a : compute_council_decision(a) \in CouncilDecision
  BY DEF compute_council_decision, CouncilDecision
<1>4. BulletinDecision(d.pupil, d.average) \in CouncilDecision \cup {Unset}
  BY <1>3 DEF BulletinDecision
<1> QED
  BY <1>1, <1>2, <1>4 DEF Draft, Computed

\* a row that is updated keeps its pupil and its number,
LEMMA UpdatedType ==
  ASSUME NEW new \in [average : Average, rank : Nat \cup {Unset},
                      lines : [Subject -> Average], decision : CouncilDecision \cup {Unset}],
         NEW old, NEW b \in Bulletin, NEW n \in 1..MaxServed
  PROVE  /\ Updated(new, old, b, n) \in Bulletin
         /\ Updated(new, old, b, n).pupil = b.pupil /\ Updated(new, old, b, n).id = b.id
         /\ Updated(new, old, b, n).generated_at = n /\ Updated(new, old, b, n).lines = new.lines
         /\ Updated(new, old, b, n).published = b.published
         /\ Updated(new, old, b, n).average = Column(old.average, new.average, b.average)
         /\ Updated(new, old, b, n).rank = Column(old.rank, new.rank, b.rank)
         /\ Updated(new, old, b, n).decision = Column(old.decision, new.decision, b.decision)
<1>1. /\ Column(old.average, new.average, b.average) \in Average
      /\ Column(old.rank, new.rank, b.rank) \in Nat \cup {Unset}
      /\ Column(old.decision, new.decision, b.decision) \in CouncilDecision \cup {Unset}
  BY DEF Column, Bulletin
<1> QED
  BY <1>1 DEF Updated, Bulletin

\* a row that is inserted is a bulletin;
LEMMA InsertedType ==
  ASSUME NEW new \in [average : Average, rank : Nat \cup {Unset},
                      lines : [Subject -> Average], decision : CouncilDecision \cup {Unset}],
         NEW p \in Pupil, NEW n \in 1..MaxServed
  PROVE  Inserted(new, p, n) \in Bulletin
<1> QED
  BY DEF Inserted, Bulletin

\* The row that a generation makes of a row it read.
ReadOf(R, b) == {old \in R.bulletins : old.pupil = b.pupil /\ old.id = b.id}
DraftOf(R, p) == CHOOSE d \in Drafts(R) : d.pupil = p
After(R, b, n) ==
  IF b.pupil \notin R.roll \/ ReadOf(R, b) = {} THEN b
  ELSE Updated(Computed(Drafts(R), DraftOf(R, b.pupil)), CHOOSE old \in ReadOf(R, b) : TRUE, b, n)
NewRow(R, d, n) == Inserted(Computed(Drafts(R), d), d.pupil, n)
Unread(R) == {d \in Drafts(R) : Of(R.bulletins, d.pupil) = {}}

\* a generation is the rows it updates and the rows it inserts,
LEMMA GenerationIs ==
  ASSUME NEW R, NEW n
  PROVE  upsert_bulletins(R, n) = {After(R, b, n) : b \in bulletins} \cup {NewRow(R, d, n) : d \in Unread(R)}
<1> QED
  BY Zenon DEF upsert_bulletins, After, NewRow, Unread, ReadOf, DraftOf

\* each from the draft of its pupil,
LEMMA DraftOfIs ==
  ASSUME NEW R, RowsOK(R), NEW p \in R.roll
  PROVE  DraftOf(R, p) \in Drafts(R) /\ DraftOf(R, p).pupil = p
<1> QED
  BY DraftsType DEF DraftOf

\* so that its rows are bulletins;
LEMMA GenerationType ==
  ASSUME NEW R, RowsOK(R), NEW n \in 1..MaxServed, \A b \in bulletins : b \in Bulletin
  PROVE  \A b \in upsert_bulletins(R, n) : b \in Bulletin
<1>1. ASSUME NEW b \in bulletins PROVE After(R, b, n) \in Bulletin
  <2>1. CASE b.pupil \notin R.roll \/ ReadOf(R, b) = {}
    BY <2>1 DEF After
  <2>2. CASE ~(b.pupil \notin R.roll \/ ReadOf(R, b) = {})
    <3> DEFINE new == Computed(Drafts(R), DraftOf(R, b.pupil))
               old == CHOOSE old \in ReadOf(R, b) : TRUE
    <3>1. After(R, b, n) = Updated(new, old, b, n)
      BY <2>2 DEF After
    <3>2. DraftOf(R, b.pupil) \in Drafts(R)
      BY <2>2, DraftOfIs
    <3>3. new \in [average : Average, rank : Nat \cup {Unset},
                      lines : [Subject -> Average], decision : CouncilDecision \cup {Unset}]
      BY <3>2, ComputedType
    <3>4. b \in Bulletin
      OBVIOUS
    <3> HIDE DEF new, old
    <3>5. Updated(new, old, b, n) \in Bulletin
      BY <3>3, <3>4, UpdatedType
    <3> QED
      BY <3>1, <3>5
  <2> QED
    BY <2>1, <2>2
<1>2. ASSUME NEW d \in Unread(R) PROVE NewRow(R, d, n) \in Bulletin
  <2>1. d \in Drafts(R) /\ d.pupil \in Pupil
    BY DraftsType DEF Unread, Draft
  <2>2. Computed(Drafts(R), d) \in [average : Average, rank : Nat \cup {Unset},
                      lines : [Subject -> Average], decision : CouncilDecision \cup {Unset}]
    BY <2>1, ComputedType
  <2> QED
    BY <2>1, <2>2, InsertedType DEF NewRow
<1> QED
  BY <1>1, <1>2, GenerationIs

\* a request that only writes bulletins keeps the rest;
LEMMA BulletinsKeep ==
  ASSUME RowsInv, NEW late \in BOOLEAN, Takes(late),
         UNCHANGED <<roll, marks, tickets, register, minutes>>, torn' \in BOOLEAN,
         \A b \in bulletins' : b \in Bulletin
  PROVE  RowsInv'
<1>1. RowsOK(Stored)'
  BY Kept5 DEF RowsOK, Stored
<1>2. tickets' \subseteq [pupil : Pupil, evaluations : SUBSET Evaluation, id : 1..MaxServed]
  BY DEF RowsInv, Books
<1>3. /\ \A d \in Day : register[d] # Unset => register'[d] # Unset
      /\ \A e \in Evaluation : marks[e] # Unset =>
            marks'[e] # Unset /\ \A p \in Pupil : marks[e][p] # Unset => marks'[e][p] # Unset
  OBVIOUS
<1> QED
  BY <1>1, <1>2, <1>3, StepOK, Kept5

\* bulletins are generated,
LEMMA GenerateKeeps ==
  ASSUME RowsInv, NEW late \in BOOLEAN, generate_bulletins(late) PROVE RowsInv'
<1> DEFINE R == Sees(late)
<1>1. Takes(late) /\ UNCHANGED <<roll, marks, tickets, register, minutes>>
      /\ bulletins' = upsert_bulletins(R, handled') /\ torn' = (torn \/ Overwrites(R))
  BY DEF generate_bulletins
<1>2. RowsOK(R) /\ handled' \in 1..MaxServed /\ \A b \in bulletins : b \in Bulletin
  BY <1>1, SeesOK DEF ReadOK, RowsInv, RowsOK, Stored
<1>3. \A b \in bulletins' : b \in Bulletin
  BY <1>1, <1>2, GenerationType
<1>4. torn' \in BOOLEAN
  BY <1>1, Zenon DEF RowsInv, Books
<1> QED
  BY <1>1, <1>3, <1>4, BulletinsKeep

\* and published;
LEMMA PublishKeeps ==
  ASSUME RowsInv, publish_bulletins PROVE RowsInv'
<1>1. Takes(FALSE) /\ UNCHANGED <<roll, marks, tickets, register, minutes, torn>>
      /\ bulletins' = {[b EXCEPT !.published = TRUE] : b \in bulletins}
  BY DEF publish_bulletins
<1>2. \A b \in bulletins : b \in Bulletin
  BY DEF ReadOK, RowsInv, RowsOK, Stored
<1>3. \A b \in bulletins' : b \in Bulletin
  BY <1>1, <1>2 DEF Bulletin
<1>4. torn' \in BOOLEAN
  BY <1>1 DEF RowsInv, Books
<1> QED
  BY <1>1, <1>3, <1>4, BulletinsKeep

\* a decision drawn up is a decision,
LEMMA DecidedType ==
  ASSUME NEW R, RowsOK(R), NEW p \in Pupil
  PROVE  Decided(R, p) \in StudentDecision
<1> DEFINE B == Of(R.bulletins, p)
           b == CHOOSE x \in B : TRUE
           avg == IF B = {} THEN Unset ELSE b.average
           rank == IF B = {} THEN Unset ELSE b.rank
<1>1. avg \in Average /\ rank \in Nat \cup {Unset}
  <2>1. CASE B = {}
    BY <2>1 DEF Average
  <2>2. CASE B # {}
    <3>1. b \in Bulletin
      BY <2>2 DEF Of, RowsOK
    <3> QED
      BY <2>2, <3>1 DEF Bulletin
  <2> QED
    BY <2>1, <2>2
<1>2. count_absences_for_student(R, p) \in Nat
  <2> DEFINE D == {d \in Day : R.register[d] # Unset /\ R.register[d][p] = "absent"}
  <2>1. IsFiniteSet(D)
    BY CouncilAssumption, FS_Subset
  <2> HIDE DEF D
  <2>2. Cardinality(D) \in Nat
    BY <2>1, FS_CardinalityType
  <2> QED
    BY <2>2 DEF count_absences_for_student, D
<1>3. get_auto_decision(avg) \in CouncilDecision
  BY DEF get_auto_decision, compute_council_decision, CouncilDecision
<1>4. Decided(R, p) = [average |-> avg, rank |-> rank, absences |-> count_absences_for_student(R, p),
                       auto |-> get_auto_decision(avg), final |-> Unset]
  BY DEF Decided
<1> HIDE DEF avg, rank
<1> QED
  BY <1>1, <1>2, <1>3, <1>4 DEF StudentDecision

\* What the four steps of the minutes share.
LEMMA MinutesKeep ==
  ASSUME RowsInv, NEW late \in BOOLEAN, Takes(late),
         UNCHANGED <<roll, marks, tickets, register, bulletins>>, torn' \in BOOLEAN,
         minutes' \in Minutes,
         \/ minutes'.id = handled'
         \/ /\ minutes # Unset /\ minutes.id = minutes'.id
            /\ \A p \in Pupil : minutes.of[p] \in StudentDecision => minutes'.of[p] \in StudentDecision
  PROVE  RowsInv'
<1>1. handled' = handled + 1 /\ handled \in Nat
  BY SeesOK
<1>2. minutes # Unset => minutes.id \in Nat /\ minutes.id <= handled
  BY DEF RowsInv, ReadOK, RowsOK, Stored, Minutes
<1>3. minutes'.id <= handled'
  BY <1>1, <1>2
<1>4. RowsOK(Stored)'
  BY <1>3, Kept5 DEF RowsOK, Stored
<1>5. tickets' \subseteq [pupil : Pupil, evaluations : SUBSET Evaluation, id : 1..MaxServed]
  BY DEF RowsInv, Books
<1>6. /\ \A d \in Day : register[d] # Unset => register'[d] # Unset
      /\ \A e \in Evaluation : marks[e] # Unset =>
            marks'[e] # Unset /\ \A p \in Pupil : marks[e][p] # Unset => marks'[e][p] # Unset
  OBVIOUS
<1>7. minutes'.id > handled \/ (minutes # Unset /\ minutes.id = minutes'.id
            /\ \A p \in Pupil : minutes.of[p] \in StudentDecision => minutes'.of[p] \in StudentDecision)
  BY <1>1
<1> QED
  BY <1>4, <1>5, <1>6, <1>7, StepOK

\* and the minutes are drawn up;
LEMMA DrawUpKeeps ==
  ASSUME RowsInv, NEW late \in BOOLEAN, generate_council_minutes(late) PROVE RowsInv'
<1> DEFINE R == Sees(late)
           of == [p \in Pupil |-> IF p \in R.roll THEN Decided(R, p) ELSE Unset]
<1>1. Takes(late) /\ UNCHANGED <<roll, marks, tickets, register, bulletins>>
      /\ minutes' = [id |-> handled', published |-> FALSE, of |-> of] /\ torn' = (torn \/ Overwrites(R))
  BY DEF generate_council_minutes
<1>2. RowsOK(R) /\ handled' \in 1..MaxServed
  BY <1>1, SeesOK DEF ReadOK
<1>3. of \in [Pupil -> StudentDecision \cup {Unset}]
  BY <1>2, DecidedType
<1>4. torn' \in BOOLEAN
  BY <1>1, Zenon DEF RowsInv, Books
<1> HIDE DEF of
<1>5. minutes' \in Minutes /\ minutes'.id = handled'
  BY <1>1, <1>2, <1>3 DEF Minutes
<1> QED
  BY <1>1, <1>4, <1>5, MinutesKeep

\* The council's word is written on the row of a pupil whom the minutes hold.
LEMMA SettledType ==
  ASSUME RowsInv, NEW late \in BOOLEAN, Takes(late), SameMinutes(Sees(late)), NEW ruling,
         \A p \in DOMAIN ruling : ruling[p] \in CouncilDecision
  PROVE  /\ Settled(Sees(late).minutes, ruling) \in Minutes
         /\ Settled(Sees(late).minutes, ruling).id = minutes.id
         /\ Settled(Sees(late).minutes, ruling).published = minutes.published
         /\ \A p \in Pupil : minutes.of[p] \in StudentDecision =>
              /\ Settled(Sees(late).minutes, ruling).of[p] \in StudentDecision
              /\ \A f \in {"average", "rank", "absences", "auto"} :
                   Settled(Sees(late).minutes, ruling).of[p][f] = minutes.of[p][f]
         /\ \A p \in Pupil : minutes.of[p] = Unset => Settled(Sees(late).minutes, ruling).of[p] = Unset
<1> DEFINE read == Sees(late).minutes
           row(p) == IF p \in DOMAIN ruling /\ read.of[p] # Unset
                       THEN Ruled(minutes.of[p], read.of[p], ruling[p]) ELSE minutes.of[p]
           of == [p \in Pupil |-> row(p)]
<1>0. Settled(read, ruling) = [minutes EXCEPT !.of =
         [p \in Pupil |-> IF p \in DOMAIN ruling /\ read.of[p] # Unset
            THEN Ruled(minutes.of[p], read.of[p], ruling[p]) ELSE minutes.of[p]]]
  BY DEF Settled
<1>1. Settled(read, ruling) = [minutes EXCEPT !.of = of]
  BY <1>0
<1>2. minutes # Unset /\ read # Unset /\ read.id = minutes.id /\ minutes \in Minutes
  BY DEF SameMinutes, RowsInv, ReadOK, RowsOK, Stored
<1>3. minutes.of \in [Pupil -> StudentDecision \cup {Unset}]
  BY <1>2 DEF Minutes
<1>4. \A p \in Pupil : read.of[p] # Unset => minutes.of[p] \in StudentDecision
  BY <1>2, SeesOK DEF ReadOK
<1>5. ASSUME NEW p \in Pupil, minutes.of[p] \in StudentDecision
      PROVE  /\ row(p) \in StudentDecision
             /\ \A f \in {"average", "rank", "absences", "auto"} : row(p)[f] = minutes.of[p][f]
  <2>1. CASE p \in DOMAIN ruling /\ read.of[p] # Unset
    <3> DEFINE r == minutes.of[p]
               x == Column(read.of[p].final, ruling[p], minutes.of[p].final)
    <3>1. r \in StudentDecision /\ x \in CouncilDecision \cup {Unset}
      BY <1>5, <2>1 DEF Column, StudentDecision
    <3>2. row(p) = [r EXCEPT !.final = x]
      BY <2>1 DEF Ruled
    <3> HIDE DEF r, x, row
    <3>3. row(p) \in StudentDecision /\ \A f \in {"average", "rank", "absences", "auto"} : row(p)[f] = r[f]
      BY <3>1, <3>2 DEF StudentDecision
    <3> QED
      BY <3>3 DEF r
  <2>2. CASE ~(p \in DOMAIN ruling /\ read.of[p] # Unset)
    BY <1>5, <2>2
  <2> QED
    BY <2>1, <2>2
<1>6. ASSUME NEW p \in Pupil, minutes.of[p] = Unset PROVE row(p) = Unset
  BY <1>4, <1>6, NotUnset
<1>7. \A p \in Pupil : row(p) \in StudentDecision \cup {Unset}
  BY <1>3, <1>5, <1>6
<1> HIDE DEF row
<1>8. of \in [Pupil -> StudentDecision \cup {Unset}] /\ \A p \in Pupil : of[p] = row(p)
  BY <1>7
<1> HIDE DEF of
<1>9. /\ Settled(read, ruling) \in Minutes /\ Settled(read, ruling).id = minutes.id
      /\ Settled(read, ruling).of = of /\ Settled(read, ruling).published = minutes.published
  BY <1>1, <1>2, <1>8 DEF Minutes
<1> QED
  BY <1>5, <1>6, <1>8, <1>9

\* decisions are settled,
LEMMA SettledKeeps ==
  ASSUME RowsInv, NEW late \in BOOLEAN, Takes(late), SameMinutes(Sees(late)), NEW ruling,
         \A p \in DOMAIN ruling : ruling[p] \in CouncilDecision,
         minutes' = Settled(Sees(late).minutes, ruling),
         UNCHANGED <<roll, marks, tickets, register, bulletins, torn>>
  PROVE  RowsInv'
<1>1. /\ minutes' \in Minutes /\ minutes'.id = minutes.id
      /\ \A p \in Pupil : minutes.of[p] \in StudentDecision => minutes'.of[p] \in StudentDecision
  BY SettledType
<1>2. minutes # Unset /\ torn' \in BOOLEAN
  BY DEF SameMinutes, RowsInv, Books
<1> QED
  BY <1>1, <1>2, MinutesKeep

\* in a batch,
LEMMA BatchKeeps ==
  ASSUME RowsInv, NEW late \in BOOLEAN, NEW d \in Rulings, update_decisions_batch(late, d) PROVE RowsInv'
<1>1. \A p \in DOMAIN d : d[p] \in CouncilDecision
  BY CouncilAssumption
<1> QED
  BY <1>1, SettledKeeps DEF update_decisions_batch

\* or one by one;
LEMMA OverrideKeeps ==
  ASSUME RowsInv, NEW late \in BOOLEAN, NEW d \in Rulings, NEW p \in DOMAIN d, override_decision(late, p, d[p])
  PROVE  RowsInv'
<1> DEFINE ruling == [q \in {p} |-> d[p]]
<1>1. \A q \in DOMAIN ruling : ruling[q] \in CouncilDecision
  BY CouncilAssumption
<1>2. Takes(late) /\ SameMinutes(Sees(late)) /\ minutes' = Settled(Sees(late).minutes, ruling)
      /\ UNCHANGED <<roll, marks, tickets, register, bulletins, torn>>
  BY DEF override_decision
<1> HIDE DEF ruling
<1> QED
  BY <1>1, <1>2, SettledKeeps

\* and the minutes are validated.
LEMMA ValidateKeeps ==
  ASSUME RowsInv, NEW late \in BOOLEAN, validate_council_minutes(late) PROVE RowsInv'
<1>1. Takes(late) /\ minutes # Unset /\ minutes' = [minutes EXCEPT !.published = TRUE]
      /\ UNCHANGED <<roll, marks, tickets, register, bulletins, torn>>
  BY DEF validate_council_minutes, SameMinutes
<1>2. minutes \in Minutes
  BY <1>1 DEF RowsInv, ReadOK, RowsOK, Stored
<1>3. minutes' \in Minutes /\ minutes'.id = minutes.id /\ minutes'.of = minutes.of
  BY <1>1, <1>2 DEF Minutes
<1>4. torn' \in BOOLEAN
  BY <1>1 DEF RowsInv, Books
<1> QED
  BY <1>1, <1>3, <1>4, MinutesKeep

\* The rows of the council are typed in every state.
LEMMA CouncilRowsInit == CouncilInit => RowsInv
<1> SUFFICES ASSUME CouncilInit PROVE RowsInv
  OBVIOUS
<1>1. marks \in [Evaluation -> Columns \cup {Unset}]
      /\ \A e \in Evaluation, p \in Pupil :
           marks[e] # Unset /\ marks[e][p] # Unset => (marks[e][p].status = "entered" => marks[e][p].value # Unset)
  <2>1. \A e \in Evaluation : marks[e] = Unset \/ marks[e] = PendingFor(roll)
    BY DEF CouncilInit
  <2>2. marks = [e \in Evaluation |-> marks[e]]
    BY DEF CouncilInit
  <2> QED
    BY <2>1, <2>2, PendingType
<1>2. RowsOK(Stored)
  <2>1. roll \subseteq Pupil /\ bulletins = {} /\ minutes = Unset
    BY DEF CouncilInit
  <2>2. register \in [Day -> CallOf \cup {Unset}]
    BY DEF CouncilInit
  <2> QED
    BY <1>1, <2>1, <2>2 DEF RowsOK, Stored
<1>3. ReadOK(Stored)
  BY <1>2 DEF ReadOK, Stored, CouncilInit
<1>4. Books
  <2>1. tickets = {} /\ torn = FALSE /\ handled = 0
    BY DEF CouncilInit
  <2>2. MaxServed \in Nat
    BY CouncilAssumption
  <2>3. torn \in BOOLEAN /\ \A x \in tickets : x \in [pupil : Pupil, evaluations : SUBSET Evaluation, id : 1..MaxServed]
    BY <2>1, Zenon
  <2>4. handled \in 0..MaxServed
    BY <2>1, <2>2
  <2> QED
    BY <2>3, <2>4, Zenon DEF Books
<1> QED
  BY <1>3, <1>4 DEF CouncilInit, RowsInv

\* Every step keeps the rows well formed.
LEMMA RowsStep == RowsInv /\ [CouncilNext]_councilvars => RowsInv'
<1> SUFFICES ASSUME RowsInv, [CouncilNext]_councilvars PROVE RowsInv'
  OBVIOUS
<1>1. CASE open_snapshot
  BY <1>1, OpenSnapshotKeeps
<1>2. CASE MarksStep
  BY <1>2, EnrollmentKeeps, EvaluationKeeps, SheetKeeps, TicketKeeps DEF MarksStep
<1>3. CASE CallStep
  BY <1>3, CallKeeps, CallAgainKeeps, SlipKeeps DEF CallStep
<1>4. CASE CouncilStep
  BY <1>4, GenerateKeeps, PublishKeeps, DrawUpKeeps, BatchKeeps, OverrideKeeps, ValidateKeeps DEF CouncilStep
<1>5. CASE UNCHANGED councilvars
  BY <1>5 DEF councilvars, RowsInv, ReadOK, RowsOK, Stored, Books
<1> QED
  BY <1>1, <1>2, <1>3, <1>4, <1>5 DEF CouncilNext

\* Well-formed rows have their types.
LEMMA RowsAreTyped == RowsInv => CouncilTypeOK
<1> SUFFICES ASSUME RowsInv PROVE CouncilTypeOK
  OBVIOUS
<1>1. RowsOK(Stored) /\ Books
  BY DEF RowsInv, ReadOK
<1> QED
  BY <1>1 DEF CouncilTypeOK, RowsOK, Stored, Books, Given, Columns, CallOf, Minutes

\* The marks, the register, the bulletins and the minutes keep their types, for any pupils,
\* evaluations, marks, calls, decisions and requests.
THEOREM CouncilTypes == CouncilSpec => []CouncilTypeOK
<1>1. CouncilInit => RowsInv
  BY CouncilRowsInit
<1>2. RowsInv /\ [CouncilNext]_councilvars => RowsInv'
  BY RowsStep
<1>3. RowsInv => CouncilTypeOK
  BY RowsAreTyped
<1> QED
  BY <1>1, <1>2, <1>3, PTL DEF CouncilSpec

-----------------------------------------------------------------------------
(* The recapitulation. *)

\* The list of the recapitulation, who stands above a pupil in it, and his rank.
Listed(R) == {[pupil |-> p, average |-> SummaryAverage(R, p)] : p \in R.roll}
KeyOf(x) == IF x.average = Unset THEN 0 ELSE x.average
AboveIn(L, x) == {y \in L : KeyOf(y) > KeyOf(x) \/ (KeyOf(y) = KeyOf(x) /\ y.pupil < x.pupil)}
ApartIn(L, x) == {y \in AboveIn(L, x) : /\ y.average # Unset
                                        /\ \/ y.average # x.average
                                           \/ \E u \in AboveIn(L, x) \ AboveIn(L, y) : u.average = Unset}
PlacesAbove(L, x) == {0} \cup {1 + Cardinality(AboveIn(L, y)) : y \in ApartIn(L, x)}
RankIn(L, x) == IF x.average = Unset THEN Unset ELSE 1 + Max(PlacesAbove(L, x))

\* The recapitulation is its list with a rank on each line.
LEMMA SummaryIs ==
  ASSUME NEW R
  PROVE  get_grades_summary(R) =
           {[pupil |-> x.pupil, average |-> x.average, rank |-> RankIn(Listed(R), x)] : x \in Listed(R)}
<1> QED
  BY Zenon DEF get_grades_summary, RankIn, PlacesAbove, ApartIn, AboveIn, KeyOf, Listed

\* An average that was given is a number.
LEMMA AverageIs == \A a \in Average : a # Unset => a \in Mark /\ a \in Nat
<1>1. \A m \in Mark : m \in Nat
  BY DEF Mark
<1> QED
  BY <1>1 DEF Average

\* The list is finite and typed.
LEMMA ListedType ==
  ASSUME NEW R, RowsOK(R)
  PROVE  IsFiniteSet(Listed(R)) /\ \A x \in Listed(R) : x.pupil \in Nat /\ x.average \in Average
<1> DEFINE f == [p \in R.roll |-> [pupil |-> p, average |-> SummaryAverage(R, p)]]
<1>1. R.roll \in SUBSET Pupil /\ Pupil \subseteq Nat
  BY CouncilAssumption DEF RowsOK
<1>2. \A x \in Listed(R) : x.pupil \in Nat /\ x.average \in Average
  <2>1. \A p \in R.roll : SummaryAverage(R, p) \in Average
    BY <1>1, SummaryType
  <2>2. \A x \in Listed(R) : \E p \in R.roll : x.pupil = p /\ x.average = SummaryAverage(R, p)
    BY DEF Listed
  <2> QED
    BY <1>1, <2>1, <2>2
<1>3. IsFiniteSet(R.roll)
  BY <1>1, CouncilAssumption, FS_Subset
<1>4. f \in Surjection(R.roll, Listed(R))
  BY DEF Surjection, Listed
<1> QED
  BY <1>2, <1>3, <1>4, FS_Surjection

\* The places above one who is apart are fewer than those above.
LEMMA RankBounds ==
  ASSUME NEW L, IsFiniteSet(L), \A z \in L : z.pupil \in Nat /\ z.average \in Average,
         NEW x \in L, x.average # Unset
  PROVE  /\ RankIn(L, x) \in Nat /\ RankIn(L, x) <= 1 + Cardinality(AboveIn(L, x))
         /\ \A y \in ApartIn(L, x) : RankIn(L, x) >= 2 + Cardinality(AboveIn(L, y))
<1>1. \A z \in L : IsFiniteSet(AboveIn(L, z)) /\ Cardinality(AboveIn(L, z)) \in Nat
  <2> SUFFICES ASSUME NEW z \in L PROVE IsFiniteSet(AboveIn(L, z)) /\ Cardinality(AboveIn(L, z)) \in Nat
    OBVIOUS
  <2>1. AboveIn(L, z) \in SUBSET L
    BY DEF AboveIn
  <2> QED
    BY <2>1, FS_Subset, FS_CardinalityType
<1>2. \A z \in L : KeyOf(z) \in Nat
  BY AverageIs DEF KeyOf
<1>3. ASSUME NEW y \in ApartIn(L, x)
      PROVE  y \in L /\ 1 + Cardinality(AboveIn(L, y)) <= Cardinality(AboveIn(L, x))
  <2>1. y \in L /\ y \in AboveIn(L, x)
    BY DEF ApartIn, AboveIn
  <2>2. AboveIn(L, y) \in SUBSET (AboveIn(L, x) \ {y})
    BY <1>2, <2>1 DEF AboveIn
  <2>3. IsFiniteSet(AboveIn(L, x) \ {y}) /\ Cardinality(AboveIn(L, x) \ {y}) = Cardinality(AboveIn(L, x)) - 1
    BY <1>1, <2>1, FS_RemoveElement
  <2>4. Cardinality(AboveIn(L, y)) <= Cardinality(AboveIn(L, x) \ {y})
    BY <2>2, <2>3, FS_Subset
  <2> QED
    BY <1>1, <2>1, <2>3, <2>4
<1>4. PlacesAbove(L, x) \subseteq Nat /\ PlacesAbove(L, x) # {} /\ \A n \in PlacesAbove(L, x) : n <= Cardinality(AboveIn(L, x))
  <2>1. ASSUME NEW y \in ApartIn(L, x)
        PROVE  1 + Cardinality(AboveIn(L, y)) \in Nat /\ 1 + Cardinality(AboveIn(L, y)) <= Cardinality(AboveIn(L, x))
    BY <1>1, <1>3
  <2>2. 0 <= Cardinality(AboveIn(L, x))
    BY <1>1
  <2> QED
    BY <2>1, <2>2 DEF PlacesAbove
<1>5. IsFiniteSet(PlacesAbove(L, x))
  BY <1>1, <1>4, FS_BoundedSetOfNaturals
<1>6. Max(PlacesAbove(L, x)) \in PlacesAbove(L, x) /\ \A n \in PlacesAbove(L, x) : n <= Max(PlacesAbove(L, x))
  BY <1>4, <1>5, MaxIs
<1>7. RankIn(L, x) = 1 + Max(PlacesAbove(L, x))
  BY DEF RankIn
<1>8. \A y \in ApartIn(L, x) : 1 + Cardinality(AboveIn(L, y)) \in PlacesAbove(L, x)
  BY DEF PlacesAbove
<1> DEFINE m == Max(PlacesAbove(L, x))
<1>9. m \in Nat /\ m <= Cardinality(AboveIn(L, x)) /\ \A y \in ApartIn(L, x) : 1 + Cardinality(AboveIn(L, y)) <= m
  BY <1>4, <1>6, <1>8
<1>10. \A y \in ApartIn(L, x) : Cardinality(AboveIn(L, y)) \in Nat
  BY <1>1, <1>3
<1> HIDE DEF m
<1>11. RankIn(L, x) = 1 + m
  BY <1>7 DEF m
<1> QED
  BY <1>1, <1>9, <1>10, <1>11

\* The better average has the better rank; equal averages that are not zero share theirs.
LEMMA ListRanksTies ==
  ASSUME NEW L, IsFiniteSet(L), \A z \in L : z.pupil \in Nat /\ z.average \in Average,
         NEW x \in L, x.average # Unset, NEW y \in L, y.average # Unset
  PROVE  /\ x.average > y.average => RankIn(L, x) < RankIn(L, y)
         /\ x.average = y.average /\ x.average # 0 => RankIn(L, x) = RankIn(L, y)
<1>1. \A z \in L : KeyOf(z) \in Nat /\ (z.average # Unset => z.average = KeyOf(z))
  BY AverageIs DEF KeyOf
<1>2. ASSUME x.average > y.average PROVE RankIn(L, x) < RankIn(L, y)
  <2>1. x \in ApartIn(L, y)
    BY <1>1, <1>2 DEF ApartIn, AboveIn
  <2>2. RankIn(L, y) \in Nat /\ RankIn(L, y) >= 2 + Cardinality(AboveIn(L, x))
    BY <2>1, RankBounds
  <2>3. RankIn(L, x) \in Nat /\ RankIn(L, x) <= 1 + Cardinality(AboveIn(L, x))
    BY RankBounds
  <2>4. Cardinality(AboveIn(L, x)) \in Nat
    <3>1. AboveIn(L, x) \in SUBSET L
      BY DEF AboveIn
    <3> QED
      BY <3>1, FS_Subset, FS_CardinalityType
  <2> QED
    BY <2>2, <2>3, <2>4
<1>3. ASSUME x.average = y.average, x.average # 0 PROVE RankIn(L, x) = RankIn(L, y)
  <2> DEFINE Over == {z \in L : z.average # Unset /\ KeyOf(z) > KeyOf(x)}
  <2>1. KeyOf(x) = KeyOf(y) /\ KeyOf(x) > 0
    BY <1>1, <1>3
  <2>2. ASSUME NEW w \in L, KeyOf(w) = KeyOf(x), w.average = x.average PROVE ApartIn(L, w) = Over
    <3>1. \A u \in AboveIn(L, w) : u \in L /\ u.average # Unset
      BY <1>1, <2>1, <2>2 DEF AboveIn, KeyOf
    <3>2. ApartIn(L, w) = {z \in AboveIn(L, w) : z.average # Unset /\ z.average # x.average}
      BY <2>2, <3>1 DEF ApartIn
    <3>3. \A z \in L : z.average # Unset => (z.average # x.average <=> KeyOf(z) # KeyOf(x))
      BY <1>1
    <3> QED
      BY <1>1, <2>2, <3>2, <3>3 DEF AboveIn
  <2>3. ApartIn(L, x) = Over
    BY <2>2
  <2>4. ApartIn(L, y) = Over
    BY <1>3, <2>1, <2>2
  <2>5. PlacesAbove(L, x) = PlacesAbove(L, y)
    BY <2>3, <2>4 DEF PlacesAbove
  <2> QED
    BY <2>5 DEF RankIn
<1> QED
  BY <1>2, <1>3

\* Its ranks follow its averages, for any list.
LEMMA SummaryRanks == ASSUME RowsInv PROVE SummaryRanksTies
<1> DEFINE L == Listed(Stored)
<1>1. IsFiniteSet(L) /\ \A x \in L : x.pupil \in Nat /\ x.average \in Average
  BY ListedType DEF RowsInv, ReadOK
<1>2. \A x \in get_grades_summary(Stored) : x.average # Unset =>
         \E z \in L : z.average = x.average /\ x.rank = RankIn(L, z)
  BY SummaryIs
<1> HIDE DEF L
<1>3. \A z, w \in L : z.average # Unset /\ w.average # Unset =>
         /\ z.average > w.average => RankIn(L, z) < RankIn(L, w)
         /\ z.average = w.average /\ z.average # 0 => RankIn(L, z) = RankIn(L, w)
  BY <1>1, ListRanksTies
<1> SUFFICES ASSUME NEW x \in get_grades_summary(Stored), x.average # Unset,
                    NEW y \in get_grades_summary(Stored), y.average # Unset
             PROVE  /\ x.average > y.average => x.rank < y.rank
                    /\ x.average = y.average /\ x.average # 0 => x.rank = y.rank
  BY DEF SummaryRanksTies
<1>4. PICK z \in L : z.average = x.average /\ x.rank = RankIn(L, z)
  BY <1>2
<1>5. PICK w \in L : w.average = y.average /\ y.rank = RankIn(L, w)
  BY <1>2
<1> QED
  BY <1>3, <1>4, <1>5

-----------------------------------------------------------------------------
(* The papers of the class. *)

\* The pupils generated with this one who have an average, and those of them not above it.
PeersOf(B, b) == {c.pupil : c \in {c \in B : c.generated_at = b.generated_at /\ c.average # Unset}}
NotAbove(B, b) ==
  {c.pupil : c \in {c \in B : c.generated_at = b.generated_at /\ c.average # Unset
                                /\ c.average <= b.average}}

HasAverage(b) == b.average # Unset

RowsAgree(B) ==
  /\ \A b, c \in B : b.pupil = c.pupil => b = c
  /\ \A b \in B : b.average = TermAverage(b.lines) /\ (b.rank = Unset <=> b.average = Unset)
  /\ \A b, c \in B : b.generated_at = c.generated_at /\ HasAverage(b) /\ HasAverage(c) =>
       (b.rank < c.rank <=> b.average > c.average)
  /\ \A b \in B : HasAverage(b) /\ (\A c \in B : c.generated_at <= b.generated_at) =>
       b.rank + Cardinality(NotAbove(B, b)) = Cardinality(PeersOf(B, b)) + 1

\* What a request read of a bulletin that was not written since is what it says.
Matches(R) ==
  \A old \in R.bulletins :
    /\ old.generated_at <= handled
    /\ \A b \in bulletins :
         b.pupil = old.pupil /\ b.id = old.id /\ b.generated_at = old.generated_at =>
           old.average = b.average /\ old.rank = b.rank /\ old.decision = b.decision

Dated == \A b \in bulletins : b.generated_at <= handled

PapersInv ==
  torn \/ /\ RowsAgree(bulletins) /\ Dated /\ MinutesQuoteBulletins
          /\ opened # Unset => Matches(opened)

\* Rows that differ by their pupils are as many as their pupils.
LEMMA ByPupil ==
  ASSUME NEW S, \A x \in S : x.pupil \in Pupil, \A x, y \in S : x.pupil = y.pupil => x = y
  PROVE  /\ IsFiniteSet(S) /\ Cardinality(S) = Cardinality({x.pupil : x \in S})
         /\ Cardinality(S) \in Nat
<1> DEFINE T == {x.pupil : x \in S}
           f == [x \in S |-> x.pupil]
<1>1. T \in SUBSET Pupil
  OBVIOUS
<1>2. IsFiniteSet(T)
  BY <1>1, CouncilAssumption, FS_Subset
<1>3. f \in Injection(S, T) /\ f \in Surjection(S, T)
  BY DEF Injection, IsInjective, Surjection
<1>4. IsFiniteSet(S)
  BY <1>2, <1>3, FS_Injection
<1>5. Cardinality(S) = Cardinality(T)
  BY <1>2, <1>3, FS_Injection
<1> QED
  BY <1>4, <1>5, FS_CardinalityType

\* The rank of a draft is in the order of its average, and counts those better than it.
LEMMA DraftRanks ==
  ASSUME NEW R, RowsOK(R), NEW d \in Drafts(R), d.average # Unset
  PROVE  /\ CompetitionRank(Drafts(R), d.average) \in Nat
         /\ CompetitionRank(Drafts(R), d.average) = 1 + Cardinality(Better(Drafts(R), d.average))
         /\ \A e \in Drafts(R) : e.average # Unset =>
              (CompetitionRank(Drafts(R), d.average) < CompetitionRank(Drafts(R), e.average)
                 <=> d.average > e.average)
<1> DEFINE D == Drafts(R)
           r(x) == CompetitionRank(D, x.average)
<1>1. IsFiniteSet(D) /\ \A x \in D : x.average # Unset => x.average \in Nat
  BY DraftsType, AverageIs DEF Draft
<1>2. \A x \in D : x.average # Unset => r(x) = 1 + Cardinality(Better(D, x.average))
  BY DEF CompetitionRank
<1>3. \A x \in D : IsFiniteSet(Better(D, x.average)) /\ Cardinality(Better(D, x.average)) \in Nat
  <2> SUFFICES ASSUME NEW x \in D
               PROVE  IsFiniteSet(Better(D, x.average)) /\ Cardinality(Better(D, x.average)) \in Nat
    OBVIOUS
  <2>1. Better(D, x.average) \in SUBSET D
    BY DEF Better
  <2> HIDE DEF D
  <2> QED
    BY <1>1, <2>1, FS_Subset, FS_CardinalityType
<1> HIDE DEF D
<1>4. ASSUME NEW x \in D, NEW y \in D, x.average # Unset, y.average # Unset, x.average > y.average
      PROVE  Cardinality(Better(D, x.average)) < Cardinality(Better(D, y.average))
  <2>1. Better(D, x.average) \in SUBSET Better(D, y.average) /\ x \in Better(D, y.average) /\ x \notin Better(D, x.average)
    BY <1>1, <1>4 DEF Better
  <2>2. /\ Cardinality(Better(D, x.average)) <= Cardinality(Better(D, y.average))
        /\ Cardinality(Better(D, x.average)) # Cardinality(Better(D, y.average))
    BY <1>3, <2>1, FS_Subset
  <2> QED
    BY <1>3, <2>2
<1>5. ASSUME NEW e \in D, e.average # Unset PROVE r(d) < r(e) <=> d.average > e.average
  <2>0. d \in D /\ d.average \in Nat /\ e.average \in Nat
    BY <1>1, <1>5 DEF D
  <2>1. CASE d.average > e.average
    BY <1>2, <1>3, <1>4, <1>5, <2>0, <2>1
  <2>2. CASE d.average = e.average
    BY <1>2, <1>3, <1>5, <2>0, <2>2
  <2>3. CASE d.average < e.average
    BY <1>2, <1>3, <1>4, <1>5, <2>0, <2>3
  <2> QED
    BY <2>0, <2>1, <2>2, <2>3
<1>6. r(d) \in Nat
  BY <1>2, <1>3 DEF D
<1> QED
  BY <1>2, <1>5, <1>6 DEF D

\* When the papers were not written since they were read, the request has read every row.
LEMMA AllRead ==
  ASSUME NEW R, ~Overwrites(R)
  PROVE  /\ \A b \in bulletins : \E old \in R.bulletins :
              old.pupil = b.pupil /\ old.id = b.id /\ old.generated_at = b.generated_at
         /\ \A old \in R.bulletins : \E b \in bulletins :
              old.pupil = b.pupil /\ old.id = b.id /\ old.generated_at = b.generated_at
<1> DEFINE W(rows) == {<<b.pupil, b.id, b.generated_at>> : b \in rows}
<1>1. W(bulletins) = W(R.bulletins)
  BY DEF Overwrites
<1>2. ASSUME NEW b \in bulletins
      PROVE  \E old \in R.bulletins :
               old.pupil = b.pupil /\ old.id = b.id /\ old.generated_at = b.generated_at
  <2>1. <<b.pupil, b.id, b.generated_at>> \in W(R.bulletins)
    BY <1>1
  <2>2. PICK old \in R.bulletins : <<b.pupil, b.id, b.generated_at>> = <<old.pupil, old.id, old.generated_at>>
    BY <2>1
  <2> QED
    BY <2>2
<1>3. ASSUME NEW old \in R.bulletins
      PROVE  \E b \in bulletins :
               old.pupil = b.pupil /\ old.id = b.id /\ old.generated_at = b.generated_at
  <2>1. <<old.pupil, old.id, old.generated_at>> \in W(bulletins)
    BY <1>1
  <2>2. PICK b \in bulletins : <<b.pupil, b.id, b.generated_at>> = <<old.pupil, old.id, old.generated_at>>
    BY <2>1
  <2> QED
    BY <2>2
<1> QED
  BY <1>2, <1>3

\* A row that a generation wrote.
JustWritten(R, r, n) ==
  /\ r.generated_at = n
  /\ \E d \in Drafts(R) : /\ d.pupil = r.pupil /\ r.average = d.average /\ r.lines = d.lines
                          /\ r.rank = CompetitionRank(Drafts(R), d.average)

\* The row of a pupil of the class, whom the request had read as he is.
LEMMA AfterIs ==
  ASSUME NEW R, RowsOK(R), Matches(R), ~Overwrites(R), \A b \in bulletins : b \in Bulletin,
         \A b, c \in bulletins : b.pupil = c.pupil => b = c,
         NEW n \in 1..MaxServed, NEW b \in bulletins
  PROVE  /\ After(R, b, n).pupil = b.pupil
         /\ b.pupil \notin R.roll => After(R, b, n) = b
         /\ b.pupil \in R.roll => JustWritten(R, After(R, b, n), n)
<1>1. CASE b.pupil \notin R.roll
  BY <1>1 DEF After
<1>2. CASE b.pupil \in R.roll
  <2> DEFINE new == Computed(Drafts(R), DraftOf(R, b.pupil))
             old == CHOOSE old \in ReadOf(R, b) : TRUE
             d == DraftOf(R, b.pupil)
  <2>1. ReadOf(R, b) # {}
    BY AllRead DEF ReadOf
  <2>2. After(R, b, n) = Updated(new, old, b, n)
    BY <1>2, <2>1 DEF After
  <2>3. d \in Drafts(R) /\ d.pupil = b.pupil
    BY <1>2, DraftOfIs
  <2>4. new \in [average : Average, rank : Nat \cup {Unset},
                 lines : [Subject -> Average], decision : CouncilDecision \cup {Unset}]
    BY <2>3, ComputedType
  <2>5. new.average = d.average /\ new.lines = d.lines /\ new.rank = CompetitionRank(Drafts(R), d.average)
    BY DEF Computed
  <2>6. old \in R.bulletins /\ old.pupil = b.pupil /\ old.id = b.id
    BY <2>1 DEF ReadOf
  <2>7. old.average = b.average /\ old.rank = b.rank
    <3>1. PICK c \in bulletins : old.pupil = c.pupil /\ old.id = c.id /\ old.generated_at = c.generated_at
      BY <2>6, AllRead
    <3>2. c = b
      BY <2>6, <3>1
    <3> QED
      BY <2>6, <3>1, <3>2 DEF Matches
  <2> HIDE DEF new, old
  <2>a. b \in Bulletin
    OBVIOUS
  <2> DEFINE u == Updated(new, old, b, n)
  <2>8. /\ u.pupil = b.pupil /\ u.generated_at = n /\ u.lines = new.lines
        /\ u.average = Column(old.average, new.average, b.average)
        /\ u.rank = Column(old.rank, new.rank, b.rank)
    BY <2>a DEF Updated, Bulletin
  <2>9. Column(old.average, new.average, b.average) = new.average /\ Column(old.rank, new.rank, b.rank) = new.rank
    BY <2>7 DEF Column
  <2> QED
    BY <1>2, <2>2, <2>3, <2>5, <2>8, <2>9 DEF JustWritten
<1> QED
  BY <1>1, <1>2

\* What a generation leaves, when it had read the papers as they are.
LEMMA RowsGenerated ==
  ASSUME NEW R, RowsOK(R), Matches(R), ~Overwrites(R), \A b \in bulletins : b \in Bulletin,
         \A b, c \in bulletins : b.pupil = c.pupil => b = c,
         NEW n \in 1..MaxServed
  PROVE  /\ \A r \in upsert_bulletins(R, n) :
              \/ r.pupil \in R.roll /\ JustWritten(R, r, n)
              \/ r.pupil \notin R.roll /\ r \in bulletins
         /\ \A p \in R.roll : \E r \in upsert_bulletins(R, n) : r.pupil = p
         /\ \A b \in bulletins : \E r \in upsert_bulletins(R, n) : r.pupil = b.pupil
         /\ \A r, s \in upsert_bulletins(R, n) : r.pupil = s.pupil => r = s
<1> DEFINE B == upsert_bulletins(R, n)
<1>1. B = {After(R, b, n) : b \in bulletins} \cup {NewRow(R, d, n) : d \in Unread(R)}
  BY GenerationIs
<1>2. \A b \in bulletins : /\ After(R, b, n).pupil = b.pupil
                           /\ b.pupil \notin R.roll => After(R, b, n) = b
                           /\ b.pupil \in R.roll => JustWritten(R, After(R, b, n), n)
  BY AfterIs
<1>3. ASSUME NEW d \in Unread(R)
      PROVE  /\ d \in Drafts(R) /\ d.pupil \in R.roll /\ NewRow(R, d, n).pupil = d.pupil
             /\ JustWritten(R, NewRow(R, d, n), n) /\ \A b \in bulletins : b.pupil # d.pupil
  <2>1. d \in Drafts(R) /\ d.pupil \in R.roll
    BY DraftsType DEF Unread
  <2>2. NewRow(R, d, n).pupil = d.pupil /\ JustWritten(R, NewRow(R, d, n), n)
    BY <2>1 DEF NewRow, Inserted, Computed, JustWritten
  <2>3. \A old \in R.bulletins : old.pupil # d.pupil
    BY DEF Unread, Of
  <2> QED
    BY <2>1, <2>2, <2>3, AllRead
<1> HIDE DEF B
<1>4. \A r \in B : \/ r.pupil \in R.roll /\ JustWritten(R, r, n)
                   \/ r.pupil \notin R.roll /\ r \in bulletins
  BY <1>1, <1>2, <1>3
<1>5. \A b \in bulletins : \E r \in B : r.pupil = b.pupil
  BY <1>1, <1>2
<1>6. ASSUME NEW p \in R.roll PROVE \E r \in B : r.pupil = p
  <2>1. PICK d \in Drafts(R) : d.pupil = p
    BY DraftsType
  <2>2. CASE d \in Unread(R)
    BY <1>1, <1>3, <2>1, <2>2
  <2>3. CASE d \notin Unread(R)
    <3>1. PICK old \in R.bulletins : old.pupil = p
      BY <2>1, <2>3 DEF Unread, Of
    <3> QED
      BY <1>5, <3>1, AllRead
  <2> QED
    BY <2>2, <2>3
<1>7. ASSUME NEW r \in B, NEW s \in B, r.pupil = s.pupil PROVE r = s
  <2>1. CASE (\E b \in bulletins : r = After(R, b, n)) /\ (\E c \in bulletins : s = After(R, c, n))
    BY <1>2, <1>7, <2>1
  <2>2. CASE (\E d \in Unread(R) : r = NewRow(R, d, n)) /\ (\E e \in Unread(R) : s = NewRow(R, e, n))
    <3>1. PICK d \in Unread(R), e \in Unread(R) : r = NewRow(R, d, n) /\ s = NewRow(R, e, n)
      BY <2>2
    <3>2. d = e
      BY <1>3, <1>7, <3>1, DraftsType
    <3> QED
      BY <3>1, <3>2
  <2>3. ASSUME NEW b \in bulletins, NEW d \in Unread(R) PROVE After(R, b, n).pupil # NewRow(R, d, n).pupil
    BY <1>2, <1>3
  <2> QED
    BY <1>1, <1>7, <2>1, <2>2, <2>3
<1> QED
  BY <1>4, <1>5, <1>6, <1>7 DEF B

\* The last rank of a generation and the pupils not above it fill its list.
LEMMA RanksFill ==
  ASSUME NEW R, RowsOK(R), NEW B, NEW n, NEW b \in B, NEW d \in Drafts(R),
         \A r \in B : r.pupil \in Pupil,
         \A r, s \in B : r.pupil = s.pupil => r = s,
         \A r \in B : r.generated_at = n <=> r.pupil \in R.roll,
         \A r \in B : r.generated_at = n => JustWritten(R, r, n),
         \A p \in R.roll : \E r \in B : r.pupil = p,
         b.generated_at = n, b.average = d.average, d.average # Unset
  PROVE  CompetitionRank(Drafts(R), d.average) + Cardinality(NotAbove(B, b)) = Cardinality(PeersOf(B, b)) + 1
<1> DEFINE D == Drafts(R)
           All == {x \in D : x.average # Unset}
           Up == Better(D, d.average)
           Down == {x \in All : x.average <= d.average}
           P(S) == {x.pupil : x \in S}
<1>1. /\ \A x \in D : x.pupil \in R.roll /\ x.pupil \in Pupil /\ (x.average # Unset => x.average \in Nat)
      /\ \A x, y \in D : x.pupil = y.pupil => x = y
  BY DraftsType, AverageIs DEF Draft
<1>2. \A r \in B : r.generated_at = n => \E x \in D : x.pupil = r.pupil /\ x.average = r.average
  BY DEF JustWritten
<1>3. \A x \in D : \E r \in B : r.generated_at = n /\ r.pupil = x.pupil /\ r.average = x.average
  <2> SUFFICES ASSUME NEW x \in D
               PROVE  \E r \in B : r.generated_at = n /\ r.pupil = x.pupil /\ r.average = x.average
    OBVIOUS
  <2>1. PICK r \in B : r.pupil = x.pupil
    BY <1>1
  <2>2. r.generated_at = n
    BY <1>1, <2>1
  <2>3. PICK y \in D : y.pupil = r.pupil /\ y.average = r.average
    BY <1>2, <2>2
  <2> QED
    BY <1>1, <2>1, <2>2, <2>3
<1> HIDE DEF D
<1>4. PeersOf(B, b) = P(All)
  <2>1. \A p \in PeersOf(B, b) : \E x \in All : x.pupil = p
    BY <1>2 DEF PeersOf
  <2>2. \A x \in All : x.pupil \in PeersOf(B, b)
    BY <1>3 DEF PeersOf
  <2> QED
    BY <2>1, <2>2
<1>5. NotAbove(B, b) = P(Down)
  <2>1. \A p \in NotAbove(B, b) : \E x \in Down : x.pupil = p
    BY <1>2 DEF NotAbove
  <2>2. \A x \in Down : x.pupil \in NotAbove(B, b)
    BY <1>3 DEF NotAbove
  <2> QED
    BY <2>1, <2>2
<1>6. Up \subseteq All /\ Down = All \ Up /\ All \cap Up = Up
  <2>1. d.average \in Nat
    BY <1>1 DEF D
  <2> QED
    BY <1>1, <2>1 DEF Better
<1>7. ASSUME NEW S \in SUBSET D
      PROVE  IsFiniteSet(S) /\ Cardinality(S) = Cardinality(P(S)) /\ Cardinality(S) \in Nat
  BY <1>1, ByPupil
<1>8. Up \in SUBSET D /\ Down \in SUBSET D /\ All \in SUBSET D
  BY <1>6
<1>9. Cardinality(Down) = Cardinality(All) - Cardinality(Up)
  <2>1. IsFiniteSet(All) /\ Down = All \ Up /\ All \cap Up = Up
    BY <1>6, <1>7, <1>8
  <2> HIDE DEF All, Up, Down
  <2>2. Cardinality(All \ Up) = Cardinality(All) - Cardinality(All \cap Up)
    BY <2>1, FS_Difference
  <2> QED
    BY <2>1, <2>2
<1>10. CompetitionRank(D, d.average) = 1 + Cardinality(Up)
  BY DEF CompetitionRank
<1>a. /\ Cardinality(Down) = Cardinality(P(Down)) /\ Cardinality(Down) \in Nat
      /\ Cardinality(All) = Cardinality(P(All)) /\ Cardinality(All) \in Nat
      /\ Cardinality(Up) \in Nat
  BY <1>7, <1>8
<1> HIDE DEF All, Up, Down, P
<1> QED
  BY <1>4, <1>5, <1>9, <1>10, <1>a DEF D

\* A generation that overwrites nothing it did not read leaves rows that agree.
LEMMA GenerationAgrees ==
  ASSUME NEW R, RowsOK(R), Matches(R), ~Overwrites(R), \A b \in bulletins : b \in Bulletin,
         RowsAgree(bulletins), Dated, R.roll # {},
         NEW n \in 1..MaxServed, handled \in Nat, n = handled + 1
  PROVE  RowsAgree(upsert_bulletins(R, n))
<1> DEFINE B == upsert_bulletins(R, n)
<1>1. /\ \A r \in B : \/ r.pupil \in R.roll /\ JustWritten(R, r, n)
                      \/ r.pupil \notin R.roll /\ r \in bulletins
      /\ \A p \in R.roll : \E r \in B : r.pupil = p
      /\ \A r, s \in B : r.pupil = s.pupil => r = s
  BY RowsGenerated DEF RowsAgree
<1>2. \A r \in B : r \in Bulletin
  BY GenerationType
<1> HIDE DEF B
<1>3. \A r \in bulletins : r.generated_at \in Nat /\ r.generated_at < n
  BY DEF Dated, Bulletin
<1>4. \A r \in B : /\ r.generated_at = n <=> r.pupil \in R.roll
                   /\ r.generated_at = n => JustWritten(R, r, n)
                   /\ r.generated_at # n => r \in bulletins
  BY <1>1, <1>3 DEF JustWritten
<1>5. ASSUME NEW r \in B
      PROVE  r.average = TermAverage(r.lines) /\ (r.rank = Unset <=> r.average = Unset)
  <2>1. CASE r.generated_at = n
    <3>1. PICK d \in Drafts(R) : /\ d.pupil = r.pupil /\ r.average = d.average /\ r.lines = d.lines
                                 /\ r.rank = CompetitionRank(Drafts(R), d.average)
      BY <1>4, <2>1 DEF JustWritten
    <3>2. d.average = TermAverage(d.lines)
      BY DraftsType
    <3>3. CompetitionRank(Drafts(R), d.average) = Unset <=> d.average = Unset
      <4>1. CASE d.average = Unset
        BY <4>1 DEF CompetitionRank
      <4>2. CASE d.average # Unset
        BY <4>2, DraftRanks, NotUnset
      <4> QED
        BY <4>1, <4>2
    <3> QED
      BY <3>1, <3>2, <3>3
  <2>2. CASE r.generated_at # n
    BY <1>4, <2>2 DEF RowsAgree
  <2> QED
    BY <2>1, <2>2
<1>6. ASSUME NEW r \in B, NEW s \in B, r.generated_at = s.generated_at, HasAverage(r), HasAverage(s)
      PROVE  r.rank < s.rank <=> r.average > s.average
  <2>1. CASE r.generated_at = n
    <3>1. PICK d \in Drafts(R) : r.average = d.average /\ r.rank = CompetitionRank(Drafts(R), d.average)
      BY <1>4, <2>1 DEF JustWritten
    <3>2. PICK e \in Drafts(R) : s.average = e.average /\ s.rank = CompetitionRank(Drafts(R), e.average)
      BY <1>4, <1>6, <2>1 DEF JustWritten
    <3> QED
      BY <1>6, <3>1, <3>2, DraftRanks DEF HasAverage
  <2>2. CASE r.generated_at # n
    BY <1>4, <1>6, <2>2 DEF RowsAgree
  <2> QED
    BY <2>1, <2>2
<1>7. ASSUME NEW b \in B, HasAverage(b), \A c \in B : c.generated_at <= b.generated_at
      PROVE  b.rank + Cardinality(NotAbove(B, b)) = Cardinality(PeersOf(B, b)) + 1
  <2>1. b.generated_at = n
    <3>1. PICK c \in B : c.generated_at = n
      BY <1>1, <1>4
    <3>2. n <= b.generated_at /\ b.generated_at \in Nat
      BY <1>2, <1>7, <3>1 DEF Bulletin
    <3> QED
      BY <1>3, <1>4, <3>2
  <2>2. PICK d \in Drafts(R) : b.average = d.average /\ b.rank = CompetitionRank(Drafts(R), d.average)
    BY <1>4, <2>1 DEF JustWritten
  <2>3. \A r \in B : r.pupil \in Pupil
    BY <1>2 DEF Bulletin
  <2>4. d.average # Unset
    BY <1>7, <2>2 DEF HasAverage
  <2>5. /\ \A r, s \in B : r.pupil = s.pupil => r = s
        /\ \A r \in B : r.generated_at = n <=> r.pupil \in R.roll
        /\ \A r \in B : r.generated_at = n => JustWritten(R, r, n)
        /\ \A p \in R.roll : \E r \in B : r.pupil = p
    BY <1>1, <1>4
  <2>6. RowsOK(R) /\ b \in B /\ d \in Drafts(R) /\ b.average = d.average
    BY <1>7, <2>2
  <2>7. CompetitionRank(Drafts(R), d.average) + Cardinality(NotAbove(B, b)) = Cardinality(PeersOf(B, b)) + 1
    BY ONLY <2>1, <2>3, <2>4, <2>5, <2>6, RanksFill
  <2> QED
    BY ONLY <2>2, <2>7
<1> QED
  BY <1>1, <1>5, <1>6, <1>7 DEF RowsAgree, B

\* What a request sees has the averages of the bulletins it also finds stored.
LEMMA MatchesSees ==
  ASSUME RowsInv, PapersInv, ~torn, NEW late \in BOOLEAN, Takes(late)
  PROVE  Matches(Sees(late))
<1>1. CASE late
  BY <1>1 DEF Takes, Sees, PapersInv
<1>2. CASE ~late
  <2>1. Dated /\ \A b, c \in bulletins : b.pupil = c.pupil => b = c
    BY DEF PapersInv, RowsAgree
  <2>2. Sees(late).bulletins = bulletins
    BY <1>2 DEF Sees, Stored
  <2> QED
    BY <2>1, <2>2 DEF Matches, Dated
<1> QED
  BY <1>1, <1>2

\* The rows of the bulletins are dated by requests that were handled: later ones keep that.
LEMMA LaterMatches ==
  ASSUME RowsInv, NEW late \in BOOLEAN, Takes(late), opened' # Unset, opened # Unset => Matches(opened),
         \A b \in bulletins' : \/ b.generated_at = handled'
                               \/ \E c \in bulletins : /\ b.pupil = c.pupil /\ b.id = c.id
                                                       /\ b.generated_at = c.generated_at
                                                       /\ b.average = c.average /\ b.rank = c.rank
                                                       /\ b.decision = c.decision
  PROVE  Matches(opened)'
<1>1. opened' = opened /\ Matches(opened)
  BY DEF Takes
<1>2. handled' = handled + 1 /\ handled \in Nat
  BY SeesOK
<1>3. \A old \in opened.bulletins : old.generated_at \in Nat /\ old.generated_at <= handled
  BY <1>1 DEF RowsInv, ReadOK, RowsOK, Bulletin, Matches
<1>4. \A old \in opened.bulletins : old.generated_at <= handled' /\ old.generated_at # handled'
  BY <1>2, <1>3
<1>5. ASSUME NEW old \in opened.bulletins, NEW b \in bulletins',
             b.pupil = old.pupil /\ b.id = old.id /\ b.generated_at = old.generated_at
      PROVE  old.average = b.average /\ old.rank = b.rank /\ old.decision = b.decision
  <2>1. PICK c \in bulletins : /\ b.pupil = c.pupil /\ b.id = c.id /\ b.generated_at = c.generated_at
                               /\ b.average = c.average /\ b.rank = c.rank /\ b.decision = c.decision
    BY <1>4, <1>5
  <2> QED
    BY <1>1, <1>5, <2>1 DEF Matches
<1> QED
  BY <1>1, <1>4, <1>5 DEF Matches

\* A request that writes neither bulletins nor minutes.
LEMMA PapersAlone ==
  ASSUME RowsInv, PapersInv, NEW late \in BOOLEAN, Takes(late), UNCHANGED <<bulletins, minutes, torn>>
  PROVE  PapersInv'
<1>1. CASE torn
  BY <1>1 DEF PapersInv
<1>2. CASE ~torn
  <2>1. RowsAgree(bulletins) /\ Dated /\ MinutesQuoteBulletins /\ (opened # Unset => Matches(opened))
    BY <1>2 DEF PapersInv
  <2>2. handled' = handled + 1 /\ handled \in Nat /\ \A b \in bulletins : b.generated_at \in Nat
    BY SeesOK DEF RowsInv, ReadOK, RowsOK, Stored, Bulletin
  <2>3. RowsAgree(bulletins)'
    BY <2>1 DEF RowsAgree, NotAbove, PeersOf, HasAverage
  <2>4. Dated'
    BY <2>1, <2>2 DEF Dated
  <2>5. MinutesQuoteBulletins'
    BY <2>1 DEF MinutesQuoteBulletins, Of
  <2>6. ASSUME opened' # Unset PROVE Matches(opened)'
    BY <2>1, <2>6, LaterMatches
  <2> QED
    BY <2>3, <2>4, <2>5, <2>6 DEF PapersInv
<1> QED
  BY <1>1, <1>2

\* Each of the requests keeps the papers agreed: a snapshot is what is stored;
LEMMA PapersSnapshot == ASSUME RowsInv, PapersInv, open_snapshot PROVE PapersInv'
<1>1. opened' = Stored /\ UNCHANGED <<roll, marks, tickets, register, bulletins, minutes, torn, handled>>
  BY DEF open_snapshot
<1>2. CASE torn
  BY <1>1, <1>2 DEF PapersInv
<1>3. CASE ~torn
  <2>1. RowsAgree(bulletins) /\ Dated /\ MinutesQuoteBulletins
    BY <1>3 DEF PapersInv
  <2>2. RowsAgree(bulletins)' /\ Dated' /\ MinutesQuoteBulletins'
    <3>1. RowsAgree(bulletins)'
      BY <1>1, <2>1 DEF RowsAgree, NotAbove, PeersOf, HasAverage
    <3>2. Dated'
      BY <1>1, <2>1 DEF Dated
    <3>3. MinutesQuoteBulletins'
      BY <1>1, <2>1 DEF MinutesQuoteBulletins, Of
    <3> QED
      BY <3>1, <3>2, <3>3
  <2>3. opened'.bulletins = bulletins
    BY <1>1 DEF Stored
  <2>4. Matches(opened)'
    <3>1. \A old \in bulletins : old.generated_at <= handled /\ \A b \in bulletins : b.pupil = old.pupil => b = old
      BY <2>1 DEF Dated, RowsAgree
    <3>2. \A old \in opened'.bulletins :
            /\ old.generated_at <= handled'
            /\ \A b \in bulletins' :
                 b.pupil = old.pupil /\ b.id = old.id /\ b.generated_at = old.generated_at =>
                   old.average = b.average /\ old.rank = b.rank /\ old.decision = b.decision
      BY <1>1, <2>3, <3>1
    <3> QED
      BY <3>2 DEF Matches
  <2> QED
    BY <2>2, <2>4 DEF PapersInv
<1> QED
  BY <1>2, <1>3

\* a generation either agrees or is torn;
LEMMA PapersGenerate ==
  ASSUME RowsInv, PapersInv, NEW late \in BOOLEAN, generate_bulletins(late) PROVE PapersInv'
<1> DEFINE R == Sees(late)
           n == handled'
<1>1. Takes(late) /\ bulletins' = upsert_bulletins(R, n) /\ UNCHANGED <<roll, marks, tickets, register, minutes>>
      /\ R.roll # {}
  BY DEF generate_bulletins
<1>2. CASE torn'
  BY <1>2 DEF PapersInv
<1>3. CASE ~torn'
  <2>1. ~torn /\ ~Overwrites(R)
    BY <1>3, Zenon DEF generate_bulletins
  <2>2. Matches(R) /\ RowsOK(R)
    BY <1>1, <2>1, MatchesSees, SeesOK DEF ReadOK
  <2>3. RowsAgree(bulletins) /\ Dated /\ MinutesQuoteBulletins /\ (opened # Unset => Matches(opened))
    BY <2>1 DEF PapersInv
  <2>4. n \in 1..MaxServed /\ n = handled + 1 /\ handled \in Nat
    BY <1>1, SeesOK
  <2>5. \A b \in bulletins : b \in Bulletin
    BY DEF RowsInv, ReadOK, RowsOK, Stored
  <2> HIDE DEF R, n
  <2>6. RowsAgree(upsert_bulletins(R, n))
    BY <1>1, <2>1, <2>2, <2>3, <2>4, <2>5, GenerationAgrees
  <2>7. /\ \A r \in bulletins' : r.generated_at = n \/ r \in bulletins
        /\ \A b \in bulletins : \E r \in bulletins' : r.pupil = b.pupil
    <3>1. \A b, c \in bulletins : b.pupil = c.pupil => b = c
      BY <2>3 DEF RowsAgree
    <3>2. /\ \A r \in upsert_bulletins(R, n) :
                \/ r.pupil \in R.roll /\ JustWritten(R, r, n)
                \/ r.pupil \notin R.roll /\ r \in bulletins
          /\ \A b \in bulletins : \E r \in upsert_bulletins(R, n) : r.pupil = b.pupil
      BY <2>1, <2>2, <2>4, <2>5, <3>1, RowsGenerated
    <3> QED
      BY <1>1, <3>2 DEF JustWritten
  <2>8. \A b \in bulletins : b.generated_at \in Nat /\ b.generated_at < n
    BY <2>3, <2>4, <2>5 DEF Dated, Bulletin
  <2>9. RowsAgree(bulletins)'
    BY <1>1, <2>6 DEF RowsAgree, NotAbove, PeersOf, HasAverage
  <2>10. Dated'
    BY <2>4, <2>7, <2>8 DEF Dated, n
  <2>11. MinutesQuoteBulletins'
    <3> SUFFICES ASSUME minutes # Unset, NEW p \in Pupil, minutes.of[p] # Unset
                 PROVE  /\ minutes.of[p].auto = "exclusion" <=> minutes.of[p].average = Unset \/ minutes.of[p].average < 850
                        /\ Of(bulletins', p) = {} => minutes.of[p].average = Unset
                        /\ \A b \in Of(bulletins', p) : b.generated_at < minutes.id
                             => minutes.of[p].average = b.average /\ minutes.of[p].rank = b.rank
      BY <1>1 DEF MinutesQuoteBulletins
    <3>1. /\ minutes.of[p].auto = "exclusion" <=> minutes.of[p].average = Unset \/ minutes.of[p].average < 850
          /\ Of(bulletins, p) = {} => minutes.of[p].average = Unset
          /\ \A b \in Of(bulletins, p) : b.generated_at < minutes.id
                             => minutes.of[p].average = b.average /\ minutes.of[p].rank = b.rank
      BY <2>3 DEF MinutesQuoteBulletins
    <3>2. minutes.id \in Nat /\ minutes.id < n
      BY <2>4 DEF RowsInv, ReadOK, RowsOK, Stored, Minutes
    <3>3. Of(bulletins', p) = {} => Of(bulletins, p) = {}
      BY <2>7 DEF Of
    <3>4. \A b \in Of(bulletins', p) : b.generated_at < minutes.id => b \in Of(bulletins, p)
      BY <2>4, <2>7, <3>2 DEF Of
    <3> QED
      BY <3>1, <3>3, <3>4
  <2>12. ASSUME opened' # Unset PROVE Matches(opened)'
    BY <1>1, <2>3, <2>7, <2>12, LaterMatches DEF n
  <2> QED
    BY <2>9, <2>10, <2>11, <2>12 DEF PapersInv
<1> QED
  BY <1>2, <1>3

\* What a paper says of a pupil, whether it was published or not.
Says(r, b) ==
  /\ r.pupil = b.pupil /\ r.id = b.id /\ r.generated_at = b.generated_at /\ r.average = b.average
  /\ r.rank = b.rank /\ r.decision = b.decision /\ r.lines = b.lines

\* rows that say the same agree the same;
LEMMA SayingAgrees ==
  ASSUME NEW B, NEW P, RowsAgree(B), \A r, s \in P : r.pupil = s.pupil => r = s,
         \A r \in P : \E b \in B : Says(r, b), \A b \in B : \E r \in P : Says(r, b)
  PROVE  RowsAgree(P)
<1>1. \A r \in P : r.average = TermAverage(r.lines) /\ (r.rank = Unset <=> r.average = Unset)
  BY DEF RowsAgree, Says
<1>2. ASSUME NEW r \in P, NEW s \in P, r.generated_at = s.generated_at, HasAverage(r), HasAverage(s)
      PROVE  r.rank < s.rank <=> r.average > s.average
  <2>1. PICK b \in B : Says(r, b)
    OBVIOUS
  <2>2. PICK c \in B : Says(s, c)
    OBVIOUS
  <2>3. \A x, y \in B : x.generated_at = y.generated_at /\ HasAverage(x) /\ HasAverage(y) =>
                         (x.rank < y.rank <=> x.average > y.average)
    BY DEF RowsAgree
  <2>4. /\ b \in B /\ r.rank = b.rank /\ r.average = b.average
        /\ r.generated_at = b.generated_at
    BY <2>1 DEF Says
  <2>5. /\ c \in B /\ s.rank = c.rank /\ s.average = c.average
        /\ s.generated_at = c.generated_at
    BY <2>2 DEF Says
  <2>6. HasAverage(b) /\ HasAverage(c) /\ b.generated_at = c.generated_at
    BY ONLY <1>2, <2>4, <2>5 DEF HasAverage
  <2>7. b.rank < c.rank <=> b.average > c.average
    BY ONLY <2>3, <2>4, <2>5, <2>6
  <2> QED
    BY ONLY <2>4, <2>5, <2>7
<1>3. ASSUME NEW r \in P, NEW b \in B, Says(r, b)
      PROVE  PeersOf(P, r) = PeersOf(B, b) /\ NotAbove(P, r) = NotAbove(B, b)
  <2>0. r.generated_at = b.generated_at /\ r.average = b.average
    BY <1>3 DEF Says
  <2>1. ASSUME NEW p PROVE p \in PeersOf(P, r) <=> p \in PeersOf(B, b)
    <3>1. p \in PeersOf(P, r) <=> \E c \in P : c.generated_at = r.generated_at /\ c.average # Unset /\ p = c.pupil
      BY DEF PeersOf
    <3>2. p \in PeersOf(B, b) <=> \E c \in B : c.generated_at = b.generated_at /\ c.average # Unset /\ p = c.pupil
      BY DEF PeersOf
    <3> QED
      BY <2>0, <3>1, <3>2 DEF Says
  <2>2. ASSUME NEW p PROVE p \in NotAbove(P, r) <=> p \in NotAbove(B, b)
    <3>1. p \in NotAbove(P, r) <=> \E c \in P : /\ c.generated_at = r.generated_at /\ c.average # Unset
                                                /\ c.average <= r.average /\ p = c.pupil
      BY DEF NotAbove
    <3>2. p \in NotAbove(B, b) <=> \E c \in B : /\ c.generated_at = b.generated_at /\ c.average # Unset
                                                /\ c.average <= b.average /\ p = c.pupil
      BY DEF NotAbove
    <3> QED
      BY <2>0, <3>1, <3>2 DEF Says
  <2> QED
    BY <2>1, <2>2
<1>4. ASSUME NEW r \in P, HasAverage(r), \A c \in P : c.generated_at <= r.generated_at
      PROVE  r.rank + Cardinality(NotAbove(P, r)) = Cardinality(PeersOf(P, r)) + 1
  <2>1. PICK b \in B : Says(r, b)
    OBVIOUS
  <2>2. HasAverage(b) /\ \A c \in B : c.generated_at <= b.generated_at
    BY <1>4, <2>1 DEF HasAverage, Says
  <2>3. b.rank + Cardinality(NotAbove(B, b)) = Cardinality(PeersOf(B, b)) + 1
    BY <2>2 DEF RowsAgree
  <2>4. r.rank = b.rank
    BY <2>1 DEF Says
  <2> QED
    BY <1>3, <2>1, <2>3, <2>4
<1> QED
  BY <1>1, <1>2, <1>4 DEF RowsAgree

\* Publication marks the rows; nothing that a paper says of a pupil moves.
LEMMA PublishedSays ==
  ASSUME NEW B, \A b \in B : b \in Bulletin, \A b, c \in B : b.pupil = c.pupil => b = c,
         NEW P, P = {[b EXCEPT !.published = TRUE] : b \in B}
  PROVE  /\ \A r, s \in P : r.pupil = s.pupil => r = s
         /\ \A r \in P : \E b \in B : Says(r, b)
         /\ \A b \in B : \E r \in P : Says(r, b)
<1>1. ASSUME NEW b \in B PROVE [b EXCEPT !.published = TRUE] \in P /\ Says([b EXCEPT !.published = TRUE], b)
  <2>1. b \in Bulletin /\ [b EXCEPT !.published = TRUE] \in P
    OBVIOUS
  <2> QED
    BY <2>1 DEF Bulletin, Says
<1>2. \A r \in P : \E b \in B : r = [b EXCEPT !.published = TRUE]
  OBVIOUS
<1>3. ASSUME NEW r \in P, NEW s \in P, r.pupil = s.pupil PROVE r = s
  <2>1. PICK b \in B : r = [b EXCEPT !.published = TRUE]
    BY <1>2
  <2>2. PICK c \in B : s = [c EXCEPT !.published = TRUE]
    BY <1>2
  <2>3. b.pupil = c.pupil
    BY <1>1, <1>3, <2>1, <2>2 DEF Says
  <2> QED
    BY <2>1, <2>2, <2>3
<1>4. \A r \in P : \E b \in B : Says(r, b)
  <2> SUFFICES ASSUME NEW r \in P PROVE \E b \in B : Says(r, b)
    OBVIOUS
  <2>1. PICK b \in B : r = [b EXCEPT !.published = TRUE]
    BY <1>2
  <2>2. Says(r, b)
    BY <1>1, <2>1
  <2> QED
    BY <2>2
<1>5. \A b \in B : \E r \in P : Says(r, b)
  <2> SUFFICES ASSUME NEW b \in B PROVE \E r \in P : Says(r, b)
    OBVIOUS
  <2> DEFINE r == [b EXCEPT !.published = TRUE]
  <2>1. r \in P /\ Says(r, b)
    BY <1>1
  <2> HIDE DEF r
  <2> QED
    BY <2>1
<1> QED
  BY <1>3, <1>4, <1>5

\* Minutes and bulletins that say the same still quote each other.
LEMMA QuotesKept ==
  ASSUME MinutesQuoteBulletins, UNCHANGED minutes,
         \A b \in bulletins' : \E c \in bulletins : Says(b, c),
         \A c \in bulletins : \E b \in bulletins' : Says(b, c)
  PROVE  MinutesQuoteBulletins'
<1> SUFFICES ASSUME minutes # Unset, NEW p \in Pupil, minutes.of[p] # Unset
             PROVE  /\ minutes.of[p].auto = "exclusion" <=> minutes.of[p].average = Unset \/ minutes.of[p].average < 850
                    /\ Of(bulletins', p) = {} => minutes.of[p].average = Unset
                    /\ \A b \in Of(bulletins', p) : b.generated_at < minutes.id
                         => minutes.of[p].average = b.average /\ minutes.of[p].rank = b.rank
  BY DEF MinutesQuoteBulletins
<1>1. /\ minutes.of[p].auto = "exclusion" <=> minutes.of[p].average = Unset \/ minutes.of[p].average < 850
      /\ Of(bulletins, p) = {} => minutes.of[p].average = Unset
      /\ \A b \in Of(bulletins, p) : b.generated_at < minutes.id
                         => minutes.of[p].average = b.average /\ minutes.of[p].rank = b.rank
  BY DEF MinutesQuoteBulletins
<1>2. Of(bulletins', p) = {} => Of(bulletins, p) = {}
  BY DEF Of, Says
<1>3. ASSUME NEW b \in Of(bulletins', p), b.generated_at < minutes.id
      PROVE  minutes.of[p].average = b.average /\ minutes.of[p].rank = b.rank
  <2>1. PICK c \in bulletins : Says(b, c)
    BY DEF Of
  <2>2. c \in Of(bulletins, p) /\ c.generated_at < minutes.id
    BY <1>3, <2>1 DEF Of, Says
  <2> QED
    BY <1>1, <2>1, <2>2 DEF Says
<1> QED
  BY <1>1, <1>2, <1>3

\* so a publication changes nothing that is said;
LEMMA PapersPublish == ASSUME RowsInv, PapersInv, publish_bulletins PROVE PapersInv'
<1>1. Takes(FALSE) /\ UNCHANGED <<minutes, torn>>
      /\ bulletins' = {[b EXCEPT !.published = TRUE] : b \in bulletins}
  BY DEF publish_bulletins
<1>2. CASE torn
  BY <1>1, <1>2 DEF PapersInv
<1>3. CASE ~torn
  <2>1. RowsAgree(bulletins) /\ Dated /\ MinutesQuoteBulletins /\ (opened # Unset => Matches(opened))
    BY <1>3 DEF PapersInv
  <2>2. \A b \in bulletins : b \in Bulletin
    BY DEF RowsInv, ReadOK, RowsOK, Stored
  <2>3. \A b, c \in bulletins : b.pupil = c.pupil => b = c
    BY <2>1 DEF RowsAgree
  <2>4. /\ \A r, s \in bulletins' : r.pupil = s.pupil => r = s
        /\ \A r \in bulletins' : \E b \in bulletins : Says(r, b)
        /\ \A b \in bulletins : \E r \in bulletins' : Says(r, b)
    BY <1>1, <2>2, <2>3, PublishedSays
  <2> DEFINE P == bulletins'
  <2>5. RowsAgree(P)
    BY <2>1, <2>4, SayingAgrees
  <2>6. RowsAgree(bulletins)'
    BY <2>5 DEF RowsAgree, NotAbove, PeersOf, HasAverage
  <2>7. handled' = handled + 1 /\ handled \in Nat
    BY <1>1, SeesOK
  <2>8. Dated'
    BY <2>1, <2>2, <2>4, <2>7 DEF Dated, Bulletin, Says
  <2>9. MinutesQuoteBulletins'
    BY <1>1, <2>1, <2>4, QuotesKept
  <2>10. ASSUME opened' # Unset PROVE Matches(opened)'
    <3>1. \A b \in bulletins' : \E c \in bulletins :
             /\ b.pupil = c.pupil /\ b.id = c.id /\ b.generated_at = c.generated_at
             /\ b.average = c.average /\ b.rank = c.rank /\ b.decision = c.decision
      BY <2>4 DEF Says
    <3> QED
      BY <1>1, <2>1, <2>10, <3>1, LaterMatches
  <2> QED
    BY <2>6, <2>8, <2>9, <2>10 DEF PapersInv
<1> QED
  BY <1>2, <1>3

\* Minutes drawn from the bulletins as they are quote them.
LEMMA DecidedQuotes ==
  ASSUME NEW R, RowsOK(R), Matches(R), ~Overwrites(R),
         \A b, c \in bulletins : b.pupil = c.pupil => b = c, NEW p \in Pupil
  PROVE  /\ Decided(R, p).auto = "exclusion"
              <=> Decided(R, p).average = Unset \/ Decided(R, p).average < 850
         /\ Of(bulletins, p) = {} => Decided(R, p).average = Unset
         /\ \A b \in Of(bulletins, p) : Decided(R, p).average = b.average /\ Decided(R, p).rank = b.rank
<1> DEFINE B == Of(R.bulletins, p)
           x == CHOOSE x \in B : TRUE
           avg == IF B = {} THEN Unset ELSE x.average
           rank == IF B = {} THEN Unset ELSE x.rank
<1>1. Decided(R, p) = [average |-> avg, rank |-> rank, absences |-> count_absences_for_student(R, p),
                       auto |-> get_auto_decision(avg), final |-> Unset]
  BY DEF Decided
<1>2. avg \in Average
  <2>1. B # {} => x \in R.bulletins
    BY DEF Of
  <2>2. B # {} => x \in Bulletin
    BY <2>1 DEF RowsOK
  <2> QED
    BY <2>2 DEF Average, Bulletin
<1>3. Of(bulletins, p) = {} => avg = Unset
  <2>1. Of(bulletins, p) = {} => B = {}
    BY AllRead DEF Of
  <2> QED
    BY <2>1
<1>4. ASSUME NEW b \in Of(bulletins, p) PROVE avg = b.average /\ rank = b.rank
  <2>1. b \in bulletins /\ b.pupil = p
    BY DEF Of
  <2>2. B # {}
    BY <2>1, AllRead DEF Of
  <2>3. x \in R.bulletins /\ x.pupil = p
    BY <2>2 DEF Of
  <2>4. PICK c \in bulletins : x.pupil = c.pupil /\ x.id = c.id /\ x.generated_at = c.generated_at
    BY <2>3, AllRead
  <2>5. c = b
    BY <2>1, <2>3, <2>4
  <2>6. x.average = b.average /\ x.rank = b.rank
    BY <2>1, <2>3, <2>4, <2>5 DEF Matches
  <2> QED
    BY <2>2, <2>6
<1> HIDE DEF avg, rank
<1>5. get_auto_decision(avg) = "exclusion" <=> avg = Unset \/ avg < 850
  <2>1. CASE avg = Unset
    BY <2>1 DEF get_auto_decision
  <2>2. CASE avg # Unset
    <3>1. avg \in Nat
      BY <1>2, <2>2, AverageIs
    <3>2. get_auto_decision(avg) = compute_council_decision(avg)
      BY <2>2 DEF get_auto_decision
    <3> QED
      BY <2>2, <3>1, <3>2 DEF compute_council_decision
  <2> QED
    BY <2>1, <2>2
<1> QED
  BY <1>1, <1>3, <1>4, <1>5

\* What the steps of the minutes share.
LEMMA PapersMinuted ==
  ASSUME RowsInv, PapersInv, NEW late \in BOOLEAN, Takes(late), UNCHANGED bulletins,
         torn => torn', ~torn' => MinutesQuoteBulletins'
  PROVE  PapersInv'
<1>1. CASE torn'
  BY <1>1 DEF PapersInv
<1>2. CASE ~torn'
  <2>1. RowsAgree(bulletins) /\ Dated /\ (opened # Unset => Matches(opened))
    BY <1>2 DEF PapersInv
  <2>2. handled' = handled + 1 /\ handled \in Nat /\ \A b \in bulletins : b.generated_at \in Nat
    BY SeesOK DEF RowsInv, ReadOK, RowsOK, Stored, Bulletin
  <2>3. RowsAgree(bulletins)'
    BY <2>1 DEF RowsAgree, NotAbove, PeersOf, HasAverage
  <2>4. Dated'
    BY <2>1, <2>2 DEF Dated
  <2>5. ASSUME opened' # Unset PROVE Matches(opened)'
    BY <2>1, <2>5, LaterMatches
  <2> QED
    BY <1>2, <2>3, <2>4, <2>5 DEF PapersInv
<1> QED
  BY <1>1, <1>2

\* minutes quote the bulletins they read;
LEMMA PapersDrawUp ==
  ASSUME RowsInv, PapersInv, NEW late \in BOOLEAN, generate_council_minutes(late) PROVE PapersInv'
<1> DEFINE R == Sees(late)
           of == [p \in Pupil |-> IF p \in R.roll THEN Decided(R, p) ELSE Unset]
<1>1. Takes(late) /\ UNCHANGED bulletins
      /\ minutes' = [id |-> handled', published |-> FALSE, of |-> of]
  BY DEF generate_council_minutes
<1>2. torn => torn'
  BY Zenon DEF generate_council_minutes
<1>3. ASSUME ~torn' PROVE MinutesQuoteBulletins'
  <2>1. ~torn /\ ~Overwrites(R)
    BY <1>3, Zenon DEF generate_council_minutes
  <2>2. Matches(R) /\ RowsOK(R) /\ R.roll \subseteq Pupil
    BY <1>1, <2>1, MatchesSees, SeesOK DEF ReadOK, RowsOK
  <2>3. \A b, c \in bulletins : b.pupil = c.pupil => b = c
    BY <2>1 DEF PapersInv, RowsAgree
  <2>4. minutes'.of = of
    BY <1>1
  <2> HIDE DEF R
  <2>5. \A p \in Pupil : of[p] # Unset => of[p] = Decided(R, p)
    OBVIOUS
  <2> HIDE DEF of
  <2>6. ASSUME NEW p \in Pupil, of[p] # Unset
        PROVE  /\ of[p].auto = "exclusion" <=> of[p].average = Unset \/ of[p].average < 850
               /\ Of(bulletins, p) = {} => of[p].average = Unset
               /\ \A b \in Of(bulletins, p) : of[p].average = b.average /\ of[p].rank = b.rank
    BY <2>1, <2>2, <2>3, <2>5, <2>6, DecidedQuotes
  <2> QED
    BY <1>1, <2>4, <2>6 DEF MinutesQuoteBulletins, Of
<1> QED
  BY <1>1, <1>2, <1>3, PapersMinuted

\* decisions settled quote what was quoted,
LEMMA PapersSettled ==
  ASSUME RowsInv, PapersInv, NEW late \in BOOLEAN, Takes(late), minutes # Unset,
         UNCHANGED <<bulletins, torn>>, minutes'.id = minutes.id,
         \A p \in Pupil : minutes.of[p] \in StudentDecision =>
              \A f \in {"average", "rank", "absences", "auto"} : minutes'.of[p][f] = minutes.of[p][f],
         \A p \in Pupil : minutes.of[p] = Unset => minutes'.of[p] = Unset
  PROVE  PapersInv'
<1>1. ASSUME ~torn PROVE MinutesQuoteBulletins'
  <2>1. MinutesQuoteBulletins /\ minutes \in Minutes
    BY <1>1 DEF PapersInv, RowsInv, ReadOK, RowsOK, Stored
  <2>2. ASSUME NEW p \in Pupil, minutes'.of[p] # Unset
        PROVE  /\ minutes'.of[p].auto = "exclusion" <=> minutes'.of[p].average = Unset \/ minutes'.of[p].average < 850
               /\ Of(bulletins, p) = {} => minutes'.of[p].average = Unset
               /\ \A b \in Of(bulletins, p) : b.generated_at < minutes.id
                    => minutes'.of[p].average = b.average /\ minutes'.of[p].rank = b.rank
    <3>1. minutes.of[p] # Unset /\ minutes.of[p] \in StudentDecision
      BY <2>1, <2>2 DEF Minutes
    <3>2. /\ minutes'.of[p].auto = minutes.of[p].auto /\ minutes'.of[p].average = minutes.of[p].average
          /\ minutes'.of[p].rank = minutes.of[p].rank
      BY <3>1
    <3>3. /\ minutes.of[p].auto = "exclusion" <=> minutes.of[p].average = Unset \/ minutes.of[p].average < 850
          /\ Of(bulletins, p) = {} => minutes.of[p].average = Unset
          /\ \A b \in Of(bulletins, p) : b.generated_at < minutes.id
                    => minutes.of[p].average = b.average /\ minutes.of[p].rank = b.rank
      BY <2>1, <3>1 DEF MinutesQuoteBulletins
    <3> QED
      BY <3>2, <3>3
  <2> QED
    BY <2>2 DEF MinutesQuoteBulletins, Of
<1> QED
  BY <1>1, PapersMinuted

\* The marks, the roll and the calls write on no paper.
LEMMA PapersElsewhere == ASSUME RowsInv, PapersInv, MarksStep \/ CallStep PROVE PapersInv'
<1>1. ASSUME NEW p \in Pupil, change_enrollment(p) PROVE PapersInv'
  BY <1>1, PapersAlone DEF change_enrollment
<1>2. ASSUME NEW e \in Evaluation, NEW late \in BOOLEAN, create_evaluation(late, e) PROVE PapersInv'
  BY <1>2, PapersAlone DEF create_evaluation
<1>3. ASSUME NEW e \in Evaluation, NEW late \in BOOLEAN, NEW may_edit \in BOOLEAN, NEW s \in Sheets,
             batch_update_grades(late, e, s, may_edit)
      PROVE  PapersInv'
  BY <1>3, PapersAlone DEF batch_update_grades
<1>4. ASSUME NEW p \in Pupil, NEW late \in BOOLEAN, NEW E \in SUBSET Evaluation, create_authorization(late, p, E)
      PROVE  PapersInv'
  BY <1>4, PapersAlone DEF create_authorization
<1>5. ASSUME NEW d \in Day, NEW c \in Calls, create_session(d, c) PROVE PapersInv'
  BY <1>5, PapersAlone DEF create_session
<1>6. ASSUME NEW d \in Day, NEW c \in Calls, NEW late \in BOOLEAN, update_session(late, d, c) PROVE PapersInv'
  BY <1>6, PapersAlone DEF update_session
<1>7. ASSUME NEW d \in Day, NEW p \in Pupil, NEW late \in BOOLEAN, close_absence(late, d, p) PROVE PapersInv'
  BY <1>7, PapersAlone DEF close_absence
<1> QED
  BY <1>1, <1>2, <1>3, <1>4, <1>5, <1>6, <1>7 DEF MarksStep, CallStep

\* whether a decision is overridden or a batch of them.
LEMMA PapersRuled ==
  ASSUME RowsInv, PapersInv, NEW late \in BOOLEAN, Takes(late), SameMinutes(Sees(late)), NEW ruling,
         \A p \in DOMAIN ruling : ruling[p] \in CouncilDecision,
         minutes' = Settled(Sees(late).minutes, ruling), UNCHANGED <<bulletins, torn>>
  PROVE  PapersInv'
<1>1. /\ minutes'.id = minutes.id
      /\ \A p \in Pupil : minutes.of[p] \in StudentDecision =>
           \A f \in {"average", "rank", "absences", "auto"} : minutes'.of[p][f] = minutes.of[p][f]
      /\ \A p \in Pupil : minutes.of[p] = Unset => minutes'.of[p] = Unset
  BY SettledType
<1>2. minutes # Unset
  BY DEF SameMinutes
<1> QED
  BY <1>1, <1>2, PapersSettled

\* Every step keeps the papers agreed.
LEMMA PapersStep == PapersInv /\ RowsInv /\ [CouncilNext]_councilvars => PapersInv'
<1> SUFFICES ASSUME RowsInv, PapersInv, [CouncilNext]_councilvars PROVE PapersInv'
  OBVIOUS
<1>1. CASE open_snapshot
  BY <1>1, PapersSnapshot
<1>2. CASE MarksStep \/ CallStep
  BY <1>2, PapersElsewhere
<1>3. ASSUME NEW late \in BOOLEAN, generate_bulletins(late) PROVE PapersInv'
  BY <1>3, PapersGenerate
<1>4. CASE publish_bulletins
  BY <1>4, PapersPublish
<1>5. ASSUME NEW late \in BOOLEAN, generate_council_minutes(late) PROVE PapersInv'
  BY <1>5, PapersDrawUp
<1>6. ASSUME NEW late \in BOOLEAN, NEW d \in Rulings, update_decisions_batch(late, d) PROVE PapersInv'
  <2>1. \A p \in DOMAIN d : d[p] \in CouncilDecision
    BY CouncilAssumption
  <2> QED
    BY <1>6, <2>1, PapersRuled DEF update_decisions_batch
<1>7. ASSUME NEW late \in BOOLEAN, NEW d \in Rulings, NEW p \in DOMAIN d, override_decision(late, p, d[p])
      PROVE  PapersInv'
  <2> DEFINE ruling == [q \in {p} |-> d[p]]
  <2>1. \A q \in DOMAIN ruling : ruling[q] \in CouncilDecision
    BY CouncilAssumption
  <2>2. Takes(late) /\ SameMinutes(Sees(late)) /\ minutes' = Settled(Sees(late).minutes, ruling)
        /\ UNCHANGED <<bulletins, torn>>
    BY <1>7 DEF override_decision
  <2> HIDE DEF ruling
  <2> QED
    BY <2>1, <2>2, PapersRuled
<1>8. ASSUME NEW late \in BOOLEAN, validate_council_minutes(late) PROVE PapersInv'
  <2>1. Takes(late) /\ minutes # Unset /\ minutes' = [minutes EXCEPT !.published = TRUE]
        /\ UNCHANGED <<bulletins, torn>>
    BY <1>8 DEF validate_council_minutes, SameMinutes
  <2>2. minutes \in Minutes
    BY <2>1 DEF RowsInv, ReadOK, RowsOK, Stored
  <2>3. minutes'.id = minutes.id /\ minutes'.of = minutes.of
    BY <2>1, <2>2 DEF Minutes
  <2> QED
    BY <2>1, <2>3, PapersSettled
<1>9. CASE UNCHANGED councilvars
  BY <1>9 DEF councilvars, PapersInv, RowsAgree, NotAbove, PeersOf, HasAverage, Dated, MinutesQuoteBulletins, Of, Matches
<1> QED
  BY <1>1, <1>2, <1>3, <1>4, <1>5, <1>6, <1>7, <1>8, <1>9 DEF CouncilNext, CouncilStep

\* Rows that agree rank the class.
LEMMA RanksFollow ==
  ASSUME RowsInv, RowsAgree(bulletins) PROVE RanksFollowAverages
<1> DEFINE last == Max({b.generated_at : b \in bulletins})
<1>1. /\ \A b \in bulletins : b.pupil \in Pupil /\ b.generated_at \in Nat /\ b.generated_at <= MaxServed
      /\ \A b, c \in bulletins : b.pupil = c.pupil => b = c
      /\ MaxServed \in Nat
  BY CouncilAssumption DEF RowsInv, ReadOK, RowsOK, Stored, Bulletin, RowsAgree
<1>2. ASSUME NEW b \in bulletins PROVE \A c \in bulletins : c.generated_at <= last
  <2> DEFINE G == {x.generated_at : x \in bulletins}
  <2>1. G \subseteq Nat /\ G # {} /\ \A g \in G : g <= MaxServed
    BY <1>1
  <2>2. \A c \in bulletins : c.generated_at \in G
    OBVIOUS
  <2>3. last = Max(G)
    OBVIOUS
  <2> HIDE DEF G, last
  <2>4. IsFiniteSet(G)
    BY <1>1, <2>1, FS_BoundedSetOfNaturals
  <2>5. \A g \in G : g <= last
    BY <2>1, <2>3, <2>4, MaxIs
  <2> QED
    BY <2>2, <2>5
<1> HIDE DEF last
<1>3. ASSUME NEW b \in bulletins, HasAverage(b), b.generated_at = last
      PROVE  LET Peers == {c \in bulletins : c.generated_at = b.generated_at /\ c.average # Unset}
             IN  b.rank + Cardinality({c \in Peers : c.average <= b.average}) = Cardinality(Peers) + 1
  <2> DEFINE Peers == {c \in bulletins : c.generated_at = b.generated_at /\ c.average # Unset}
             Low == {c \in Peers : c.average <= b.average}
             P(S) == {c.pupil : c \in S}
  <2>1. \A c \in bulletins : c.generated_at <= b.generated_at
    BY <1>2, <1>3
  <2>2. b.rank + Cardinality(NotAbove(bulletins, b)) = Cardinality(PeersOf(bulletins, b)) + 1
    BY <1>3, <2>1 DEF RowsAgree
  <2>3. PeersOf(bulletins, b) = P(Peers)
    BY DEF PeersOf
  <2>4. NotAbove(bulletins, b) = P(Low)
    BY DEF NotAbove
  <2>5. Cardinality(Peers) = Cardinality(P(Peers)) /\ Cardinality(Low) = Cardinality(P(Low))
    <3>1. ASSUME NEW S \in SUBSET bulletins PROVE Cardinality(S) = Cardinality(P(S))
      BY <1>1, ByPupil
    <3>2. Peers \in SUBSET bulletins /\ Low \in SUBSET bulletins
      OBVIOUS
    <3> HIDE DEF Peers, Low, P
    <3> QED
      BY <3>1, <3>2
  <2> QED
    BY <2>2, <2>3, <2>4, <2>5, Zenon
<1>4. \A b \in bulletins : b.average = TermAverage(b.lines) /\ (b.rank = Unset <=> b.average = Unset)
  BY DEF RowsAgree
<1>5. \A b, c \in bulletins : c.generated_at = b.generated_at /\ b.average # Unset /\ c.average # Unset =>
        (b.rank < c.rank <=> b.average > c.average)
  BY DEF RowsAgree, HasAverage
<1>6. ASSUME NEW b \in bulletins
      PROVE  LET Peers == {c \in bulletins : c.generated_at = b.generated_at /\ c.average # Unset}
             IN  /\ b.average = TermAverage(b.lines)
                 /\ b.rank = Unset <=> b.average = Unset
                 /\ b \in Peers =>
                      /\ \A c \in Peers : b.rank < c.rank <=> b.average > c.average
                      /\ b.generated_at = last =>
                           b.rank + Cardinality({c \in Peers : c.average <= b.average})
                             = Cardinality(Peers) + 1
  <2> DEFINE Peers == {c \in bulletins : c.generated_at = b.generated_at /\ c.average # Unset}
  <2>1. b \in Peers => HasAverage(b)
    BY DEF HasAverage
  <2>2. \A c \in Peers : b \in Peers => (b.rank < c.rank <=> b.average > c.average)
    BY <1>5
  <2>3. b \in Peers /\ b.generated_at = last =>
          b.rank + Cardinality({c \in Peers : c.average <= b.average}) = Cardinality(Peers) + 1
    BY <1>3, <2>1, Zenon
  <2> QED
    BY <1>4, <2>2, <2>3, Zenon
<1> QED
  BY <1>6, Zenon DEF RanksFollowAverages, last

\* The invariant is stronger than what is promised.
LEMMA PapersAreAgreed == PapersInv /\ RowsInv => PapersAgree
<1> SUFFICES ASSUME PapersInv, RowsInv PROVE PapersAgree
  OBVIOUS
<1>1. SummaryRanksTies
  BY SummaryRanks
<1>2. CASE torn
  BY <1>1, <1>2, Zenon DEF PapersAgree
<1>3. CASE ~torn
  <2>1. RowsAgree(bulletins) /\ MinutesQuoteBulletins
    BY <1>3, Zenon DEF PapersInv
  <2>2. RanksFollowAverages
    BY <2>1, RanksFollow
  <2>3. OneBulletinEach
    BY <2>1 DEF RowsAgree, OneBulletinEach
  <2> QED
    BY <1>1, <2>1, <2>2, <2>3, Zenon DEF PapersAgree
<1> QED
  BY <1>2, <1>3

\* A class starts without papers.
LEMMA PapersInit == CouncilInit => PapersInv
<1> SUFFICES ASSUME CouncilInit PROVE PapersInv
  OBVIOUS
<1>1. bulletins = {} /\ minutes = Unset /\ opened = Unset
  BY DEF CouncilInit
<1> QED
  BY <1>1 DEF PapersInv, RowsAgree, Dated, MinutesQuoteBulletins

\* Ranks follow averages in the bulletins and in the recapitulation, and the minutes quote the
\* bulletins, as long as no paper was written over papers its request had not read; for any
\* class, marks and requests.
THEOREM PapersOfAClass == CouncilSpec => []PapersAgree
<1>1. CouncilInit => PapersInv /\ RowsInv
  BY PapersInit, CouncilRowsInit
<1>2. PapersInv /\ RowsInv /\ [CouncilNext]_councilvars => PapersInv' /\ RowsInv'
  BY PapersStep, RowsStep
<1>3. PapersInv /\ RowsInv => PapersAgree
  BY PapersAreAgreed
<1> QED
  BY <1>1, <1>2, <1>3, PTL DEF CouncilSpec
=============================================================================
