----------------------------- MODULE WeekProofs -----------------------------
(***************************************************************************)
(* Proofs about the week of the classes (module Timetable): whatever is edited  *)
(* and generated at once, for any classes, teachers, rooms and requests, a       *)
(* clash comes from an edit whose snapshot was past.                             *)
(***************************************************************************)
EXTENDS Timetable, TLAPS

-----------------------------------------------------------------------------
(* Types.                                                                    *)

LEMMA FreeType == Free \in Tasks
<1>1. (CHOOSE g \in Group : TRUE) \in Group
  BY TimetableAssumption
<1>2. Free.view \in Views
  BY DEF Free, Views
<1>3. QED
  BY <1>1, <1>2 DEF Free, Tasks

LEMMA NowType == ASSUME WeekTypeOK PROVE Now \in Views
BY DEF WeekTypeOK, Now, Views

\* A step of one clerk that leaves him a task of the right type keeps the table typed.
LEMMA TaskType ==
  ASSUME task \in [Clerk -> Tasks], NEW k \in Clerk, NEW x \in Tasks,
         task' = [task EXCEPT ![k] = x]
  PROVE  task' \in [Clerk -> Tasks]
OBVIOUS

LEMMA RowsType ==
  ASSUME NEW g \in Group
  PROVE  GenerationRows(g) \subseteq {"class", "teacher", "room"} \X (Group \cup Teacher \cup Room)
BY TimetableAssumption DEF GenerationRows, ClassRow, TeacherRow, RoomRows, TeachersOf

LEMMA MergedType ==
  ASSUME NEW old \in TimetableSlot, NEW new \in TimetableSlot, NEW cur \in TimetableSlot
  PROVE  Merged(old, new, cur) \in TimetableSlot
BY DEF Merged, Patched, TimetableSlot

LEMMA MovedType ==
  ASSUME NEW old \in ScheduleEvent, NEW p \in ScheduleEvent, NEW cur \in ScheduleEvent
  PROVE  Moved(old, p, cur) \in ScheduleEvent
BY DEF Moved, Patched, ScheduleEvent

LEMMA GeneratedType ==
  ASSUME WeekTypeOK, NEW k \in Clerk, NEW week, NEW x \in Generated(k, week)
  PROVE  /\ x \in TimetableSlot
         /\ x.group = task[k].group /\ x.room = home[task[k].group] /\ x.made = "solver"
         /\ x.teacher \in TeachersOf(x.group)
         /\ x.id = <<task[k].no, x.start>>
         /\ <<x.start, x.end>> \in Runs(week, x.teacher)
<1> DEFINE g == task[k].group
<1>1. task[k] \in Tasks
  BY DEF WeekTypeOK
<1>2. g \in Group /\ task[k].no \in Nat /\ home[g] \in Room \cup {NoRoom}
  BY <1>1, TimetableAssumption DEF Tasks
<1>3. PICK t \in TeachersOf(g) :
        \E r \in Runs(week, t) :
          x = [id |-> NewId(k, r[1]), group |-> g, teacher |-> t, room |-> home[g],
               start |-> r[1], end |-> r[2], made |-> "solver"]
  BY DEF Generated
<1>4. PICK r \in Runs(week, t) :
        x = [id |-> NewId(k, r[1]), group |-> g, teacher |-> t, room |-> home[g],
             start |-> r[1], end |-> r[2], made |-> "solver"]
  BY <1>3
<1>5. r[1] \in Hour /\ r[2] \in EndHour /\ r = <<r[1], r[2]>>
  BY DEF Runs
<1>6. t \in Teacher /\ r[1] \in Nat
  BY <1>5, TimetableAssumption DEF TeachersOf, Hour
<1>7. x.id = <<task[k].no, r[1]>> /\ x.id \in Nat \X Nat
  BY <1>2, <1>4, <1>6 DEF NewId
<1>8. x \in TimetableSlot
  BY <1>2, <1>4, <1>5, <1>6, <1>7 DEF TimetableSlot
<1>9. QED
  BY <1>4, <1>5, <1>7, <1>8

LEMMA MarkedType ==
  ASSUME WeekTypeOK, NEW k \in Clerk, NEW X, \A x \in X : x.id \in Nat \X Nat
  PROVE  Marked(k, X) \subseteq Nat \X Nat
BY DEF WeekTypeOK, Marked, Ids

LEMMA LessonsType ==
  ASSUME WeekTypeOK, NEW k \in Clerk, NEW L \in SUBSET TimetableSlot, SetsLessons(k, L)
  PROVE  WeekTypeOK'
<1>1. \A x \in L \ lesson : x.id \in Nat \X Nat
  BY DEF TimetableSlot
<1>2. late' \subseteq Nat \X Nat
  BY <1>1, MarkedType DEF SetsLessons, Commits
<1>3. task' \in [Clerk -> Tasks]
  BY FreeType, TaskType DEF SetsLessons, Commits, WeekTypeOK
<1>4. QED
  BY <1>2, <1>3 DEF SetsLessons, WeekTypeOK

LEMMA BreaksType ==
  ASSUME WeekTypeOK, NEW k \in Clerk, NEW P \in SUBSET ScheduleEvent, SetsBreaks(k, P),
         begun' \in 0..MaxEdits
  PROVE  WeekTypeOK'
<1>1. \A x \in P \ pause : x.id \in Nat \X Nat
  BY DEF ScheduleEvent
<1>2. late' \subseteq Nat \X Nat
  BY <1>1, MarkedType DEF SetsBreaks, Commits
<1>3. task' \in [Clerk -> Tasks]
  BY FreeType, TaskType DEF SetsBreaks, Commits, WeekTypeOK
<1>4. QED
  BY <1>2, <1>3 DEF SetsBreaks, WeekTypeOK

\* A form is a row, with the name it was given.
LEMMA SlotFormType ==
  ASSUME NEW n \in Nat \X Nat, NEW Groups \in SUBSET Group, NEW by \in {"hand", "solver"},
         NEW x \in SlotForms(n, Groups, by)
  PROVE  x \in TimetableSlot /\ x.id = n /\ x.group \in Groups /\ x.made = by
BY DEF SlotForms, TimetableSlot

LEMMA EventFormType ==
  ASSUME NEW n \in Nat \X Nat, NEW p \in EventForms(n)
  PROVE  p \in ScheduleEvent /\ p.id = n
BY DEF EventForms, ScheduleEvent

\* What a clerk reads is typed.
LEMMA ViewType ==
  ASSUME WeekTypeOK, NEW k \in Clerk
  PROVE  /\ task[k] \in Tasks /\ task[k].no \in Nat /\ task[k].group \in Group
         /\ task[k].view.lesson \subseteq TimetableSlot /\ task[k].view.pause \subseteq ScheduleEvent
         /\ task[k].view \in Views
BY DEF WeekTypeOK, Tasks, Views

LEMMA TypeInit == WeekInit => WeekTypeOK
BY FreeType, TimetableAssumption DEF WeekInit, WeekTypeOK

LEMMA TypeStep == WeekTypeOK /\ [WeekNext]_weekvars => WeekTypeOK'
<1> SUFFICES ASSUME WeekTypeOK, [WeekNext]_weekvars PROVE WeekTypeOK'
  OBVIOUS
<1>1. CASE UNCHANGED weekvars
  BY <1>1 DEF weekvars, WeekTypeOK
<1>2. CASE WeekNext
  <2>1. PICK k \in Clerk : ClerkStep(k)
    BY <1>2 DEF WeekNext
  <2> USE ViewType
  <2>2. NewId(k, 0) \in Nat \X Nat /\ NewId(k, 1) \in Nat \X Nat
    BY DEF NewId
  <2>3. CASE open_request(k)
    <3>1. begun' \in 0..MaxEdits
      BY <2>3, TimetableAssumption DEF open_request, Opens, WeekTypeOK
    <3>2. [task[k] EXCEPT !.step = "read", !.no = begun + 1, !.view = Now] \in Tasks
      <4>1. begun + 1 \in Nat /\ Now \in Views /\ task[k] \in Tasks
        BY NowType, TimetableAssumption DEF WeekTypeOK
      <4>2. QED
        BY <4>1 DEF Tasks
    <3>3. task' = [task EXCEPT ![k] = [task[k] EXCEPT !.step = "read", !.no = begun + 1, !.view = Now]]
      BY <2>3 DEF open_request, WeekTypeOK, Tasks
    <3>4. task' \in [Clerk -> Tasks]
      BY <3>2, <3>3, TaskType DEF WeekTypeOK
    <3>5. QED
      BY <2>3, <3>1, <3>4 DEF open_request, WeekTypeOK
  <2>4. CASE give_up(k)
    <3>1. task' \in [Clerk -> Tasks]
      BY <2>4, FreeType, TaskType DEF give_up, WeekTypeOK
    <3>2. QED
      BY <2>4, <3>1 DEF give_up, WeekTypeOK
  <2>5. CASE LessonStep(k)
    <3>1. ASSUME NEW x \in SlotForms(NewId(k, 0), Group, "hand"), create_slot(k, x)
          PROVE  WeekTypeOK'
      <4>1. x \in TimetableSlot
        BY <2>2, SlotFormType
      <4>2. lesson \cup {x} \in SUBSET TimetableSlot
        BY <4>1 DEF WeekTypeOK
      <4>3. QED
        BY <3>1, <4>2, LessonsType DEF create_slot
    <3>2. ASSUME NEW old \in task[k].view.lesson, delete_slot(k, old)
          PROVE  WeekTypeOK'
      <4>1. {y \in lesson : y.id # old.id} \in SUBSET TimetableSlot
        BY DEF WeekTypeOK
      <4>2. QED
        BY <3>2, <4>1, LessonsType DEF delete_slot
    <3>3. ASSUME NEW old \in task[k].view.lesson,
                 NEW new \in SlotForms(old.id, {old.group}, old.made), update_slot(k, old, new)
          PROVE  WeekTypeOK'
      <4>1. old \in TimetableSlot
        OBVIOUS
      <4>2. old.id \in Nat \X Nat /\ {old.group} \in SUBSET Group /\ old.made \in {"hand", "solver"}
        BY <4>1 DEF TimetableSlot
      <4>3. new \in TimetableSlot
        BY <4>2, SlotFormType
      <4>4. PICK cur \in lesson : SetsLessons(k, (lesson \ {cur}) \cup {Merged(old, new, cur)})
        BY <3>3 DEF update_slot
      <4>5. Merged(old, new, cur) \in TimetableSlot
        BY <4>1, <4>3, MergedType DEF WeekTypeOK
      <4>6. (lesson \ {cur}) \cup {Merged(old, new, cur)} \in SUBSET TimetableSlot
        BY <4>5 DEF WeekTypeOK
      <4>7. QED
        BY <4>4, <4>6, LessonsType
    <3>4. QED
      BY <2>5, <3>1, <3>2, <3>3 DEF LessonStep
  <2>6. CASE EventStep(k)
    <3>1. ASSUME NEW p \in EventForms(NewId(k, 0)), save_event(k, p)
          PROVE  WeekTypeOK'
      <4>1. p \in ScheduleEvent
        BY <2>2, EventFormType
      <4>2. pause \cup {p} \in SUBSET ScheduleEvent /\ begun' \in 0..MaxEdits
        BY <3>1, <4>1 DEF WeekTypeOK, save_event
      <4>3. QED
        BY <3>1, <4>2, BreaksType DEF save_event
    <3>2. ASSUME NEW p \in EventForms(NewId(k, 0)), NEW q \in EventForms(NewId(k, 1)),
                 save_events_bulk(k, p, q)
          PROVE  WeekTypeOK'
      <4>1. p \in ScheduleEvent /\ q \in ScheduleEvent
        BY <2>2, EventFormType
      <4>2. pause \cup {p, q} \in SUBSET ScheduleEvent
        BY <4>1 DEF WeekTypeOK
      <4>3. begun' \in 0..MaxEdits
        BY <3>2, TimetableAssumption DEF WeekTypeOK, save_events_bulk
      <4>4. QED
        BY <3>2, <4>2, <4>3, BreaksType DEF save_events_bulk
    <3>3. ASSUME NEW old \in task[k].view.pause, remove_event(k, old)
          PROVE  WeekTypeOK'
      <4>1. {q \in pause : q.id # old.id} \in SUBSET ScheduleEvent /\ begun' \in 0..MaxEdits
        BY <3>3 DEF WeekTypeOK, remove_event
      <4>2. QED
        BY <3>3, <4>1, BreaksType DEF remove_event
    <3>4. ASSUME NEW old \in task[k].view.pause, NEW p \in EventForms(old.id), update_event(k, old, p)
          PROVE  WeekTypeOK'
      <4>1. old \in ScheduleEvent
        OBVIOUS
      <4>2. old.id \in Nat \X Nat
        BY <4>1 DEF ScheduleEvent
      <4>3. p \in ScheduleEvent
        BY <4>2, EventFormType
      <4>4. PICK cur \in pause : /\ SetsBreaks(k, (pause \ {cur}) \cup {Moved(old, p, cur)})
                                 /\ UNCHANGED begun
        BY <3>4 DEF update_event
      <4>5. Moved(old, p, cur) \in ScheduleEvent
        BY <4>1, <4>3, MovedType DEF WeekTypeOK
      <4>6. (pause \ {cur}) \cup {Moved(old, p, cur)} \in SUBSET ScheduleEvent /\ begun' \in 0..MaxEdits
        BY <4>4, <4>5 DEF WeekTypeOK
      <4>7. QED
        BY <4>4, <4>6, BreaksType
    <3>5. QED
      BY <2>6, <3>1, <3>2, <3>3, <3>4 DEF EventStep
  <2>7. ASSUME NEW t \in Teacher, NEW H \in SUBSET Hour, declare_hours(k, t, H)
        PROVE  WeekTypeOK'
    <3>1. away' \in [Teacher -> SUBSET Hour]
      BY <2>7 DEF declare_hours, WeekTypeOK
    <3>2. task' \in [Clerk -> Tasks]
      BY <2>7, FreeType, TaskType DEF declare_hours, Commits, WeekTypeOK
    <3>3. late' \subseteq Nat \X Nat
      BY <2>7, MarkedType DEF declare_hours, Commits
    <3>4. QED
      BY <2>7, <3>1, <3>2, <3>3 DEF declare_hours, WeekTypeOK
  <2>8. ASSUME NEW g \in Group, acquire_generation_locks(k, g)
        PROVE  WeekTypeOK'
    <3> DEFINE x == [step |-> "solving", no |-> begun + 1, group |-> g,
                     held |-> GenerationRows(g), view |-> Now]
    <3>1. begun' \in 0..MaxEdits
      BY <2>8, TimetableAssumption DEF acquire_generation_locks, Opens, WeekTypeOK
    <3>2. x \in Tasks
      BY NowType, RowsType DEF Tasks, WeekTypeOK
    <3>3. task' = [task EXCEPT ![k] = x]
      BY <2>8 DEF acquire_generation_locks
    <3> HIDE DEF x
    <3>4. task' \in [Clerk -> Tasks]
      BY <3>2, <3>3, TaskType DEF WeekTypeOK
    <3>5. QED
      BY <2>8, <3>1, <3>4 DEF acquire_generation_locks, WeekTypeOK
  <2>9. ASSUME NEW week \in Weeks(k), persist_schedule(k, week)
        PROVE  WeekTypeOK'
    <3>1. Generated(k, week) \subseteq TimetableSlot
      BY GeneratedType
    <3>2. task' \in [Clerk -> Tasks]
      BY <2>9, FreeType, TaskType DEF persist_schedule, WeekTypeOK
    <3>3. lesson' \subseteq TimetableSlot
      BY <2>9, <3>1 DEF persist_schedule, WeekTypeOK
    <3>4. QED
      BY <2>9, <3>2, <3>3 DEF persist_schedule, WeekTypeOK
  <2>10. QED
    BY <2>1, <2>3, <2>4, <2>5, <2>6, <2>7, <2>8, <2>9 DEF ClerkStep
<1>3. QED
  BY <1>1, <1>2

\* The rows and the tasks of the week keep their types, for any classes, teachers, rooms,
\* hours and requests.
THEOREM WeekTypes == WeekSpec => []WeekTypeOK
BY TypeInit, TypeStep, PTL DEF WeekSpec

-----------------------------------------------------------------------------
(* The invariant.  The two properties speak of committed rows; what carries them    *)
(* through a generation is that every row it does not see either comes from the       *)
(* past, or has no row of the database in common with those it keeps locked.          *)

Active(k) == task[k].step # "idle"

Solving(k) == task[k].step = "solving"

Forbids(p, x) == Concerns(p, x.group) /\ Meet(x, p)

\* Numbers are not used twice.
Numbered ==
  /\ \A x \in lesson \cup pause : x.id[1] <= begun
  /\ \A k \in Clerk : Active(k) =>
       /\ task[k].no <= begun
       /\ \A x \in lesson \cup pause : x.id[1] # task[k].no
       /\ \A j \in Clerk \ {k} : Active(j) => task[j].no # task[k].no

OneRowPerId ==
  /\ \A x, y \in lesson : x.id = y.id => x = y
  /\ \A p, q \in pause : p.id = q.id => p = q
  /\ \A x \in lesson, p \in pause : x.id # p.id

LocksApart ==
  \A k \in Clerk :
    /\ Solving(k) => task[k].held = GenerationRows(task[k].group)
    /\ ~Solving(k) => task[k].held = {}
    /\ \A j \in Clerk \ {k} : task[j].held \cap task[k].held = {}

UnseenIsApart ==
  \A k \in Clerk : Solving(k) =>
    /\ \A y \in lesson :
         y \in task[k].view.lesson \/ y.id \in late \/ SlotRows(y) \cap task[k].held = {}
    /\ \A p \in pause :
         p \in task[k].view.pause \/ p.id \in late \/ ScopeRows(p.group) \cap task[k].held = {}

WeekInv ==
  /\ WeekTypeOK /\ Numbered /\ OneRowPerId /\ LocksApart /\ UnseenIsApart
  /\ ClashesComeFromThePast /\ BreaksStandButForThePast

LEMMA InvInit == WeekInit => WeekInv
<1> SUFFICES ASSUME WeekInit PROVE WeekInv
  OBVIOUS
<1>1. WeekTypeOK
  BY TypeInit
<1>2. \A k \in Clerk : task[k].step = "idle" /\ task[k].held = {}
  BY DEF WeekInit, Free
<1>3. lesson = {} /\ pause = {}
  BY DEF WeekInit
<1>4. QED
  BY <1>1, <1>2, <1>3 DEF WeekInv, Numbered, OneRowPerId, LocksApart, UnseenIsApart, Active,
     Solving, ClashesComeFromThePast, BreaksStandButForThePast

LEMMA MeetOverlaps ==
  ASSUME NEW x, NEW y, x.start \in Int, x.end \in Int, y.start \in Int, y.end \in Int, Meet(x, y)
  PROVE  Overlap(x, y) /\ Overlap(y, x) /\ Meet(y, x)
<1>1. PICK h \in Hour : h \in x.start .. x.end - 1 /\ h \in y.start .. y.end - 1
  BY DEF Meet
<1>2. Meet(y, x)
  BY <1>1 DEF Meet
<1>3. QED
  BY <1>1, <1>2 DEF Overlap

LEMMA SlotTimes ==
  ASSUME NEW x \in TimetableSlot
  PROVE  x.start \in Int /\ x.end \in Int /\ x.id[1] \in Nat
BY TimetableAssumption DEF TimetableSlot, Hour, EndHour

LEMMA EventTimes ==
  ASSUME NEW p \in ScheduleEvent
  PROVE  p.start \in Int /\ p.end \in Int /\ p.id[1] \in Nat
BY TimetableAssumption DEF ScheduleEvent, Hour, EndHour

LEMMA ClashIsMutual ==
  ASSUME NEW x \in TimetableSlot, NEW y \in TimetableSlot, Clash(x, y)
  PROVE  Clash(y, x)
BY SlotTimes, MeetOverlaps DEF Clash

-----------------------------------------------------------------------------
(* What every commit of an edit has in common.                                 *)

NewRows == (lesson' \ lesson) \cup (pause' \ pause)

Edits(k) ==
  /\ Editing(k)
  /\ task' = [task EXCEPT ![k] = Free]
  /\ begun <= begun'
  /\ late' = Marked(k, NewRows)
  /\ OneRowPerId'
  /\ \A x \in NewRows :
       /\ x.id[1] <= begun'
       /\ \A j \in Clerk \ {k} : Active(j) => task[j].no # x.id[1]
  /\ task[k].view = Now =>
       /\ \A x \in lesson' \ lesson :
            /\ lock_rows(k, SlotRows(x))
            /\ \A y \in lesson' : ~Clash(x, y)
            /\ \A p \in pause' : ~Forbids(p, x)
       /\ \A p \in pause' \ pause :
            /\ lock_rows(k, ScopeRows(p.group))
            /\ \A x \in lesson' : ~Forbids(p, x)

LEMMA EditKeeps ==
  ASSUME WeekInv, WeekTypeOK', NEW k \in Clerk, Edits(k)
  PROVE  WeekInv'
<1> USE DEF WeekInv
<1>1. task'[k] = Free /\ \A j \in Clerk \ {k} : task'[j] = task[j]
  BY DEF Edits, WeekTypeOK
<1>2. Free.step = "idle" /\ Free.held = {}
  BY DEF Free
<1>3. \A x \in (lesson \cap lesson') \cup (pause \cap pause') : x.id \in late => x.id \in late'
  <2> SUFFICES ASSUME NEW x \in (lesson \cap lesson') \cup (pause \cap pause'), x.id \in late
               PROVE  x.id \in late'
    OBVIOUS
  <2>1. \A y \in NewRows : y.id # x.id
    BY DEF Edits, OneRowPerId, NewRows
  <2>2. QED
    BY <2>1 DEF Edits, Marked, Ids
<1>4. \A x \in NewRows : task[k].view # Now => x.id \in late'
  BY DEF Edits, Marked, Ids
<1>5. Numbered'
  <2>1. \A x \in lesson' \cup pause' : x \in lesson \cup pause \/ x \in NewRows
    BY DEF NewRows
  <2>2. begun \in Nat /\ begun' \in Nat /\ begun <= begun'
    BY TimetableAssumption DEF WeekTypeOK, Edits
  <2>3. \A x \in lesson \cup pause : x.id[1] \in Nat /\ x.id[1] <= begun
    BY SlotTimes, EventTimes DEF WeekTypeOK, Numbered
  <2>4. \A x \in lesson' \cup pause' : x.id[1] <= begun'
    BY <2>1, <2>2, <2>3 DEF Edits
  <2>5. ASSUME NEW j \in Clerk, Active(j)'
        PROVE  /\ task'[j].no <= begun'
               /\ \A x \in lesson' \cup pause' : x.id[1] # task'[j].no
               /\ \A i \in Clerk \ {j} : Active(i)' => task'[i].no # task'[j].no
    <3>1. j # k /\ task'[j] = task[j] /\ Active(j)
      BY <1>1, <1>2, <2>5 DEF Active
    <3>2. task[j].no \in Nat /\ task[j].no <= begun
      BY <3>1, ViewType DEF Numbered
    <3>3. \A x \in lesson' \cup pause' : x.id[1] # task[j].no
      BY <2>1, <3>1 DEF Numbered, Edits
    <3>4. \A i \in Clerk \ {j} : Active(i)' => task'[i].no # task[j].no
      <4> SUFFICES ASSUME NEW i \in Clerk \ {j}, Active(i)' PROVE task'[i].no # task[j].no
        OBVIOUS
      <4>1. i # k /\ task'[i] = task[i] /\ Active(i)
        BY <1>1, <1>2 DEF Active
      <4>2. QED
        BY <3>1, <4>1 DEF Numbered
    <3>5. QED
      BY <2>2, <3>1, <3>2, <3>3, <3>4
  <2>6. QED
    BY <2>4, <2>5 DEF Numbered
<1>6. OneRowPerId'
  BY DEF Edits
<1>7. LocksApart'
  <2>1. \A j \in Clerk : task'[j].held \in {{}, task[j].held}
    BY <1>1, <1>2
  <2>2. \A j \in Clerk : Solving(j)' => Solving(j) /\ task'[j] = task[j]
    BY <1>1, <1>2 DEF Solving
  <2>3. \A j \in Clerk : ~Solving(j)' => task'[j].held = {}
    BY <1>1, <1>2 DEF Solving, LocksApart
  <2>4. QED
    BY <2>1, <2>2, <2>3 DEF LocksApart
<1>8. UnseenIsApart'
  <2> SUFFICES ASSUME NEW j \in Clerk, Solving(j)'
               PROVE  /\ \A y \in lesson' : \/ y \in task'[j].view.lesson \/ y.id \in late'
                                            \/ SlotRows(y) \cap task'[j].held = {}
                      /\ \A p \in pause' : \/ p \in task'[j].view.pause \/ p.id \in late'
                                           \/ ScopeRows(p.group) \cap task'[j].held = {}
    BY DEF UnseenIsApart
  <2>1. j # k /\ task'[j] = task[j] /\ Solving(j)
    BY <1>1, <1>2 DEF Solving
  <2>2. ASSUME NEW y \in lesson'
        PROVE  \/ y \in task[j].view.lesson \/ y.id \in late'
               \/ SlotRows(y) \cap task[j].held = {}
    <3>1. CASE y \in lesson
      BY <1>3, <2>1, <3>1 DEF UnseenIsApart
    <3>2. CASE y \notin lesson /\ task[k].view # Now
      BY <1>4, <3>2 DEF NewRows
    <3>3. CASE y \notin lesson /\ task[k].view = Now
      <4>1. lock_rows(k, SlotRows(y))
        BY <3>3 DEF Edits
      <4>2. QED
        BY <2>1, <4>1 DEF lock_rows
    <3>4. QED
      BY <3>1, <3>2, <3>3
  <2>3. ASSUME NEW p \in pause'
        PROVE  \/ p \in task[j].view.pause \/ p.id \in late'
               \/ ScopeRows(p.group) \cap task[j].held = {}
    <3>1. CASE p \in pause
      BY <1>3, <2>1, <3>1 DEF UnseenIsApart
    <3>2. CASE p \notin pause /\ task[k].view # Now
      BY <1>4, <3>2 DEF NewRows
    <3>3. CASE p \notin pause /\ task[k].view = Now
      <4>1. lock_rows(k, ScopeRows(p.group))
        BY <3>3 DEF Edits
      <4>2. QED
        BY <2>1, <4>1 DEF lock_rows
    <3>4. QED
      BY <3>1, <3>2, <3>3
  <2>4. QED
    BY <2>1, <2>2, <2>3
<1>9. ClashesComeFromThePast'
  <2> SUFFICES ASSUME NEW x \in lesson', NEW y \in lesson', Clash(x, y)
               PROVE  x.id \in late' \/ y.id \in late'
    BY DEF ClashesComeFromThePast
  <2>1. CASE x \in lesson /\ y \in lesson
    BY <1>3, <2>1 DEF ClashesComeFromThePast
  <2>2. CASE task[k].view # Now /\ ~(x \in lesson /\ y \in lesson)
    BY <1>4, <2>2 DEF NewRows
  <2>3. CASE task[k].view = Now /\ ~(x \in lesson /\ y \in lesson)
    <3>1. Clash(y, x)
      BY ClashIsMutual DEF WeekTypeOK
    <3>2. QED
      BY <2>3, <3>1 DEF Edits
  <2>4. QED
    BY <2>1, <2>2, <2>3
<1>10. BreaksStandButForThePast'
  <2> SUFFICES ASSUME NEW x \in lesson', NEW p \in pause', Forbids(p, x)
               PROVE  x.id \in late' \/ p.id \in late'
    BY DEF BreaksStandButForThePast, Forbids
  <2>1. CASE x \in lesson /\ p \in pause
    BY <1>3, <2>1 DEF BreaksStandButForThePast, Forbids
  <2>2. CASE task[k].view # Now /\ ~(x \in lesson /\ p \in pause)
    BY <1>4, <2>2 DEF NewRows
  <2>3. CASE task[k].view = Now /\ ~(x \in lesson /\ p \in pause)
    BY <2>3 DEF Edits
  <2>4. QED
    BY <2>1, <2>2, <2>3
<1>11. QED
  BY <1>5, <1>6, <1>7, <1>8, <1>9, <1>10

-----------------------------------------------------------------------------
(* The edits.                                                                *)

\* What the checks of a lesson say of it when the snapshot is not past.
LEMMA FitsApart ==
  ASSUME WeekTypeOK, NEW k \in Clerk, NEW x \in TimetableSlot, task[k].view = Now, Fits(k, x)
  PROVE  /\ lock_rows(k, SlotRows(x))
         /\ \A y \in lesson : ~Clash(x, y)
         /\ \A p \in pause : ~Forbids(p, x)
<1>1. task[k].view.lesson = lesson /\ task[k].view.pause = pause
  BY DEF Now
<1>2. ASSUME NEW y \in lesson, Clash(x, y)
      PROVE  FALSE
  <2>1. y.id # x.id /\ Overlap(y, x)
    BY <1>2, SlotTimes, MeetOverlaps DEF Clash, WeekTypeOK
  <2>2. y \in MeetsAnother(task[k].view, x)
    BY <1>1, <2>1 DEF MeetsAnother
  <2>3. y.teacher # x.teacher /\ y.group # x.group
    BY <2>2 DEF Fits, TeacherIsFree, ClassIsFree
  <2>4. x.room # NoRoom => y.room # x.room
    BY <2>2 DEF Fits, RoomIsFree
  <2>5. QED
    BY <1>2, <2>3, <2>4 DEF Clash
<1>3. ASSUME NEW p \in pause, Forbids(p, x)
      PROVE  FALSE
  <2>1. Overlap(p, x) /\ Concerns(p, x.group)
    BY <1>3, SlotTimes, EventTimes, MeetOverlaps DEF Forbids, WeekTypeOK
  <2>2. QED
    BY <1>1, <2>1 DEF Fits, ensure_course_allowed
<1>4. QED
  BY <1>2, <1>3 DEF Fits

LEMMA EventFitsApart ==
  ASSUME WeekTypeOK, NEW k \in Clerk, NEW p \in ScheduleEvent, task[k].view = Now,
         EventFits(task[k].view, p)
  PROVE  \A x \in lesson : ~Forbids(p, x)
<1>1. task[k].view.lesson = lesson
  BY DEF Now
<1>2. ASSUME NEW x \in lesson, Forbids(p, x)
      PROVE  FALSE
  <2>1. Overlap(p, x) /\ Concerns(p, x.group)
    BY <1>2, SlotTimes, EventTimes, MeetOverlaps DEF Forbids, WeekTypeOK
  <2>2. QED
    BY <1>1, <2>1 DEF EventFits
<1>3. QED
  BY <1>2

\* The number of an active request is above no other's and on no row.
LEMMA OwnNumber ==
  ASSUME WeekInv, NEW k \in Clerk, Active(k)
  PROVE  /\ task[k].no <= begun
         /\ \A x \in lesson \cup pause : x.id[1] # task[k].no
         /\ \A j \in Clerk \ {k} : Active(j) => task[j].no # task[k].no
BY DEF WeekInv, Numbered

LEMMA OldRow ==
  ASSUME WeekInv, NEW x \in lesson \cup pause, NEW k \in Clerk
  PROVE  /\ x.id[1] <= begun
         /\ \A j \in Clerk \ {k} : Active(j) => task[j].no # x.id[1]
BY DEF WeekInv, Numbered

LEMMA PatchedAlone ==
  ASSUME NEW old \in TimetableSlot, NEW new \in TimetableSlot,
         new.id = old.id, new.group = old.group, new.made = old.made
  PROVE  Merged(old, new, old) = new
BY DEF Merged, Patched, TimetableSlot

LEMMA MovedAlone ==
  ASSUME NEW old \in ScheduleEvent, NEW p \in ScheduleEvent, p.id = old.id
  PROVE  Moved(old, p, old) = p
BY DEF Moved, Patched, ScheduleEvent

LEMMA MergedKeeps ==
  ASSUME NEW old \in TimetableSlot, NEW new \in TimetableSlot, NEW cur \in TimetableSlot
  PROVE  Merged(old, new, cur).id = cur.id
BY DEF Merged, TimetableSlot

LEMMA MovedKeeps ==
  ASSUME NEW old \in ScheduleEvent, NEW p \in ScheduleEvent, NEW cur \in ScheduleEvent
  PROVE  Moved(old, p, cur).id = cur.id
BY DEF Moved, ScheduleEvent

LEMMA CreateEdits ==
  ASSUME WeekInv, NEW k \in Clerk, NEW x \in SlotForms(NewId(k, 0), Group, "hand"),
         create_slot(k, x)
  PROVE  Edits(k)
<1> USE DEF WeekInv
<1>1. x \in TimetableSlot /\ x.id = <<task[k].no, 0>>
  BY ViewType, SlotFormType DEF NewId
<1>2. x.id[1] = task[k].no /\ Active(k)
  BY <1>1 DEF create_slot, Editing, Active
<1>3. lesson' = lesson \cup {x} /\ pause' = pause /\ begun' = begun
  BY DEF create_slot, SetsLessons
<1>4. begun \in Int
  BY TimetableAssumption DEF WeekTypeOK
<1>5. \A y \in lesson \cup pause : y.id # x.id
  BY <1>2, OwnNumber
<1>6. OneRowPerId'
  BY <1>3, <1>5 DEF OneRowPerId
<1>7. lesson' \ lesson \subseteq {x} /\ pause' \ pause = {} /\ NewRows = lesson' \ lesson
  BY <1>3 DEF NewRows
<1>8. \A y \in NewRows : /\ y.id[1] <= begun'
                         /\ \A j \in Clerk \ {k} : Active(j) => task[j].no # y.id[1]
  BY <1>2, <1>3, <1>7, OwnNumber
<1>9. task[k].view = Now =>
        /\ lock_rows(k, SlotRows(x))
        /\ \A y \in lesson' : ~Clash(x, y)
        /\ \A p \in pause' : ~Forbids(p, x)
  <2> SUFFICES ASSUME task[k].view = Now
               PROVE  /\ lock_rows(k, SlotRows(x))
                      /\ \A y \in lesson' : ~Clash(x, y)
                      /\ \A p \in pause' : ~Forbids(p, x)
    OBVIOUS
  <2>1. Fits(k, x)
    BY DEF create_slot
  <2>2. ~Clash(x, x)
    BY DEF Clash
  <2>3. QED
    BY <1>1, <1>3, <2>1, <2>2, FitsApart
<1>10. late' = Marked(k, NewRows) /\ task' = [task EXCEPT ![k] = Free] /\ Editing(k)
  BY <1>3, <1>7 DEF create_slot, SetsLessons, Commits
<1>11. QED
  BY <1>3, <1>4, <1>6, <1>7, <1>8, <1>9, <1>10 DEF Edits

LEMMA DeleteEdits ==
  ASSUME WeekInv, NEW k \in Clerk, NEW old, delete_slot(k, old)
  PROVE  Edits(k)
<1>1. lesson' = {y \in lesson : y.id # old.id} /\ pause' = pause /\ begun' = begun
  BY DEF delete_slot, SetsLessons
<1>2. lesson' \ lesson = {} /\ pause' \ pause = {} /\ NewRows = {}
  BY <1>1 DEF NewRows
<1>3. OneRowPerId'
  BY <1>1 DEF OneRowPerId, WeekInv
<1>4. begun \in Int
  BY TimetableAssumption DEF WeekTypeOK, WeekInv
<1>5. late' = Marked(k, NewRows) /\ task' = [task EXCEPT ![k] = Free] /\ Editing(k)
  BY <1>1, <1>2 DEF delete_slot, SetsLessons, Commits
<1>6. QED
  BY <1>1, <1>2, <1>3, <1>4, <1>5 DEF Edits

LEMMA UpdateEdits ==
  ASSUME WeekInv, NEW k \in Clerk, NEW old \in task[k].view.lesson,
         NEW new \in SlotForms(old.id, {old.group}, old.made), update_slot(k, old, new)
  PROVE  Edits(k)
<1> USE DEF WeekInv
<1>1. old \in TimetableSlot
  BY ViewType
<1>2. old.id \in Nat \X Nat /\ {old.group} \in SUBSET Group /\ old.made \in {"hand", "solver"}
  BY <1>1 DEF TimetableSlot
<1>3. new \in TimetableSlot /\ new.id = old.id /\ new.group = old.group /\ new.made = old.made
  BY <1>2, SlotFormType
<1>4. PICK cur \in lesson : /\ cur.id = old.id
                            /\ SetsLessons(k, (lesson \ {cur}) \cup {Merged(old, new, cur)})
  BY DEF update_slot
<1>5. PICK m : m = Merged(old, new, cur)
  OBVIOUS
<1>6. m.id = cur.id
  BY <1>1, <1>3, <1>5, MergedKeeps DEF WeekTypeOK
<1>7. lesson' = (lesson \ {cur}) \cup {m} /\ pause' = pause /\ begun' = begun
  BY <1>4, <1>5 DEF SetsLessons
<1>8. begun \in Int
  BY TimetableAssumption DEF WeekTypeOK
<1>9. OneRowPerId'
  BY <1>6, <1>7 DEF OneRowPerId
<1>10. lesson' \ lesson \subseteq {m} /\ pause' \ pause = {} /\ NewRows = lesson' \ lesson
  BY <1>7 DEF NewRows
<1>11. \A y \in NewRows : /\ y.id[1] <= begun'
                          /\ \A j \in Clerk \ {k} : Active(j) => task[j].no # y.id[1]
  BY <1>6, <1>7, <1>10, OldRow
<1>12. task[k].view = Now =>
         /\ lock_rows(k, SlotRows(m))
         /\ \A y \in lesson' : ~Clash(m, y)
         /\ \A p \in pause' : ~Forbids(p, m)
  <2> SUFFICES ASSUME task[k].view = Now
               PROVE  /\ lock_rows(k, SlotRows(m))
                      /\ \A y \in lesson' : ~Clash(m, y)
                      /\ \A p \in pause' : ~Forbids(p, m)
    OBVIOUS
  <2>1. old \in lesson
    BY DEF Now
  <2>2. cur = old
    BY <1>4, <2>1 DEF OneRowPerId
  <2>3. m = new
    BY <1>1, <1>3, <1>5, <2>2, PatchedAlone
  <2>4. Fits(k, m)
    BY <2>3 DEF update_slot
  <2>5. ~Clash(m, m)
    BY DEF Clash
  <2>6. m \in TimetableSlot
    BY <1>3, <2>3
  <2>7. QED
    BY <1>7, <2>4, <2>5, <2>6, FitsApart
<1>13. late' = Marked(k, NewRows) /\ task' = [task EXCEPT ![k] = Free] /\ Editing(k)
  BY <1>4, <1>5, <1>7, <1>10 DEF SetsLessons, Commits, update_slot
<1>14. QED
  BY <1>7, <1>8, <1>9, <1>10, <1>11, <1>12, <1>13 DEF Edits

\* One break or several, all with the number of the request.
LEMMA SetEdits ==
  ASSUME WeekInv, NEW k \in Clerk, NEW P \in SUBSET ScheduleEvent, Editing(k),
         \A p \in P : p.id[1] = task[k].no,
         \A p, q \in P : p.id = q.id => p = q,
         \A p \in P : lock_rows(k, ScopeRows(p.group)) /\ EventFits(task[k].view, p),
         SetsBreaks(k, pause \cup P), begun' \in Int, begun <= begun'
  PROVE  Edits(k)
<1> USE DEF WeekInv
<1>1. Active(k)
  BY DEF Editing, Active
<1>2. pause' = pause \cup P /\ lesson' = lesson
  BY DEF SetsBreaks
<1>3. \A p \in P : \A y \in lesson \cup pause : y.id # p.id
  BY <1>1, OwnNumber
<1>4. OneRowPerId'
  BY <1>2, <1>3 DEF OneRowPerId
<1>5. lesson' \ lesson = {} /\ pause' \ pause \subseteq P /\ NewRows = pause' \ pause
  BY <1>2 DEF NewRows
<1>6. begun \in Int /\ task[k].no \in Int /\ task[k].no <= begun'
  BY <1>1, OwnNumber, ViewType, TimetableAssumption DEF WeekTypeOK
<1>7. \A y \in NewRows : /\ y.id[1] <= begun'
                         /\ \A j \in Clerk \ {k} : Active(j) => task[j].no # y.id[1]
  BY <1>1, <1>5, <1>6, OwnNumber
<1>8. task[k].view = Now => \A p \in P : \A x \in lesson' : ~Forbids(p, x)
  BY <1>2, EventFitsApart
<1>9. late' = Marked(k, NewRows) /\ task' = [task EXCEPT ![k] = Free]
  BY <1>2, <1>5 DEF SetsBreaks, Commits
<1>10. QED
  BY <1>4, <1>5, <1>7, <1>8, <1>9 DEF Edits

LEMMA SaveEdits ==
  ASSUME WeekInv, NEW k \in Clerk, NEW p \in EventForms(NewId(k, 0)), save_event(k, p)
  PROVE  Edits(k)
<1>1. p \in ScheduleEvent /\ p.id = <<task[k].no, 0>>
  BY ViewType, EventFormType DEF NewId, WeekInv
<1>2. begun' = begun /\ begun \in Int
  BY TimetableAssumption DEF save_event, WeekInv, WeekTypeOK
<1>3. /\ Editing(k) /\ lock_rows(k, ScopeRows(p.group)) /\ EventFits(task[k].view, p)
      /\ SetsBreaks(k, pause \cup {p})
  BY DEF save_event
<1>4. /\ {p} \in SUBSET ScheduleEvent /\ begun' \in Int /\ begun <= begun'
      /\ \A a \in {p} : a.id[1] = task[k].no
      /\ \A a, b \in {p} : a.id = b.id => a = b
  BY <1>1, <1>2
<1>5. QED
  BY <1>3, <1>4, SetEdits

LEMMA BulkEdits ==
  ASSUME WeekInv, NEW k \in Clerk, NEW p \in EventForms(NewId(k, 0)),
         NEW q \in EventForms(NewId(k, 1)), save_events_bulk(k, p, q)
  PROVE  Edits(k)
<1>1. p \in ScheduleEvent /\ p.id = <<task[k].no, 0>>
  BY ViewType, EventFormType DEF NewId, WeekInv
<1>2. q \in ScheduleEvent /\ q.id = <<task[k].no, 1>>
  BY ViewType, EventFormType DEF NewId, WeekInv
<1>3. begun' = begun + 1 /\ begun \in Int
  BY TimetableAssumption DEF save_events_bulk, WeekInv, WeekTypeOK
<1>4. \A a, b \in {p, q} : a.id = b.id => a = b
  BY <1>1, <1>2
<1>5. lock_rows(k, ScopeRows(p.group)) /\ lock_rows(k, ScopeRows(q.group))
  BY DEF save_events_bulk, lock_rows
<1>6. /\ Editing(k) /\ EventFits(task[k].view, p) /\ EventFits(task[k].view, q)
      /\ SetsBreaks(k, pause \cup {p, q})
  BY DEF save_events_bulk
<1>7. \A a \in {p, q} : /\ lock_rows(k, ScopeRows(a.group)) /\ EventFits(task[k].view, a)
                        /\ a.id[1] = task[k].no
  BY <1>1, <1>2, <1>5, <1>6
<1>8. begun' \in Int /\ begun <= begun' /\ {p, q} \in SUBSET ScheduleEvent
  BY <1>1, <1>2, <1>3
<1>9. QED
  BY <1>4, <1>6, <1>7, <1>8, SetEdits

LEMMA RemoveEdits ==
  ASSUME WeekInv, NEW k \in Clerk, NEW old, remove_event(k, old)
  PROVE  Edits(k)
<1>1. pause' = {q \in pause : q.id # old.id} /\ lesson' = lesson /\ begun' = begun
  BY DEF remove_event, SetsBreaks
<1>2. lesson' \ lesson = {} /\ pause' \ pause = {} /\ NewRows = {}
  BY <1>1 DEF NewRows
<1>3. OneRowPerId'
  BY <1>1 DEF OneRowPerId, WeekInv
<1>4. begun \in Int
  BY TimetableAssumption DEF WeekTypeOK, WeekInv
<1>5. late' = Marked(k, NewRows) /\ task' = [task EXCEPT ![k] = Free] /\ Editing(k)
  BY <1>1, <1>2 DEF remove_event, SetsBreaks, Commits
<1>6. QED
  BY <1>1, <1>2, <1>3, <1>4, <1>5 DEF Edits

LEMMA MoveEdits ==
  ASSUME WeekInv, NEW k \in Clerk, NEW old \in task[k].view.pause,
         NEW p \in EventForms(old.id), update_event(k, old, p)
  PROVE  Edits(k)
<1> USE DEF WeekInv
<1>1. old \in ScheduleEvent
  BY ViewType
<1>2. old.id \in Nat \X Nat
  BY <1>1 DEF ScheduleEvent
<1>3. p \in ScheduleEvent /\ p.id = old.id
  BY <1>2, EventFormType
<1>4. PICK cur \in pause : /\ cur.id = old.id
                           /\ SetsBreaks(k, (pause \ {cur}) \cup {Moved(old, p, cur)})
                           /\ UNCHANGED begun
  BY DEF update_event
<1>5. PICK m : m = Moved(old, p, cur)
  OBVIOUS
<1>6. m.id = cur.id
  BY <1>1, <1>3, <1>5, MovedKeeps DEF WeekTypeOK
<1>7. pause' = (pause \ {cur}) \cup {m} /\ lesson' = lesson /\ begun' = begun
  BY <1>4, <1>5 DEF SetsBreaks
<1>8. begun \in Int
  BY TimetableAssumption DEF WeekTypeOK
<1>9. OneRowPerId'
  BY <1>6, <1>7 DEF OneRowPerId
<1>10. pause' \ pause \subseteq {m} /\ lesson' \ lesson = {} /\ NewRows = pause' \ pause
  BY <1>7 DEF NewRows
<1>11. \A y \in NewRows : /\ y.id[1] <= begun'
                          /\ \A j \in Clerk \ {k} : Active(j) => task[j].no # y.id[1]
  BY <1>6, <1>7, <1>10, OldRow
<1>12. task[k].view = Now =>
         /\ lock_rows(k, ScopeRows(m.group))
         /\ \A x \in lesson' : ~Forbids(m, x)
  <2> SUFFICES ASSUME task[k].view = Now
               PROVE  /\ lock_rows(k, ScopeRows(m.group))
                      /\ \A x \in lesson' : ~Forbids(m, x)
    OBVIOUS
  <2>1. old \in pause
    BY DEF Now
  <2>2. cur = old
    BY <1>4, <2>1 DEF OneRowPerId
  <2>3. m = p
    BY <1>1, <1>3, <1>5, <2>2, MovedAlone
  <2>4. lock_rows(k, ScopeRows(m.group)) /\ EventFits(task[k].view, m)
    BY <2>3 DEF update_event
  <2>5. m \in ScheduleEvent
    BY <1>3, <2>3
  <2>6. QED
    BY <1>7, <2>4, <2>5, EventFitsApart
<1>13. late' = Marked(k, NewRows) /\ task' = [task EXCEPT ![k] = Free] /\ Editing(k)
  BY <1>4, <1>5, <1>7, <1>10 DEF SetsBreaks, Commits, update_event
<1>14. QED
  BY <1>7, <1>8, <1>9, <1>10, <1>11, <1>12, <1>13 DEF Edits

LEMMA DeclareEdits ==
  ASSUME WeekInv, NEW k \in Clerk, NEW t, NEW H, declare_hours(k, t, H)
  PROVE  Edits(k)
<1>1. pause' = pause /\ lesson' = lesson /\ begun' = begun
  BY DEF declare_hours
<1>2. lesson' \ lesson = {} /\ pause' \ pause = {} /\ NewRows = {}
  BY <1>1 DEF NewRows
<1>3. OneRowPerId'
  BY <1>1 DEF OneRowPerId, WeekInv
<1>4. begun \in Int
  BY TimetableAssumption DEF WeekTypeOK, WeekInv
<1>5. late' = Marked(k, NewRows) /\ task' = [task EXCEPT ![k] = Free] /\ Editing(k)
  BY <1>2 DEF declare_hours, Commits
<1>6. QED
  BY <1>1, <1>2, <1>3, <1>4, <1>5 DEF Edits

-----------------------------------------------------------------------------
(* The other steps.                                                          *)

\* A task that takes no lock yet, or gives up, changes no row.
LEMMA OpenKeeps ==
  ASSUME WeekInv, WeekTypeOK', NEW k \in Clerk, open_request(k)
  PROVE  WeekInv'
<1> USE DEF WeekInv
<1>1. /\ task'[k].step = "read" /\ task'[k].no = begun + 1 /\ task'[k].held = task[k].held
      /\ \A j \in Clerk \ {k} : task'[j] = task[j]
  BY ViewType DEF open_request, WeekTypeOK, Tasks
<1>2. task[k].step = "idle" /\ begun' = begun + 1 /\ UNCHANGED <<lesson, pause, late>>
  BY DEF open_request, Opens
<1>3. begun \in Nat /\ \A j \in Clerk : Active(j) => task[j].no \in Nat /\ task[j].no <= begun
  BY ViewType, TimetableAssumption DEF WeekTypeOK, Numbered
<1>4. \A x \in lesson \cup pause : x.id[1] \in Nat /\ x.id[1] <= begun
  BY SlotTimes, EventTimes DEF WeekTypeOK, Numbered
<1>5. \A j \in Clerk : Active(j)' => j = k \/ (j # k /\ Active(j) /\ task'[j] = task[j])
  BY <1>1 DEF Active
<1>6. Numbered'
  <2>1. \A x \in lesson' \cup pause' : x.id[1] <= begun'
    BY <1>2, <1>3, <1>4
  <2>2. ASSUME NEW j \in Clerk, Active(j)'
        PROVE  /\ task'[j].no <= begun'
               /\ \A x \in lesson' \cup pause' : x.id[1] # task'[j].no
               /\ \A i \in Clerk \ {j} : Active(i)' => task'[i].no # task'[j].no
    <3>1. CASE j = k
      BY <1>1, <1>2, <1>3, <1>4, <1>5, <3>1
    <3>2. CASE j # k
      <4>1. Active(j) /\ task'[j] = task[j]
        BY <1>5, <2>2, <3>2
      <4>2. \A i \in Clerk \ {j} : Active(i)' => task'[i].no # task'[j].no
        BY <1>1, <1>3, <1>5, <4>1 DEF Numbered
      <4>3. QED
        BY <1>2, <1>3, <4>1, <4>2 DEF Numbered
    <3>3. QED
      BY <3>1, <3>2
  <2>3. QED
    BY <2>1, <2>2 DEF Numbered
<1>7. \A j \in Clerk : /\ task'[j].held = task[j].held
                       /\ Solving(j)' <=> Solving(j)
                       /\ Solving(j) => task'[j] = task[j]
  BY <1>1, <1>2 DEF Solving
<1>8. LocksApart'
  BY <1>7 DEF LocksApart
<1>9. UnseenIsApart'
  BY <1>2, <1>7 DEF UnseenIsApart
<1>10. OneRowPerId' /\ ClashesComeFromThePast' /\ BreaksStandButForThePast'
  BY <1>2 DEF OneRowPerId, ClashesComeFromThePast, BreaksStandButForThePast
<1>11. QED
  BY <1>6, <1>8, <1>9, <1>10

LEMMA GiveUpKeeps ==
  ASSUME WeekInv, WeekTypeOK', NEW k \in Clerk, give_up(k)
  PROVE  WeekInv'
<1> USE DEF WeekInv
<1>1. task'[k] = Free /\ \A j \in Clerk \ {k} : task'[j] = task[j]
  BY DEF give_up, WeekTypeOK
<1>2. Free.step = "idle" /\ Free.held = {}
  BY DEF Free
<1>3. UNCHANGED <<lesson, pause, begun, late>>
  BY DEF give_up
<1>4. \A j \in Clerk : Active(j)' => Active(j) /\ task'[j] = task[j]
  BY <1>1, <1>2 DEF Active
<1>5. Numbered'
  BY <1>3, <1>4 DEF Numbered
<1>6. \A j \in Clerk : /\ task'[j].held \in {{}, task[j].held}
                       /\ Solving(j)' => Solving(j) /\ task'[j] = task[j]
                       /\ ~Solving(j)' => task'[j].held = {}
  BY <1>1, <1>2 DEF Solving, LocksApart
<1>7. LocksApart'
  BY <1>6 DEF LocksApart
<1>8. UnseenIsApart'
  BY <1>3, <1>6 DEF UnseenIsApart
<1>9. OneRowPerId' /\ ClashesComeFromThePast' /\ BreaksStandButForThePast'
  BY <1>3 DEF OneRowPerId, ClashesComeFromThePast, BreaksStandButForThePast
<1>10. QED
  BY <1>5, <1>7, <1>8, <1>9

LEMMA LockKeeps ==
  ASSUME WeekInv, WeekTypeOK', NEW k \in Clerk, NEW g \in Group, acquire_generation_locks(k, g)
  PROVE  WeekInv'
<1> USE DEF WeekInv
<1>1. /\ task'[k].step = "solving" /\ task'[k].no = begun + 1 /\ task'[k].group = g
      /\ task'[k].held = GenerationRows(g) /\ task'[k].view = Now
      /\ \A j \in Clerk \ {k} : task'[j] = task[j]
  BY DEF acquire_generation_locks, WeekTypeOK
<1>2. /\ task[k].step = "idle" /\ begun' = begun + 1 /\ UNCHANGED <<lesson, pause, late>>
      /\ lock_rows(k, GenerationRows(g))
  BY DEF acquire_generation_locks, Opens
<1>3. begun \in Nat /\ \A j \in Clerk : Active(j) => task[j].no \in Nat /\ task[j].no <= begun
  BY ViewType, TimetableAssumption DEF WeekTypeOK, Numbered
<1>4. \A x \in lesson \cup pause : x.id[1] \in Nat /\ x.id[1] <= begun
  BY SlotTimes, EventTimes DEF WeekTypeOK, Numbered
<1>5. \A j \in Clerk : Active(j)' => j = k \/ (j # k /\ Active(j) /\ task'[j] = task[j])
  BY <1>1 DEF Active
<1>6. Numbered'
  <2>1. \A x \in lesson' \cup pause' : x.id[1] <= begun'
    BY <1>2, <1>3, <1>4
  <2>2. ASSUME NEW j \in Clerk, Active(j)'
        PROVE  /\ task'[j].no <= begun'
               /\ \A x \in lesson' \cup pause' : x.id[1] # task'[j].no
               /\ \A i \in Clerk \ {j} : Active(i)' => task'[i].no # task'[j].no
    <3>1. CASE j = k
      BY <1>1, <1>2, <1>3, <1>4, <1>5, <3>1
    <3>2. CASE j # k
      <4>1. Active(j) /\ task'[j] = task[j]
        BY <1>5, <2>2, <3>2
      <4>2. \A i \in Clerk \ {j} : Active(i)' => task'[i].no # task'[j].no
        BY <1>1, <1>3, <1>5, <4>1 DEF Numbered
      <4>3. QED
        BY <1>2, <1>3, <4>1, <4>2 DEF Numbered
    <3>3. QED
      BY <3>1, <3>2
  <2>3. QED
    BY <2>1, <2>2 DEF Numbered
<1>7. \A j \in Clerk \ {k} : /\ task'[j] = task[j] /\ (Solving(j)' <=> Solving(j))
                             /\ task[j].held \cap GenerationRows(g) = {}
  BY <1>1, <1>2 DEF Solving, lock_rows
<1>8. LocksApart'
  <2>1. ASSUME NEW j \in Clerk
        PROVE  /\ Solving(j)' => task'[j].held = GenerationRows(task'[j].group)
               /\ ~Solving(j)' => task'[j].held = {}
               /\ \A i \in Clerk \ {j} : task'[i].held \cap task'[j].held = {}
    <3>1. CASE j = k
      BY <1>1, <1>7, <3>1 DEF Solving
    <3>2. CASE j # k
      BY <1>1, <1>7, <3>2 DEF Solving, LocksApart
    <3>3. QED
      BY <3>1, <3>2
  <2>2. QED
    BY <2>1 DEF LocksApart
<1>9. UnseenIsApart'
  <2>1. task'[k].view.lesson = lesson' /\ task'[k].view.pause = pause'
    BY <1>1, <1>2 DEF Now
  <2>2. QED
    BY <1>2, <1>7, <2>1 DEF UnseenIsApart
<1>10. OneRowPerId' /\ ClashesComeFromThePast' /\ BreaksStandButForThePast'
  BY <1>2 DEF OneRowPerId, ClashesComeFromThePast, BreaksStandButForThePast
<1>11. QED
  BY <1>6, <1>8, <1>9, <1>10

-----------------------------------------------------------------------------
(* The week the solver found.                                                 *)

\* Two runs of one teacher that share an hour are one.
LEMMA RunsApart ==
  ASSUME NEW week, NEW t, NEW r \in Runs(week, t), NEW s \in Runs(week, t), NEW h \in Int,
         h \in r[1] .. r[2] - 1, h \in s[1] .. s[2] - 1
  PROVE  r[1] = s[1] /\ r[2] = s[2]
<1>1. r[1] \in Int /\ r[2] \in Int /\ s[1] \in Int /\ s[2] \in Int
  BY TimetableAssumption DEF Runs, Hour, EndHour
<1>2. PICK H : H = HoursOf(week, t)
  OBVIOUS
<1>3. /\ r[1] .. r[2] - 1 \subseteq H /\ r[1] - 1 \notin H /\ r[2] \notin H
      /\ s[1] .. s[2] - 1 \subseteq H /\ s[1] - 1 \notin H /\ s[2] \notin H
  BY <1>2 DEF Runs
<1>4. r[1] = s[1]
  <2>1. CASE r[1] < s[1]
    BY <1>1, <1>3, <2>1
  <2>2. CASE s[1] < r[1]
    BY <1>1, <1>3, <2>2
  <2>3. QED
    BY <1>1, <2>1, <2>2
<1>5. r[2] = s[2]
  <2>1. CASE r[2] < s[2]
    BY <1>1, <1>3, <2>1
  <2>2. CASE s[2] < r[2]
    BY <1>1, <1>3, <2>2
  <2>3. QED
    BY <1>1, <2>1, <2>2
<1>6. QED
  BY <1>4, <1>5

\* Each hour of a generated lesson is an hour of the grid given to its teacher.
LEMMA GeneratedHour ==
  ASSUME WeekTypeOK, NEW k \in Clerk, NEW week, NEW x \in Generated(k, week),
         NEW h, h \in x.start .. x.end - 1
  PROVE  h \in HoursOf(week, x.teacher)
<1>1. <<x.start, x.end>> \in Runs(week, x.teacher)
  BY GeneratedType
<1>2. x.start .. x.end - 1 \subseteq HoursOf(week, x.teacher)
  BY <1>1 DEF Runs
<1>3. QED
  BY <1>2

LEMMA GeneratedSame ==
  ASSUME WeekTypeOK, NEW k \in Clerk, NEW week, NEW x \in Generated(k, week),
         NEW y \in Generated(k, week), NEW h \in Int,
         h \in x.start .. x.end - 1, h \in y.start .. y.end - 1
  PROVE  x = y
<1>1. h \in HoursOf(week, x.teacher) /\ h \in HoursOf(week, y.teacher)
  BY GeneratedHour
<1>2. x.teacher = y.teacher
  BY <1>1 DEF HoursOf
<1>3. /\ x \in TimetableSlot /\ x.group = task[k].group /\ x.room = home[task[k].group]
      /\ x.made = "solver" /\ x.id = <<task[k].no, x.start>>
      /\ <<x.start, x.end>> \in Runs(week, x.teacher)
  BY GeneratedType
<1>4. /\ y \in TimetableSlot /\ y.group = task[k].group /\ y.room = home[task[k].group]
      /\ y.made = "solver" /\ y.id = <<task[k].no, y.start>>
      /\ <<y.start, y.end>> \in Runs(week, x.teacher)
  BY <1>2, GeneratedType
<1>5. x.start = y.start /\ x.end = y.end
  <2>1. PICK r, s : r = <<x.start, x.end>> /\ s = <<y.start, y.end>>
    OBVIOUS
  <2>2. r \in Runs(week, x.teacher) /\ s \in Runs(week, x.teacher)
    BY <1>3, <1>4, <2>1
  <2>3. r[1] = x.start /\ r[2] = x.end /\ s[1] = y.start /\ s[2] = y.end
    BY <2>1
  <2>4. r[1] = s[1] /\ r[2] = s[2]
    BY <2>2, <2>3, RunsApart
  <2>5. QED
    BY <2>3, <2>4
<1>6. QED
  BY <1>2, <1>3, <1>4, <1>5 DEF TimetableSlot

\* Two lessons of one generation with one name start at the same hour.
LEMMA GeneratedIds ==
  ASSUME WeekTypeOK, NEW k \in Clerk, NEW week, NEW x \in Generated(k, week),
         NEW y \in Generated(k, week), x.id = y.id
  PROVE  x = y
<1>1. x.id = <<task[k].no, x.start>> /\ y.id = <<task[k].no, y.start>>
  BY GeneratedType
<1>2. x.start = y.start
  <2>1. <<task[k].no, x.start>>[2] = <<task[k].no, y.start>>[2]
    BY <1>1
  <2>2. QED
    BY <2>1
<1>3. x \in TimetableSlot /\ y \in TimetableSlot
  BY GeneratedType
<1>4. x.start < x.end /\ y.start < y.end
  <2>1. <<x.start, x.end>> \in Runs(week, x.teacher) /\ <<y.start, y.end>> \in Runs(week, y.teacher)
    BY GeneratedType
  <2>2. QED
    BY <2>1 DEF Runs
<1>5. x.start \in x.start .. x.end - 1 /\ x.start \in y.start .. y.end - 1
  BY <1>2, <1>3, <1>4, SlotTimes
<1>6. QED
  BY <1>3, <1>5, SlotTimes, GeneratedSame

\* A generated lesson clashes with a lesson it leaves in place, or is forbidden by a break,
\* only if the task did not see the other.
LEMMA GeneratedFits ==
  ASSUME WeekTypeOK, NEW k \in Clerk, NEW week \in Weeks(k), persist_schedule(k, week),
         NEW x \in Generated(k, week)
  PROVE  /\ \A y \in lesson : Clash(x, y) /\ y \in task[k].view.lesson
                                => y.group = x.group /\ y.made = "solver"
         /\ \A p \in pause : Forbids(p, x) => p \notin task[k].view.pause
<1> DEFINE V == task[k].view
           g == task[k].group
<1>1. DOMAIN week = Grid(V, g)
  BY DEF Weeks
<1>2. /\ x \in TimetableSlot /\ x.group = g /\ x.room = home[g] /\ x.teacher \in TeachersOf(g)
  BY GeneratedType
<1>3. Solves(V, g, week)
  BY DEF persist_schedule
<1>4. HoursOf(week, x.teacher) \cap Unavailable(V, g, x.teacher) = {}
  BY <1>2, <1>3 DEF Solves
<1>5. ASSUME NEW y \in lesson, Clash(x, y), y \in V.lesson, ~(y.group = g /\ y.made = "solver")
      PROVE  FALSE
  <2>1. y \in TimetableSlot
    BY DEF WeekTypeOK
  <2>2. PICK h \in Hour : h \in x.start .. x.end - 1 /\ h \in y.start .. y.end - 1
    BY <1>5 DEF Clash, Meet
  <2>3. h \in HoursOf(week, x.teacher)
    BY <2>2, GeneratedHour
  <2>4. h \in Grid(V, g)
    BY <1>1, <2>3 DEF HoursOf
  <2>5. Overlap(y, At(h))
    BY <2>1, <2>2, SlotTimes DEF Overlap, At, Hour
  <2>6. y \notin Manual(V, g) /\ (y.group # g => home[g] = NoRoom \/ y.room # home[g])
    BY <1>5, <2>4, <2>5 DEF Grid
  <2>7. y.group # g
    BY <1>5, <2>1, <2>6 DEF Manual, TimetableSlot
  <2>8. y.teacher # x.teacher
    BY <1>4, <1>5, <2>2, <2>3, <2>5, <2>7 DEF Unavailable
  <2>9. x.room # NoRoom => y.room # x.room
    BY <1>2, <2>6, <2>7
  <2>10. QED
    BY <1>2, <1>5, <2>7, <2>8, <2>9 DEF Clash
<1>6. ASSUME NEW p \in pause, Forbids(p, x), p \in V.pause
      PROVE  FALSE
  <2>1. p \in ScheduleEvent
    BY DEF WeekTypeOK
  <2>2. PICK h \in Hour : h \in x.start .. x.end - 1 /\ h \in p.start .. p.end - 1
    BY <1>6 DEF Forbids, Meet
  <2>3. h \in HoursOf(week, x.teacher)
    BY <2>2, GeneratedHour
  <2>4. h \in Grid(V, g)
    BY <1>1, <2>3 DEF HoursOf
  <2>5. Overlap(p, At(h))
    BY <2>1, <2>2, EventTimes DEF Overlap, At, Hour
  <2>6. Concerns(p, g)
    BY <1>2, <1>6 DEF Forbids
  <2>7. QED
    BY <1>6, <2>4, <2>5, <2>6 DEF Grid
<1>7. QED
  BY <1>2, <1>5, <1>6

\* Generated rows are among those the task keeps locked.
LEMMA GeneratedLocked ==
  ASSUME WeekTypeOK, NEW k \in Clerk, NEW week, NEW x \in Generated(k, week)
  PROVE  SlotRows(x) \subseteq GenerationRows(task[k].group)
<1>1. /\ x.group = task[k].group /\ x.room = home[task[k].group]
      /\ x.teacher \in TeachersOf(task[k].group)
  BY GeneratedType
<1>2. QED
  BY <1>1 DEF SlotRows, GenerationRows

LEMMA PersistKeeps ==
  ASSUME WeekInv, WeekTypeOK', NEW k \in Clerk, NEW week \in Weeks(k), persist_schedule(k, week)
  PROVE  WeekInv'
<1> USE DEF WeekInv
<1> DEFINE g == task[k].group
<1>1. task'[k] = Free /\ \A j \in Clerk \ {k} : task'[j] = task[j]
  BY DEF persist_schedule, WeekTypeOK
<1>2. Free.step = "idle" /\ Free.held = {}
  BY DEF Free
<1>3. PICK G : G = Generated(k, week)
  OBVIOUS
<1>4. PICK K : K = {y \in lesson : ~(y.group = g /\ y.made = "solver")}
  OBVIOUS
<1>5. lesson' = K \cup G /\ UNCHANGED <<pause, begun, late>> /\ K \subseteq lesson
  BY <1>3, <1>4 DEF persist_schedule
<1>6. Active(k) /\ Solving(k)
  BY DEF persist_schedule, Active, Solving
<1>7. \A x \in G : /\ x \in TimetableSlot /\ x.group = g /\ x.room = home[g]
                   /\ x.teacher \in TeachersOf(g) /\ x.id[1] = task[k].no
  <2> SUFFICES ASSUME NEW x \in Generated(k, week)
               PROVE  /\ x \in TimetableSlot /\ x.group = g /\ x.room = home[g]
                      /\ x.teacher \in TeachersOf(g) /\ x.id[1] = task[k].no
    BY <1>3
  <2>1. x.group = g /\ x.teacher \in TeachersOf(x.group) /\ x.id = <<task[k].no, x.start>>
    BY GeneratedType
  <2>2. x \in TimetableSlot /\ x.room = home[g]
    BY GeneratedType
  <2>3. QED
    BY <2>1, <2>2
<1>8. \A x \in G : \A y \in lesson \cup pause : y.id # x.id
  BY <1>6, <1>7, OwnNumber
<1>9. task[k].held = GenerationRows(g) /\ g \in Group
  BY <1>6, ViewType DEF LocksApart
<1>10. \A j \in Clerk : Active(j)' => j # k /\ Active(j) /\ task'[j] = task[j]
  BY <1>1, <1>2 DEF Active
<1>11. Numbered'
  BY <1>5, <1>6, <1>7, <1>10, OwnNumber DEF Numbered
<1>12. OneRowPerId'
  <2>1. \A x, y \in G : x.id = y.id => x = y
    BY <1>3, GeneratedIds
  <2>2. QED
    BY <1>5, <1>8, <2>1 DEF OneRowPerId
<1>13. \A j \in Clerk : /\ task'[j].held \in {{}, task[j].held}
                        /\ Solving(j)' => j # k /\ Solving(j) /\ task'[j] = task[j]
                        /\ ~Solving(j)' => task'[j].held = {}
  BY <1>1, <1>2 DEF Solving, LocksApart
<1>14. LocksApart'
  BY <1>13 DEF LocksApart
<1>15. UnseenIsApart'
  <2> SUFFICES ASSUME NEW j \in Clerk, Solving(j)'
               PROVE  /\ \A y \in lesson' : \/ y \in task'[j].view.lesson \/ y.id \in late'
                                            \/ SlotRows(y) \cap task'[j].held = {}
                      /\ \A p \in pause' : \/ p \in task'[j].view.pause \/ p.id \in late'
                                           \/ ScopeRows(p.group) \cap task'[j].held = {}
    BY DEF UnseenIsApart
  <2>1. j # k /\ Solving(j) /\ task'[j] = task[j]
    BY <1>13
  <2>2. \A y \in G : SlotRows(y) \cap task[j].held = {}
    <3>1. task[j].held \cap GenerationRows(g) = {}
      BY <1>9, <2>1 DEF LocksApart
    <3>2. \A y \in G : SlotRows(y) \subseteq GenerationRows(g)
      BY <1>3, GeneratedLocked
    <3>3. QED
      BY <3>1, <3>2
  <2>3. QED
    BY <1>5, <2>1, <2>2 DEF UnseenIsApart
<1>16. \A x \in G, y \in K : Clash(x, y) => y.id \in late
  <2> SUFFICES ASSUME NEW x \in G, NEW y \in K, Clash(x, y)
               PROVE  y.id \in late
    OBVIOUS
  <2>1. y \notin task[k].view.lesson
    BY <1>3, <1>4, <1>7, GeneratedFits
  <2>2. y.id \in late \/ SlotRows(y) \cap GenerationRows(g) = {}
    BY <1>5, <1>6, <1>9, <2>1 DEF UnseenIsApart
  <2>3. y.group = g \/ y.teacher = x.teacher \/ (y.room = home[g] /\ home[g] # NoRoom)
    BY <1>7 DEF Clash
  <2>4. x.teacher \in TeachersOf(g)
    BY <1>7
  <2>5. SlotRows(y) \cap GenerationRows(g) # {}
    <3>1. CASE y.group = g
      BY <3>1 DEF SlotRows, GenerationRows
    <3>2. CASE y.teacher = x.teacher
      BY <2>4, <3>2 DEF SlotRows, GenerationRows
    <3>3. CASE y.room = home[g] /\ home[g] # NoRoom
      <4>1. <<"room", home[g]>> \in SlotRows(y) /\ <<"room", home[g]>> \in GenerationRows(g)
        BY <3>3 DEF SlotRows, GenerationRows, RoomRows
      <4>2. QED
        BY <4>1
    <3>4. QED
      BY <2>3, <3>1, <3>2, <3>3
  <2>6. QED
    BY <2>2, <2>5
<1>17. ClashesComeFromThePast'
  <2> SUFFICES ASSUME NEW x \in lesson', NEW y \in lesson', Clash(x, y)
               PROVE  x.id \in late' \/ y.id \in late'
    BY DEF ClashesComeFromThePast
  <2>1. CASE x \in K /\ y \in K
    BY <1>5, <2>1 DEF ClashesComeFromThePast
  <2>2. CASE x \in G /\ y \in G
    <3>1. PICK h \in Hour : h \in x.start .. x.end - 1 /\ h \in y.start .. y.end - 1
      BY DEF Clash, Meet
    <3>2. h \in Int
      BY DEF Hour
    <3>3. x = y
      BY <1>3, <2>2, <3>1, <3>2, GeneratedSame
    <3>4. QED
      BY <3>3 DEF Clash
  <2>3. CASE x \in G /\ y \in K
    BY <1>5, <1>16, <2>3
  <2>4. CASE x \in K /\ y \in G
    <3>1. Clash(y, x)
      BY ClashIsMutual DEF WeekTypeOK
    <3>2. QED
      BY <1>5, <1>16, <2>4, <3>1
  <2>5. QED
    BY <1>5, <2>1, <2>2, <2>3, <2>4
<1>18. BreaksStandButForThePast'
  <2> SUFFICES ASSUME NEW x \in lesson', NEW p \in pause', Forbids(p, x)
               PROVE  x.id \in late' \/ p.id \in late'
    BY DEF BreaksStandButForThePast, Forbids
  <2>1. CASE x \in K
    BY <1>5, <2>1 DEF BreaksStandButForThePast, Forbids
  <2>2. CASE x \in G
    <3>1. p \notin task[k].view.pause
      BY <1>3, <1>5, <2>2, GeneratedFits
    <3>2. p.id \in late \/ ScopeRows(p.group) \cap GenerationRows(g) = {}
      BY <1>5, <1>6, <1>9, <3>1 DEF UnseenIsApart
    <3>3. p.group = g \/ p.group = Everyone
      BY <1>7, <2>2 DEF Forbids, Concerns
    <3>4. ClassRow(g) \in ScopeRows(p.group) /\ ClassRow(g) \in GenerationRows(g)
      BY <1>9, <3>3 DEF ScopeRows, GenerationRows
    <3>5. QED
      BY <1>5, <3>2, <3>4
  <2>3. QED
    BY <1>5, <2>1, <2>2
<1>19. QED
  BY <1>11, <1>12, <1>14, <1>15, <1>17, <1>18

-----------------------------------------------------------------------------
LEMMA InvStep == WeekInv /\ [WeekNext]_weekvars => WeekInv'
<1> SUFFICES ASSUME WeekInv, [WeekNext]_weekvars PROVE WeekInv'
  OBVIOUS
<1>1. WeekTypeOK'
  BY TypeStep DEF WeekInv
<1>2. CASE UNCHANGED weekvars
  BY <1>2 DEF weekvars, WeekInv, WeekTypeOK, Numbered, OneRowPerId, LocksApart, UnseenIsApart,
     ClashesComeFromThePast, BreaksStandButForThePast, Active, Solving
<1>3. CASE WeekNext
  <2>1. PICK k \in Clerk : ClerkStep(k)
    BY <1>3 DEF WeekNext
  <2>2. CASE open_request(k)
    BY <1>1, <2>2, OpenKeeps
  <2>3. CASE give_up(k)
    BY <1>1, <2>3, GiveUpKeeps
  <2>4. CASE LessonStep(k)
    <3>1. Edits(k)
      BY <2>4, CreateEdits, DeleteEdits, UpdateEdits DEF LessonStep
    <3>2. QED
      BY <1>1, <3>1, EditKeeps
  <2>5. CASE EventStep(k)
    <3>1. Edits(k)
      BY <2>5, SaveEdits, BulkEdits, RemoveEdits, MoveEdits DEF EventStep
    <3>2. QED
      BY <1>1, <3>1, EditKeeps
  <2>6. ASSUME NEW t \in Teacher, NEW H \in SUBSET Hour, declare_hours(k, t, H)
        PROVE  WeekInv'
    <3>1. Edits(k)
      BY <2>6, DeclareEdits
    <3>2. QED
      BY <1>1, <3>1, EditKeeps
  <2>7. ASSUME NEW g \in Group, acquire_generation_locks(k, g)
        PROVE  WeekInv'
    BY <1>1, <2>7, LockKeeps
  <2>8. ASSUME NEW week \in Weeks(k), persist_schedule(k, week)
        PROVE  WeekInv'
    BY <1>1, <2>8, PersistKeeps
  <2>9. QED
    BY <2>1, <2>2, <2>3, <2>4, <2>5, <2>6, <2>7, <2>8 DEF ClerkStep
<1>4. QED
  BY <1>2, <1>3

LEMMA InvHolds == WeekSpec => []WeekInv
BY InvInit, InvStep, PTL DEF WeekSpec

\* Two lessons want the same class, teacher or room at the same hour only when one of them
\* was last written by an edit whose snapshot was past: the rows a generation keeps locked
\* while it solves leave no other way.
THEOREM ClashesOnlyFromThePast == WeekSpec => []ClashesComeFromThePast
<1>1. WeekInv => ClashesComeFromThePast
  BY DEF WeekInv
<1>2. QED
  BY <1>1, InvHolds, PTL

\* A lesson meets a break of its class only when one of the two was last written by an edit
\* whose snapshot was past.
THEOREM BreaksStand == WeekSpec => []BreaksStandButForThePast
<1>1. WeekInv => BreaksStandButForThePast
  BY DEF WeekInv
<1>2. QED
  BY <1>1, InvHolds, PTL
=============================================================================
