----------------------------- MODULE Timetable -----------------------------
(***************************************************************************)
(* The week of the classes, on one day: lessons set by hand, breaks that      *)
(* forbid lessons, the hours a teacher declares himself away, and the          *)
(* generation of a class's lessons by a task of the worker.                    *)
(*                                                                            *)
(* An edit comes by a request: it locks the class, the teacher and the room,     *)
(* then looks for conflicts in the snapshot its session opened when it           *)
(* authenticated.  The task opens a session of its own whose first statement     *)
(* takes the locks, so that its snapshot is not older than they are; it keeps    *)
(* them while the solver runs.  All lock in one order, class, teachers, rooms.    *)
(***************************************************************************)
EXTENDS Integers, FiniteSets

CONSTANTS Group, Teacher, Room,
          hours,          \* the hours each teacher owes each class
          home,           \* the room of each class, or NoRoom
          Clerk,          \* requests and tasks being served
          LastHour,       \* the day goes from 0 to LastHour
          Everyone,       \* the scope of a break of the whole school
          NoRoom, Nobody,
          MaxEdits        \* bound: requests and tasks served, one of several breaks counting for two

ASSUME TimetableAssumption ==
  /\ Group # {}
  /\ hours \in [Group -> [Teacher -> Nat]]
  /\ home \in [Group -> Room \cup {NoRoom}]
  /\ Everyone \notin Group /\ NoRoom \notin Room /\ Nobody \notin Teacher
  /\ LastHour \in Nat \ {0} /\ MaxEdits \in Nat

VARIABLES lesson,         \* the committed lessons
          pause,          \* the committed breaks, those that block lessons
          away,           \* the hours each teacher cannot teach
          task,           \* what each clerk is doing
          begun,          \* how many requests and tasks were begun
          late            \* history: the rows last written by an edit whose snapshot was past

weekvars == <<lesson, pause, away, task, begun, late>>

Hour == 0 .. LastHour - 1
EndHour == 1 .. LastHour

\* made: by hand (no timetable_id) or by the solver.
TimetableSlot ==
  [id : Nat \X Nat, group : Group, teacher : Teacher, room : Room \cup {NoRoom},
   start : Hour, end : EndHour, made : {"hand", "solver"}]

\* What a form may ask of a row.
SlotForms(n, Groups, by) ==
  [id : {n}, group : Groups, teacher : Teacher, room : Room \cup {NoRoom},
   start : Hour, end : EndHour, made : {by}]

\* One that does not block lessons forbids nothing: it is no event here.
ScheduleEvent ==
  [id : Nat \X Nat, group : Group \cup {Everyone}, start : Hour, end : EndHour]

EventForms(n) == [id : {n}, group : Group \cup {Everyone}, start : Hour, end : EndHour]

Overlap(x, y) == x.start < y.end /\ x.end > y.start

Concerns(p, g) == p.group \in {g, Everyone}

Now == [lesson |-> lesson, pause |-> pause, away |-> away]

Free == [step |-> "idle", no |-> 1, group |-> CHOOSE g \in Group : TRUE, held |-> {},
         view |-> [lesson |-> {}, pause |-> {}, away |-> [t \in Teacher |-> {}]]]

WeekInit ==
  /\ lesson = {} /\ pause = {} /\ away = [t \in Teacher |-> {}]
  /\ task = [k \in Clerk |-> Free]
  /\ begun = 0 /\ late = {}

-----------------------------------------------------------------------------
(* A request and its locks.                                                  *)

Opens(k) == task[k].step = "idle" /\ begun < MaxEdits /\ begun' = begun + 1

open_request(k) ==
  /\ Opens(k)
  /\ task' = [task EXCEPT ![k].step = "read", ![k].no = begun + 1, ![k].view = Now]
  /\ UNCHANGED <<lesson, pause, away, late>>

\* Refused, failed, or the process died: nothing was written.
give_up(k) ==
  /\ task[k].step # "idle"
  /\ task' = [task EXCEPT ![k] = Free]
  /\ UNCHANGED <<lesson, pause, away, begun, late>>

Editing(k) == task[k].step = "read"

Ids(rows) == {x.id : x \in rows}

\* The history after request k committed the rows X.
Marked(k, X) == IF task[k].view = Now THEN late \ Ids(X) ELSE late \cup Ids(X)

\* The commit of request k, which wrote the rows X.
Commits(k, X) ==
  /\ task' = [task EXCEPT ![k] = Free]
  /\ late' = Marked(k, X)

SetsLessons(k, L) == lesson' = L /\ Commits(k, L \ lesson) /\ UNCHANGED <<pause, away, begun>>

SetsBreaks(k, P) == pause' = P /\ Commits(k, P \ pause) /\ UNCHANGED <<lesson, away>>

lock_rows(k, rows) == \A j \in Clerk \ {k} : task[j].held \cap rows = {}

ClassRow(g)    == <<"class", g>>
TeacherRow(t)  == <<"teacher", t>>
RoomRows(r)    == IF r = NoRoom THEN {} ELSE {<<"room", r>>}
SlotRows(x)    == {ClassRow(x.group), TeacherRow(x.teacher)} \cup RoomRows(x.room)

\* Mutant: a break of the whole school is taken for one more class.
class_rows_only(g) == {ClassRow(g)}

\* lock_class_scope.
ScopeRows(g) == IF g = Everyone THEN {ClassRow(c) : c \in Group} ELSE {ClassRow(g)}

-----------------------------------------------------------------------------
(* Lessons set by hand.  V is the snapshot of the request.                     *)

ensure_course_allowed(V, x) == \A p \in V.pause : Concerns(p, x.group) => ~Overlap(p, x)

MeetsAnother(V, x) == {y \in V.lesson : y.id # x.id /\ Overlap(y, x)}

find_teacher_unavailability(V, x) == (x.start .. x.end - 1) \cap V.away[x.teacher] # {}

TeacherIsFree(V, x) ==
  /\ \A y \in MeetsAnother(V, x) : y.teacher # x.teacher
  /\ ~find_teacher_unavailability(V, x)

ClassIsFree(V, x) == \A y \in MeetsAnother(V, x) : y.group # x.group

RoomIsFree(V, x) == x.room # NoRoom => \A y \in MeetsAnother(V, x) : y.room # x.room

\* ensure_slot_teacher: the class has this teacher for what he teaches.
Teaches(t, g) == hours[g][t] > 0

Fits(k, x) ==
  /\ x.start < x.end
  /\ lock_rows(k, SlotRows(x))
  /\ ensure_course_allowed(task[k].view, x)
  /\ TeacherIsFree(task[k].view, x) /\ ClassIsFree(task[k].view, x) /\ RoomIsFree(task[k].view, x)

NewId(k, i) == <<task[k].no, i>>

create_slot(k, x) ==
  /\ Editing(k)
  /\ Teaches(x.teacher, x.group) /\ Fits(k, x)
  /\ SetsLessons(k, lesson \cup {x})

\* The ORM writes the columns whose value differs from the one it loaded.
Patched(loaded, new, now) == IF new = loaded THEN now ELSE new

Merged(old, new, cur) ==
  [cur EXCEPT !.teacher = Patched(old.teacher, new.teacher, @),
              !.room = Patched(old.room, new.room, @),
              !.start = Patched(old.start, new.start, @),
              !.end = Patched(old.end, new.end, @)]

\* Everything may change but the class and who made it; a row deleted meanwhile fails the
\* flush.
update_slot(k, old, new) ==
  /\ Editing(k)
  /\ new.teacher # old.teacher => Teaches(new.teacher, new.group)
  /\ Fits(k, new)
  /\ \E cur \in lesson :
       /\ cur.id = old.id
       /\ SetsLessons(k, (lesson \ {cur}) \cup {Merged(old, new, cur)})

\* No lock; a row already gone is not an error.
delete_slot(k, old) ==
  /\ Editing(k)
  /\ SetsLessons(k, {y \in lesson : y.id # old.id})

-----------------------------------------------------------------------------
(* Breaks, and the hours of the teachers.                                     *)

\* _check_event_conflicts: another break of the same pupils, or a lesson.
EventFits(V, p) ==
  /\ \A q \in V.pause :
       q.id # p.id /\ Overlap(p, q) => p.group # Everyone /\ ~Concerns(q, p.group)
  /\ \A y \in V.lesson : Overlap(p, y) => ~Concerns(p, y.group)

save_event(k, p) ==
  /\ Editing(k) /\ p.start < p.end
  /\ lock_rows(k, ScopeRows(p.group)) /\ EventFits(task[k].view, p)
  /\ SetsBreaks(k, pause \cup {p}) /\ UNCHANGED begun

Moved(old, p, cur) ==
  [cur EXCEPT !.group = Patched(old.group, p.group, @),
              !.start = Patched(old.start, p.start, @),
              !.end = Patched(old.end, p.end, @)]

\* save_events_bulk: several breaks at once, all or nothing; here two, that count for two
\* edits against the bound.
save_events_bulk(k, p, q) ==
  /\ Editing(k) /\ p.start < p.end /\ q.start < q.end
  /\ lock_rows(k, ScopeRows(p.group) \cup ScopeRows(q.group))
  /\ EventFits(task[k].view, p) /\ EventFits(task[k].view, q)
  /\ Overlap(p, q) => p.group # q.group /\ Everyone \notin {p.group, q.group}
  /\ SetsBreaks(k, pause \cup {p, q})
  /\ begun < MaxEdits /\ begun' = begun + 1

\* Every column of the form; the scope that is locked is the new one.
update_event(k, old, p) ==
  /\ Editing(k) /\ p.start < p.end
  /\ lock_rows(k, ScopeRows(p.group)) /\ EventFits(task[k].view, p)
  /\ \E cur \in pause :
       /\ cur.id = old.id
       /\ SetsBreaks(k, (pause \ {cur}) \cup {Moved(old, p, cur)}) /\ UNCHANGED begun

remove_event(k, old) ==
  /\ Editing(k) /\ lock_rows(k, ScopeRows(old.group))
  /\ SetsBreaks(k, {q \in pause : q.id # old.id}) /\ UNCHANGED begun

\* A teacher's declarations, of hours closed or opened: no lock, no look at the lessons.
declare_hours(k, t, H) ==
  /\ Editing(k) /\ away' = [away EXCEPT ![t] = H] /\ Commits(k, {})
  /\ UNCHANGED <<lesson, pause, begun>>

-----------------------------------------------------------------------------
(* Generation.                                                               *)

TeachersOf(g) == {t \in Teacher : Teaches(t, g)}

\* Mutant: the teachers are not locked.
no_teacher_locked(g) == {ClassRow(g)} \cup RoomRows(home[g])

GenerationRows(g) == {ClassRow(g)} \cup {TeacherRow(t) : t \in TeachersOf(g)} \cup RoomRows(home[g])

acquire_generation_locks(k, g) ==
  /\ Opens(k) /\ TeachersOf(g) # {}
  /\ lock_rows(k, GenerationRows(g))
  /\ task' = [task EXCEPT ![k] = [step |-> "solving", no |-> begun + 1, group |-> g,
                                  held |-> GenerationRows(g), view |-> Now]]
  /\ UNCHANGED <<lesson, pause, away, late>>

Manual(V, g) == {y \in V.lesson : y.group = g /\ y.made = "hand"}

\* place_manual_lessons: none of no duration, none over a break.
ManualLessonsStand(V, g) ==
  \A y \in Manual(V, g) : y.start < y.end /\ ensure_course_allowed(V, y)

At(h) == [start |-> h, end |-> h + 1]

Covered(V, g, t) ==
  Cardinality({c \in Manual(V, g) \X Hour :
                 c[1].teacher = t /\ c[2] \in c[1].start .. c[1].end - 1})

\* build_grid: the hours left by the breaks, the manual lessons and the room's other classes.
Grid(V, g) ==
  {h \in Hour :
     /\ \A p \in V.pause : Concerns(p, g) => ~Overlap(p, At(h))
     /\ \A y \in V.lesson : Overlap(y, At(h)) =>
          /\ y \notin Manual(V, g)
          /\ y.group # g => home[g] = NoRoom \/ y.room # home[g]}

\* The teacher is away, or teaches another class.
Unavailable(V, g, t) ==
  V.away[t] \cup {h \in Hour : \E y \in V.lesson : y.teacher = t /\ y.group # g /\ Overlap(y, At(h))}

HoursOf(week, t) == {h \in DOMAIN week : week[h] = t}

\* solve: the exact volume of each teacher, and no subject twice in one stretch of the grid.
Solves(V, g, week) ==
  /\ \A t \in Teacher : HoursOf(week, t) # {} => t \in TeachersOf(g)
  /\ \A t \in TeachersOf(g) :
       /\ Cardinality(HoursOf(week, t)) = hours[g][t] - Covered(V, g, t)
       /\ HoursOf(week, t) \cap Unavailable(V, g, t) = {}
       /\ \A i, j \in HoursOf(week, t) :
            i .. j \subseteq DOMAIN week => i .. j \subseteq HoursOf(week, t)

\* merge_consecutive_blocks: one lesson per run of hours.
Runs(week, t) ==
  {r \in Hour \X EndHour :
     /\ r[1] < r[2] /\ r[1] .. r[2] - 1 \subseteq HoursOf(week, t)
     /\ r[1] - 1 \notin HoursOf(week, t) /\ r[2] \notin HoursOf(week, t)}

Generated(k, week) ==
  LET g == task[k].group
  IN  UNION {{[id |-> NewId(k, r[1]), group |-> g, teacher |-> t, room |-> home[g],
               start |-> r[1], end |-> r[2], made |-> "solver"] : r \in Runs(week, t)}
             : t \in TeachersOf(g)}

\* The lessons of the solver replace those of the last generation, and the commit is last.
persist_schedule(k, week) ==
  LET g == task[k].group
      V == task[k].view
  IN  /\ task[k].step = "solving"
      /\ ManualLessonsStand(V, g) /\ Solves(V, g, week)
      /\ lesson' = {y \in lesson : ~(y.group = g /\ y.made = "solver")} \cup Generated(k, week)
      /\ task' = [task EXCEPT ![k] = Free]
      /\ UNCHANGED <<pause, away, begun, late>>

Weeks(k) == [Grid(task[k].view, task[k].group) -> Teacher \cup {Nobody}]

-----------------------------------------------------------------------------
LessonStep(k) ==
  \/ \E x \in SlotForms(NewId(k, 0), Group, "hand") : create_slot(k, x)
  \/ \E old \in task[k].view.lesson :
       \/ delete_slot(k, old)
       \/ \E new \in SlotForms(old.id, {old.group}, old.made) : update_slot(k, old, new)

EventStep(k) ==
  \/ \E p \in EventForms(NewId(k, 0)) :
       \/ save_event(k, p)
       \/ \E q \in EventForms(NewId(k, 1)) : save_events_bulk(k, p, q)
  \/ \E old \in task[k].view.pause :
       \/ remove_event(k, old)
       \/ \E p \in EventForms(old.id) : update_event(k, old, p)

ClerkStep(k) ==
  \/ open_request(k) \/ give_up(k)
  \/ LessonStep(k) \/ EventStep(k)
  \/ \E t \in Teacher, H \in SUBSET Hour : declare_hours(k, t, H)
  \/ \E g \in Group : acquire_generation_locks(k, g)
  \/ \E week \in Weeks(k) : persist_schedule(k, week)

WeekNext == \E k \in Clerk : ClerkStep(k)

WeekSpec == WeekInit /\ [][WeekNext]_weekvars

-----------------------------------------------------------------------------
(* Properties.                                                              *)

Views == [lesson : SUBSET TimetableSlot, pause : SUBSET ScheduleEvent,
          away : [Teacher -> SUBSET Hour]]

Tasks == [step : {"idle", "read", "solving"}, no : Nat, group : Group,
          held : SUBSET ({"class", "teacher", "room"} \X (Group \cup Teacher \cup Room)),
          view : Views]

\* The rows and the tasks keep their types.
WeekTypeOK ==
  /\ lesson \subseteq TimetableSlot /\ pause \subseteq ScheduleEvent
  /\ away \in [Teacher -> SUBSET Hour]
  /\ task \in [Clerk -> Tasks]
  /\ begun \in 0..MaxEdits
  /\ late \subseteq Nat \X Nat

\* Two rows take an hour from each other.
Meet(x, y) == \E h \in Hour : h \in x.start .. x.end - 1 /\ h \in y.start .. y.end - 1

\* A class, a teacher or a room in two places.
Clash(x, y) ==
  /\ x.id # y.id /\ Meet(x, y)
  /\ x.group = y.group \/ x.teacher = y.teacher \/ (x.room = y.room /\ x.room # NoRoom)

\* Whatever is edited and generated at once, two lessons want the same class, teacher or
\* room at the same hour only when one of them was last written by an edit whose snapshot
\* was already past: the locks a generation keeps leave no other way.
ClashesComeFromThePast ==
  \A x, y \in lesson : Clash(x, y) => x.id \in late \/ y.id \in late

\* A lesson meets a break of its class only when one of the two was last written by an edit
\* whose snapshot was already past, whether the break came during a generation or before.
BreaksStandButForThePast ==
  \A x \in lesson, p \in pause :
    Concerns(p, x.group) /\ Meet(x, p) => x.id \in late \/ p.id \in late
=============================================================================
