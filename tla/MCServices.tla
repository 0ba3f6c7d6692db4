---------------------------- MODULE MCServices ----------------------------
(***************************************************************************)
(* The services around the counter on small instances: the register of seals,  *)
(* the hand-off of a photo, the dossiers of a year, the grid and the lines, the   *)
(* week of the classes, the marks and the council of one.                        *)
(* They share no row here, so their product would only multiply states: a        *)
(* behaviour runs one of them, chosen at the start, and the others rest.         *)
(***************************************************************************)
EXTENDS SealLineage, UploadHandoff, Enrollments, FeeGrid, Timetable,
        MCCouncil

VARIABLE part             \* the service this behaviour runs

vars == <<sealvars, handoffvars, enrolvars, gridvars, weekvars, councilvars, part>>

Places == [c \in Class |-> 1]

\* Inscription, at a general price and at two special ones; and the canteen.
Tariffs ==
  [v \in Variant |->
     [category |-> IF v = "cantine" THEN "option" ELSE "inscription",
      scope |-> IF v = "affecte" THEN "A" ELSE NotSet,
      profile |-> IF v = "nouveau" THEN "N" ELSE NotSet,
      series |-> NotSet]]

\* The canteen is entered at the first price, and so is inscription, at the general price
\* alone or at the special ones too, or not at all yet.
FirstPrices ==
  /\ grid["cantine"] = 1
  /\ grid["base"] \in {0, 1} /\ grid["nouveau"] \in {0, grid["base"]}
  /\ grid["affecte"] = grid["nouveau"]

\* Only the first pupil has a row left from before.
FirstLeft == \A s \in Student \ {1} : ~Exists(dossier[s])

\* Class b has the mathematics teacher for two hours and no room of its own.
Owed ==
  [g \in Group |-> [t \in Teacher |-> IF g = "a" THEN 1 ELSE IF t = "maths" THEN 2 ELSE 0]]
Homes == [g \in Group |-> IF g = "a" THEN "lab" ELSE NoRoom]

\* A test of mathematics was given to the three pupils, and an essay is to come; the class
\* is empty while another service runs.
TestGiven == roll = Pupil /\ marks["test"] # Unset /\ marks["essay"] = Unset
NoPupil == roll = {} /\ \A e \in Evaluation : marks[e] = Unset

Parts == {"seals", "handoff", "enrol", "grid", "week", "council"}

Init ==
  /\ SealInit /\ HandoffInit /\ EnrolInit /\ GridInit /\ WeekInit
  /\ CouncilInit
  /\ FirstPrices /\ FirstLeft
  /\ part \in Parts
  /\ IF part = "council" THEN TestGiven ELSE NoPupil
  /\ part # "seals" => row = <<>>
  /\ part # "enrol" => dossier = Blank
  /\ part # "grid" => file = [e \in Dossier |-> NotSet] /\ \A v \in {"nouveau", "affecte"} : grid[v] = 0
  /\ part # "grid" => grid["base"] = 1

Next ==
  /\ \/ /\ part = "seals" /\ SealNext
        /\ UNCHANGED <<handoffvars, enrolvars, gridvars, weekvars, councilvars>>
     \/ /\ part = "handoff" /\ HandoffNext
        /\ UNCHANGED <<sealvars, enrolvars, gridvars, weekvars, councilvars>>
     \/ /\ part = "enrol" /\ EnrolNext
        /\ UNCHANGED <<sealvars, handoffvars, gridvars, weekvars, councilvars>>
     \/ /\ part = "grid" /\ GridNext
        /\ UNCHANGED <<sealvars, handoffvars, enrolvars, weekvars, councilvars>>
     \/ /\ part = "week" /\ WeekNext
        /\ UNCHANGED <<sealvars, handoffvars, enrolvars, gridvars, councilvars>>
     \/ /\ part = "council" /\ CouncilNext
        /\ UNCHANGED <<sealvars, handoffvars, enrolvars, gridvars, weekvars>>
  /\ UNCHANGED part

Aside == UNCHANGED <<sealvars, gridvars, weekvars, councilvars, part>>

\* HandoffFairness, and the steps of a promotion.
Fairness ==
  /\ WF_vars(part = "handoff" /\ tick_handoff /\ UNCHANGED enrolvars /\ Aside)
  /\ \A p \in Phone : WF_vars(part = "handoff" /\ PhoneStep(p) /\ UNCHANGED enrolvars /\ Aside)
  /\ \A f \in File :
       WF_vars(part = "handoff" /\ sweep_staged(f, -Drift) /\ UNCHANGED enrolvars /\ Aside)
  /\ \A w \in Worker :
       WF_vars(part = "enrol" /\ PromotionStep(w) /\ UNCHANGED handoffvars /\ Aside)

Spec == Init /\ [][Next]_vars /\ Fairness

\* One type invariant for the six.
ServicesTypeOK == SealTypeOK /\ HandoffTypeOK /\ EnrolTypeOK /\ GridTypeOK /\ WeekTypeOK
                  /\ CouncilTypeOK
=============================================================================
