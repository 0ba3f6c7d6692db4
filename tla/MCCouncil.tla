----------------------------- MODULE MCCouncil -----------------------------
(***************************************************************************)
(* A class at the end of its year: two evaluations in two subjects.            *)
(***************************************************************************)
EXTENDS Council

Exams ==
  [e \in Evaluation |-> IF e = "essay" THEN [subject |-> "french", coefficient |-> 2]
                        ELSE [subject |-> "maths", coefficient |-> 1]]

Coefficients == [s \in Subject |-> IF s = "french" THEN 3 ELSE 2]

\* The third pupil came after the first trimester.
Before == [p \in Pupil |-> IF p = 3 THEN <<Unset, 1000>> ELSE <<900, 1050>>]

\* Two level pupils; two zeros, one of an absence, about an empty cell; one correction.
Said(v) == [value |-> v, absent |-> FALSE]
Missed == [value |-> Unset, absent |-> TRUE]

ThreeSheets ==
  {[p \in Pupil |-> IF p = 3 THEN Said(900) ELSE Said(1200)],
   [p \in Pupil |-> IF p = 1 THEN Said(0) ELSE IF p = 2 THEN Said(Unset) ELSE Missed],
   [p \in {3} |-> Said(Unset)]}

TwoCalls == {[p \in {1} |-> "absent"], [p \in {1, 2} |-> "present"]}

OneRuling == {[p \in {2} |-> "repechage"]}
=============================================================================
