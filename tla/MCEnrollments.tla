---------------------------- MODULE MCEnrollments ----------------------------
(***************************************************************************)
(* Two students and two classes of one place each, in a year that begins       *)
(* without a dossier.                                                         *)
(***************************************************************************)
EXTENDS Enrollments

Places == [c \in Class |-> 1]

NewYear == EnrolInit /\ \A s \in Student : ~Exists(dossier[s])

NewYearSpec == NewYear /\ [][EnrolNext]_enrolvars
=============================================================================
