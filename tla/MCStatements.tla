---------------------------- MODULE MCStatements ----------------------------
(***************************************************************************)
(* Statements on a small instance: a family with two mandatory lines, so    *)
(* that one may hide the debt of the other, and one with an optional line.  *)
(***************************************************************************)
EXTENDS Statements

MCEnrollmentOf == <<"traore", "traore", "kone">>
MCNominal      == <<2, 1, 1>>
MCCategoryOf   == <<"inscription", "scolarite", "tenue">>

Fixed(value, due)      == [fixed |-> TRUE, value |-> value, due |-> due]
Percentage(value, due) == [fixed |-> FALSE, value |-> value, due |-> due]

\* Four quarters, the last one later (of two francs it is negative); a fixed amount that
\* may be more than is due, then everything else, all due now; two shares that do not make
\* 100 % (refused).
MCGrids == {<<Percentage(25, 1), Percentage(25, 1), Percentage(25, 1), Percentage(25, 2)>>,
            <<Fixed(2, 1), Percentage(100, 1)>>,
            <<Percentage(50, 1), Percentage(60, 1)>>}

\* All that is due at first, at once; what is left after a discount, in two parts.
MCPlans == {<<[amount |-> 3, due |-> 1]>>,
            <<[amount |-> 1, due |-> 1], [amount |-> 1, due |-> 2]>>}
=============================================================================
