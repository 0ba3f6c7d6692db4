------------------------------ MODULE MCCounter ------------------------------
(***************************************************************************)
(* Counter on small instances: one family with the two lines that moves,    *)
(* discounts and deposits need.  Families that meet are in MCStatements.    *)
(***************************************************************************)
EXTENDS Counter, TLC

MCEnrollmentOf2 == <<"traore", "traore">>
MCNominal2      == <<2, 1>>
MCNominal1      == <<1, 1>>

Symmetric == Permutations(Cashiers)
=============================================================================
