------------------------------- MODULE MCTill -------------------------------
(***************************************************************************)
(* Till on small instances: two cashiers, and few enough amounts for the    *)
(* drawers to be exhausted.                                                 *)
(***************************************************************************)
EXTENDS Till

=============================================================================
