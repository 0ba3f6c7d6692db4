-------------------------------- MODULE Sums --------------------------------
(***************************************************************************)
(* Sums of a function over 1..n, as the aggregates of the database compute  *)
(* them (SUM ... GROUP BY).  A recursive function rather than a fold: the   *)
(* lemmas of FeeRulesProofs are about it.                                       *)
(***************************************************************************)
EXTENDS Integers

Prefix(a, n) ==
  LET upTo[i \in 0..n] == IF i = 0 THEN 0 ELSE upTo[i - 1] + a[i]
  IN  upTo

Sum(a, n) == Prefix(a, n)[n]
=============================================================================
