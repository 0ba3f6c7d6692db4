---------------------------- MODULE Publication ----------------------------
(***************************************************************************)
(* What the register of seals promises about one document, whoever asks and  *)
(* whatever fails: its copies are published in order, publishing one withdraws *)
(* the one before, and a copy that was withdrawn is never valid again.        *)
(***************************************************************************)
EXTENDS Naturals

VARIABLES last,           \* the number of the last copy published, 0 before the first
          valid           \* the copies a verifier is told are genuine and in force

Init == (last = 0 /\ valid = {}) \/ (last = 1 /\ valid = {1})

\* Numbers may be skipped: a generation that failed keeps its own.
Publish == last' \in Nat /\ last' > last /\ valid' = {last'}

Withdraw == valid # {} /\ valid' = {} /\ last' = last

Next == Publish \/ Withdraw

Spec == Init /\ [][Next]_<<last, valid>>
=============================================================================
