---------------------------- MODULE MCSubmission ----------------------------
(***************************************************************************)
(* Calls are interchangeable, and cards and ids of one operation are.      *)
(***************************************************************************)
EXTENDS Submission, TLC

CONSTANT desk  \* the ordinary card beside the cards of another operation

AllOrdinary == [x \in Id \cup Card |-> "ORDINARY"]
Prepayments == [x \in Id \cup Card |-> IF x = desk THEN "ORDINARY" ELSE "PREPAYMENT"]

Symmetry == Permutations(Id) \cup Permutations(Card \ {desk}) \cup Permutations(Call)
=============================================================================
