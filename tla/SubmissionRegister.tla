------------------------ MODULE SubmissionRegister -------------------------
(***************************************************************************)
(* What a submission id promises: a register written at most once, with a  *)
(* payment or with a receipt that waits for a rate, and known to the       *)
(* client only after it was written.                                       *)
(***************************************************************************)
CONSTANT Id

VARIABLES
  outcome,  \* [Id -> "none", "payment" or "receipt"]
  known     \* ids whose outcome some client was told

vars == <<outcome, known>>

Init ==
  /\ outcome = [i \in Id |-> "none"]
  /\ known = {}

Take(i) ==
  /\ outcome[i] = "none"
  /\ \E kind \in {"payment", "receipt"} : outcome' = [outcome EXCEPT ![i] = kind]
  /\ UNCHANGED known

Learn(i) ==
  /\ outcome[i] # "none"
  /\ known' = known \cup {i}
  /\ UNCHANGED outcome

Next == \E i \in Id : Take(i) \/ Learn(i)

Spec == Init /\ [][Next]_vars
=============================================================================
