----------------------------- MODULE MCAccounts -----------------------------
(* Invitations of one organization, or of two. *)
EXTENDS Accounts, TLC

CONSTANTS org1, org2, i1

OneOrg == [i \in Invitation |-> org1]
TwoOrgs == [i \in Invitation |-> IF i = i1 THEN org1 ELSE org2]

\* With OneOrg nothing tells two of these apart.
Symmetric ==
  Permutations(Password) \cup Permutations(Attempt) \cup Permutations(Request)
    \cup Permutations(Redeemer) \cup Permutations(Invitation)
=============================================================================
