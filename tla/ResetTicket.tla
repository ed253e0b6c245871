----------------------------- MODULE ResetTicket -----------------------------
(***************************************************************************)
(* What the reset of a password promises: one link at most is good at any  *)
(* time, the one issued last; it is good once and until its time; and the  *)
(* epoch of the credentials, which ends every session opened before,       *)
(* advances exactly when a good link is redeemed.                          *)
(***************************************************************************)
EXTENDS Naturals

CONSTANTS Ticket, TTL
VARIABLES clock, good, spent, epoch

vars == <<clock, good, spent, epoch>>

Init == clock = 0 /\ good = {} /\ spent = {} /\ epoch = 0

Pass == clock' = clock + 1 /\ UNCHANGED <<good, spent, epoch>>

\* A ticket is issued once, and takes the place of the one that was good.
Issue(t) ==
  /\ t \notin spent
  /\ good' = {[ticket |-> t, until |-> clock + TTL]}
  /\ spent' = spent \cup {t}
  /\ UNCHANGED <<clock, epoch>>

Withdraw == good' = {} /\ UNCHANGED <<clock, spent, epoch>>

Redeem ==
  /\ \E g \in good : clock < g.until
  /\ good' = {} /\ epoch' = epoch + 1
  /\ UNCHANGED <<clock, spent>>

Next == Pass \/ Withdraw \/ Redeem \/ \E t \in Ticket : Issue(t)

Spec == Init /\ [][Next]_vars
=============================================================================
