---------------------------- MODULE DebtAccount ----------------------------
(***************************************************************************)
(* What the dues ledger promises about one student's debts, whoever writes *)
(* to it: a debt, once charged, stays on the account; a payment settles    *)
(* whole debts, the oldest open ones first, and every debt it settles is   *)
(* settled by it alone; undoing a payment reopens all of its debts, and    *)
(* the payment is never used again.  No month is charged for twice.        *)
(***************************************************************************)
EXTENDS Naturals

CONSTANTS Debt,     \* debts, as naturals in the order they must be paid
          Covers,   \* [Debt -> set of months it pays for]
          Payment   \* payments

VARIABLES charged,  \* debts on the account
          settles,  \* the debts each payment settles now
          used      \* payments ever made

vars == <<charged, settles, used>>

Paid       == UNION {settles[p] : p \in Payment}
Open(debts) == debts \ Paid

\* The debts S are the oldest of those that are open among `debts`.
Oldest(S, debts) == \A s \in S, o \in Open(debts) \ S : s < o

\* No two of the debts pay for the same month.
OneEach(debts) == \A a, b \in debts : a # b => Covers[a] \cap Covers[b] = {}

Init == charged = {} /\ settles = [p \in Payment |-> {}] /\ used = {}

Charge(New) ==
  /\ New \cap charged = {} /\ OneEach(charged \cup New)
  /\ charged' = charged \cup New
  /\ UNCHANGED <<settles, used>>

\* A payment may bring new debts with it only to settle them.
Pay(p, New, S) ==
  LET debts == charged \cup New IN
  /\ p \notin used
  /\ New \cap charged = {} /\ New \subseteq S /\ OneEach(debts)
  /\ S # {} /\ S \subseteq Open(debts) /\ Oldest(S, debts)
  /\ charged' = debts
  /\ settles' = [settles EXCEPT ![p] = S]
  /\ used' = used \cup {p}

Undo(p) ==
  /\ settles[p] # {}
  /\ settles' = [settles EXCEPT ![p] = {}]
  /\ UNCHANGED <<charged, used>>

Next ==
  \/ \E New \in SUBSET Debt : Charge(New)
  \/ \E p \in Payment, S, New \in SUBSET Debt : Pay(p, New, S)
  \/ \E p \in Payment : Undo(p)

Spec == Init /\ [][Next]_vars
=============================================================================
