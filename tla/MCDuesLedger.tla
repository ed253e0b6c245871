---------------------------- MODULE MCDuesLedger ----------------------------
(***************************************************************************)
(* One student with a SIGNUP and two months, on three days, the first two  *)
(* of them in the first month.  The first month's grace ends on day 1, the *)
(* second month's on day 2, so that each is paid on time, if need be with  *)
(* an earlier received date, and late.                                     *)
(***************************************************************************)
EXTENDS DuesLedger

MCCoverage  == <<1, 1, 2>>
MCThreeDays == <<1, 1, 2>>
MCOffer ==
  << {[amount |-> 1, lateFee |-> 0, grace |-> 3]},
     {[amount |-> 3, lateFee |-> 1, grace |-> 1]},
     {[amount |-> 3, lateFee |-> 1, grace |-> 2],
      [amount |-> 4, lateFee |-> 0, grace |-> 2]} >>

MCNoSpan == [k \in {} |-> 2]

\* Two months, and a package of the month between them and the second.  The second
\* month and the package may be repriced until they are charged.
MCAheadCoverage == <<1, 2, 3>>
MCAheadOffer ==
  << MCOffer[2], {[amount |-> a, lateFee |-> 0, grace |-> 3] : a \in {4, 7}}, MCOffer[3] >>
MCSpan == [k \in {2} |-> 2]
=============================================================================
