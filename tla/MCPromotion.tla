----------------------------- MODULE MCPromotion -----------------------------
(***************************************************************************)
(* One belt for children, with a degree for each day; for adults a belt    *)
(* that takes two days, and the last one, by time.  A coach may take the   *)
(* degree back, so that it is earned a second time, or move an adult to    *)
(* the children's belt.                                                    *)
(***************************************************************************)
EXTENDS Promotion, TLC

CONSTANTS kids, adult, grey, brown, black

MCTrackOf == [r \in Rank |-> IF r = grey THEN kids ELSE adult]
MCNextOf == [r \in Rank |-> IF r = brown THEN black ELSE None]
MCModeOf == [r \in Rank |-> IF r = black THEN "TIME" ELSE "ATTENDANCE"]
MCMaxStripes == [r \in Rank |-> IF r = brown THEN 0 ELSE 1]
MCDestination == {[rank |-> grey, stripes |-> 0]}
MCTwo == [r \in Rank |-> 2]
MCOne == [r \in Rank |-> 1]

Symmetric == Permutations(Staff)
=============================================================================
