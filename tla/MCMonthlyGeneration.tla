----------------------- MODULE MCMonthlyGeneration -----------------------
(***************************************************************************)
(* Instances of MonthlyGeneration for TLC: smaller sets of initial states. *)
(***************************************************************************)
EXTENDS MonthlyGeneration

CONSTANT FirstStudents   \* the students that exist at the start

\* Every student can be billed: what is at stake is the walk.
Priced == [s \in Student |-> "PRICED"]

\* One month, already reached.
WalkInit == InitWith(1, FirstStudents, Priced, 1)
WalkSpec == WalkInit /\ [][Next]_vars

\* The first row is behind the current month: rollover catches up.
BehindInit == \E now \in Month : InitWith(1, FirstStudents, Priced, now)

LiveWalkSpec == WalkSpec /\ Fairness

\* Of the rest of the application, only the calendar moves.
CalendarNext     == Next /\ (env' # env => current' # current)
LiveCalendarSpec == BehindInit /\ [][CalendarNext]_vars /\ Fairness
=============================================================================
