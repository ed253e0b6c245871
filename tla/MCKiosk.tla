------------------------------ MODULE MCKiosk ------------------------------
(***************************************************************************)
(* Two evening classes whose windows overlap, and one after midnight that  *)
(* belongs to the next day.                                                *)
(***************************************************************************)
EXTENDS Kiosk, TLC

CONSTANTS early, late, night

MCOpens  == [c \in Class |-> IF c = early THEN 0 ELSE IF c = late THEN 1 ELSE 2]
MCCloses == [c \in Class |-> IF c = early THEN 1 ELSE 2]
MCDayOf  == [c \in Class |-> IF c = night THEN 2 ELSE 1]

MCStudentOf == [t \in Tap |-> CHOOSE s \in Student : TRUE]

Symmetric == Permutations(Request) \cup Permutations(Worker) \cup Permutations(Page)
=============================================================================
