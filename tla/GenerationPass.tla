--------------------------- MODULE GenerationPass ---------------------------
(***************************************************************************)
(* What the monthly-generation job promises about the passes over one      *)
(* organization's months, with no runner, lease, page or cursor in sight:  *)
(* a pass sees the students in id order, each once, leaves out nobody who  *)
(* was there when it began, bills a student's month only while seeing the  *)
(* student, and at its end publishes what it saw.                          *)
(***************************************************************************)
EXTENDS Integers, FiniteSets

CONSTANTS Student, Month, None

VARIABLES
  seen,       \* the class seen for each student in the open pass, or None
  present,    \* students that were there when the open pass began
  published,  \* the counts of the last finished pass
  clean,      \* whether the last finished pass was clean, or None
  covered     \* what covers each student's month

vars == <<seen, present, published, clean, covered>>

Class  == {"INELIGIBLE", "COVERED", "UNPRICED", "PENDING"}
Nobody == [s \in Student |-> None]

Init ==
  /\ seen = [m \in Month |-> Nobody]
  /\ \E S \in SUBSET Student : present = [m \in Month |-> S]
  /\ published = [m \in Month |-> [c \in Class |-> 0]]
  /\ clean = [m \in Month |-> None]
  /\ covered = [s \in Student |-> [m \in Month |-> "none"]]

\* The next student of a pass is seen; a month nothing covered may become billed.
See(m, s, c) ==
  /\ \A t \in Student : seen[m][t] # None => t < s
  /\ \A t \in present[m] : t < s => seen[m][t] # None
  /\ seen' = [seen EXCEPT ![m][s] = c]
  /\ \/ UNCHANGED covered
     \/ c = "COVERED" /\ covered[s][m] = "none" /\ covered' = [covered EXCEPT ![s][m] = "monthly"]
  /\ c = "COVERED" => covered'[s][m] # "none"
  /\ UNCHANGED <<present, published, clean>>

\* Everyone the pass owed a visit was seen: it is published and the next one begins.
Publish(m) ==
  /\ \A s \in present[m] : seen[m][s] # None
  /\ published' = [published EXCEPT ![m] = [c \in Class |-> Cardinality({s \in Student : seen[m][s] = c})]]
  /\ clean' = [clean EXCEPT ![m] = (\A s \in Student : seen[m][s] \notin {"UNPRICED", "PENDING"})]
  /\ seen' = [seen EXCEPT ![m] = Nobody]
  /\ \E S \in SUBSET Student : present[m] \subseteq S /\ present' = [present EXCEPT ![m] = S]
  /\ UNCHANGED covered

\* Months are opened for the students of the moment; nothing was seen in them yet.
Open ==
  /\ \E ms \in SUBSET Month : \E S \in SUBSET Student :
       /\ \A m \in ms : seen[m] = Nobody /\ present[m] \subseteq S
       /\ present' = [m \in Month |-> IF m \in ms THEN S ELSE present[m]]
  /\ UNCHANGED <<seen, published, clean, covered>>

\* Someone else covers a student's month.
CoveredElsewhere ==
  /\ \E s \in Student, m \in Month, k \in {"monthly", "package"} :
       covered[s][m] = "none" /\ covered' = [covered EXCEPT ![s][m] = k]
  /\ UNCHANGED <<seen, present, published, clean>>

Next ==
  \/ \E m \in Month, s \in Student, c \in Class : See(m, s, c)
  \/ \E m \in Month : Publish(m)
  \/ Open
  \/ CoveredElsewhere

Spec == Init /\ [][Next]_vars
=============================================================================
