----------------------- MODULE MonthlyGenerationProofs -----------------------
(***************************************************************************)
(* Theorems about MonthlyGeneration, for every set of students, months and *)
(* runners and every value of the limits and the bounds.                   *)
(***************************************************************************)
EXTENDS MonthlyGeneration, FiniteSetTheorems, SequenceTheorems, WellFoundedInduction, TLAPS

-----------------------------------------------------------------------------
(* Lemmas about the operators.                                             *)

\* A set of student ids that is not empty has a least one: the next student of a page.
LEMMA LeastIsMember ==
  ASSUME NEW S, S \subseteq Nat, S # {}
  PROVE  Least(S) \in S /\ \A y \in S : Least(S) <= y
<1> DEFINE R == {p \in Nat \X Nat : p[1] < p[2]}
<1>1. IsWellFoundedOn(R, Nat)
  BY NatLessThanWellFounded, Zenon DEF OpToRel
<1>2. \A x, y \in Nat : y < x => <<y, x>> \in R
  OBVIOUS
<1>3. \E z \in S : \A y \in S : ~(<<y, z>> \in R)
  <2> HIDE DEF R
  <2> QED BY <1>1, WFMin
<1>4. \E z \in S : \A y \in S : ~(y < z)
  <2> HIDE DEF R
  <2> QED BY <1>2, <1>3
<1>5. \E z \in S : \A y \in S : z <= y
  BY <1>4
<1>6. QED
  BY <1>5 DEF Least

\* A cursor is a natural number.
LEMMA CursorIsNat == Cursor \subseteq Nat
BY IdsAreOrdered DEF Cursor

\* One more student of a class is one more in its count; the other classes keep theirs.
LEMMA OneMore ==
  ASSUME NEW f \in [Student -> Class \cup {None}], NEW s \in Student, f[s] = None,
         NEW c \in Class, NEW d \in Class
  PROVE  Cardinality({x \in Student : [f EXCEPT ![s] = c][x] = d})
           = Cardinality({x \in Student : f[x] = d}) + (IF d = c THEN 1 ELSE 0)
<1> DEFINE g == [f EXCEPT ![s] = c]
           A == {x \in Student : f[x] = d}
<1>1. IsFiniteSet(A) /\ Cardinality(A) \in Nat
  BY FiniteTables, FS_Subset, FS_CardinalityType
<1>2. CASE d = c
  <2>1. {x \in Student : g[x] = d} = A \cup {s} /\ s \notin A
    BY <1>2, NoneIsNoClass
  <2>2. QED
    BY <2>1, <1>1, <1>2, FS_AddElement
<1>3. CASE d # c
  <2>1. {x \in Student : g[x] = d} = A
    BY <1>3, NoneIsNoClass
  <2>2. QED
    BY <2>1, <1>1, <1>3
<1>4. QED
  BY <1>2, <1>3

-----------------------------------------------------------------------------
(* Type correctness.                                                       *)

LEMMA InitType == Init => TypeOK
<1> SUFFICES ASSUME Init PROVE TypeOK
  OBVIOUS
<1>1. PICK now \in Month, first \in Month, ss \in SUBSET Student, stand \in [Student -> Standing] :
        InitWith(first, ss, stand, now)
  BY DEF Init
<1>2. IdleRun \in RunType
  BY EmptySeq DEF IdleRun, RunType, Pc, Cursor
<1>3. NewRow \in RowType
  BY LimitsPositive DEF NewRow, RowType, NoCount, Cursor, Lease
<1>4. QED
  BY <1>1, <1>2, <1>3, LimitsPositive DEF InitWith, TypeOK, Covers, OrgState, NotVisited

\* What a step may make of a runner's local variables.
GoodRun(q) == q \in RunType /\ LocatedRun(q)
GoodRuns   == TypeOK /\ Located

LEMMA IdleIsGood ==
  GoodRun(IdleRun)
<1>1. <<>> \in Seq(Month) /\ <<>> \in Seq(rows)
  BY EmptySeq
<1>2. QED
  BY <1>1 DEF GoodRun, LocatedRun, IdleRun, RunType, Pc, Cursor, Visiting

\* The rest of the candidate loop drops the first candidate.
LEMMA AfterCandidateIsGood ==
  ASSUME TypeOK, NEW q \in RunType, q.todo \in Seq(rows), q.todo # <<>>
  PROVE  GoodRun(AfterCandidate(q)) /\ AfterCandidate(q).pc \notin InPass
<1>1. Tail(q.todo) \in Seq(rows) /\ Tail(q.todo) \in Seq(Month)
  BY HeadTailProperties DEF RunType
<1>2. Tail(q.todo) = <<>> => Tail(q.todo) \in Seq(rows)
  BY <1>1
<1>3. QED
  BY <1>1, IdleIsGood DEF AfterCandidate, GoodRun, LocatedRun, RunType, Pc, Visiting, InPass, IdleRun

\* One runner's step to a good local state, with no row lost, keeps every runner good.
LEMMA OneRunGood ==
  ASSUME GoodRuns, NEW r \in Runner, NEW q, GoodRun(q),
         run' = [run EXCEPT ![r] = q], rows \subseteq rows'
  PROVE  /\ run' \in [Runner -> RunType] /\ Located'
         /\ run'[r] = q /\ \A x \in Runner \ {r} : run'[x] = run[x]
<1>1. Seq(rows) \subseteq Seq(rows')
  BY SeqMonotonic
<1>2. QED
  BY <1>1 DEF GoodRuns, GoodRun, TypeOK, Located, LocatedRun

\* The edits of a runner's local variables, field by field.
LEMMA PastStudentIsGood ==
  ASSUME TypeOK, NEW q, GoodRun(q), q.pc \in Visiting, NEW s \in Student
  PROVE  /\ GoodRun(PastStudent(q, s))
         /\ PastStudent(q, s).pc = "walk" /\ PastStudent(q, s).month = q.month
         /\ PastStudent(q, s).cursor = s /\ PastStudent(q, s).page = q.page \ {s}
<1> DEFINE q1 == [q EXCEPT !.pc = "walk"]
           q2 == [q1 EXCEPT !.cursor = s]
           q3 == [q2 EXCEPT !.page = @ \ {s}]
           q4 == [q3 EXCEPT !.processed = @ + 1]
<1>1. q1 \in RunType /\ q1.pc = "walk" /\ q1.todo = q.todo /\ q1.month = q.month /\ q1.page = q.page
  BY DEF GoodRun, RunType, Pc
<1> HIDE DEF q1
<1>2. q2 \in RunType /\ q2.pc = "walk" /\ q2.todo = q.todo /\ q2.month = q.month /\ q2.cursor = s
      /\ q2.page = q.page
  BY <1>1 DEF RunType, Cursor
<1> HIDE DEF q2
<1>3. q3 \in RunType /\ q3.pc = "walk" /\ q3.todo = q.todo /\ q3.month = q.month /\ q3.cursor = s
      /\ q3.page = q.page \ {s}
  BY <1>2 DEF RunType
<1> HIDE DEF q3
<1>4. q4 \in RunType /\ q4.pc = "walk" /\ q4.todo = q.todo /\ q4.month = q.month /\ q4.cursor = s
      /\ q4.page = q.page \ {s}
  BY <1>3 DEF RunType
<1>5. q4 = PastStudent(q, s)
  BY DEF q1, q2, q3, q4, PastStudent
<1> HIDE DEF q4
<1>6. GoodRun(q4)
  BY <1>4 DEF GoodRun, LocatedRun, Visiting
<1>7. QED
  BY <1>4, <1>5, <1>6

LEMMA FinishedIsGood ==
  ASSUME TypeOK, NEW q, GoodRun(q), q.pc \in Visiting, NEW u \in BOOLEAN
  PROVE  GoodRun(Finished(q, u)) /\ Finished(q, u).pc = "release"
<1> DEFINE q1 == [q EXCEPT !.pc = "release"]
           q2 == [q1 EXCEPT !.unfinished = u]
<1>1. q1 \in RunType /\ q1.pc = "release" /\ q1.todo = q.todo /\ q1.month = q.month
  BY DEF GoodRun, RunType, Pc
<1> HIDE DEF q1
<1>2. q2 \in RunType /\ q2.pc = "release" /\ q2.todo = q.todo /\ q2.month = q.month
  BY <1>1 DEF RunType
<1>3. q2 = Finished(q, u)
  BY DEF q1, q2, Finished
<1> HIDE DEF q2
<1>4. QED
  BY <1>2, <1>3 DEF GoodRun, LocatedRun, Visiting

LEMMA VisitEndsGood ==
  ASSUME TypeOK, NEW q, GoodRun(q), q.pc \in Visiting
  PROVE  /\ GoodRun(AfterCandidate(Settled(q))) /\ AfterCandidate(Settled(q)).pc \notin InPass
         /\ GoodRun(AfterCandidate(q)) /\ AfterCandidate(q).pc \notin InPass
<1>1. q.month \in Month /\ q.todo \in Seq(rows) /\ q.todo # <<>>
  BY DEF GoodRun, LocatedRun, TypeOK
<1>2. Settled(q) \in RunType /\ Settled(q).todo = q.todo
  BY <1>1 DEF Settled, GoodRun, RunType
<1>3. QED
  BY <1>1, <1>2, AfterCandidateIsGood DEF GoodRun

\* An edit that leaves the candidates and the month of a visit alone.
LEMMA MovedIsGood ==
  ASSUME TypeOK, NEW q, GoodRun(q), q.pc \in Visiting, NEW pc \in Visiting,
         pc \in {"skip", "record"} => q.page # {}
  PROVE  LET w == [q EXCEPT !.pc = pc] IN
         GoodRun(w) /\ w.pc = pc /\ w.month = q.month /\ w.cursor = q.cursor /\ w.page = q.page
<1> DEFINE w == [q EXCEPT !.pc = pc]
<1>1. w \in RunType /\ w.todo = q.todo
      /\ w.pc = pc /\ w.month = q.month /\ w.cursor = q.cursor /\ w.page = q.page
  BY DEF GoodRun, RunType, Pc, Visiting
<1> HIDE DEF w
<1>2. QED
  BY <1>1 DEF GoodRun, LocatedRun, w

LEMMA MarkedIsGood ==
  ASSUME TypeOK, NEW q, GoodRun(q), q.pc \in Visiting, q.page # {},
         NEW pc \in Visiting
  PROVE  LET w == MarkerSet(q, pc) IN
         GoodRun(w) /\ w.pc = pc /\ w.month = q.month /\ w.cursor = q.cursor /\ w.page = q.page
<1> DEFINE q1 == [q EXCEPT !.marked = TRUE]
           w == [q1 EXCEPT !.pc = pc]
<1>1. q1 \in RunType /\ q1.todo = q.todo
      /\ q1.month = q.month /\ q1.cursor = q.cursor /\ q1.page = q.page
  BY DEF GoodRun, RunType
<1> HIDE DEF q1
<1>2. w \in RunType /\ w.todo = q.todo
      /\ w.pc = pc /\ w.month = q.month /\ w.cursor = q.cursor /\ w.page = q.page
  BY <1>1 DEF RunType, Pc, Visiting
<1>3. w = MarkerSet(q, pc)
  BY DEF q1, w, MarkerSet
<1> HIDE DEF w
<1>4. GoodRun(w)
  BY <1>2 DEF GoodRun, LocatedRun
<1>5. QED
  BY <1>2, <1>3, <1>4

LEMMA PagedIsGood ==
  ASSUME TypeOK, NEW q, GoodRun(q), q.pc \in Visiting,
         NEW pc \in {"passEnd", "walk"}, NEW page \in SUBSET Student
  PROVE  LET w == Paged(q, pc, page) IN
         GoodRun(w) /\ w.pc = pc /\ w.month = q.month /\ w.cursor = q.cursor /\ w.page = page
<1> DEFINE q1 == [q EXCEPT !.pc = pc]
           w == [q1 EXCEPT !.page = page]
<1>1. q1 \in RunType /\ q1.todo = q.todo
      /\ q1.pc = pc /\ q1.month = q.month /\ q1.cursor = q.cursor
  BY DEF GoodRun, RunType, Pc
<1> HIDE DEF q1
<1>2. w \in RunType /\ w.todo = q.todo
      /\ w.pc = pc /\ w.month = q.month /\ w.cursor = q.cursor /\ w.page = page
  BY <1>1 DEF RunType
<1>3. w = Paged(q, pc, page)
  BY DEF q1, w, Paged
<1> HIDE DEF w
<1>4. GoodRun(w)
  BY <1>2 DEF GoodRun, LocatedRun, Visiting
<1>5. QED
  BY <1>2, <1>3, <1>4

\* The edits of a progress row.
LEMMA LeasedRow ==
  ASSUME NEW q \in RowType, NEW tok \in Runner \cup {None}, NEW l \in Lease
  PROVE  LET w == Leased(q, tok, l) IN
         /\ w \in RowType /\ w.token = tok /\ w.lease = l /\ w.cursor = q.cursor
         /\ w.pass = q.pass /\ w.last = q.last /\ w.clean = q.clean
<1> DEFINE q1 == [q EXCEPT !.token = tok]
           q2 == [q1 EXCEPT !.lease = l]
<1>1. /\ q1 \in RowType /\ q1.token = tok /\ q1.cursor = q.cursor
      /\ q1.pass = q.pass /\ q1.last = q.last /\ q1.clean = q.clean
  BY DEF RowType
<1> HIDE DEF q1
<1>2. /\ q2 \in RowType /\ q2.token = tok /\ q2.lease = l /\ q2.cursor = q.cursor
      /\ q2.pass = q.pass /\ q2.last = q.last /\ q2.clean = q.clean
  BY <1>1 DEF RowType
<1>3. q2 = Leased(q, tok, l)
  BY DEF q1, q2, Leased
<1> HIDE DEF q2
<1>4. QED
  BY <1>2, <1>3

LEMMA MarkedRow ==
  ASSUME NEW q \in RowType, NEW s \in Cursor, NEW n \in 0..(MaxAttempts + 1)
  PROVE  LET w == InFlight(q, s, n) IN
         /\ w \in RowType /\ w.token = q.token /\ w.lease = q.lease /\ w.cursor = q.cursor
         /\ w.pass = q.pass /\ w.last = q.last /\ w.clean = q.clean
<1> DEFINE q1 == [q EXCEPT !.inFlight = s]
           q2 == [q1 EXCEPT !.attempts = n]
<1>1. /\ q1 \in RowType /\ q1.token = q.token /\ q1.lease = q.lease /\ q1.cursor = q.cursor
      /\ q1.pass = q.pass /\ q1.last = q.last /\ q1.clean = q.clean
  BY DEF RowType
<1> HIDE DEF q1
<1>2. /\ q2 \in RowType /\ q2.token = q.token /\ q2.lease = q.lease /\ q2.cursor = q.cursor
      /\ q2.pass = q.pass /\ q2.last = q.last /\ q2.clean = q.clean
  BY <1>1 DEF RowType
<1>3. q2 = InFlight(q, s, n)
  BY DEF q1, q2, InFlight
<1> HIDE DEF q2
<1>4. QED
  BY <1>2, <1>3

\* classify and count: the cursor and one count move, nothing else.
LEMMA CountedRow ==
  ASSUME TypeOK, NEW m \in Month, NEW s \in Student, NEW c \in Class
  PROVE  LET w == Counted(m, s, c) IN
         /\ w \in RowType /\ w.token = row[m].token /\ w.lease = row[m].lease /\ w.cursor = s
         /\ w.pass = [row[m].pass EXCEPT ![c] = @ + 1]
         /\ w.last = row[m].last /\ w.clean = row[m].clean
<1> DEFINE q == row[m]
           p == [q.pass EXCEPT ![c] = @ + 1]
           q1 == [q EXCEPT !.cursor = s]
           q2 == [q1 EXCEPT !.pass = p]
<1>1. q \in RowType /\ p \in [Class -> Nat]
  BY DEF TypeOK, RowType
<1>2. q2 = Counted(m, s, c)
  BY DEF Counted
<1> HIDE DEF q, p
<1>3. /\ q1 \in RowType /\ q1.token = q.token /\ q1.lease = q.lease /\ q1.cursor = s
      /\ q1.last = q.last /\ q1.clean = q.clean
  BY <1>1 DEF RowType, Cursor
<1> HIDE DEF q1
<1>4. /\ q2 \in RowType /\ q2.token = q.token /\ q2.lease = q.lease /\ q2.cursor = s
      /\ q2.pass = p /\ q2.last = q.last /\ q2.clean = q.clean
  BY <1>1, <1>3 DEF RowType
<1> HIDE DEF q2
<1>5. QED
  BY <1>2, <1>4 DEF p, q

\* What a runner's step may make of the row of one month.
LEMMA OneRowGood ==
  ASSUME TypeOK, NEW m \in Month, NEW q \in RowType
  PROVE  [row EXCEPT ![m] = q] \in [Month -> RowType]
  BY DEF TypeOK

\* One runner's step that leaves the progress rows, coverage and history alone.
LEMMA RunOnlyStep ==
  ASSUME GoodRuns, NEW r \in Runner, NEW q, GoodRun(q), run' = [run EXCEPT ![r] = q],
         UNCHANGED <<table, coverage, outside, history>>, faults' \in 0..MaxFaults
  PROVE  GoodRuns'
<1>1. UNCHANGED <<rows, row, older, coverage, enrolled, standing, current, org, env, walk, due>>
  BY DEF table, outside, history
<1>2. run' \in [Runner -> RunType] /\ Located'
  BY <1>1, OneRunGood
<1>3. QED
  BY <1>1, <1>2 DEF GoodRuns, TypeOK

LEMMA FaultType ==
  ASSUME TypeOK, Fault PROVE faults' \in 0..MaxFaults
  BY LimitsPositive DEF Fault, TypeOK

LEMMA ControlKeepsTypes ==
  ASSUME GoodRuns, NEW r \in Runner,
         \/ StartRun(r) \/ StopAtDeadline(r) \/ Discover(r) \/ DiscoverFails(r)
         \/ ClaimLost(r) \/ Gate(r) \/ RolloverFails(r) \/ EndSlice(r) \/ ReadPage(r)
         \/ NextPage(r) \/ ReleaseFails(r) \/ Crash(r) \/ Dies(r)
  PROVE  GoodRuns'
<1>1. GoodRun(run[r]) /\ run[r] \in RunType /\ TypeOK /\ rows \subseteq Month
  BY DEF GoodRuns, GoodRun, TypeOK, Located
<1>2. CASE StartRun(r)
  <2>1. GoodRun([run[r] EXCEPT !.pc = "discover"])
    BY <1>1, <1>2 DEF GoodRun, RunType, LocatedRun, Visiting, Pc
  <2>2. QED
    BY <1>1, <1>2, <2>1, RunOnlyStep DEF StartRun, TypeOK
<1>3. CASE StopAtDeadline(r) \/ DiscoverFails(r) \/ Crash(r) \/ Dies(r)
  BY <1>1, <1>3, IdleIsGood, RunOnlyStep, FaultType
     DEF StopAtDeadline, DiscoverFails, Crash, Dies, ResetRun, TypeOK
<1>4. CASE Discover(r)
  <2> DEFINE found == Claimable(r)
             n == CapAt(Cardinality(found), DiscoveryLimit)
  <2>1. PICK todo \in [1..n -> found] :
          run' = [run EXCEPT ![r] = IF n = 0 THEN IdleRun
                   ELSE [@ EXCEPT !.pc = "claim", !.todo = todo, !.claimed = FALSE]]
    BY <1>4 DEF Discover
  <2>2. found \subseteq rows /\ n \in Nat
    BY <1>1, FiniteTables, FS_Subset, FS_CardinalityType, LimitsPositive DEF Claimable, CapAt
  <2> HIDE DEF found, n
  <2>3. todo \in Seq(rows) /\ todo \in Seq(Month) /\ (n # 0 => todo # <<>>)
    <3>1. todo \in Seq(found) /\ Len(todo) = n
      BY <2>2
    <3>2. QED
      BY <3>1, <2>2, <1>1, SeqMonotonic, EmptySeq
  <2> DEFINE q1 == [run[r] EXCEPT !.pc = "claim"]
             q2 == [q1 EXCEPT !.todo = todo]
             q3 == [q2 EXCEPT !.claimed = FALSE]
  <2>4. q1 \in RunType /\ q1.pc = "claim"
    BY <1>1 DEF RunType, Pc
  <2> HIDE DEF q1
  <2>5. q2 \in RunType /\ q2.pc = "claim" /\ q2.todo = todo
    BY <2>3, <2>4 DEF RunType
  <2> HIDE DEF q2
  <2>6. q3 \in RunType /\ q3.pc = "claim" /\ q3.todo = todo
    BY <2>5 DEF RunType
  <2>7. q3 = [run[r] EXCEPT !.pc = "claim", !.todo = todo, !.claimed = FALSE]
    BY DEF q1, q2, q3
  <2> HIDE DEF q3
  <2>8. n # 0 => GoodRun(q3)
    BY <2>3, <2>6 DEF GoodRun, LocatedRun, Visiting
  <2>9. CASE n = 0
    BY <2>1, <2>9, <1>1, <1>4, IdleIsGood, RunOnlyStep DEF Discover, TypeOK
  <2>10. CASE n # 0
    <3>1. run' = [run EXCEPT ![r] = q3]
      BY <2>1, <2>7, <2>10
    <3>2. QED
      BY <3>1, <2>8, <2>10, <1>1, <1>4, RunOnlyStep DEF Discover, TypeOK
  <2>11. QED
    BY <2>9, <2>10
<1>5. CASE ClaimLost(r)
  <2> DEFINE q == [run[r] EXCEPT !.tried = TRUE]
  <2>1. q \in RunType /\ q.todo = run[r].todo /\ run[r].todo \in Seq(rows) /\ run[r].todo # <<>>
    BY <1>1, <1>5 DEF ClaimLost, GoodRun, RunType, LocatedRun
  <2>2. run' = [run EXCEPT ![r] = AfterCandidate(q)]
    BY <1>5 DEF ClaimLost
  <2> HIDE DEF q
  <2>3. GoodRun(AfterCandidate(q))
    BY <1>1, <2>1, AfterCandidateIsGood
  <2>4. QED
    BY <2>2, <2>3, <1>1, <1>5, RunOnlyStep DEF ClaimLost, TypeOK
<1>6. CASE Gate(r)
  <2>1. GoodRun([run[r] EXCEPT !.pc = "rollover"]) /\ GoodRun(Finished(run[r], FALSE))
    BY <1>1, <1>6, MovedIsGood, FinishedIsGood DEF Gate, Visiting
  <2>2. QED
    BY <2>1, <1>1, <1>6, RunOnlyStep DEF Gate, Finish, TypeOK
<1>7. CASE RolloverFails(r) \/ NextPage(r)
  <2>1. GoodRun([run[r] EXCEPT !.pc = "page"])
    BY <1>1, <1>7, MovedIsGood DEF RolloverFails, NextPage, Visiting
  <2>2. QED
    BY <2>1, <1>1, <1>7, RunOnlyStep, FaultType DEF RolloverFails, NextPage, TypeOK
<1>8. CASE EndSlice(r)
  <2>1. GoodRun(Finished(run[r], TRUE))
    BY <1>1, <1>8, FinishedIsGood DEF EndSlice, Visiting
  <2>2. QED
    BY <2>1, <1>1, <1>8, RunOnlyStep DEF EndSlice, Finish, TypeOK
<1>9. CASE ReadPage(r)
  <2> DEFINE later == {s \in enrolled : s > run[r].cursor}
             pc == IF later = {} THEN "passEnd" ELSE "walk"
             page == {s \in later : Cardinality({x \in later : x < s}) < PageSize}
  <2>1. pc \in {"passEnd", "walk"} /\ page \in SUBSET Student
    BY <1>1 DEF TypeOK
  <2>2. run' = [run EXCEPT ![r] = Paged(@, pc, page)]
    BY <1>9 DEF ReadPage
  <2> HIDE DEF pc, page
  <2>3. GoodRun(Paged(run[r], pc, page))
    BY <2>1, <1>1, <1>9, PagedIsGood DEF ReadPage, Visiting
  <2>4. QED
    BY <2>2, <2>3, <1>1, <1>9, RunOnlyStep DEF ReadPage, TypeOK
<1>10. CASE ReleaseFails(r)
  <2>1. GoodRun(AfterCandidate(Settled(run[r]))) /\ GoodRun(AfterCandidate(run[r]))
    BY <1>1, <1>10, VisitEndsGood DEF ReleaseFails, Visiting
  <2>2. QED
    BY <2>1, <1>1, <1>10, RunOnlyStep, FaultType DEF ReleaseFails, AfterVisit, TypeOK
<1>11. QED
  BY <1>2, <1>3, <1>4, <1>5, <1>6, <1>7, <1>8, <1>9, <1>10

-----------------------------------------------------------------------------
(* What a step does to a row: it keeps the walk, it sees one student, or it *)
(* ends the pass.                                                          *)

Keeps(m) == /\ row'[m].cursor = row[m].cursor /\ row'[m].pass = row[m].pass
            /\ row'[m].last = row[m].last /\ row'[m].clean = row[m].clean

\* No cursor, count or class moves; months may open for the students of the moment, or
\* someone else may cover a month.
Quiet ==
  /\ \A m \in Month : Keeps(m)
  /\ walk' = walk
  /\ enrolled \subseteq enrolled'
  /\ \/ UNCHANGED <<rows, coverage, due>>
     \/ /\ UNCHANGED <<coverage, enrolled>>
        /\ \E ms \in SUBSET (Month \ rows) :
             rows' = rows \cup ms /\ due' = [x \in Month |-> IF x \in ms THEN enrolled ELSE due[x]]
     \/ /\ UNCHANGED <<rows, due>> /\ env' # env
        /\ \E s \in Student, m \in Month, k \in {"monthly", "package"} :
             coverage[s][m] = "none" /\ coverage' = [coverage EXCEPT ![s][m] = k]

\* Runner r, its fence holding, moves the cursor over its next student, counts class c
\* and covers the month at most then, and only under a live lease.
Saw(r, c) ==
  LET m == run[r].month
      s == Next1(r)
  IN
  /\ run[r].pc \in {"walk", "skip", "record"} /\ run[r].page # {} /\ Fenced(r)
  /\ c \in Class
  /\ \E q \in RowType :
       /\ row' = [row EXCEPT ![m] = q] /\ q.cursor = s /\ q.token = row[m].token
       /\ q.pass = [row[m].pass EXCEPT ![c] = @ + 1]
       /\ q.last = row[m].last /\ q.clean = row[m].clean
  /\ walk' = [walk EXCEPT ![m][s] = c]
  /\ \/ coverage' = coverage
     \/ /\ c = "COVERED" /\ coverage[s][m] = "none" /\ run[r].pc = "walk" /\ FenceRow(r)
        /\ coverage' = [coverage EXCEPT ![s][m] = "monthly"]
  /\ c = "COVERED" => coverage'[s][m] # "none"
  /\ UNCHANGED <<rows, older, outside, due>>

\* Runner r, its fence holding, ends the pass it found no later student in.
Ended(r) ==
  /\ run[r].pc = "passEnd" /\ Fenced(r)
  /\ row' = PassEndRow(run[r].month) /\ NewPass(run[r].month)
  /\ UNCHANGED <<rows, older, coverage, outside>>

\* The class a student's transaction records, with what it writes.
LEMMA StudentRecorded ==
  ASSUME GoodRuns, NEW r \in Runner, run[r].pc = "walk", run[r].page # {}, FenceRow(r),
         Generate(Next1(r), run[r].month),
         row' = [row EXCEPT ![run[r].month] =
                   Counted(run[r].month, Next1(r), Decide(Next1(r), run[r].month))],
         Recorded(run[r].month, Next1(r), Decide(Next1(r), run[r].month)),
         UNCHANGED <<rows, older, outside, due>>
  PROVE  /\ Saw(r, Decide(Next1(r), run[r].month))
         /\ row' \in [Month -> RowType] /\ coverage' \in [Student -> [Month -> Covers]]
         /\ walk' \in [Month -> [Student -> Class \cup {None}]]
         /\ Next1(r) \in Student /\ Next1(r) \in run[r].page
<1> DEFINE m == run[r].month
           s == Next1(r)
           c == Decide(s, m)
           q == Counted(m, s, c)
<1>1. m \in Month /\ m \in rows /\ TypeOK /\ run[r].page \subseteq Student
  BY DEF GoodRuns, Located, LocatedRun, TypeOK, Visiting, RunType
<1>2. s \in run[r].page /\ s \in Student
  BY <1>1, LeastIsMember, IdsAreOrdered DEF Next1
<1>3. c \in Class /\ (c = "COVERED" => (Writes(s, m) \/ coverage[s][m] # "none"))
      /\ (Writes(s, m) => c = "COVERED" /\ coverage[s][m] = "none")
  BY <1>1, <1>2 DEF Decide, Class, Writes, TypeOK, Standing
<1>4. /\ q \in RowType /\ q.cursor = s /\ q.token = row[m].token
      /\ q.pass = [row[m].pass EXCEPT ![c] = @ + 1]
      /\ q.last = row[m].last /\ q.clean = row[m].clean
  <2> HIDE DEF c, m, s
  <2> QED BY <1>1, <1>2, <1>3, CountedRow DEF q
<1>5. row' = [row EXCEPT ![m] = q] /\ walk' = [walk EXCEPT ![m][s] = c]
  BY DEF Recorded
<1>6. /\ \/ coverage' = coverage
         \/ /\ c = "COVERED" /\ coverage[s][m] = "none"
            /\ coverage' = [coverage EXCEPT ![s][m] = "monthly"]
      /\ c = "COVERED" => coverage'[s][m] # "none"
      /\ coverage' \in [Student -> [Month -> Covers]]
  <2>1. coverage' = IF Writes(s, m) THEN [coverage EXCEPT ![s][m] = "monthly"] ELSE coverage
    BY DEF Generate
  <2>2. coverage \in [Student -> [Month -> Covers]]
    BY <1>1 DEF TypeOK
  <2> HIDE DEF c, m, s
  <2>3. QED
    BY <2>1, <2>2, <1>1, <1>2, <1>3 DEF Covers
<1>7. row' \in [Month -> RowType] /\ walk' \in [Month -> [Student -> Class \cup {None}]]
  <2> HIDE DEF c, m, s, q
  <2> QED BY <1>1, <1>2, <1>3, <1>4, <1>5 DEF TypeOK
<1>8. Saw(r, c)
  <2>1. FenceRow(r) /\ Fenced(r)
    BY DEF FenceRow
  <2> HIDE DEF c, q
  <2>2. QED
    BY <2>1, <1>3, <1>4, <1>5, <1>6 DEF Saw
<1>9. QED
  BY <1>2, <1>6, <1>7, <1>8

\* The failure record is such a step too, with class PENDING.
LEMMA FailureRecorded ==
  ASSUME GoodRuns, NEW r \in Runner, run[r].pc \in {"skip", "record"}, Fenced(r),
         row' = FailureRow(r), Recorded(run[r].month, Next1(r), "PENDING"),
         UNCHANGED <<rows, older, coverage, outside, due>>
  PROVE  /\ Saw(r, "PENDING")
         /\ row' \in [Month -> RowType] /\ walk' \in [Month -> [Student -> Class \cup {None}]]
         /\ Next1(r) \in Student /\ Next1(r) \in run[r].page
<1> DEFINE m == run[r].month
           s == Next1(r)
           c == Counted(m, s, "PENDING")
           q == IF run[r].pc = "skip" THEN InFlight(c, 0, 0) ELSE c
<1>1. m \in Month /\ TypeOK /\ run[r].page \subseteq Student /\ run[r].page # {}
  BY DEF GoodRuns, Located, LocatedRun, TypeOK, Visiting, RunType
<1>2. s \in run[r].page /\ s \in Student
  BY <1>1, LeastIsMember, IdsAreOrdered DEF Next1
<1>3. /\ c \in RowType /\ c.cursor = s /\ c.token = row[m].token
      /\ c.pass = [row[m].pass EXCEPT !["PENDING"] = @ + 1]
      /\ c.last = row[m].last /\ c.clean = row[m].clean
  <2> HIDE DEF m, s
  <2> QED BY <1>1, <1>2, CountedRow DEF c, Class
<1>4. 0 \in Cursor /\ 0 \in 0..(MaxAttempts + 1)
  BY LimitsPositive DEF Cursor
<1>5. row' = [row EXCEPT ![m] = q] /\ walk' = [walk EXCEPT ![m][s] = "PENDING"]
  BY DEF FailureRow, Recorded
<1> HIDE DEF m, s, c
<1>6. /\ q \in RowType /\ q.cursor = s /\ q.token = row[m].token
      /\ q.pass = [row[m].pass EXCEPT !["PENDING"] = @ + 1]
      /\ q.last = row[m].last /\ q.clean = row[m].clean
  <2>1. CASE run[r].pc = "skip"
    BY <2>1, <1>3, <1>4, MarkedRow
  <2>2. CASE run[r].pc # "skip"
    BY <2>2, <1>3
  <2>3. QED
    BY <2>1, <2>2
<1> HIDE DEF q
<1>7. row' \in [Month -> RowType] /\ walk' \in [Month -> [Student -> Class \cup {None}]]
  BY <1>1, <1>2, <1>5, <1>6 DEF TypeOK, Class
<1>8. Saw(r, "PENDING")
  BY <1>1, <1>5, <1>6 DEF Saw, Class, m, s
<1>9. QED
  BY <1>2, <1>7, <1>8 DEF s

\* The tokens of a step of runner r: it takes a row or writes under its own token.
OwnTokens(r) ==
  \A m \in Month :
    /\ row'[m].token \in {row[m].token, r}
    /\ row'[m].cursor # row[m].cursor => row'[m].token = r

\* What the rest of runner r's invocation may rely on.
Continues(r) ==
  \/ run'[r].pc \notin InPass
  \/ run'[r].page = {} /\ run'[r].pc # "passEnd"
  \/ /\ run[r].pc \in InPass \ {"passEnd"} /\ run'[r].pc \in InPass \ {"passEnd"}
     /\ run'[r].month = run[r].month
     /\ run'[r].cursor = run[r].cursor /\ run'[r].page = run[r].page
     /\ (Fenced(r))' => Fenced(r)
  \/ /\ run[r].pc = "page" /\ run'[r].month = run[r].month /\ UNCHANGED row
     /\ run'[r].cursor = run[r].cursor
     /\ \E later \in SUBSET Student :
          /\ later = {s \in enrolled : s > run[r].cursor}
          /\ run'[r].pc = IF later = {} THEN "passEnd" ELSE "walk"
          /\ run'[r].page = {s \in later : Cardinality({x \in later : x < s}) < PageSize}
  \/ /\ \E c \in Class : Saw(r, c)
     /\ run'[r].month = run[r].month /\ run'[r].pc = "walk"
     /\ run'[r].cursor = Next1(r) /\ run'[r].page = run[r].page \ {Next1(r)}

Step(r) ==
  /\ GoodRuns'
  /\ Quiet \/ (\E c \in Class : Saw(r, c)) \/ Ended(r)
  /\ OwnTokens(r)
  /\ \A x \in Runner \ {r} : run'[x] = run[x]
  /\ Continues(r)

\* The runner's control steps.
LEMMA ControlStep ==
  ASSUME GoodRuns, NEW r \in Runner,
         \/ StartRun(r) \/ StopAtDeadline(r) \/ Discover(r) \/ DiscoverFails(r)
         \/ ClaimLost(r) \/ Gate(r) \/ RolloverFails(r) \/ EndSlice(r) \/ ReadPage(r)
         \/ NextPage(r) \/ ReleaseFails(r) \/ Crash(r) \/ Dies(r)
  PROVE  Step(r)
<1>1. GoodRuns' /\ UNCHANGED <<rows, row, older, coverage, enrolled, due, walk>>
  BY ControlKeepsTypes
     DEF StartRun, StopAtDeadline, Discover, DiscoverFails, ClaimLost, Gate, RolloverFails,
         EndSlice, ReadPage, NextPage, ReleaseFails, Crash, Dies, table, outside, history
<1>2. Quiet /\ OwnTokens(r)
  BY <1>1 DEF Quiet, Keeps, OwnTokens
<1>3. run \in [Runner -> RunType] /\ run' \in [Runner -> RunType]
  BY <1>1 DEF GoodRuns, TypeOK
<1>4. \A x \in Runner \ {r} : run'[x] = run[x]
  BY <1>3 DEF StartRun, StopAtDeadline, Discover, DiscoverFails, ClaimLost, Gate, RolloverFails,
              EndSlice, ReadPage, NextPage, ReleaseFails, Crash, Dies, Finish, AfterVisit, ResetRun
<1>5. Continues(r)
  <2>1. GoodRun(run[r]) /\ TypeOK
    BY DEF GoodRuns, GoodRun, TypeOK, Located
  <2>2. CASE StartRun(r) \/ StopAtDeadline(r) \/ DiscoverFails(r) \/ Crash(r) \/ Dies(r)
    BY <2>2, <1>3, <2>1 DEF StartRun, StopAtDeadline, DiscoverFails, Crash, Dies, ResetRun,
         Continues, InPass, IdleRun, RunType, GoodRun
  <2>3. CASE Discover(r)
    <3> DEFINE found == Claimable(r)
               n == CapAt(Cardinality(found), DiscoveryLimit)
    <3>1. PICK todo \in [1..n -> found] :
            run' = [run EXCEPT ![r] = IF n = 0 THEN IdleRun
                     ELSE [@ EXCEPT !.pc = "claim", !.todo = todo, !.claimed = FALSE]]
      BY <2>3 DEF Discover
    <3> HIDE DEF found, n
    <3>2. [run[r] EXCEPT !.pc = "claim", !.todo = todo, !.claimed = FALSE].pc = "claim"
      BY <2>1 DEF GoodRun, RunType
    <3>3. QED
      BY <3>1, <3>2, <1>3 DEF Continues, InPass, IdleRun
  <2>4. CASE ClaimLost(r)
    <3> DEFINE q == [run[r] EXCEPT !.tried = TRUE]
    <3>1. q \in RunType /\ q.todo = run[r].todo /\ run[r].todo \in Seq(rows) /\ run[r].todo # <<>>
      BY <2>1, <2>4 DEF ClaimLost, GoodRun, RunType, LocatedRun
    <3>2. run'[r] = AfterCandidate(q)
      BY <2>4, <1>3 DEF ClaimLost
    <3> HIDE DEF q
    <3>3. QED
      BY <3>1, <3>2, <2>1, AfterCandidateIsGood DEF Continues
  <2>5. CASE Gate(r) \/ RolloverFails(r) \/ NextPage(r)
    <3>1. run[r].pc \in {"gate", "rollover", "walk"}
      BY <2>5 DEF Gate, RolloverFails, NextPage
    <3>2. CASE run'[r].pc = "release"
      BY <3>2 DEF Continues, InPass
    <3>3. CASE run'[r].pc # "release"
      <4>1. Finished(run[r], FALSE).pc = "release"
        BY <2>1, <3>1, FinishedIsGood DEF Visiting
      <4>2. PICK pc \in {"rollover", "page"} : run'[r] = [run[r] EXCEPT !.pc = pc]
        BY <2>5, <1>3, <3>3, <4>1 DEF Gate, Finish, RolloverFails, NextPage
      <4>3. /\ run'[r].pc = pc /\ run'[r].month = run[r].month
            /\ run'[r].cursor = run[r].cursor /\ run'[r].page = run[r].page
        BY <4>2, <2>1, <3>1, MovedIsGood DEF Visiting
      <4>4. (Fenced(r))' => Fenced(r)
        BY <1>1, <4>3 DEF Fenced
      <4>5. QED
        BY <3>1, <4>3, <4>4 DEF Continues, InPass
    <3>4. QED
      BY <3>2, <3>3
  <2>6. CASE EndSlice(r)
    <3>1. run'[r] = Finished(run[r], TRUE) /\ run[r].pc \in Visiting
      BY <2>6, <1>3 DEF EndSlice, Finish, Visiting
    <3>2. QED
      BY <3>1, <2>1, FinishedIsGood DEF Continues, InPass
  <2>7. CASE ReadPage(r)
    <3> DEFINE later == {s \in enrolled : s > run[r].cursor}
               pc == IF later = {} THEN "passEnd" ELSE "walk"
               page == {s \in later : Cardinality({x \in later : x < s}) < PageSize}
    <3>1. later \in SUBSET Student /\ pc \in {"passEnd", "walk"} /\ page \in SUBSET Student
      BY <2>1 DEF TypeOK
    <3>2. run[r].pc = "page" /\ run'[r] = Paged(run[r], pc, page)
      BY <2>7, <1>3 DEF ReadPage
    <3>3. run[r].pc \in Visiting
      BY <3>2 DEF Visiting
    <3>4. /\ run'[r].pc = pc /\ run'[r].month = run[r].month
          /\ run'[r].cursor = run[r].cursor /\ run'[r].page = page
      <4> HIDE DEF pc, page
      <4> QED BY <3>1, <3>2, <3>3, <2>1, PagedIsGood
    <3>5. QED
      BY <3>1, <3>2, <3>4, <1>1 DEF Continues
  <2>8. CASE ReleaseFails(r)
    <3>1. /\ run[r].pc \in Visiting
          /\ run'[r] = AfterCandidate(Settled(run[r])) \/ run'[r] = AfterCandidate(run[r])
      BY <2>8, <1>3 DEF ReleaseFails, AfterVisit, Visiting
    <3>2. QED
      BY <3>1, <2>1, VisitEndsGood DEF Continues
  <2>9. QED
    BY <2>2, <2>3, <2>4, <2>5, <2>6, <2>7, <2>8
<1>6. QED
  BY <1>1, <1>2, <1>4, <1>5 DEF Step

\* A runner's step that writes one row, the coverage or the history.
LEMMA WriteKeepsTypes ==
  ASSUME GoodRuns, NEW r \in Runner, NEW q, GoodRun(q), run' = [run EXCEPT ![r] = q],
         row' \in [Month -> RowType], older' \subseteq Month \X Month,
         coverage' \in [Student -> [Month -> Covers]],
         walk' \in [Month -> [Student -> Class \cup {None}]],
         due' \in [Month -> SUBSET Student],
         UNCHANGED <<rows, outside>>, faults' \in 0..MaxFaults
  PROVE  GoodRuns' /\ run'[r] = q /\ \A x \in Runner \ {r} : run'[x] = run[x]
<1>1. UNCHANGED <<rows, enrolled, standing, current, org, env>>
  BY DEF outside
<1>2. /\ run' \in [Runner -> RunType] /\ Located'
      /\ run'[r] = q /\ \A x \in Runner \ {r} : run'[x] = run[x]
  BY <1>1, OneRunGood
<1>3. QED
  BY <1>1, <1>2 DEF GoodRuns, TypeOK

\* The lease: a claim, acknowledged or not, and its release.
LEMMA LeaseStep ==
  ASSUME GoodRuns, NEW r \in Runner, Claim(r) \/ ClaimFails(r) \/ Release(r)
  PROVE  Step(r)
<1>1. /\ TypeOK /\ GoodRun(run[r]) /\ rows \subseteq Month /\ faults' \in 0..MaxFaults
      /\ run[r].pc \in {"claim", "release"}
  BY FaultType DEF GoodRuns, GoodRun, TypeOK, Located, Claim, ClaimFails, Release
<1>2. PICK m \in Month, tok \in Runner, l \in Lease :
        /\ row' = row \/ row' = [row EXCEPT ![m] = Leased(@, tok, l)]
        /\ tok \in {r, row[m].token}
        /\ older' \subseteq Month \X Month
  <2>1. CASE Claim(r) \/ ClaimFails(r)
    <3>1. Head(run[r].todo) \in Month
      BY <2>1, <1>1, HeadTailProperties DEF Claim, ClaimFails, GoodRun, LocatedRun, Visiting
    <3>2. \/ UNCHANGED <<row, older>>
          \/ /\ row' = [row EXCEPT ![Head(run[r].todo)] = Leased(@, r, "live")]
             /\ older' \subseteq older \cup (Month \X {Head(run[r].todo)})
      BY <2>1, <1>1 DEF Claim, ClaimFails, TakeLease, table
    <3>3. "live" \in Lease /\ older \subseteq Month \X Month
      BY <1>1 DEF Lease, TypeOK
    <3>4. QED
      BY <3>1, <3>2, <3>3
  <2>2. CASE Release(r)
    <3>1. run[r].month \in Month /\ "edge" \in Lease
      BY <2>2, <1>1 DEF Release, GoodRun, LocatedRun, Visiting, Lease
    <3>2. \/ row' = row
          \/ row[run[r].month].token = r /\ row' = [row EXCEPT ![run[r].month].lease = "edge"]
      BY <2>2 DEF Release
    <3>3. row[run[r].month].token = r =>
            [row[run[r].month] EXCEPT !.lease = "edge"] = Leased(row[run[r].month], r, "edge")
      BY <3>1, <1>1 DEF Leased, TypeOK, RowType
    <3>4. QED
      BY <3>1, <3>2, <3>3, <2>2, <1>1 DEF Release, TypeOK
  <2>3. QED
    BY <2>1, <2>2
<1>3. /\ row' \in [Month -> RowType] /\ \A x \in Month : Keeps(x)
      /\ \A x \in Month : row'[x].token \in {row[x].token, r} /\ row'[x].cursor = row[x].cursor
  <2>1. row \in [Month -> RowType]
    BY <1>1 DEF TypeOK
  <2>2. LET w == Leased(row[m], tok, l) IN
        /\ w \in RowType /\ w.token = tok /\ w.cursor = row[m].cursor
        /\ w.pass = row[m].pass /\ w.last = row[m].last /\ w.clean = row[m].clean
    BY <2>1, LeasedRow
  <2>3. QED
    BY <1>2, <2>1, <2>2 DEF Keeps
<1>4. PICK q : GoodRun(q) /\ run' = [run EXCEPT ![r] = q] /\ (q.pc \notin InPass \/ (q.page = {} /\ q.pc # "passEnd"))
  <2>1. CASE Claim(r)
    <3> DEFINE h == Head(run[r].todo)
               q == [pc |-> "gate", todo |-> run[r].todo, tried |-> TRUE, claimed |-> TRUE,
                     settled |-> run[r].settled, month |-> h, cursor |-> row[h].cursor, page |-> {},
                     processed |-> 0, marked |-> FALSE, unfinished |-> FALSE]
    <3>1. run[r].todo \in Seq(rows) /\ run[r].todo # <<>> /\ h \in rows /\ h \in Month
      BY <2>1, <1>1, HeadTailProperties DEF Claim, GoodRun, LocatedRun
    <3>2. row[h].cursor \in Cursor /\ run[r].todo \in Seq(Month) /\ run[r].settled \in SUBSET Month
      BY <3>1, <1>1 DEF TypeOK, RowType, GoodRun, RunType
    <3>3. q \in RunType
      BY <3>1, <3>2 DEF RunType, Pc
    <3>4. LocatedRun(q) /\ q.page = {} /\ q.pc # "passEnd"
      BY <3>1 DEF LocatedRun, Visiting
    <3>5. run' = [run EXCEPT ![r] = q]
      BY <2>1, <1>1 DEF Claim
    <3>6. QED
      BY <3>3, <3>4, <3>5 DEF GoodRun
  <2>2. CASE ClaimFails(r)
    <3> DEFINE q == [run[r] EXCEPT !.tried = TRUE]
    <3>1. q \in RunType /\ q.todo = run[r].todo /\ run[r].todo \in Seq(rows) /\ run[r].todo # <<>>
      BY <1>1, <2>2 DEF ClaimFails, GoodRun, RunType, LocatedRun
    <3>2. run' = [run EXCEPT ![r] = AfterCandidate(q)]
      BY <2>2 DEF ClaimFails
    <3> HIDE DEF q
    <3>3. QED
      BY <3>1, <3>2, <1>1, AfterCandidateIsGood
  <2>3. CASE Release(r)
    <3>1. /\ GoodRun(AfterCandidate(Settled(run[r]))) /\ AfterCandidate(Settled(run[r])).pc \notin InPass
          /\ GoodRun(AfterCandidate(run[r])) /\ AfterCandidate(run[r]).pc \notin InPass
      BY <1>1, <2>3, VisitEndsGood DEF Release, Visiting
    <3>2. \/ run' = [run EXCEPT ![r] = AfterCandidate(Settled(run[r]))]
          \/ run' = [run EXCEPT ![r] = AfterCandidate(run[r])]
      BY <2>3 DEF Release, AfterVisit
    <3>3. QED
      BY <3>1, <3>2
  <2>4. QED
    BY <2>1, <2>2, <2>3
<1>5. UNCHANGED <<rows, outside, coverage, enrolled, walk, due>>
  BY DEF Claim, ClaimFails, Release, TakeLease, table, history, outside
<1>6. GoodRuns' /\ run'[r] = q /\ \A x \in Runner \ {r} : run'[x] = run[x]
  <2>1. /\ coverage' \in [Student -> [Month -> Covers]] /\ due' \in [Month -> SUBSET Student]
        /\ walk' \in [Month -> [Student -> Class \cup {None}]]
    BY <1>1, <1>5 DEF TypeOK
  <2>2. QED
    BY <2>1, <1>1, <1>2, <1>3, <1>4, <1>5, WriteKeepsTypes
<1>7. Quiet /\ OwnTokens(r) /\ Continues(r)
  BY <1>3, <1>4, <1>5, <1>6 DEF Quiet, OwnTokens, Continues
<1>8. QED
  BY <1>6, <1>7 DEF Step

\* A local state that ends the visit, or goes on with the page in hand.
Carries(r, q) ==
  \/ q.pc \notin InPass
  \/ /\ run[r].pc \in InPass \ {"passEnd"} /\ q.pc \in InPass \ {"passEnd"}
     /\ q.month = run[r].month /\ q.cursor = run[r].cursor /\ q.page = run[r].page

\* A step that wrote nothing, because it failed or lost its fence.
LEMMA NothingWritten ==
  ASSUME GoodRuns, NEW r \in Runner, NEW q, GoodRun(q), run' = [run EXCEPT ![r] = q],
         Carries(r, q), UNCHANGED <<table, coverage, outside, history>>, faults' \in 0..MaxFaults
  PROVE  Step(r)
<1>1. UNCHANGED <<rows, row, older, coverage, enrolled, walk, due>>
  BY DEF table, outside, history
<1>2. GoodRuns' /\ run'[r] = q /\ \A x \in Runner \ {r} : run'[x] = run[x]
  BY <1>1, RunOnlyStep, OneRunGood
<1>3. Quiet /\ OwnTokens(r)
  BY <1>1 DEF Quiet, Keeps, OwnTokens
<1>4. Continues(r)
  BY <1>1, <1>2 DEF Continues, Carries, Fenced
<1>5. QED
  BY <1>2, <1>3, <1>4 DEF Step

\* Months were opened.
LEMMA RolloverStep ==
  ASSUME GoodRuns, NEW r \in Runner, Rollover(r)
  PROVE  Step(r)
<1> DEFINE fresh == Missing(run[r].month)
           q == [run[r] EXCEPT !.pc = "page"]
<1>1. /\ TypeOK /\ GoodRun(run[r]) /\ run[r].pc = "rollover" /\ run' = [run EXCEPT ![r] = q]
      /\ UNCHANGED <<row, older, coverage, enrolled, standing, current, org, env, faults, walk>>
      /\ rows' = rows \cup fresh /\ due' = [x \in Month |-> IF x \in fresh THEN enrolled ELSE due[x]]
  BY DEF GoodRuns, GoodRun, TypeOK, Located, Rollover, outside
<1>2. fresh \in SUBSET (Month \ rows)
  <2>1. \A x \in fresh : x \in Month /\ x > run[r].month /\ \A y \in rows : ~(y > run[r].month)
    BY DEF Missing
  <2>2. QED
    BY <2>1
<1>3. /\ GoodRun(q) /\ q.pc = "page" /\ q.month = run[r].month
      /\ q.cursor = run[r].cursor /\ q.page = run[r].page
  BY <1>1, MovedIsGood DEF Visiting
<1> HIDE DEF fresh, q
<1>4. /\ run' \in [Runner -> RunType] /\ Located'
      /\ run'[r] = q /\ \A x \in Runner \ {r} : run'[x] = run[x]
  BY <1>1, <1>3, OneRunGood
<1>5. GoodRuns'
  BY <1>1, <1>2, <1>4 DEF GoodRuns, TypeOK
<1>6. Quiet
  BY <1>1, <1>2 DEF Quiet, Keeps
<1>7. OwnTokens(r)
  BY <1>1 DEF OwnTokens
<1>8. Continues(r)
  BY <1>1, <1>3, <1>4 DEF Continues, InPass, Fenced
<1>9. QED
  BY <1>4, <1>5, <1>6, <1>7, <1>8 DEF Step

\* The marker was written.
LEMMA MarkedStep ==
  ASSUME GoodRuns, NEW r \in Runner, NEW q, GoodRun(q), run' = [run EXCEPT ![r] = q],
         Carries(r, q), run[r].pc = "walk", run[r].page # {},
         row' = Marked(run[r].month, Next1(r)),
         UNCHANGED <<rows, older, coverage, outside, history>>, faults' \in 0..MaxFaults
  PROVE  Step(r) /\ run'[r] = q
<1> DEFINE m == run[r].month
           s == Next1(r)
           n == IF row[m].inFlight = s THEN CapAt(row[m].attempts + 1, MaxAttempts + 1) ELSE 1
<1>1. m \in Month /\ TypeOK /\ run[r].page \subseteq Student
  BY DEF GoodRuns, Located, LocatedRun, TypeOK, Visiting, RunType
<1>2. s \in Cursor
  BY <1>1, LeastIsMember, IdsAreOrdered DEF Next1, Cursor
<1>3. row[m] \in RowType /\ n \in 0..(MaxAttempts + 1)
  BY <1>1, LimitsPositive DEF TypeOK, RowType, CapAt
<1>4. row' = [row EXCEPT ![m] = InFlight(row[m], s, n)]
  BY DEF Marked
<1> HIDE DEF m, s, n
<1>5. LET w == InFlight(row[m], s, n) IN
      /\ w \in RowType /\ w.token = row[m].token /\ w.cursor = row[m].cursor
      /\ w.pass = row[m].pass /\ w.last = row[m].last /\ w.clean = row[m].clean
  BY <1>2, <1>3, MarkedRow
<1>6. row \in [Month -> RowType]
  BY <1>1 DEF TypeOK
<1>7. /\ row' \in [Month -> RowType] /\ \A x \in Month : Keeps(x) /\ row'[x].token = row[x].token
  BY <1>1, <1>4, <1>5, <1>6 DEF Keeps
<1>8. UNCHANGED <<rows, older, coverage, enrolled, walk, due>>
  BY DEF outside, history
<1>9. GoodRuns' /\ run'[r] = q /\ \A x \in Runner \ {r} : run'[x] = run[x]
  <2>1. /\ coverage \in [Student -> [Month -> Covers]] /\ due \in [Month -> SUBSET Student]
        /\ walk \in [Month -> [Student -> Class \cup {None}]] /\ older \subseteq Month \X Month
    BY <1>1 DEF TypeOK
  <2>2. QED
    BY <2>1, <1>7, <1>8, WriteKeepsTypes
<1>10. Quiet /\ OwnTokens(r)
  BY <1>7, <1>8 DEF Quiet, OwnTokens, Keeps
<1>11. Continues(r)
  <2>1. CASE q.pc \notin InPass
    BY <2>1, <1>9 DEF Continues
  <2>2. CASE q.pc \in InPass
    <3>1. q.month = m /\ q.cursor = run[r].cursor
      BY <2>2 DEF Carries, m
    <3>2. (Fenced(r))' => Fenced(r)
      BY <3>1, <1>1, <1>7, <1>9 DEF Fenced, Keeps, m
    <3>3. QED
      BY <2>2, <3>2, <1>9 DEF Continues, Carries
  <2>3. QED
    BY <2>1, <2>2
<1>12. QED
  BY <1>9, <1>10, <1>11 DEF Step

\* A student was passed.
LEMMA SawStep ==
  ASSUME GoodRuns, NEW r \in Runner, NEW c \in Class, Saw(r, c),
         NEW q, GoodRun(q), run' = [run EXCEPT ![r] = q],
         Carries(r, q) \/ q = PastStudent(run[r], Next1(r)),
         row' \in [Month -> RowType], coverage' \in [Student -> [Month -> Covers]],
         walk' \in [Month -> [Student -> Class \cup {None}]],
         Next1(r) \in Student, faults' \in 0..MaxFaults
  PROVE  Step(r)
<1>1. /\ run[r].month \in Month /\ TypeOK /\ GoodRun(run[r]) /\ run[r].pc \in Visiting
      /\ Fenced(r)
  BY DEF GoodRuns, GoodRun, Located, LocatedRun, TypeOK, Visiting, RunType, Saw
<1>2. UNCHANGED <<rows, older, outside, due>>
  BY DEF Saw
<1>3. GoodRuns' /\ run'[r] = q /\ \A x \in Runner \ {r} : run'[x] = run[x]
  <2>1. due \in [Month -> SUBSET Student] /\ older \subseteq Month \X Month
    BY <1>1 DEF TypeOK
  <2>2. QED
    BY <2>1, <1>2, WriteKeepsTypes
<1>4. OwnTokens(r)
  <2>1. PICK w \in RowType : row' = [row EXCEPT ![run[r].month] = w] /\ w.token = row[run[r].month].token
    BY DEF Saw
  <2>2. row \in [Month -> RowType] /\ row[run[r].month].token = r
    BY <1>1 DEF TypeOK, Fenced
  <2>3. QED
    BY <2>1, <2>2 DEF OwnTokens
<1>5. Continues(r)
  <2>1. CASE Carries(r, q)
    BY <2>1, <1>1, <1>3 DEF Carries, Continues
  <2>2. CASE q = PastStudent(run[r], Next1(r))
    <3>1. /\ q.pc = "walk" /\ q.month = run[r].month /\ q.cursor = Next1(r)
          /\ q.page = run[r].page \ {Next1(r)}
      BY <2>2, <1>1, PastStudentIsGood
    <3>2. QED
      BY <3>1, <1>3 DEF Continues
  <2>3. QED
    BY <2>1, <2>2
<1>6. QED
  BY <1>3, <1>4, <1>5 DEF Step

\* A pass was ended.
LEMMA EndedStep ==
  ASSUME GoodRuns, NEW r \in Runner, Ended(r), NEW q, GoodRun(q), q.pc \notin InPass,
         run' = [run EXCEPT ![r] = q], faults' \in 0..MaxFaults
  PROVE  Step(r)
<1> DEFINE m == run[r].month
           w == [cursor |-> 0, token |-> row[m].token, lease |-> row[m].lease, inFlight |-> 0,
                 attempts |-> 0, pass |-> NoCount, last |-> row[m].pass,
                 clean |-> (row[m].pass["UNPRICED"] = 0 /\ row[m].pass["PENDING"] = 0)]
<1>1. /\ m \in Month /\ TypeOK /\ row[m].token = r /\ row \in [Month -> RowType]
      /\ UNCHANGED <<rows, older, coverage, outside>>
  BY DEF GoodRuns, Located, LocatedRun, TypeOK, Visiting, Ended, Fenced
<1>2. row' = [row EXCEPT ![m] = w]
  BY DEF Ended, PassEndRow
<1>3. w \in RowType
  <2>1. /\ row[m].token \in Runner \cup {None} /\ row[m].lease \in Lease
        /\ row[m].pass \in [Class -> Nat]
    BY <1>1 DEF RowType
  <2>2. NoCount \in [Class -> Nat] /\ 0 \in Cursor /\ 0 \in 0..(MaxAttempts + 1)
    BY LimitsPositive DEF NoCount, Cursor
  <2> DEFINE cl == row[m].pass["UNPRICED"] = 0 /\ row[m].pass["PENDING"] = 0
  <2>3. cl \in BOOLEAN \cup {None}
    OBVIOUS
  <2> HIDE DEF cl
  <2>4. QED
    BY <2>1, <2>2, <2>3 DEF RowType
<1>4. row' \in [Month -> RowType] /\ OwnTokens(r)
  <2>1. w.token = r
    BY <1>1
  <2> HIDE DEF w
  <2>2. QED
    BY <2>1, <1>1, <1>2, <1>3 DEF OwnTokens
<1>5. due' \in [Month -> SUBSET Student] /\ walk' \in [Month -> [Student -> Class \cup {None}]]
      /\ coverage' \in [Student -> [Month -> Covers]] /\ older' \subseteq Month \X Month
  BY <1>1 DEF Ended, NewPass, TypeOK, NotVisited
<1>6. GoodRuns' /\ run'[r] = q /\ \A x \in Runner \ {r} : run'[x] = run[x]
  BY <1>1, <1>4, <1>5, WriteKeepsTypes
<1>7. QED
  BY <1>4, <1>6 DEF Step, Continues

\* A visit that finds its fence broken ends without a write.
LEMMA FencedVisitStep ==
  ASSUME GoodRuns, NEW r \in Runner, run[r].pc \in Visiting, FencedVisit(r),
         UNCHANGED <<rows, row, older, coverage, outside, faults, walk, due>>
  PROVE  Step(r)
<1>1. TypeOK /\ GoodRun(run[r]) /\ faults' \in 0..MaxFaults
  BY DEF GoodRuns, GoodRun, TypeOK, Located
<1>2. /\ GoodRun(AfterCandidate(Settled(run[r])))
      /\ Carries(r, AfterCandidate(Settled(run[r])))
  BY <1>1, VisitEndsGood DEF Carries
<1>3. run' = [run EXCEPT ![r] = AfterCandidate(Settled(run[r]))]
  BY DEF FencedVisit
<1>4. QED
  BY <1>1, <1>2, <1>3, NothingWritten DEF table, history

LEMMA MarkInFlightStep ==
  ASSUME GoodRuns, NEW r \in Runner, MarkInFlight(r)
  PROVE  Step(r)
<1>1. /\ TypeOK /\ GoodRun(run[r]) /\ run[r].pc = "walk" /\ run[r].pc \in Visiting
      /\ run[r].page # {} /\ faults' \in 0..MaxFaults
  BY DEF GoodRuns, GoodRun, TypeOK, Located, MarkInFlight, Visiting
<1>2. CASE Fenced(r)
  <2>1. PICK pc \in {"skip", "walk"} : run' = [run EXCEPT ![r] = MarkerSet(@, pc)]
    BY <1>2 DEF MarkInFlight
  <2>2. /\ GoodRun(MarkerSet(run[r], pc)) /\ Carries(r, MarkerSet(run[r], pc))
    BY <1>1, MarkedIsGood DEF Carries, Visiting, InPass
  <2>3. QED
    BY <2>1, <2>2, <1>1, <1>2, MarkedStep DEF MarkInFlight
<1>3. CASE ~Fenced(r)
  BY <1>1, <1>3, FencedVisitStep DEF MarkInFlight, history
<1>4. QED
  BY <1>2, <1>3

LEMMA StudentStep ==
  ASSUME GoodRuns, NEW r \in Runner, ProcessStudent(r) \/ StudentThrows(r)
  PROVE  Step(r)
<1> DEFINE m == run[r].month
           s == Next1(r)
           c == Decide(s, m)
           recorded == /\ FenceRow(r) /\ Generate(s, m)
                       /\ row' = [row EXCEPT ![m] = Counted(m, s, c)]
                       /\ Recorded(m, s, c)
           record == [run[r] EXCEPT !.pc = "record"]
<1>1. /\ TypeOK /\ GoodRun(run[r]) /\ run[r].pc = "walk" /\ run[r].pc \in Visiting
      /\ run[r].page # {} /\ faults' \in 0..MaxFaults /\ UNCHANGED <<rows, older, outside, due>>
  BY FaultType DEF GoodRuns, GoodRun, TypeOK, Located, ProcessStudent, StudentThrows, Visiting
<1>2. \/ recorded /\ run' = [run EXCEPT ![r] = PastStudent(@, s)]
      \/ recorded /\ run' = [run EXCEPT ![r] = record]
      \/ UNCHANGED <<coverage, row, walk>> /\ run' = [run EXCEPT ![r] = record]
      \/ UNCHANGED <<coverage, row, walk>> /\ FencedVisit(r) /\ UNCHANGED faults
  BY DEF ProcessStudent, StudentThrows, Passed
<1>3. /\ GoodRun(record) /\ Carries(r, record)
  BY <1>1, MovedIsGood DEF Carries, Visiting, InPass
<1>4. recorded => /\ Saw(r, c) /\ s \in Student /\ c \in Class
                  /\ row' \in [Month -> RowType] /\ coverage' \in [Student -> [Month -> Covers]]
                  /\ walk' \in [Month -> [Student -> Class \cup {None}]]
  <2>1. SUFFICES ASSUME recorded PROVE recorded => /\ Saw(r, c) /\ s \in Student /\ c \in Class
                  /\ row' \in [Month -> RowType] /\ coverage' \in [Student -> [Month -> Covers]]
                  /\ walk' \in [Month -> [Student -> Class \cup {None}]]
    OBVIOUS
  <2>2. QED
    BY <2>1, <1>1, StudentRecorded DEF Saw
<1>5. GoodRun(PastStudent(run[r], s)) \/ ~recorded
  BY <1>1, <1>4, PastStudentIsGood
<1> HIDE DEF recorded, record, c
<1>6. CASE recorded /\ run' = [run EXCEPT ![r] = PastStudent(@, s)]
  BY <1>6, <1>1, <1>4, <1>5, SawStep
<1>7. CASE recorded /\ run' = [run EXCEPT ![r] = record]
  BY <1>7, <1>1, <1>3, <1>4, SawStep
<1>8. CASE UNCHANGED <<coverage, row, walk>> /\ run' = [run EXCEPT ![r] = record]
  BY <1>8, <1>1, <1>3, NothingWritten DEF table, history
<1>9. CASE UNCHANGED <<coverage, row, walk>> /\ FencedVisit(r) /\ UNCHANGED faults
  BY <1>9, <1>1, FencedVisitStep
<1>10. QED
  BY <1>2, <1>6, <1>7, <1>8, <1>9

LEMMA RecordFailureStep ==
  ASSUME GoodRuns, NEW r \in Runner, RecordFailure(r)
  PROVE  Step(r)
<1>1. /\ TypeOK /\ GoodRun(run[r]) /\ run[r].pc \in {"skip", "record"} /\ run[r].pc \in Visiting
      /\ faults' \in 0..MaxFaults /\ UNCHANGED <<rows, older, coverage, outside, faults, due>>
  BY DEF GoodRuns, GoodRun, TypeOK, Located, RecordFailure, Visiting
<1>2. CASE Fenced(r)
  <2>1. /\ row' = FailureRow(r) /\ Recorded(run[r].month, Next1(r), "PENDING")
        /\ run' = [run EXCEPT ![r] = PastStudent(run[r], Next1(r))]
    BY <1>2 DEF RecordFailure, Passed
  <2>2. /\ Saw(r, "PENDING") /\ Next1(r) \in Student
        /\ row' \in [Month -> RowType] /\ walk' \in [Month -> [Student -> Class \cup {None}]]
    BY <2>1, <1>1, <1>2, FailureRecorded
  <2>3. GoodRun(PastStudent(run[r], Next1(r))) /\ coverage' \in [Student -> [Month -> Covers]]
    BY <2>2, <1>1, PastStudentIsGood DEF TypeOK
  <2>4. "PENDING" \in Class
    BY DEF Class
  <2>5. QED
    BY <2>1, <2>2, <2>3, <2>4, <1>1, SawStep
<1>3. CASE ~Fenced(r)
  BY <1>1, <1>3, FencedVisitStep DEF RecordFailure
<1>4. QED
  BY <1>2, <1>3

LEMMA PassEndStep ==
  ASSUME GoodRuns, NEW r \in Runner, PassEnd(r)
  PROVE  Step(r)
<1>1. /\ TypeOK /\ GoodRun(run[r]) /\ run[r].pc = "passEnd" /\ run[r].pc \in Visiting
      /\ faults' \in 0..MaxFaults /\ UNCHANGED <<rows, older, coverage, outside, faults>>
  BY DEF GoodRuns, GoodRun, TypeOK, Located, PassEnd, Visiting
<1>2. CASE Fenced(r)
  <2>1. Ended(r) /\ run' = [run EXCEPT ![r] = Finished(run[r], FALSE)]
    BY <1>1, <1>2 DEF PassEnd, Ended, Finish
  <2>2. GoodRun(Finished(run[r], FALSE)) /\ Finished(run[r], FALSE).pc \notin InPass
    BY <1>1, FinishedIsGood DEF InPass
  <2>3. QED
    BY <2>1, <2>2, <1>1, EndedStep
<1>3. CASE ~Fenced(r)
  BY <1>1, <1>3, FencedVisitStep DEF PassEnd, history
<1>4. QED
  BY <1>2, <1>3

LEMMA FailedStep ==
  ASSUME GoodRuns, NEW r \in Runner, StepFails(r)
  PROVE  Step(r)
<1> DEFINE m == run[r].month
           q == Finished(run[r], FALSE)
<1>1. /\ TypeOK /\ GoodRun(run[r]) /\ faults' \in 0..MaxFaults
      /\ run[r].pc \in Visiting /\ run' = [run EXCEPT ![r] = q]
      /\ UNCHANGED <<rows, older, coverage, outside>>
  BY FaultType DEF GoodRuns, GoodRun, TypeOK, Located, StepFails, Visiting, Finish
<1>2. GoodRun(q) /\ q.pc \notin InPass /\ Carries(r, q)
  BY <1>1, FinishedIsGood DEF InPass, Carries
<1>3. \/ UNCHANGED <<row, history>>
      \/ /\ run[r].pc = "walk" /\ run[r].page # {}
         /\ row' = Marked(m, Next1(r)) /\ UNCHANGED history
      \/ /\ run[r].pc \in {"skip", "record"} /\ Fenced(r)
         /\ row' = FailureRow(r) /\ Recorded(m, Next1(r), "PENDING") /\ UNCHANGED due
      \/ Ended(r)
  BY <1>1 DEF StepFails, Ended, history
<1> HIDE DEF q
<1>4. CASE UNCHANGED <<row, history>>
  BY <1>4, <1>1, <1>2, NothingWritten DEF table
<1>5. CASE /\ run[r].pc = "walk" /\ run[r].page # {}
           /\ row' = Marked(m, Next1(r)) /\ UNCHANGED history
  BY <1>5, <1>1, <1>2, MarkedStep
<1>6. CASE /\ run[r].pc \in {"skip", "record"} /\ Fenced(r)
           /\ row' = FailureRow(r) /\ Recorded(m, Next1(r), "PENDING") /\ UNCHANGED due
  <2>1. /\ Saw(r, "PENDING") /\ Next1(r) \in Student /\ "PENDING" \in Class
        /\ row' \in [Month -> RowType] /\ walk' \in [Month -> [Student -> Class \cup {None}]]
    BY <1>6, <1>1, FailureRecorded DEF Class
  <2>2. coverage' \in [Student -> [Month -> Covers]]
    BY <1>1 DEF TypeOK
  <2>3. QED
    BY <2>1, <2>2, <1>1, <1>2, SawStep
<1>7. CASE Ended(r)
  BY <1>7, <1>1, <1>2, EndedStep
<1>8. QED
  BY <1>3, <1>4, <1>5, <1>6, <1>7

\* Every step of a runner is one of these.
LEMMA RunnerStep ==
  ASSUME GoodRuns, NEW r \in Runner, Progress(r) \/ Failing(r)
  PROVE  Step(r)
BY ControlStep, LeaseStep, RolloverStep, MarkInFlightStep, StudentStep, RecordFailureStep,
   PassEndStep, FailedStep DEF Progress, Failing

\* The clock and the rest of the application keep what the runners rely on.
Elsewhere ==
  /\ GoodRuns' /\ Quiet /\ run' = run
  /\ \A m \in Month : row'[m].token = row[m].token

LEMMA ClockStep ==
  ASSUME GoodRuns, NEW m \in Month, LeaseRunsOut(m)
  PROVE  Elsewhere
<1> DEFINE l == IF row[m].lease = "live" THEN "edge" ELSE "free"
           w == [row[m] EXCEPT !.lease = l]
<1>1. /\ TypeOK /\ row \in [Month -> RowType] /\ row[m] \in RowType /\ l \in Lease
      /\ row' = [row EXCEPT ![m] = w]
      /\ UNCHANGED <<rows, older, coverage, enrolled, standing, current, org, env, run, walk, due>>
  BY DEF GoodRuns, TypeOK, LeaseRunsOut, Lease, outside, history
<1> HIDE DEF l
<1>2. /\ w \in RowType /\ w.token = row[m].token /\ w.cursor = row[m].cursor
      /\ w.pass = row[m].pass /\ w.last = row[m].last /\ w.clean = row[m].clean
  BY <1>1 DEF RowType
<1> HIDE DEF w
<1>3. /\ row' \in [Month -> RowType]
      /\ \A x \in Month : Keeps(x) /\ row'[x].token = row[x].token
  BY <1>1, <1>2 DEF Keeps
<1>4. faults' \in 0..MaxFaults
  BY <1>1, FaultType DEF LeaseRunsOut, TypeOK
<1>5. GoodRuns'
  BY <1>1, <1>3, <1>4 DEF GoodRuns, TypeOK, Located, LocatedRun
<1>6. QED
  BY <1>1, <1>3, <1>5 DEF Elsewhere, Quiet

LEMMA OutsideStep ==
  ASSUME GoodRuns, Outside
  PROVE  Elsewhere
<1>1. /\ TypeOK /\ env' \in 0..MaxEnv
      /\ UNCHANGED <<rows, row, older, run, faults, walk, due>>
  BY LimitsPositive DEF GoodRuns, TypeOK, Outside, table, history
<1>2. /\ enrolled \subseteq enrolled' /\ enrolled' \subseteq Student
      /\ standing' \in [Student -> Standing] /\ current' \in Month /\ org' \in OrgState
      /\ \/ coverage' = coverage
         \/ \E s \in Student, m \in Month, k \in {"monthly", "package"} :
              coverage[s][m] = "none" /\ coverage' = [coverage EXCEPT ![s][m] = k]
  <2>1. /\ enrolled \subseteq Student /\ standing \in [Student -> Standing]
        /\ current \in Month /\ org \in OrgState
    BY <1>1 DEF TypeOK
  <2>2. CASE \E s \in Student : Enrol(s)
    BY <2>1, <2>2 DEF Enrol
  <2>3. CASE \E s \in Student : Restand(s)
    BY <2>1, <2>3 DEF Restand
  <2>4. CASE \E s \in Student, m \in Month : Bill(s, m)
    BY <2>1, <2>4 DEF Bill
  <2>5. CASE MonthTurns \/ OrgChanges
    BY <2>1, <2>5 DEF MonthTurns, OrgChanges
  <2>6. QED
    BY <2>2, <2>3, <2>4, <2>5 DEF Outside
<1>3. coverage' \in [Student -> [Month -> Covers]]
  <2>1. coverage \in [Student -> [Month -> Covers]] /\ {"monthly", "package"} \subseteq Covers
    BY <1>1 DEF TypeOK, Covers
  <2>2. \A s \in Student, m \in Month, k \in Covers :
          [coverage EXCEPT ![s][m] = k] \in [Student -> [Month -> Covers]]
    BY <2>1
  <2>3. CASE coverage' = coverage
    BY <2>1, <2>3
  <2>4. CASE coverage' # coverage
    <3>1. PICK s \in Student, m \in Month, k \in {"monthly", "package"} :
            coverage' = [coverage EXCEPT ![s][m] = k]
      BY <2>4, <1>2
    <3>2. k \in Covers
      BY <2>1
    <3>3. QED
      BY <3>1, <3>2, <2>2
  <2>5. QED
    BY <2>3, <2>4
<1>4. GoodRuns'
  BY <1>1, <1>2, <1>3 DEF GoodRuns, TypeOK, Located, LocatedRun
<1>5. Quiet
  <2>1. env' # env
    BY <1>1 DEF Outside, TypeOK
  <2>2. QED
    BY <2>1, <1>1, <1>2 DEF Quiet, Keeps
<1>6. QED
  BY <1>1, <1>4, <1>5 DEF Elsewhere

\* Every step of the specification, then, is one of these.
LEMMA NextStep ==
  ASSUME GoodRuns, [Next]_vars
  PROVE  UNCHANGED vars \/ Elsewhere \/ \E r \in Runner : Step(r)
BY RunnerStep, ClockStep, OutsideStep DEF Next

-----------------------------------------------------------------------------
(* The inductive invariant.                                                *)

LEMMA InitInvariant == Init => IInv
<1> SUFFICES ASSUME Init PROVE IInv
  OBVIOUS
<1>1. TypeOK
  BY InitType
<1>2. PICK now \in Month, first \in Month, ss \in SUBSET Student, stand \in [Student -> Standing] :
        InitWith(first, ss, stand, now)
  BY DEF Init
<1>3. Located
  BY <1>2, IdleIsGood DEF InitWith, Located, GoodRun
<1>4. \A m \in Month : /\ walk[m] = NotVisited /\ due[m] = enrolled
                       /\ row[m].cursor = 0 /\ row[m].pass = NoCount
  BY <1>2 DEF InitWith, NewRow
<1>5. Tally
  <2> SUFFICES ASSUME NEW m \in Month, NEW c \in Class
               PROVE  row[m].pass[c] = Cardinality({s \in Student : walk[m][s] = c})
    BY DEF Tally
  <2>1. {s \in Student : walk[m][s] = c} = {}
    BY <1>4, NoneIsNoClass DEF NotVisited
  <2>2. row[m].pass[c] = 0
    BY <1>4 DEF NoCount
  <2>3. QED
    BY <2>1, <2>2, FS_EmptySet
<1>6. Contiguous /\ CoveredIsCovered
  <2>1. \A m \in Month, s \in Student : walk[m][s] = None /\ ~(s <= 0)
    BY <1>4, IdsAreOrdered DEF NotVisited
  <2>2. due \in [Month -> SUBSET Student]
    BY <1>1 DEF TypeOK
  <2>3. QED
    BY <2>1, <2>2, <1>4, NoneIsNoClass DEF Contiguous, CoveredIsCovered, Class
<1>7. DueExists /\ NoRowNoPass
  BY <1>4 DEF DueExists, NoRowNoPass
<1>8. PageIsNext
  BY <1>2 DEF InitWith, PageIsNext, InPass, IdleRun
<1>9. QED
  BY <1>1, <1>3, <1>5, <1>6, <1>7, <1>8 DEF IInv

\* The student a runner passes comes right after the cursor and was not seen yet.
LEMMA SawNext ==
  ASSUME IInv, NEW r \in Runner, NEW c, Saw(r, c)
  PROVE  LET m == run[r].month
             s == Next1(r)
         IN /\ m \in Month /\ m \in rows /\ s \in Student /\ s \in run[r].page /\ c \in Class
            /\ row[m].token = r /\ row[m].cursor = run[r].cursor /\ row[m].cursor \in Nat
            /\ row[m].cursor < s /\ walk[m][s] = None
            /\ \A p \in run[r].page : s <= p
            /\ \A t \in due[m] : t > row[m].cursor => s <= t
<1> DEFINE m == run[r].month
           s == Next1(r)
<1>1. /\ TypeOK /\ Located /\ Fenced(r) /\ run[r].page # {} /\ c \in Class
      /\ run[r].pc \in InPass /\ run[r].pc \in Visiting
  BY DEF IInv, Saw, InPass, Visiting
<1>2. m \in Month /\ m \in rows /\ run[r].page \subseteq Student
  BY <1>1 DEF Located, LocatedRun, TypeOK, RunType
<1>3. s \in run[r].page /\ s \in Student /\ \A p \in run[r].page : s <= p
  BY <1>1, <1>2, LeastIsMember, IdsAreOrdered DEF Next1
<1>4. row[m].token = r /\ row[m].cursor = run[r].cursor
  BY <1>1 DEF Fenced
<1>5. /\ row[m].cursor \in Nat /\ Student \subseteq Nat /\ due[m] \subseteq Student
  <2>1. row[m] \in RowType /\ due[m] \subseteq Student
    BY <1>1, <1>2 DEF TypeOK
  <2>2. row[m].cursor \in Cursor
    BY <2>1 DEF RowType
  <2>3. row[m].cursor \in Nat
    BY <2>2, CursorIsNat
  <2>4. Student \subseteq Nat
    BY IdsAreOrdered
  <2>5. QED
    BY <2>1, <2>3, <2>4
<1>6. /\ row[m].cursor < s
      /\ \A t \in due[m] : t > row[m].cursor => s <= t
  <2>1. /\ \A p \in run[r].page : p > run[r].cursor
        /\ \A t \in due[m], p \in run[r].page : t > run[r].cursor /\ t \notin run[r].page => p < t
    BY <1>1 DEF IInv, PageIsNext
  <2> HIDE DEF m, s
  <2>2. row[m].cursor < s /\ s \in Nat
    BY <2>1, <1>3, <1>4, <1>5
  <2>3. ASSUME NEW t \in due[m], t > row[m].cursor PROVE s <= t
    <3>1. t \in Nat
      BY <1>5
    <3>2. CASE t \in run[r].page
      BY <3>2, <1>3
    <3>3. CASE t \notin run[r].page
      BY <3>1, <3>3, <2>1, <2>2, <2>3, <1>3, <1>4
    <3>4. QED
      BY <3>2, <3>3
  <2>4. QED
    BY <2>2, <2>3
<1>7. walk[m][s] = None
  <2>1. walk[m][s] # None => s <= row[m].cursor
    BY <1>2, <1>3 DEF IInv, Contiguous
  <2> HIDE DEF m, s
  <2>2. QED
    BY <2>1, <1>3, <1>5, <1>6
<1>8. QED
  BY <1>1, <1>2, <1>3, <1>4, <1>5, <1>6, <1>7

\* What a step that sees a student, or ends a pass, leaves in the row and the walk.
LEMMA SawWrites ==
  ASSUME IInv, NEW r \in Runner, NEW c, Saw(r, c)
  PROVE  LET m == run[r].month
             s == Next1(r)
         IN /\ \A x \in Month \ {m} : Keeps(x) /\ walk'[x] = walk[x]
            /\ row'[m].cursor = s /\ row'[m].pass = [row[m].pass EXCEPT ![c] = @ + 1]
            /\ row'[m].last = row[m].last /\ row'[m].clean = row[m].clean
            /\ walk'[m] = [walk[m] EXCEPT ![s] = c]
<1> DEFINE m == run[r].month
           s == Next1(r)
<1>1. /\ m \in Month /\ row \in [Month -> RowType] /\ walk \in [Month -> [Student -> Class \cup {None}]]
  BY SawNext DEF IInv, TypeOK
<1>2. PICK q \in RowType :
        /\ row' = [row EXCEPT ![m] = q] /\ q.cursor = s
        /\ q.pass = [row[m].pass EXCEPT ![c] = @ + 1]
        /\ q.last = row[m].last /\ q.clean = row[m].clean
  BY DEF Saw
<1>3. walk' = [walk EXCEPT ![m][s] = c]
  BY DEF Saw
<1> HIDE DEF m, s
<1>4. QED
  BY <1>1, <1>2, <1>3 DEF Keeps, m, s

LEMMA EndedWrites ==
  ASSUME IInv, NEW r \in Runner, Ended(r)
  PROVE  LET m == run[r].month
         IN /\ m \in Month /\ m \in rows /\ row[m].token = r /\ row[m].cursor = run[r].cursor
            /\ \A x \in Month \ {m} : Keeps(x) /\ walk'[x] = walk[x] /\ due'[x] = due[x]
            /\ row'[m].cursor = 0 /\ row'[m].pass = NoCount /\ row'[m].last = row[m].pass
            /\ row'[m].clean = (row[m].pass["UNPRICED"] = 0 /\ row[m].pass["PENDING"] = 0)
            /\ walk'[m] = NotVisited /\ due'[m] = enrolled
            /\ \A s \in due[m] : walk[m][s] # None
<1> DEFINE m == run[r].month
           cl == row[m].pass["UNPRICED"] = 0 /\ row[m].pass["PENDING"] = 0
           w == [cursor |-> 0, token |-> row[m].token, lease |-> row[m].lease, inFlight |-> 0,
                 attempts |-> 0, pass |-> NoCount, last |-> row[m].pass, clean |-> cl]
<1>1. /\ m \in Month /\ m \in rows /\ TypeOK /\ row[m].token = r /\ row \in [Month -> RowType]
      /\ row[m].cursor = run[r].cursor /\ run[r].pc = "passEnd" /\ Fenced(r)
      /\ walk \in [Month -> [Student -> Class \cup {None}]] /\ due \in [Month -> SUBSET Student]
  BY DEF IInv, Located, LocatedRun, TypeOK, Visiting, Ended, Fenced
<1>2. /\ row' = [row EXCEPT ![m] = w] /\ walk' = [walk EXCEPT ![m] = NotVisited]
      /\ due' = [due EXCEPT ![m] = enrolled]
  BY DEF Ended, PassEndRow, NewPass
<1>3. w.cursor = 0 /\ w.pass = NoCount /\ w.last = row[m].pass /\ w.clean = cl
  <2> HIDE DEF cl
  <2> QED OBVIOUS
<1>4. \A s \in due[m] : walk[m][s] # None
  <2>1. \A s \in due[m] : s <= row[m].cursor
    BY <1>1 DEF IInv, PageIsNext, InPass
  <2>2. QED
    BY <2>1, <1>1 DEF IInv, Contiguous
<1> HIDE DEF m, w, cl
<1>5. QED
  BY <1>1, <1>2, <1>3, <1>4 DEF Keeps, m, cl

\* A step, as the invariant sees it.
Moves == Quiet \/ (\E r \in Runner, c \in Class : Saw(r, c)) \/ (\E r \in Runner : Ended(r))

LEMMA TallyKept ==
  ASSUME IInv, GoodRuns', Moves PROVE Tally'
<1> SUFFICES ASSUME NEW m \in Month, NEW d \in Class
             PROVE  row'[m].pass[d] = Cardinality({x \in Student : walk'[m][x] = d})
  BY DEF Tally
<1>1. row[m].pass[d] = Cardinality({x \in Student : walk[m][x] = d})
  BY DEF IInv, Tally
<1>2. CASE Quiet
  BY <1>1, <1>2 DEF Quiet, Keeps
<1>3. ASSUME NEW r \in Runner, NEW c \in Class, Saw(r, c)
      PROVE  row'[m].pass[d] = Cardinality({x \in Student : walk'[m][x] = d})
  <2>1. CASE m # run[r].month
    <3>1. row'[m].pass = row[m].pass /\ walk'[m] = walk[m]
      BY <2>1, <1>3, SawWrites DEF Keeps
    <3>2. QED
      BY <3>1, <1>1
  <2>2. CASE m = run[r].month
    <3> DEFINE s == Next1(r)
    <3>1. s \in Student /\ walk[m][s] = None
      BY <2>2, <1>3, SawNext
    <3>2. walk'[m] = [walk[m] EXCEPT ![s] = c] /\ row'[m].pass = [row[m].pass EXCEPT ![c] = @ + 1]
      BY <2>2, <1>3, SawWrites
    <3>3. walk[m] \in [Student -> Class \cup {None}] /\ row[m].pass \in [Class -> Nat]
      BY DEF IInv, TypeOK, RowType
    <3> HIDE DEF s
    <3> DEFINE f == walk[m]
    <3>4. Cardinality({x \in Student : [f EXCEPT ![s] = c][x] = d})
            = Cardinality({x \in Student : f[x] = d}) + (IF d = c THEN 1 ELSE 0)
      <4> HIDE DEF f
      <4> QED BY <3>1, <3>3, OneMore DEF f
    <3>5. row'[m].pass[d] = row[m].pass[d] + (IF d = c THEN 1 ELSE 0)
      BY <3>2, <3>3
    <3>6. QED
      BY <1>1, <3>2, <3>4, <3>5
  <2>3. QED
    BY <2>1, <2>2
<1>4. ASSUME NEW r \in Runner, Ended(r)
      PROVE  row'[m].pass[d] = Cardinality({x \in Student : walk'[m][x] = d})
  <2>1. CASE m # run[r].month
    <3>1. row'[m].pass = row[m].pass /\ walk'[m] = walk[m]
      BY <2>1, <1>4, EndedWrites DEF Keeps
    <3>2. QED
      BY <3>1, <1>1
  <2>2. CASE m = run[r].month
    <3>1. row'[m].pass = NoCount /\ walk'[m] = NotVisited
      BY <2>2, <1>4, EndedWrites
    <3>2. {x \in Student : walk'[m][x] = d} = {}
      BY <3>1, NoneIsNoClass DEF NotVisited
    <3>3. row'[m].pass[d] = 0
      BY <3>1 DEF NoCount
    <3>4. QED
      BY <3>2, <3>3, FS_EmptySet
  <2>3. QED
    BY <2>1, <2>2
<1>5. QED
  BY <1>2, <1>3, <1>4 DEF Moves

LEMMA ContiguousKept ==
  ASSUME IInv, GoodRuns', Moves PROVE Contiguous'
<1> SUFFICES ASSUME NEW m \in Month
             PROVE  /\ \A s \in Student : walk'[m][s] # None => s <= row'[m].cursor
                    /\ \A s \in due'[m] : s <= row'[m].cursor => walk'[m][s] # None
  BY DEF Contiguous
<1>1. /\ \A s \in Student : walk[m][s] # None => s <= row[m].cursor
      /\ \A s \in due[m] : s <= row[m].cursor => walk[m][s] # None
  BY DEF IInv, Contiguous
<1>2. /\ \A s \in Student : s \in Nat /\ ~(s <= 0)
      /\ due' \in [Month -> SUBSET Student] /\ due \in [Month -> SUBSET Student]
      /\ walk \in [Month -> [Student -> Class \cup {None}]]
  BY IdsAreOrdered DEF IInv, GoodRuns, TypeOK
<1>3. CASE Quiet
  <2>1. row'[m].cursor = row[m].cursor /\ walk'[m] = walk[m]
    BY <1>3 DEF Quiet, Keeps
  <2>2. CASE due'[m] = due[m]
    BY <2>1, <2>2, <1>1
  <2>3. CASE due'[m] # due[m]
    <3>1. m \notin rows
      BY <2>3, <1>2, <1>3 DEF Quiet
    <3>2. row[m].cursor = 0
      BY <3>1 DEF IInv, NoRowNoPass
    <3>3. QED
      BY <2>1, <3>2, <1>1, <1>2
  <2>4. QED
    BY <2>2, <2>3
<1>4. ASSUME NEW r \in Runner, NEW c \in Class, Saw(r, c)
      PROVE  /\ \A s \in Student : walk'[m][s] # None => s <= row'[m].cursor
             /\ \A s \in due'[m] : s <= row'[m].cursor => walk'[m][s] # None
  <2>1. due' = due
    BY <1>4 DEF Saw
  <2>2. CASE m # run[r].month
    <3>1. row'[m].cursor = row[m].cursor /\ walk'[m] = walk[m]
      BY <2>2, <1>4, SawWrites DEF Keeps
    <3>2. QED
      BY <3>1, <2>1, <1>1
  <2>3. CASE m = run[r].month
    <3> DEFINE s == Next1(r)
    <3>1. /\ s \in Student /\ row[m].cursor \in Nat /\ row[m].cursor < s
          /\ \A t \in due[m] : t > row[m].cursor => s <= t
      BY <2>3, <1>4, SawNext
    <3>2. walk'[m] = [walk[m] EXCEPT ![s] = c] /\ row'[m].cursor = s
      BY <2>3, <1>4, SawWrites
    <3> HIDE DEF s
    <3>3. \A t \in Student : walk'[m][t] = IF t = s THEN c ELSE walk[m][t]
      BY <3>2, <1>2
    <3>4. c # None
      BY NoneIsNoClass
    <3>5. \A t \in due[m] : t \in Student
      BY <1>2
    <3>6. ASSUME NEW t \in Student, walk'[m][t] # None PROVE t <= s
      <4>1. t = s \/ t <= row[m].cursor
        BY <3>3, <3>6, <1>1
      <4>2. QED
        BY <4>1, <3>1, <1>2
    <3>7. ASSUME NEW t \in due[m], t <= s PROVE walk'[m][t] # None
      <4>3. t \in Student /\ t \in Nat /\ s \in Nat
        BY <3>1, <3>5, <1>2
      <4>4. t > row[m].cursor => s <= t
        BY <3>1
      <4>1. t \in Student /\ (t = s \/ t <= row[m].cursor)
        BY <3>1, <4>3, <4>4, <3>7
      <4>2. QED
        BY <4>1, <3>3, <3>4, <1>1
    <3>8. QED
      BY <3>2, <3>6, <3>7, <2>1
  <2>4. QED
    BY <2>2, <2>3
<1>5. ASSUME NEW r \in Runner, Ended(r)
      PROVE  /\ \A s \in Student : walk'[m][s] # None => s <= row'[m].cursor
             /\ \A s \in due'[m] : s <= row'[m].cursor => walk'[m][s] # None
  <2>1. CASE m # run[r].month
    BY <2>1, <1>1, <1>5, EndedWrites DEF Keeps
  <2>2. CASE m = run[r].month
    <3>1. row'[m].cursor = 0 /\ walk'[m] = NotVisited
      BY <2>2, <1>5, EndedWrites
    <3>2. QED
      BY <3>1, <1>2 DEF NotVisited
  <2>3. QED
    BY <2>1, <2>2
<1>6. QED
  BY <1>3, <1>4, <1>5 DEF Moves

LEMMA CoveredKept ==
  ASSUME IInv, GoodRuns', Moves PROVE CoveredIsCovered'
<1> SUFFICES ASSUME NEW m \in Month, NEW s \in Student, walk'[m][s] = "COVERED"
             PROVE  coverage'[s][m] # "none"
  BY DEF CoveredIsCovered
<1>1. walk[m][s] = "COVERED" => coverage[s][m] # "none"
  BY DEF IInv, CoveredIsCovered
<1>2. /\ walk \in [Month -> [Student -> Class \cup {None}]]
      /\ coverage \in [Student -> [Month -> Covers]]
  BY DEF IInv, TypeOK
<1>3. CASE Quiet
  <2>1. walk[m][s] = "COVERED"
    BY <1>3 DEF Quiet
  <2>2. coverage[s][m] # "none"
    BY <1>1, <2>1
  <2>3. CASE coverage' = coverage
    BY <2>2, <2>3
  <2>4. CASE coverage' # coverage
    <3>1. PICK t \in Student, x \in Month, k \in {"monthly", "package"} :
            coverage' = [coverage EXCEPT ![t][x] = k]
      BY <1>3, <2>4 DEF Quiet
    <3>2. QED
      BY <3>1, <2>2, <1>2
  <2>5. QED
    BY <2>3, <2>4
<1>4. ASSUME NEW r \in Runner, NEW c \in Class, Saw(r, c) PROVE coverage'[s][m] # "none"
  <2> DEFINE n == run[r].month
             t == Next1(r)
  <2>1. n \in Month /\ t \in Student
    BY <1>4, SawNext
  <2>2. walk' = [walk EXCEPT ![n][t] = c] /\ (c = "COVERED" => coverage'[t][n] # "none")
        /\ (coverage' = coverage \/ coverage' = [coverage EXCEPT ![t][n] = "monthly"])
    BY <1>4 DEF Saw
  <2> HIDE DEF n, t
  <2>3. CASE m = n /\ s = t
    BY <2>1, <2>2, <2>3, <1>2
  <2>4. CASE ~(m = n /\ s = t)
    <3>1. walk[m][s] = "COVERED"
      BY <2>1, <2>2, <2>4, <1>2
    <3>2. coverage'[s][m] = coverage[s][m]
      BY <2>1, <2>2, <2>4, <1>2
    <3>3. QED
      BY <3>1, <3>2, <1>1
  <2>5. QED
    BY <2>3, <2>4
<1>5. ASSUME NEW r \in Runner, Ended(r) PROVE coverage'[s][m] # "none"
  <2>1. coverage' = coverage
    BY <1>5 DEF Ended
  <2>2. CASE m # run[r].month
    BY <2>1, <2>2, <1>1, <1>5, EndedWrites
  <2>3. CASE m = run[r].month
    <3>1. walk'[m] = NotVisited
      BY <2>3, <1>5, EndedWrites
    <3>2. QED
      BY <3>1, NoneIsNoClass DEF NotVisited, Class
  <2>4. QED
    BY <2>2, <2>3
<1>6. QED
  BY <1>3, <1>4, <1>5 DEF Moves

LEMMA PassKept ==
  ASSUME IInv, GoodRuns', Moves PROVE DueExists' /\ NoRowNoPass'
<1>1. /\ due \in [Month -> SUBSET Student] /\ \A m \in Month : due[m] \subseteq enrolled
      /\ \A m \in Month \ rows : row[m].cursor = 0 /\ walk[m] = NotVisited
  BY DEF IInv, TypeOK, DueExists, NoRowNoPass
<1>2. CASE Quiet
  <2>1. DueExists'
    BY <1>1, <1>2 DEF Quiet, DueExists
  <2>2. NoRowNoPass'
    BY <1>1, <1>2 DEF Quiet, NoRowNoPass, Keeps
  <2>3. QED
    BY <2>1, <2>2
<1>3. ASSUME NEW r \in Runner, NEW c \in Class, Saw(r, c) PROVE DueExists' /\ NoRowNoPass'
  <2>1. UNCHANGED <<rows, enrolled, due>>
    BY <1>3 DEF Saw, outside
  <2>2. run[r].month \in rows /\ \A x \in Month \ {run[r].month} : Keeps(x) /\ walk'[x] = walk[x]
    BY <1>3, SawNext, SawWrites
  <2>3. QED
    BY <2>1, <2>2, <1>1 DEF DueExists, NoRowNoPass, Keeps
<1>4. ASSUME NEW r \in Runner, Ended(r) PROVE DueExists' /\ NoRowNoPass'
  <2>1. UNCHANGED <<rows, enrolled>>
    BY <1>4 DEF Ended, outside
  <2>2. /\ run[r].month \in rows /\ due'[run[r].month] = enrolled
        /\ \A x \in Month \ {run[r].month} : Keeps(x) /\ walk'[x] = walk[x] /\ due'[x] = due[x]
    BY <1>4, EndedWrites
  <2>3. QED
    BY <2>1, <2>2, <1>1 DEF DueExists, NoRowNoPass, Keeps
<1>5. QED
  BY <1>2, <1>3, <1>4 DEF Moves

\* PageIsNext, for one runner.
PageIsNextFor(r) ==
  LET m == run[r].month IN
  run[r].pc \in InPass /\ Fenced(r) =>
    /\ \A p \in run[r].page : p > run[r].cursor
    /\ \A s \in due[m], p \in run[r].page :
         s > run[r].cursor /\ s \notin run[r].page => p < s
    /\ run[r].pc = "passEnd" => \A s \in due[m] : s <= run[r].cursor

\* The students owed a visit change only where a pass ends or a month opens.
LEMMA DueKept ==
  ASSUME IInv, Moves, NEW m \in rows
  PROVE  due'[m] = due[m] \/ \E r \in Runner : Ended(r) /\ m = run[r].month
<1>1. m \in Month /\ due \in [Month -> SUBSET Student]
  BY DEF IInv, TypeOK
<1>2. CASE Quiet
  BY <1>1, <1>2 DEF Quiet
<1>3. ASSUME NEW r \in Runner, NEW c \in Class, Saw(r, c) PROVE due'[m] = due[m]
  BY <1>3 DEF Saw
<1>4. ASSUME NEW r \in Runner, Ended(r), m # run[r].month PROVE due'[m] = due[m]
  BY <1>1, <1>4, EndedWrites
<1>5. QED
  BY <1>2, <1>3, <1>4 DEF Moves

\* Another runner's step leaves a runner's page as it was, or breaks its fence.
LEMMA OthersKeepPage ==
  ASSUME IInv, GoodRuns', NEW r \in Runner, Step(r), NEW x \in Runner \ {r}
  PROVE  PageIsNextFor(x)'
<1> SUFFICES ASSUME run'[x].pc \in InPass, (Fenced(x))' PROVE PageIsNextFor(x)'
  BY DEF PageIsNextFor
<1> DEFINE m == run[x].month
<1>1. run'[x] = run[x] /\ run[x].pc \in InPass
  BY DEF Step
<1>2. m \in rows /\ m \in Month
  BY <1>1 DEF IInv, Located, LocatedRun, Visiting, InPass, TypeOK
<1>3. row'[m].token = x /\ row'[m].cursor = run[x].cursor
  BY <1>1 DEF Fenced
<1>4. row[m].token = x /\ row[m].cursor = run[x].cursor
  BY <1>2, <1>3 DEF Step, OwnTokens
<1>5. PageIsNextFor(x) /\ Fenced(x)
  BY <1>4 DEF IInv, PageIsNext, PageIsNextFor, Fenced
<1>6. due'[m] = due[m]
  <2>1. Quiet \/ (\E c \in Class : Saw(r, c)) \/ Ended(r)
    BY DEF Step
  <2>2. ~(Ended(r) /\ m = run[r].month)
    BY <1>4, EndedWrites
  <2>3. CASE Ended(r)
    BY <2>2, <2>3, <1>2, EndedWrites
  <2>4. CASE Quiet
    BY <2>4, <1>2 DEF Quiet, IInv, TypeOK
  <2>5. CASE \E c \in Class : Saw(r, c)
    BY <2>5 DEF Saw
  <2>6. QED
    BY <2>1, <2>3, <2>4, <2>5
<1>7. QED
  BY <1>1, <1>5, <1>6 DEF PageIsNextFor

\* A page is a first part of the students behind the cursor.
LEMMA PageIsFirstPart ==
  ASSUME NEW later, later \subseteq Nat, IsFiniteSet(later),
         NEW s \in later, NEW p \in later,
         Cardinality({x \in later : x < p}) < PageSize,
         ~(Cardinality({x \in later : x < s}) < PageSize)
  PROVE  p < s
<1> DEFINE A == {x \in later : x < s}
           B == {x \in later : x < p}
<1>1. CASE s <= p
  <2>1. A \subseteq B /\ B \subseteq later
    <3>1. \A x \in later : x < s => x < p
      BY <1>1
    <3>2. QED
      BY <3>1
  <2>8. IsFiniteSet(B)
    <3> HIDE DEF B
    <3> QED BY <2>1, FS_Subset
  <2>2. /\ Cardinality(A) <= Cardinality(B)
        /\ Cardinality(A) \in Nat /\ Cardinality(B) \in Nat
    <3> HIDE DEF A, B
    <3> QED BY <2>1, <2>8, FS_Subset, FS_CardinalityType
  <2>3. Cardinality(B) < PageSize /\ ~(Cardinality(A) < PageSize)
    OBVIOUS
  <2>4. PageSize \in Nat
    BY LimitsPositive
  <2> DEFINE a == Cardinality(A)
             b == Cardinality(B)
  <2>5. a <= b /\ a \in Nat /\ b \in Nat /\ b < PageSize /\ ~(a < PageSize)
    BY <2>2, <2>3
  <2> HIDE DEF a, b
  <2>6. FALSE
    BY <2>4, <2>5
  <2>7. QED
    BY <2>6
<1>2. p \in Nat /\ s \in Nat
  OBVIOUS
<1>3. QED
  BY <1>1, <1>2

LEMMA OwnPageKept ==
  ASSUME IInv, GoodRuns', NEW r \in Runner, Step(r)
  PROVE  PageIsNextFor(r)'
<1> SUFFICES ASSUME run'[r].pc \in InPass, (Fenced(r))' PROVE PageIsNextFor(r)'
  BY DEF PageIsNextFor
<1>1. Quiet \/ (\E c \in Class : Saw(r, c)) \/ Ended(r)
  BY DEF Step
<1>2. ASSUME run'[r].month = run[r].month, run[r].pc \in InPass, run[r].pc # "passEnd"
      PROVE  /\ due'[run[r].month] = due[run[r].month]
             /\ run[r].month \in rows /\ run[r].month \in Month
  <2>1. run[r].month \in rows /\ run[r].month \in Month
    BY <1>2 DEF IInv, Located, LocatedRun, Visiting, InPass, TypeOK
  <2>2. CASE Quiet
    BY <2>1, <2>2 DEF Quiet, IInv, TypeOK
  <2>3. CASE \E c \in Class : Saw(r, c)
    BY <2>1, <2>3 DEF Saw
  <2>4. ~Ended(r)
    BY <1>2 DEF Ended
  <2>5. QED
    BY <1>1, <2>1, <2>2, <2>3, <2>4
<1>3. CASE run'[r].page = {} /\ run'[r].pc # "passEnd"
  BY <1>3 DEF PageIsNextFor
<1>4. CASE /\ run[r].pc \in InPass \ {"passEnd"} /\ run'[r].pc \in InPass \ {"passEnd"}
           /\ run'[r].month = run[r].month
           /\ run'[r].cursor = run[r].cursor /\ run'[r].page = run[r].page
           /\ (Fenced(r))' => Fenced(r)
  <2>1. PageIsNextFor(r) /\ Fenced(r)
    BY <1>4 DEF IInv, PageIsNext, PageIsNextFor
  <2>2. QED
    BY <2>1, <1>2, <1>4 DEF PageIsNextFor
<1>5. CASE /\ run[r].pc = "page" /\ run'[r].month = run[r].month /\ UNCHANGED row
           /\ run'[r].cursor = run[r].cursor
           /\ \E later \in SUBSET Student :
                /\ later = {s \in enrolled : s > run[r].cursor}
                /\ run'[r].pc = IF later = {} THEN "passEnd" ELSE "walk"
                /\ run'[r].page = {s \in later : Cardinality({x \in later : x < s}) < PageSize}
  <2> DEFINE m == run[r].month
             later == {s \in enrolled : s > run[r].cursor}
             page == run'[r].page
  <2>1. /\ run'[r].pc = "passEnd" => later = {}
        /\ page = {s \in later : Cardinality({x \in later : x < s}) < PageSize}
    BY <1>5
  <2>2. due'[m] = due[m] /\ m \in Month
    BY <1>2, <1>5 DEF InPass
  <2>3. due[m] \subseteq enrolled /\ enrolled \subseteq Student /\ run[r].cursor \in Cursor
    BY <2>2 DEF IInv, TypeOK, DueExists, RunType
  <2>4. /\ run[r].cursor \in Nat /\ enrolled \subseteq Nat
        /\ IsFiniteSet(later) /\ later \subseteq Nat
    <3>1. run[r].cursor \in Nat /\ enrolled \subseteq Nat
      BY <2>3, CursorIsNat, IdsAreOrdered
    <3>2. later \subseteq Student
      BY <2>3
    <3>3. QED
      BY <3>1, <3>2, FiniteTables, FS_Subset
  <2>5. \A p \in page : p > run[r].cursor /\ p \in later
    BY <2>1
  <2>6. \A s \in due[m] : s > run[r].cursor => s \in later
    BY <2>3
  <2>7. ASSUME NEW s \in later, NEW p \in page, s \notin page PROVE p < s
    <3>1. p \in later /\ Cardinality({x \in later : x < p}) < PageSize
      BY <2>1
    <3>2. ~(Cardinality({x \in later : x < s}) < PageSize)
      BY <2>1, <2>7
    <3> HIDE DEF later, page
    <3>3. QED
      BY <3>1, <3>2, <2>4, PageIsFirstPart
  <2>8. run'[r].pc = "passEnd" => \A s \in due[m] : s <= run[r].cursor
    <3>1. \A s \in due[m] : s \in Nat
      BY <2>3, <2>4
    <3>2. QED
      BY <3>1, <2>1, <2>4, <2>6
  <2> HIDE DEF later
  <2>9. QED
    BY <2>2, <2>5, <2>6, <2>7, <2>8, <1>5 DEF PageIsNextFor
<1>6. ASSUME NEW c \in Class, Saw(r, c), run'[r].month = run[r].month, run'[r].pc = "walk",
             run'[r].cursor = Next1(r), run'[r].page = run[r].page \ {Next1(r)}
      PROVE  PageIsNextFor(r)'
  <2> DEFINE m == run[r].month
             s == Next1(r)
  <2>1. /\ s \in Student /\ s \in run[r].page /\ row[m].cursor < s /\ row[m].cursor = run[r].cursor
        /\ row[m].cursor \in Nat
        /\ \A p \in run[r].page : s <= p
    BY <1>6, SawNext
  <2>2. run[r].pc \in InPass /\ run[r].pc # "passEnd" /\ Fenced(r)
    BY <1>6 DEF Saw, InPass
  <2>3. due'[m] = due[m]
    BY <2>2, <1>2, <1>6
  <2>4. \A t \in due[m], p \in run[r].page : t > run[r].cursor /\ t \notin run[r].page => p < t
    BY <2>2 DEF IInv, PageIsNext
  <2>5. run[r].page \subseteq Nat /\ due[m] \subseteq Nat /\ s \in Nat
    <3>1. m \in Month
      BY <2>2, <1>2, <1>6
    <3>2. QED
      BY <3>1, <2>1, IdsAreOrdered DEF IInv, TypeOK, RunType
  <2> HIDE DEF m, s
  <2>6. \A p \in run[r].page \ {s} : p > s
    BY <2>1, <2>5
  <2>7. \A t \in due[m], p \in run[r].page \ {s} : t > s /\ t \notin run[r].page \ {s} => p < t
    BY <2>1, <2>4, <2>5
  <2>8. run'[r].month = m /\ run'[r].cursor = s /\ run'[r].page = run[r].page \ {s} /\ run'[r].pc # "passEnd"
    BY <1>6 DEF m, s
  <2>9. QED
    BY <2>3, <2>6, <2>7, <2>8 DEF PageIsNextFor
<1>7. QED
  BY <1>3, <1>4, <1>5, <1>6 DEF Step, Continues

LEMMA ElsewhereKeepsPage ==
  ASSUME IInv, Elsewhere, NEW x \in Runner
  PROVE  PageIsNextFor(x)'
<1> SUFFICES ASSUME run'[x].pc \in InPass, (Fenced(x))' PROVE PageIsNextFor(x)'
  BY DEF PageIsNextFor
<1> DEFINE m == run[x].month
<1>1. run'[x] = run[x] /\ run[x].pc \in InPass /\ Quiet
  BY DEF Elsewhere
<1>2. m \in rows /\ m \in Month
  BY <1>1 DEF IInv, Located, LocatedRun, Visiting, InPass, TypeOK
<1>3. row'[m].token = x /\ row'[m].cursor = run[x].cursor
  BY <1>1 DEF Fenced
<1>4. row[m].token = x /\ row[m].cursor = run[x].cursor
  BY <1>1, <1>2, <1>3 DEF Elsewhere, Quiet, Keeps
<1>5. PageIsNextFor(x)
  BY DEF IInv, PageIsNext, PageIsNextFor
<1>6. due'[m] = due[m]
  BY <1>1, <1>2 DEF Quiet, IInv, TypeOK
<1>7. QED
  BY <1>1, <1>4, <1>5, <1>6 DEF PageIsNextFor, Fenced

LEMMA NextKeepsInvariant ==
  IInv /\ [Next]_vars => IInv'
<1> SUFFICES ASSUME IInv, [Next]_vars PROVE IInv'
  OBVIOUS
<1>1. GoodRuns
  BY DEF IInv, GoodRuns
<1>2. CASE UNCHANGED vars
  BY <1>2 DEF IInv, vars, table, outside, history, TypeOK, Located, LocatedRun, Tally, Contiguous,
              CoveredIsCovered, DueExists, NoRowNoPass, PageIsNext, Fenced
<1>3. CASE Elsewhere
  <2>1. GoodRuns' /\ Moves
    BY <1>3 DEF Elsewhere, Moves
  <2>2. PageIsNext'
    BY <1>3, ElsewhereKeepsPage DEF PageIsNext, PageIsNextFor
  <2>3. QED
    BY <2>1, <2>2, TallyKept, ContiguousKept, CoveredKept, PassKept DEF IInv, GoodRuns
<1>4. ASSUME NEW r \in Runner, Step(r) PROVE IInv'
  <2>1. GoodRuns' /\ Moves
    BY <1>4 DEF Step, Moves
  <2>2. \A x \in Runner : PageIsNextFor(x)'
    BY <1>4, <2>1, OwnPageKept, OthersKeepPage
  <2>3. PageIsNext'
    BY <2>2 DEF PageIsNext, PageIsNextFor
  <2>4. QED
    BY <2>1, <2>3, TallyKept, ContiguousKept, CoveredKept, PassKept DEF IInv, GoodRuns
<1>5. QED
  BY <1>1, <1>2, <1>3, <1>4, NextStep

-----------------------------------------------------------------------------
(* The theorems.                                                           *)

\* IInv is an invariant, for every set of students, months and runners and every limit.
THEOREM InvariantHolds == Spec => []IInv
<1>1. Init => IInv
  BY InitInvariant
<1>2. IInv /\ [Next]_vars => IInv'
  BY NextKeepsInvariant
<1>3. QED
  BY <1>1, <1>2, PTL DEF Spec

\* Type correctness.
THEOREM TypesHold == Spec => []TypeOK
<1>1. IInv => TypeOK
  BY DEF IInv
<1>2. QED
  BY <1>1, InvariantHolds, PTL

\* The counts of a row are those of exactly the students recorded in the open pass,
\* each once, whatever runners, crashes and lost acknowledgements there were.
THEOREM CountsAreExact == Spec => []Tally
<1>1. IInv => Tally
  BY DEF IInv
<1>2. QED
  BY <1>1, InvariantHolds, PTL

\* The cursor never leaves a student of its pass behind.
THEOREM NobodyIsSkipped == Spec => []Contiguous
<1>1. IInv => Contiguous
  BY DEF IInv
<1>2. QED
  BY <1>1, InvariantHolds, PTL

\* A student counted COVERED is covered.
THEOREM CoveredMeansCovered == Spec => []CoveredIsCovered
<1>1. IInv => CoveredIsCovered
  BY DEF IInv
<1>2. QED
  BY <1>1, InvariantHolds, PTL

\* A runner's step covers a month at most for the student it passes.
LEMMA StepBillsUnderLease ==
  ASSUME IInv, NEW r \in Runner, Step(r), env' = env,
         NEW m \in Month, NEW s \in Student, coverage'[s][m] # coverage[s][m]
  PROVE  /\ row[m].lease = "live" /\ row[m].token \in Runner
         /\ run[row[m].token].pc = "walk" /\ run[row[m].token].month = m
         /\ row[m].cursor < s /\ row'[m].cursor = s /\ walk'[m][s] = "COVERED"
<1>1. coverage' # coverage
  OBVIOUS
<1>2. ~Quiet /\ ~Ended(r)
  BY <1>1 DEF Quiet, Ended
<1>3. PICK c \in Class : Saw(r, c)
  BY <1>2 DEF Step
<1>4. /\ c = "COVERED" /\ run[r].pc = "walk" /\ FenceRow(r)
      /\ coverage' = [coverage EXCEPT ![Next1(r)][run[r].month] = "monthly"]
  BY <1>1, <1>3 DEF Saw
<1>5. s = Next1(r) /\ m = run[r].month
  <2>1. coverage \in [Student -> [Month -> Covers]]
    BY DEF IInv, TypeOK
  <2>2. QED
    BY <2>1, <1>4
<1>6. /\ row[m].token = r /\ row[m].lease = "live"
  BY <1>4, <1>5 DEF FenceRow, Fenced
<1>7. row[m].cursor < s
  BY <1>3, <1>5, SawNext
<1>8. row'[m].cursor = s /\ walk'[m] = [walk[m] EXCEPT ![s] = c]
  BY <1>3, <1>5, SawWrites
<1>9. walk'[m][s] = "COVERED"
  BY <1>4, <1>8 DEF IInv, TypeOK
<1>10. QED
  BY <1>4, <1>5, <1>6, <1>7, <1>8, <1>9

\* The job covers a student's month only under a live lease, in the step that moves the
\* cursor to the student and counts it.
THEOREM BillingIsLeased == Spec => BilledUnderItsLease
<1> DEFINE Leasehold ==
             \A m \in Month, s \in Student :
               env' = env /\ coverage'[s][m] # coverage[s][m]
               => /\ row[m].lease = "live" /\ row[m].token \in Runner
                  /\ run[row[m].token].pc = "walk" /\ run[row[m].token].month = m
                  /\ row[m].cursor < s /\ row'[m].cursor = s /\ walk'[m][s] = "COVERED"
<1>1. IInv /\ [Next]_vars => [Leasehold]_vars
  <2> SUFFICES ASSUME IInv, [Next]_vars, NEW m \in Month, NEW s \in Student,
                      env' = env, coverage'[s][m] # coverage[s][m]
               PROVE  /\ row[m].lease = "live" /\ row[m].token \in Runner
                      /\ run[row[m].token].pc = "walk" /\ run[row[m].token].month = m
                      /\ row[m].cursor < s /\ row'[m].cursor = s /\ walk'[m][s] = "COVERED"
    OBVIOUS
  <2>1. UNCHANGED vars \/ Elsewhere \/ \E r \in Runner : Step(r)
    BY NextStep DEF IInv, GoodRuns
  <2>2. coverage' # coverage
    OBVIOUS
  <2>3. ~(UNCHANGED vars) /\ ~Elsewhere
    BY <2>2 DEF vars, Elsewhere, Quiet
  <2>4. QED
    BY <2>1, <2>3, StepBillsUnderLease
<1>2. QED
  BY <1>1, InvariantHolds, PTL DEF Spec, BilledUnderItsLease

-----------------------------------------------------------------------------
(* The progress rows.                                                      *)

\* Only a rollover adds rows, and only the calendar moves the current month, by one.
LEMMA RowsStep ==
  ASSUME NEW r \in Runner, Progress(r) \/ Failing(r)
  PROVE  current' = current /\ (rows' = rows \/ Rollover(r))
<1> USE DEF table, outside, history
<1>1. CASE Progress(r)
  BY <1>1 DEF Progress, StartRun, StopAtDeadline, Discover, Claim, ClaimLost, TakeLease, Gate,
     Rollover, EndSlice, ReadPage, NextPage, MarkInFlight, ProcessStudent, RecordFailure,
     PassEnd, Release, Dies
<1>2. CASE Failing(r)
  BY <1>2 DEF Failing, DiscoverFails, ClaimFails, TakeLease, RolloverFails, StudentThrows,
     StepFails, ReleaseFails, Crash
<1>3. QED
  BY <1>1, <1>2

\* A step as the progress rows see it.
LEMMA RowsNext ==
  ASSUME [Next]_vars
  PROVE  \/ rows' = rows /\ (current' = current \/ (current' = current + 1 /\ current' \in Month))
         \/ current' = current /\ \E r \in Runner : Rollover(r)
<1>1. CASE UNCHANGED vars
  BY <1>1 DEF vars, table, outside
<1>2. CASE \E r \in Runner : Progress(r) \/ Failing(r)
  BY <1>2, RowsStep
<1>3. CASE \E m \in Month : LeaseRunsOut(m)
  BY <1>3 DEF LeaseRunsOut, outside
<1>4. CASE Outside
  BY <1>4 DEF Outside, Enrol, Restand, Bill, MonthTurns, OrgChanges, table
<1>5. QED
  BY <1>1, <1>2, <1>3, <1>4 DEF Next

\* A rollover closes up to the newest row: what it adds are the months directly after it.
LEMMA RolloverLeavesNoGap ==
  ASSUME TypeOK, Located, RowsWithoutGap, NEW r \in Runner, Rollover(r), current' = current
  PROVE  RowsWithoutGap'
<1> DEFINE n     == run[r].month
           fresh == Missing(n)
<1>1. n \in rows /\ rows' = rows \cup fresh
  BY DEF Rollover, Located, LocatedRun, Visiting
<1>2. rows \subseteq Month /\ Month \subseteq Nat /\ current \in Nat /\ RolloverRows \in Nat
  BY IdsAreOrdered, LimitsPositive DEF TypeOK
<1>3. CASE \E x \in rows : x > n
  <2>1. rows' = rows
    BY <1>1, <1>3 DEF Missing
  <2>2. QED
    BY <2>1 DEF RowsWithoutGap
<1>4. CASE \A x \in rows : ~(x > n)
  <2>1. fresh = {x \in Month : n < x /\ x <= current /\ x <= n + RolloverRows}
    BY <1>4 DEF Missing
  <2> HIDE DEF fresh, n
  <2>2. \A x \in rows : x <= n
    <3>1. rows \subseteq Nat /\ n \in Nat
      BY <1>1, <1>2
    <3>2. QED
      BY <1>4, <3>1
  <2>3. \A m \in rows' : m <= current'
    BY <1>1, <2>1 DEF RowsWithoutGap
  <2>4. ASSUME NEW x \in rows', NEW y \in rows', NEW m \in Month, x < m, m < y
        PROVE  m \in rows'
    <3>1. CASE m <= n
      <4>1. x \in rows
        BY <1>1, <1>2, <2>1, <2>4, <3>1
      <4>2. m = n \/ m < n
        BY <1>1, <1>2, <3>1
      <4>3. QED
        BY <4>1, <4>2, <1>1, <2>4 DEF RowsWithoutGap
    <3>2. CASE ~(m <= n)
      <4>1. n < m
        BY <3>2, <1>1, <1>2
      <4>2. y \in fresh
        BY <4>1, <1>1, <1>2, <2>2, <2>4
      <4>3. m \in fresh
        BY <4>1, <4>2, <1>1, <1>2, <2>1, <2>4
      <4>4. QED
        BY <4>3, <1>1
    <3>3. QED
      BY <3>1, <3>2
  <2>5. QED
    BY <2>3, <2>4, <1>2 DEF RowsWithoutGap
<1>5. QED
  BY <1>3, <1>4

\* The progress rows of an organization run from its first one on without a gap, and
\* never past the month its branches have reached.
THEOREM RowsAreContiguous == Spec => []RowsWithoutGap
<1>1. Init => RowsWithoutGap
  <2> SUFFICES ASSUME Init PROVE RowsWithoutGap
    OBVIOUS
  <2>1. PICK now \in Month, first \in Month : first <= now /\ rows = {first} /\ current = now
    BY DEF Init, InitWith
  <2>2. QED
    BY <2>1, IdsAreOrdered DEF RowsWithoutGap
<1>2. IInv /\ RowsWithoutGap /\ [Next]_vars => RowsWithoutGap'
  <2> SUFFICES ASSUME IInv, RowsWithoutGap, [Next]_vars PROVE RowsWithoutGap'
    OBVIOUS
  <2>1. CASE rows' = rows /\ (current' = current \/ (current' = current + 1 /\ current' \in Month))
    <3>1. rows \subseteq Nat /\ current \in Nat
      BY IdsAreOrdered DEF IInv, TypeOK
    <3>2. QED
      BY <2>1, <3>1 DEF RowsWithoutGap
  <2>2. CASE current' = current /\ \E r \in Runner : Rollover(r)
    BY <2>2, RolloverLeavesNoGap DEF IInv
  <2>3. QED
    BY <2>1, <2>2, RowsNext
<1>3. QED
  BY <1>1, <1>2, InvariantHolds, PTL DEF Spec

-----------------------------------------------------------------------------
(* Refinement.                                                             *)

LEMMA InitRefines == Init => Pass!Init
<1> SUFFICES ASSUME Init PROVE Pass!Init
  OBVIOUS
<1>1. PICK now \in Month, first \in Month, ss \in SUBSET Student, stand \in [Student -> Standing] :
        InitWith(first, ss, stand, now)
  BY DEF Init
<1>2. /\ walk = [m \in Month |-> NotVisited] /\ due = [m \in Month |-> ss]
      /\ coverage = [s \in Student |-> [m \in Month |-> "none"]]
      /\ row = [m \in Month |-> NewRow]
  BY <1>1 DEF InitWith
<1>3. NewRow.last = NoCount /\ NewRow.clean = None
  BY DEF NewRow
<1>4. /\ [m \in Month |-> row[m].last] = [m \in Month |-> NoCount]
      /\ [m \in Month |-> row[m].clean] = [m \in Month |-> None]
  BY <1>2, <1>3
<1>5. QED
  BY <1>2, <1>4 DEF Pass!Init, Pass!Nobody, Pass!Class, NotVisited, NoCount, Class

\* A quiet step opens months, or someone else covers a month, or nothing shows.
LEMMA QuietRefines ==
  ASSUME IInv, Quiet PROVE Pass!Next \/ UNCHANGED Pass!vars
<1>1. UNCHANGED <<walk, [m \in Month |-> row[m].last], [m \in Month |-> row[m].clean]>>
  BY DEF Quiet, Keeps
<1>2. CASE UNCHANGED <<rows, coverage, due>>
  BY <1>1, <1>2 DEF Pass!vars
<1>3. CASE /\ UNCHANGED <<coverage, enrolled>>
           /\ \E ms \in SUBSET (Month \ rows) :
                rows' = rows \cup ms /\ due' = [x \in Month |-> IF x \in ms THEN enrolled ELSE due[x]]
  <2>1. PICK ms \in SUBSET (Month \ rows) : due' = [x \in Month |-> IF x \in ms THEN enrolled ELSE due[x]]
    BY <1>3
  <2>2. \A m \in ms : walk[m] = Pass!Nobody /\ due[m] \subseteq enrolled
    BY DEF IInv, NoRowNoPass, DueExists, Pass!Nobody, NotVisited
  <2>3. enrolled \in SUBSET Student
    BY DEF IInv, TypeOK
  <2>4. ms \in SUBSET Month
    BY <2>1
  <2>5. Pass!Open
    BY <1>1, <1>3, <2>1, <2>2, <2>3, <2>4, Zenon DEF Pass!Open
  <2>6. QED
    BY <2>5 DEF Pass!Next
<1>4. CASE /\ UNCHANGED <<rows, due>>
           /\ \E s \in Student, m \in Month, k \in {"monthly", "package"} :
                coverage[s][m] = "none" /\ coverage' = [coverage EXCEPT ![s][m] = k]
  BY <1>1, <1>4 DEF Pass!Next, Pass!CoveredElsewhere
<1>5. QED
  BY <1>2, <1>3, <1>4 DEF Quiet

LEMMA SawRefines ==
  ASSUME IInv, NEW r \in Runner, NEW c \in Class, Saw(r, c) PROVE Pass!Next
<1> DEFINE m == run[r].month
           s == Next1(r)
<1>1. /\ m \in Month /\ s \in Student /\ row[m].cursor \in Nat /\ row[m].cursor < s
      /\ \A t \in due[m] : t > row[m].cursor => s <= t
  BY SawNext
<1>2. /\ \A t \in Student : walk[m][t] # None => t <= row[m].cursor
      /\ \A t \in due[m] : t <= row[m].cursor => walk[m][t] # None
      /\ due[m] \subseteq Student
  <2>1. due[m] \subseteq Student
    BY <1>1 DEF IInv, TypeOK
  <2>2. Contiguous
    BY DEF IInv
  <2> HIDE DEF m
  <2>3. QED
    BY <1>1, <2>1, <2>2 DEF Contiguous
<1>3. UNCHANGED <<due, [x \in Month |-> row[x].last], [x \in Month |-> row[x].clean]>>
  BY <1>1, SawWrites DEF Saw, Keeps
<1>4. /\ walk' = [walk EXCEPT ![m][s] = c]
      /\ \/ UNCHANGED coverage
         \/ c = "COVERED" /\ coverage[s][m] = "none" /\ coverage' = [coverage EXCEPT ![s][m] = "monthly"]
      /\ c = "COVERED" => coverage'[s][m] # "none"
  BY DEF Saw
<1> HIDE DEF m, s
<1>5. /\ \A t \in Student : walk[m][t] # None => t < s
      /\ \A t \in due[m] : t < s => walk[m][t] # None
  <2>1. Student \subseteq Nat
    BY IdsAreOrdered
  <2>2. QED
    BY <1>1, <1>2, <2>1
<1>6. Pass!See(m, s, c)
  BY <1>3, <1>4, <1>5 DEF Pass!See
<1>7. QED
  BY <1>1, <1>6 DEF Pass!Next, Pass!Class, Class

\* The instance's Cardinality is this module's.
LEMMA SameCardinality ==
  ASSUME NEW S PROVE Pass!Cardinality(S) = Cardinality(S)
BY DEF Pass!Cardinality, Cardinality, Pass!IsFiniteSet, IsFiniteSet

LEMMA EndedRefines ==
  ASSUME IInv, NEW r \in Runner, Ended(r) PROVE Pass!Next
<1>0. PICK m \in Month : m = run[r].month
  BY EndedWrites
<1> DEFINE counts == [c \in Class |-> Cardinality({s \in Student : walk[m][s] = c})]
<1>1. /\ \A s \in due[m] : walk[m][s] # None
      /\ row'[m].last = row[m].pass
      /\ row'[m].clean = (row[m].pass["UNPRICED"] = 0 /\ row[m].pass["PENDING"] = 0)
      /\ \A x \in Month \ {m} : Keeps(x)
  BY <1>0, EndedWrites
<1>2. row[m].pass = counts
  <2>1. row[m].pass \in [Class -> Nat]
    BY <1>1 DEF IInv, TypeOK, RowType
  <2>2. \A c \in Class : row[m].pass[c] = Cardinality({s \in Student : walk[m][s] = c})
    BY <1>1 DEF IInv, Tally
  <2>3. QED
    BY <2>1, <2>2
<1>3. \A c \in Class : row[m].pass[c] = 0 <=> \A s \in Student : walk[m][s] # c
  <2> SUFFICES ASSUME NEW c \in Class
               PROVE  row[m].pass[c] = 0 <=> \A s \in Student : walk[m][s] # c
    OBVIOUS
  <2> DEFINE S == {s \in Student : walk[m][s] = c}
  <2>1. row[m].pass[c] = Cardinality(S)
    BY <1>2
  <2>2. IsFiniteSet(S)
    BY FiniteTables, FS_Subset
  <2>3. Cardinality(S) = 0 <=> S = {}
    BY <2>2, FS_EmptySet
  <2>4. QED
    BY <2>1, <2>3
<1>4. row'[m].clean = (\A s \in Student : walk[m][s] \notin {"UNPRICED", "PENDING"})
  BY <1>1, <1>3 DEF Class
<1>5. /\ [x \in Month |-> row'[x].last] = [[x \in Month |-> row[x].last] EXCEPT ![m] = counts]
      /\ [x \in Month |-> row'[x].clean]
           = [[x \in Month |-> row[x].clean]
                EXCEPT ![m] = (\A s \in Student : walk[m][s] \notin {"UNPRICED", "PENDING"})]
  BY <1>1, <1>2, <1>4 DEF Keeps
<1>6. /\ walk' = [walk EXCEPT ![m] = NotVisited] /\ due' = [due EXCEPT ![m] = enrolled]
      /\ coverage' = coverage
  BY <1>0 DEF Ended, NewPass
<1>7. enrolled \in SUBSET Student /\ due[m] \subseteq enrolled
  BY <1>1 DEF IInv, TypeOK, DueExists
<1>8. Pass!Publish(m)
  <2>1. Pass!Nobody = NotVisited /\ Pass!Class = Class
    BY DEF Pass!Nobody, Pass!Class, NotVisited, Class
  <2>2. \E S \in SUBSET Student : due[m] \subseteq S /\ due' = [due EXCEPT ![m] = S]
    BY <1>6, <1>7
  <2>3. \A s \in due[m] : walk[m][s] # None
    BY <1>1
  <2>4. [c \in Pass!Class |-> Pass!Cardinality({s \in Student : walk[m][s] = c})] = counts
    BY <2>1, SameCardinality
  <2> HIDE DEF counts
  <2>5. QED
    BY <1>5, <1>6, <2>1, <2>2, <2>3, <2>4, Zenon DEF Pass!Publish
<1>9. QED
  BY <1>8 DEF Pass!Next

\* The job implements the contract of GenerationPass.
THEOREM ImplementsPass == Spec => PassContract
<1>1. Init => Pass!Init
  BY InitRefines
<1>2. IInv /\ [Next]_vars => [Pass!Next]_Pass!vars
  <2> SUFFICES ASSUME IInv, [Next]_vars PROVE Pass!Next \/ UNCHANGED Pass!vars
    OBVIOUS
  <2>1. UNCHANGED vars \/ Elsewhere \/ \E r \in Runner : Step(r)
    BY NextStep DEF IInv, GoodRuns
  <2>2. CASE UNCHANGED vars
    BY <2>2 DEF vars, table, history, Pass!vars
  <2>3. CASE Elsewhere
    BY <2>3, QuietRefines DEF Elsewhere
  <2>4. ASSUME NEW r \in Runner, Step(r) PROVE Pass!Next \/ UNCHANGED Pass!vars
    BY <2>4, QuietRefines, SawRefines, EndedRefines DEF Step
  <2>5. QED
    BY <2>1, <2>2, <2>3, <2>4
<1>3. QED
  BY <1>1, <1>2, InvariantHolds, PTL DEF Spec, PassContract, Pass!Spec
=============================================================================
