------------------------- MODULE MonthlyGeneration -------------------------
(***************************************************************************)
(* The monthly-generation job of the dues ledger: overlapping invocations  *)
(* ("runners") walk the students of one organization, one transaction per  *)
(* student, over one progress row per month.  A row is claimed with a      *)
(* lease; every write between the claim and the release is a               *)
(* compare-and-set on the claim's token and on the cursor the runner last  *)
(* committed, and the release compares the token.                          *)
(*                                                                         *)
(* Every database transaction is one action.  A transaction may end in     *)
(* three ways the runner can observe: it commits, it fails and leaves      *)
(* nothing, or it commits and its acknowledgement is lost.  The process    *)
(* may die between any two transactions.                                   *)
(*                                                                         *)
(* Abstractions.  A student id and a month are naturals, ordered as the    *)
(* database orders them.  The token of a claim is the runner's name: a     *)
(* runner has at most one visit open and a dead runner's transaction is    *)
(* rolled back, so a fresh uuid tells nothing more apart.  leaseUntil is   *)
(* kept relative to the database clock: "live" (later than now), "edge"    *)
(* (equal to it) or "free" (earlier, or null).  The elapsed-time budget    *)
(* is reduced to what it guarantees: see StopAtDeadline and EndSlice.      *)
(***************************************************************************)
EXTENDS Integers, FiniteSets, Sequences

CONSTANTS
  Student,          \* student ids, naturals above 0
  Month,            \* coverage months, naturals above 0
  Start,            \* the organization's start month S (deps.generationStart)
  Runner,           \* overlapping invocations of the job
  Poison,           \* students whose transaction kills the process (external)
  PageSize,         \* limits.pageSize
  StudentsPerVisit, \* limits.studentsPerVisit
  DiscoveryLimit,   \* limits.discoveryLimit
  RolloverRows,     \* limits.rolloverRows
  MaxAttempts,      \* limits.maxAttempts
  MaxFaults,        \* bound: crashes, failed or unacknowledged transactions, lost leases
  MaxEnv,           \* bound: changes made by the rest of the application
  None              \* SQL NULL

ASSUME IdsAreOrdered  == Student \subseteq Nat \ {0} /\ Month \subseteq Nat \ {0}
ASSUME FiniteTables   == IsFiniteSet(Student) /\ IsFiniteSet(Month)
ASSUME PoisonStudents == Poison \subseteq Student
ASSUME NoneIsNoRunner == None \notin Runner
ASSUME LimitsPositive == /\ {PageSize, StudentsPerVisit, DiscoveryLimit} \subseteq Nat \ {0}
                         /\ {RolloverRows, MaxAttempts} \subseteq Nat \ {0}
                         /\ MaxFaults \in Nat /\ MaxEnv \in Nat /\ Start \in Nat

VARIABLES
  rows,      \* months that have a DuesGenerationProgress row
  row,       \* the columns of each row
  older,     \* <<a, b>>: a was visited before b ("lastVisitedAt", "id" order)
  coverage,  \* DuesCoverage: what covers a student's month
  enrolled,  \* Student rows, visible to the page read
  standing,  \* what a student's history, plan and configuration decide
  current,   \* current_min: the month every branch has reached
  org,       \* Organization.status and LedgerActivation, as the job sees them
  run,       \* the local variables of each invocation
  faults,    \* faults so far (bounded by MaxFaults)
  env,       \* outside changes so far (bounded by MaxEnv)
  walk,      \* history: the class recorded for each student in the open pass
  due        \* history: students that existed when the open pass began

table   == <<rows, row, older>>
outside == <<enrolled, standing, current, org, env>>
history == <<walk, due>>
vars    == <<table, coverage, outside, run, faults, history>>

Class      == {"INELIGIBLE", "COVERED", "UNPRICED", "PENDING"}
Covers     == {"none", "monthly", "package"}
Standing   == {"INELIGIBLE", "PRICED", "UNPRICED", "MISPRICED", "OVERFLOW"}
OrgState   == {"open", "ledgerOff", "suspended"}
Lease      == {"free", "edge", "live"}
Pc         == {"idle", "discover", "claim", "gate", "rollover", "page", "walk",
               "skip", "record", "passEnd", "release"}
Cursor     == Student \cup {0}                     \* 0 is cursorStudentId NULL
NoCount    == [c \in Class |-> 0]
NotVisited == [s \in Student |-> None]
NewRow     == [cursor |-> 0, token |-> None, lease |-> "free", inFlight |-> 0,
               attempts |-> 0, pass |-> NoCount, last |-> NoCount, clean |-> None]
IdleRun    == [pc |-> "idle", todo |-> <<>>, tried |-> FALSE, claimed |-> FALSE,
               settled |-> {}, month |-> 0, cursor |-> 0, page |-> {},
               processed |-> 0, marked |-> FALSE, unfinished |-> FALSE]
ASSUME NoneIsNoClass == None \notin Class

Visiting   == {"gate", "rollover", "page", "walk", "skip", "record", "passEnd", "release"}

Least(S)        == CHOOSE x \in S : \A y \in S : x <= y
CapAt(n, limit) == IF n > limit THEN limit ELSE n

-----------------------------------------------------------------------------
(* The student's own transaction.                                          *)

\* Mutant: a month the ledger refuses to price is taken for one that is covered.
DecideRefusedAsCovered(s, m) ==
  IF standing[s] = "OVERFLOW" THEN "PENDING"
  ELSE IF standing[s] \in {"INELIGIBLE", "UNPRICED"} THEN standing[s]
  ELSE IF org = "ledgerOff" THEN "PENDING" ELSE "COVERED"

\* eligibleAndAssigned, the configuration lookups and writeMonthlyObligationInTx,
\* as the class the student's visit records.  "OVERFLOW" stands for the failures
\* found before the ledger is asked (history or configuration too large, a student
\* moved or missing, a month its branch has not reached); "UNPRICED" for a missing
\* version or an inactive branch; "MISPRICED" for versions the ledger refuses, which
\* it looks at only for a month nothing covers yet.
Decide(s, m) ==
  IF standing[s] = "OVERFLOW" THEN "PENDING"
  ELSE IF standing[s] \in {"INELIGIBLE", "UNPRICED"} THEN standing[s]
  ELSE IF org = "ledgerOff" THEN "PENDING"
  ELSE IF coverage[s][m] = "none" /\ standing[s] = "MISPRICED" THEN "UNPRICED"
  ELSE "COVERED"

\* writeMonthlyObligationInTx: a month already covered is left as it is; otherwise an
\* active ledger and usable versions give the month an obligation and its coverage.
Writes(s, m) == standing[s] = "PRICED" /\ org # "ledgerOff" /\ coverage[s][m] = "none"
Generate(s, m) ==
  coverage' = IF Writes(s, m) THEN [coverage EXCEPT ![s][m] = "monthly"] ELSE coverage

\* Mutant: the cursor is left one past the student.
CountedPast(m, s, c) == [row[m] EXCEPT !.cursor = s + 1, !.pass[c] = @ + 1]

\* classify and count (advanceInTx, recordFailure): the cursor moves by exactly
\* this student and its class is counted in the same statement.
Counted(m, s, c) ==
  [row[m] EXCEPT !.cursor = s, !.pass[c] = @ + 1]

\* The lease columns.
Leased(columns, token, lease) == [columns EXCEPT !.token = token, !.lease = lease]

\* The marker columns: the student a visit started at, and how often in a row.
InFlight(columns, s, attempts) == [columns EXCEPT !.inFlight = s, !.attempts = attempts]

Recorded(m, s, c) == walk' = [walk EXCEPT ![m][s] = c]

-----------------------------------------------------------------------------
(* Fences.                                                                 *)

\* Mutants: the fence compares the token alone, or the cursor alone.
FencedByToken(r)  == row[run[r].month].token = r
FencedByCursor(r) == row[run[r].month].cursor = run[r].cursor

\* The predicate of every write after the claim: this run's token, and the
\* cursor it last committed.
Fenced(r) ==
  LET m == run[r].month
  IN  row[m].token = r /\ row[m].cursor = run[r].cursor

\* Mutant: the student's transaction does not look at the lease.
FenceRowNoLease(r) == Fenced(r)

\* fenceRow: the student's transaction also requires an unexpired lease.
FenceRow(r) == Fenced(r) /\ row[run[r].month].lease = "live"

Next1(r) == Least(run[r].page)

-----------------------------------------------------------------------------
(* Control of one invocation.                                              *)

\* A database operation of runner r fails: nothing it wrote is kept.
Fault == faults < MaxFaults /\ faults' = faults + 1

\* The rest of the candidate loop after one candidate, with `local` the run so far.
AfterCandidate(local) ==
  LET rest == Tail(local.todo) IN
  IF rest # <<>>
  THEN [local EXCEPT !.pc = "claim", !.todo = rest]
  ELSE IF local.claimed
  THEN [local EXCEPT !.pc = "discover", !.todo = rest]
  ELSE IdleRun

\* The invocation does not claim this month again.
Settled(local) == [local EXCEPT !.settled = @ \cup {local.month}]

\* finish(ended) for a visit that no longer owns its lease: nothing to release.
FencedVisit(r) ==
  run' = [run EXCEPT ![r] = AfterCandidate(Settled(@))]

\* finish(ended) for every other ending: the lease is released next.  Only a
\* slice or a deadline leaves the month open to this invocation.
Finished(local, unfinished) == [local EXCEPT !.pc = "release", !.unfinished = unfinished]
Finish(r, unfinished) == run' = [run EXCEPT ![r] = Finished(@, unfinished)]

\* The cursor moved over student s: on to the next student of the page.
PastStudent(local, s) ==
  [local EXCEPT !.pc = "walk", !.cursor = s, !.page = @ \ {s}, !.processed = @ + 1]
Passed(r, s) == run' = [run EXCEPT ![r] = PastStudent(@, s)]

\* A page is in hand, or there was none; the visit's first student has been marked.
Paged(local, pc, page) == [local EXCEPT !.pc = pc, !.page = page]
MarkerSet(local, pc)   == [local EXCEPT !.marked = TRUE, !.pc = pc]

StartRun(r) ==
  /\ run[r].pc = "idle"
  /\ run' = [run EXCEPT ![r].pc = "discover"]
  /\ UNCHANGED <<table, coverage, outside, faults, history>>

\* The invocation returns: the deadline passed before another visit could be
\* admitted.  The budget admits the first candidate of every invocation.
StopAtDeadline(r) ==
  /\ run[r].pc \in {"discover", "claim"} /\ run[r].tried
  /\ run' = [run EXCEPT ![r] = IdleRun]
  /\ UNCHANGED <<table, coverage, outside, faults, history>>

Claimable(r) == {m \in rows : row[m].lease = "free" /\ m \notin run[r].settled}

\* Discovery: claimable rows, least recently visited first, at most the limit.
Discover(r) ==
  LET found == Claimable(r)
      n     == CapAt(Cardinality(found), DiscoveryLimit)
  IN
  /\ run[r].pc = "discover"
  /\ \E todo \in [1..n -> found] :
       /\ \A i, j \in 1..n : i < j => <<todo[i], todo[j]>> \in older
       /\ \A m \in found : \A i \in 1..n : <<m, todo[i]>> \in older => \E j \in 1..n : todo[j] = m
       /\ run' = [run EXCEPT ![r] =
                    IF n = 0 THEN IdleRun
                    ELSE [@ EXCEPT !.pc = "claim", !.todo = todo, !.claimed = FALSE]]
  /\ UNCHANGED <<table, coverage, outside, faults, history>>

\* Discovery fails: the invocation ends.
DiscoverFails(r) ==
  /\ run[r].pc = "discover"
  /\ Fault
  /\ run' = [run EXCEPT ![r] = IdleRun]
  /\ UNCHANGED <<table, coverage, outside, history>>

\* Mutant: a claim does not record its visit time.
TakeLeaseUnordered(r, m) ==
  /\ row' = [row EXCEPT ![m] = Leased(@, r, "live")]
  /\ UNCHANGED <<rows, older>>

\* What the claim's UPDATE does to the tables.
TakeLease(r, m) ==
  /\ row' = [row EXCEPT ![m] = Leased(@, r, "live")]
  /\ older' = {p \in older : m \notin {p[1], p[2]}} \cup {<<x, m>> : x \in Month \ {m}}
  /\ UNCHANGED rows

\* The claim commits: the visit starts from the cursor the row holds now.
Claim(r) ==
  LET m == Head(run[r].todo) IN
  /\ run[r].pc = "claim"
  /\ row[m].lease = "free"
  /\ TakeLease(r, m)
  /\ run' = [run EXCEPT ![r] =
       [pc |-> "gate", todo |-> @.todo, tried |-> TRUE, claimed |-> TRUE,
        settled |-> @.settled, month |-> m, cursor |-> row[m].cursor, page |-> {},
        processed |-> 0, marked |-> FALSE, unfinished |-> FALSE]]
  /\ UNCHANGED <<coverage, outside, faults, history>>

\* The row was claimed since discovery: the claim returns no row.
ClaimLost(r) ==
  /\ run[r].pc = "claim"
  /\ row[Head(run[r].todo)].lease # "free"
  /\ run' = [run EXCEPT ![r] = AfterCandidate([@ EXCEPT !.tried = TRUE])]
  /\ UNCHANGED <<table, coverage, outside, faults, history>>

\* The claim throws (a lock timeout, a lost acknowledgement): skip the segment.
\* A committed claim nobody knows of keeps the row leased until it expires.
ClaimFails(r) ==
  LET m == Head(run[r].todo) IN
  /\ run[r].pc = "claim"
  /\ Fault
  /\ \/ UNCHANGED table
     \/ row[m].lease = "free" /\ TakeLease(r, m)
  /\ run' = [run EXCEPT ![r] = AfterCandidate([@ EXCEPT !.tried = TRUE])]
  /\ UNCHANGED <<coverage, outside, history>>

\* The organization gate: the organization is ACTIVE, its ledger is active and
\* the month is not before its start month.
Gate(r) ==
  /\ run[r].pc = "gate"
  /\ IF org = "open" /\ run[r].month >= Start
     THEN run' = [run EXCEPT ![r].pc = "rollover"]
     ELSE Finish(r, FALSE)
  /\ UNCHANGED <<table, coverage, outside, faults, history>>

\* Mutant: the months just before the current one, not those after the newest row.
MissingLatest(m) ==
  IF \E x \in rows : x > m THEN {}
  ELSE {x \in Month : m < x /\ x <= current /\ x > current - RolloverRows}

\* The months a visit of month m creates: m is the organization's newest row, and the
\* months after it up to current_min are missing; at most RolloverRows of them.
Missing(m) ==
  IF \E x \in rows : x > m THEN {}
  ELSE {x \in Month : m < x /\ x <= current /\ x <= m + RolloverRows}

\* Rollover never modifies an existing row.
Rollover(r) ==
  LET fresh == Missing(run[r].month) IN
  /\ run[r].pc = "rollover"
  /\ rows' = rows \cup fresh
  /\ due'  = [x \in Month |-> IF x \in fresh THEN enrolled ELSE due[x]]
  /\ run'  = [run EXCEPT ![r].pc = "page"]
  /\ UNCHANGED <<row, older, coverage, outside, faults, walk>>

\* A failed rollover is skipped and the claimed row still processed.
RolloverFails(r) ==
  /\ run[r].pc = "rollover"
  /\ Fault
  /\ run' = [run EXCEPT ![r].pc = "page"]
  /\ UNCHANGED <<table, coverage, outside, history>>

\* A slice's worth of students is done, or the next one would not fit before the
\* deadline.  The admission check reserves a visit's whole entry, so a visit is
\* never cut before its first student.
EndSlice(r) ==
  /\ run[r].pc \in {"page", "walk"}
  /\ run[r].processed > 0
  /\ Finish(r, TRUE)
  /\ UNCHANGED <<table, coverage, outside, faults, history>>

CanContinue(r) == run[r].processed < StudentsPerVisit

\* Mutant: the page starts at the cursor, not after it.
ReadPageFromCursor(r) ==
  LET later == {s \in enrolled : s >= run[r].cursor}
  IN
  /\ run[r].pc = "page" /\ CanContinue(r)
  /\ run' = [run EXCEPT ![r] =
       Paged(@, IF later = {} THEN "passEnd" ELSE "walk",
             {s \in later : Cardinality({x \in later : x < s}) < PageSize})]
  /\ UNCHANGED <<table, coverage, outside, faults, history>>

\* One page of students behind the cursor, by id.  An empty page ends the pass.
ReadPage(r) ==
  LET later == {s \in enrolled : s > run[r].cursor}
  IN
  /\ run[r].pc = "page" /\ CanContinue(r)
  /\ run' = [run EXCEPT ![r] =
       Paged(@, IF later = {} THEN "passEnd" ELSE "walk",
             {s \in later : Cardinality({x \in later : x < s}) < PageSize})]
  /\ UNCHANGED <<table, coverage, outside, faults, history>>

\* The page is used up: read the next one.
NextPage(r) ==
  /\ run[r].pc = "walk" /\ run[r].page = {}
  /\ run' = [run EXCEPT ![r].pc = "page"]
  /\ UNCHANGED <<table, coverage, outside, faults, history>>

\* Mutant: every visit counts as the first attempt.
MarkedAfresh(m, s) == [row EXCEPT ![m] = InFlight(@, s, 1)]

\* Before the visit's first student: count this visit as an attempt at it.
\* (The count is only ever compared with MaxAttempts, so it stops one above.)
Marked(m, s) ==
  [row EXCEPT ![m] = InFlight(@, s, IF @.inFlight = s THEN CapAt(@.attempts + 1, MaxAttempts + 1) ELSE 1)]

MarkInFlight(r) ==
  LET m == run[r].month IN
  /\ run[r].pc = "walk" /\ run[r].page # {} /\ CanContinue(r) /\ ~run[r].marked
  /\ IF Fenced(r)
     THEN /\ row' = Marked(m, Next1(r))
          /\ run' = [run EXCEPT ![r] =
               MarkerSet(@, IF row'[m].attempts > MaxAttempts THEN "skip" ELSE "walk")]
     ELSE FencedVisit(r) /\ UNCHANGED row
  /\ UNCHANGED <<rows, older, coverage, outside, faults, history>>

\* fenceRow, the decision, the writes and advanceInTx commit together.  A process
\* that dies on this student never gets here.
ProcessStudent(r) ==
  LET m == run[r].month
      s == Next1(r)
  IN
  /\ run[r].pc = "walk" /\ run[r].page # {} /\ CanContinue(r) /\ run[r].marked
  /\ s \notin Poison
  /\ IF FenceRow(r)
     THEN /\ Generate(s, m)
          /\ row' = [row EXCEPT ![m] = Counted(m, s, Decide(s, m))]
          /\ Recorded(m, s, Decide(s, m))
          /\ Passed(r, s)
     ELSE FencedVisit(r) /\ UNCHANGED <<coverage, row, walk>>
  /\ UNCHANGED <<rows, older, outside, faults, due>>

\* The student's transaction throws: rolled back, or committed without the
\* runner learning of it.  Either way the runner will record a failure.
StudentThrows(r) ==
  LET m == run[r].month
      s == Next1(r)
  IN
  /\ run[r].pc = "walk" /\ run[r].page # {} /\ CanContinue(r) /\ run[r].marked
  /\ s \notin Poison
  /\ Fault
  /\ \/ UNCHANGED <<coverage, row, walk>>
     \/ /\ FenceRow(r)
        /\ Generate(s, m)
        /\ row' = [row EXCEPT ![m] = Counted(m, s, Decide(s, m))]
        /\ Recorded(m, s, Decide(s, m))
  /\ run' = [run EXCEPT ![r].pc = "record"]
  /\ UNCHANGED <<rows, older, outside, due>>

\* What recordFailure writes: the student is PENDING and passed; a student given
\* up on ("skip") also loses its marker.
FailureRow(r) ==
  LET m == run[r].month
      c == Counted(m, Next1(r), "PENDING")
  IN  [row EXCEPT ![m] = IF run[r].pc = "skip"
                         THEN InFlight(c, 0, 0) ELSE c]

\* recordFailure, acknowledged: one compare-and-set on (token, cursor).
RecordFailure(r) ==
  /\ run[r].pc \in {"skip", "record"}
  /\ IF Fenced(r)
     THEN /\ row' = FailureRow(r)
          /\ Recorded(run[r].month, Next1(r), "PENDING")
          /\ Passed(r, Next1(r))
     ELSE FencedVisit(r) /\ UNCHANGED <<row, walk>>
  /\ UNCHANGED <<rows, older, coverage, outside, faults, due>>

\* Mutants: a pass with PENDING students is clean; the finished pass keeps its cursor;
\* the finished pass keeps its counts.
PassEndRowPendingClean(m) ==
  [row EXCEPT ![m] =
     [@ EXCEPT !.last = row[m].pass, !.clean = (row[m].pass["UNPRICED"] = 0),
               !.cursor = 0, !.pass = NoCount, !.inFlight = 0, !.attempts = 0]]
PassEndRowKeepsCursor(m) ==
  [row EXCEPT ![m] =
     [@ EXCEPT !.last = row[m].pass,
               !.clean = (row[m].pass["UNPRICED"] = 0 /\ row[m].pass["PENDING"] = 0),
               !.pass = NoCount, !.inFlight = 0, !.attempts = 0]]

\* What passEnd writes: the pass's counts become the last finished pass, and a
\* new pass starts.
PassEndRow(m) ==
  [row EXCEPT ![m] =
     [cursor |-> 0, token |-> @.token, lease |-> @.lease, inFlight |-> 0, attempts |-> 0,
      pass |-> NoCount, last |-> @.pass,
      clean |-> (@.pass["UNPRICED"] = 0 /\ @.pass["PENDING"] = 0)]]

NewPass(m) ==
  /\ walk' = [walk EXCEPT ![m] = NotVisited]
  /\ due'  = [due EXCEPT ![m] = enrolled]

PassEnd(r) ==
  LET m == run[r].month IN
  /\ run[r].pc = "passEnd"
  /\ IF Fenced(r)
     THEN row' = PassEndRow(m) /\ NewPass(m) /\ Finish(r, FALSE)
     ELSE FencedVisit(r) /\ UNCHANGED <<row, history>>
  /\ UNCHANGED <<rows, older, coverage, outside, faults>>

\* A gate, page, marker, failure record or pass end whose transaction throws ends
\* the visit; the write may have committed.
StepFails(r) ==
  LET m == run[r].month IN
  /\ Fault
  /\ \/ /\ run[r].pc \in {"gate", "page"}
        /\ UNCHANGED <<row, history>>
     \/ /\ run[r].pc = "walk" /\ run[r].page # {} /\ ~run[r].marked
        /\ row' = row \/ (Fenced(r) /\ row' = Marked(m, Next1(r)))
        /\ UNCHANGED history
     \/ /\ run[r].pc \in {"skip", "record"}
        /\ \/ UNCHANGED <<row, walk>>
           \/ Fenced(r) /\ row' = FailureRow(r) /\ Recorded(m, Next1(r), "PENDING")
        /\ UNCHANGED due
     \/ /\ run[r].pc = "passEnd"
        /\ \/ UNCHANGED <<row, history>>
           \/ Fenced(r) /\ row' = PassEndRow(m) /\ NewPass(m)
  /\ Finish(r, FALSE)
  /\ UNCHANGED <<rows, older, coverage, outside>>

\* release, then the rest of the candidate loop.  A visit that ended at its slice
\* or its deadline may be claimed again by this invocation.
AfterVisit(r) ==
  run' = [run EXCEPT ![r] = AfterCandidate(
            IF run[r].unfinished THEN @ ELSE Settled(@))]

Release(r) ==
  LET m == run[r].month IN
  /\ run[r].pc = "release"
  /\ row' = IF row[m].token = r THEN [row EXCEPT ![m].lease = "edge"] ELSE row
  /\ AfterVisit(r)
  /\ UNCHANGED <<rows, older, coverage, outside, faults, history>>

\* A failed release is swallowed: the lease expires instead.
ReleaseFails(r) ==
  /\ run[r].pc = "release"
  /\ Fault
  /\ AfterVisit(r)
  /\ UNCHANGED <<table, coverage, outside, history>>

-----------------------------------------------------------------------------
(* The environment.                                                        *)

ResetRun(r) == run' = [run EXCEPT ![r] = IdleRun]

\* The process dies between two transactions.
Crash(r) ==
  /\ run[r].pc # "idle"
  /\ Fault
  /\ ResetRun(r)
  /\ UNCHANGED <<table, coverage, outside, history>>

\* The process dies inside the transaction of a student that always kills it.
Dies(r) ==
  /\ run[r].pc = "walk" /\ run[r].page # {} /\ CanContinue(r) /\ run[r].marked
  /\ Next1(r) \in Poison
  /\ ResetRun(r)
  /\ UNCHANGED <<table, coverage, outside, faults, history>>

HeldByVisit(m) == \E r \in Runner : run[r].pc \in Visiting /\ run[r].month = m /\ row[m].token = r

\* The database clock passes leaseUntil.  The lease outlives every invocation
\* that keeps to its own limit, so a visit that loses its lease is a fault.
LeaseRunsOut(m) ==
  /\ row[m].lease # "free"
  /\ row' = [row EXCEPT ![m].lease = IF @ = "live" THEN "edge" ELSE "free"]
  /\ IF row[m].lease = "live" /\ HeldByVisit(m) THEN Fault ELSE UNCHANGED faults
  /\ UNCHANGED <<rows, older, coverage, outside, run, history>>

\* The rest of the application (external to the job), within the bound MaxEnv.
Enrol(s)         == s \notin enrolled /\ enrolled' = enrolled \cup {s}
                    /\ UNCHANGED <<coverage, standing, current, org>>
Restand(s)       == \E v \in Standing \ {standing[s]} : standing' = [standing EXCEPT ![s] = v]
                    /\ UNCHANGED <<coverage, enrolled, current, org>>
Bill(s, m)       == s \in enrolled /\ coverage[s][m] = "none"
                    /\ \E k \in {"monthly", "package"} : coverage' = [coverage EXCEPT ![s][m] = k]
                    /\ UNCHANGED <<enrolled, standing, current, org>>
MonthTurns       == current + 1 \in Month /\ current' = current + 1
                    /\ UNCHANGED <<coverage, enrolled, standing, org>>
OrgChanges       == \E v \in OrgState \ {org} : org' = v
                    /\ UNCHANGED <<coverage, enrolled, standing, current>>
Outside ==
  /\ env < MaxEnv /\ env' = env + 1
  /\ \/ \E s \in Student : Enrol(s) \/ Restand(s)
     \/ \E s \in Student, m \in Month : Bill(s, m)
     \/ MonthTurns
     \/ OrgChanges
  /\ UNCHANGED <<table, run, faults, history>>

-----------------------------------------------------------------------------
InitWith(firstMonth, firstStudents, stand, now) ==
  /\ rows = {firstMonth}
  /\ row = [m \in Month |-> NewRow]
  /\ older = {p \in Month \X Month : p[1] < p[2]}
  /\ coverage = [s \in Student |-> [m \in Month |-> "none"]]
  /\ enrolled = firstStudents
  /\ standing = stand
  /\ current = now
  /\ org = "open"
  /\ run = [r \in Runner |-> IdleRun]
  /\ faults = 0
  /\ env = 0
  /\ walk = [m \in Month |-> NotVisited]
  /\ due = [m \in Month |-> firstStudents]

\* The organization's first progress row (inserted at its activation, external) is
\* for a month its branches have reached; some students exist.
Init ==
  \E now \in Month : \E first \in {m \in Month : m <= now} :
    \E ss \in SUBSET Student : \E stand \in [Student -> Standing] :
      InitWith(first, ss, stand, now)

\* What an invocation does when nothing goes wrong.
Progress(r) ==
  \/ StartRun(r) \/ StopAtDeadline(r) \/ Discover(r) \/ Claim(r) \/ ClaimLost(r)
  \/ Gate(r) \/ Rollover(r) \/ EndSlice(r) \/ ReadPage(r) \/ NextPage(r)
  \/ MarkInFlight(r) \/ ProcessStudent(r) \/ RecordFailure(r) \/ PassEnd(r)
  \/ Release(r) \/ Dies(r)

Failing(r) ==
  \/ DiscoverFails(r) \/ ClaimFails(r) \/ RolloverFails(r) \/ StudentThrows(r)
  \/ StepFails(r) \/ ReleaseFails(r) \/ Crash(r)

Next ==
  \/ \E r \in Runner : Progress(r) \/ Failing(r)
  \/ \E m \in Month : LeaseRunsOut(m)
  \/ Outside

Spec == Init /\ [][Next]_vars

\* The schedule keeps starting invocations (assumed: vercel.json has no entry for
\* this route yet), an invocation that runs keeps running, and a lease nobody is
\* visiting under runs out.  A lease a visit still holds is under no obligation.
Abandoned(m) == LeaseRunsOut(m) /\ ~(row[m].lease = "live" /\ HeldByVisit(m))

Fairness ==
  /\ \A r \in Runner : WF_vars(Progress(r))
  /\ \A m \in Month : WF_vars(Abandoned(m))

LiveSpec == Spec /\ Fairness

-----------------------------------------------------------------------------
(* Type invariant.                                                         *)

RowType == [cursor : Cursor, token : Runner \cup {None}, lease : Lease,
            inFlight : Cursor, attempts : 0..(MaxAttempts + 1),
            pass : [Class -> Nat], last : [Class -> Nat], clean : BOOLEAN \cup {None}]
RunType == [pc : Pc, todo : Seq(Month), tried : BOOLEAN, claimed : BOOLEAN,
            settled : SUBSET Month, month : Month \cup {0}, cursor : Cursor,
            page : SUBSET Student, processed : Nat, marked : BOOLEAN, unfinished : BOOLEAN]

TypeOK ==
  /\ rows \subseteq Month
  /\ row \in [Month -> RowType]
  /\ older \subseteq Month \X Month
  /\ coverage \in [Student -> [Month -> Covers]]
  /\ enrolled \subseteq Student
  /\ standing \in [Student -> Standing]
  /\ current \in Month
  /\ org \in OrgState
  /\ run \in [Runner -> RunType]
  /\ faults \in 0..MaxFaults /\ env \in 0..MaxEnv
  /\ walk \in [Month -> [Student -> Class \cup {None}]]
  /\ due \in [Month -> SUBSET Student]

-----------------------------------------------------------------------------
(* Safety.                                                                 *)

\* The four pass counts of a row are the classes of exactly the students recorded in
\* the open pass, each once: no crash, lost acknowledgement, lost lease or second
\* runner counts a student twice or drops a count (schema.prisma's protocol note).
Tally ==
  \A m \in Month : \A c \in Class :
    row[m].pass[c] = Cardinality({s \in Student : walk[m][s] = c})

\* The cursor is contiguous: everything recorded lies at or before it, and no student
\* that was there when the pass began and lies at or before it has been skipped.
Contiguous ==
  \A m \in Month :
    /\ \A s \in Student : walk[m][s] # None => s <= row[m].cursor
    /\ \A s \in due[m] : s <= row[m].cursor => walk[m][s] # None

\* A student counted COVERED is covered: the obligation, the count and the cursor
\* committed together (advanceInTx inside the student's transaction).
CoveredIsCovered ==
  \A m \in Month, s \in Student : walk[m][s] = "COVERED" => coverage[s][m] # "none"

\* Progress rows are the months from the organization's first row on, without a gap,
\* and never a month some branch has not reached (rollover).
RowsWithoutGap ==
  /\ \A m \in rows : m <= current
  /\ \A x, y \in rows, m \in Month : x < m /\ m < y => m \in rows

\* The job covers a student's month only from under a live lease on that month's row,
\* in the step that moves the cursor forward to the student and counts it COVERED: a
\* runner that lost its row bills nobody.
BilledUnderItsLease ==
  [][\A m \in Month, s \in Student :
       env' = env /\ coverage'[s][m] # coverage[s][m]
       => /\ row[m].lease = "live" /\ row[m].token \in Runner
          /\ run[row[m].token].pc = "walk" /\ run[row[m].token].month = m
          /\ row[m].cursor < s /\ row'[m].cursor = s /\ walk'[m][s] = "COVERED"]_vars

\* The job implements the contract of GenerationPass: every step of every runner, of
\* a crash or of the rest of the application is a step of it, or invisible to it.
Pass == INSTANCE GenerationPass
          WITH seen <- walk, present <- due, covered <- coverage,
               published <- [m \in Month |-> row[m].last],
               clean <- [m \in Month |-> row[m].clean]

PassContract == Pass!Spec

-----------------------------------------------------------------------------
(* The inductive invariant.                                                *)

\* A pass starts with the students that exist.
DueExists == \A m \in Month : due[m] \subseteq enrolled

\* A month without a row has no open pass.
NoRowNoPass == \A m \in Month \ rows : row[m].cursor = 0 /\ walk[m] = NotVisited

\* Where an invocation is in its loop: its candidates and its month have rows, a
\* visit has its candidate at the head of the list, a failure record has its student.
LocatedRun(q) ==
  /\ q.todo \in Seq(rows)
  /\ q.pc \in Visiting => q.month \in rows
  /\ q.pc \in Visiting \cup {"claim"} => q.todo # <<>>
  /\ q.pc \in {"skip", "record"} => q.page # {}
Located == \A r \in Runner : LocatedRun(run[r])

InPass == {"gate", "rollover", "page", "walk", "skip", "record", "passEnd"}

\* While a runner's fence holds, its page is the next part of the walk: the students
\* of the pass it has not reached yet are on the page or behind all of it, and when it
\* found no later student there is none.
PageIsNext ==
  \A r \in Runner :
    LET m == run[r].month IN
    run[r].pc \in InPass /\ Fenced(r) =>
      /\ \A p \in run[r].page : p > run[r].cursor
      /\ \A s \in due[m], p \in run[r].page :
           s > run[r].cursor /\ s \notin run[r].page => p < s
      /\ run[r].pc = "passEnd" => \A s \in due[m] : s <= run[r].cursor

IInv == /\ TypeOK /\ Located /\ Tally /\ Contiguous /\ CoveredIsCovered
        /\ DueExists /\ NoRowNoPass /\ PageIsNext

-----------------------------------------------------------------------------
(* Liveness, under LiveSpec.                                               *)

Settles(s) == /\ org = "open" /\ standing[s] = "PRICED" /\ s \in enrolled

\* A student that stays billable is billed in every month that has a row, whatever
\* happened before: crashes, lost leases, students that kill the process, overlap.
EveryoneBilled ==
  \A s \in Student \ Poison, m \in Month :
    <>[](Settles(s) /\ m \in rows /\ m >= Start) => <>(coverage[s][m] # "none")

\* A student whose transaction always kills the process does not stop its month: the
\* marker gives it up, the pass goes on, and passes keep ending.
PassesKeepEnding ==
  \A m \in Month :
    <>[](org = "open" /\ m \in rows /\ m >= Start /\ enrolled # {})
      => []<>(row[m].cursor = 0) /\ []<>(row[m].cursor # 0)
=============================================================================
