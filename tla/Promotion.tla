------------------------------ MODULE Promotion ------------------------------
(***************************************************************************)
(* The rank of one student: the attendance it is earned with, the awards,  *)
(* corrections and track changes that move it, and the activation that     *)
(* takes the organization's legacy tracks to interval accounting.  What a  *)
(* request reads before its transaction may have changed when it holds     *)
(* the student's lock.                                                     *)
(***************************************************************************)
EXTENDS Naturals, FiniteSets

CONSTANTS
  Track, Legacy,                      \* the tracks, and those that start on legacy accounting
  Rank, TrackOf, NextOf,              \* the catalog of ranks
  ModeOf, MaxStripes, PerStripe, ForExam, Months,
  Destination,                        \* the ranks with degrees a coach may ask for
  Row,                                \* ids of attendance rows, a set of numbers
  Staff,                              \* requests of the staff in flight
  InstantsPerDay, Late,               \* how long after the class a row may come
  MaxNow,                             \* bound on the clock
  None

\* Instants, and the days they are in; attendance rows.
Time == 0..MaxNow + 1

RowType == [source : {"kiosk", "coach"}, at : Time, day : Time, historyOnly : BOOLEAN,
            counts : BOOLEAN, voided : BOOLEAN]

ASSUME PromotionAssumption ==
  /\ Legacy \subseteq Track
  /\ TrackOf \in [Rank -> Track] /\ NextOf \in [Rank -> Rank \cup {None}]
  /\ \A r \in Rank : NextOf[r] # None => TrackOf[NextOf[r]] = TrackOf[r]
  /\ ModeOf \in [Rank -> {"ATTENDANCE", "TIME", "HYBRID", "MANUAL"}]
  /\ {MaxStripes, PerStripe, ForExam, Months} \subseteq [Rank -> Nat]
  /\ Destination \subseteq [rank : Rank, stripes : Nat]
  /\ Row \subseteq Nat /\ {InstantsPerDay, Late, MaxNow} \subseteq Nat /\ InstantsPerDay > 0
  /\ None \notin Track \cup Rank \cup Nat \cup RowType

VARIABLES
  now,
  student,      \* the Student row; active: its status is ACTIVE, and otherwise ARCHIVED
  accounting,   \* PromotionConfig.stripeAccounting, by track
  record,       \* the AttendanceRecord rows, None when not written
  staff,        \* what each request read, and what it is about to write
  earned        \* the attendance rows that promotions keep as their evidence

vars == <<now, student, accounting, record, staff, earned>>

Day(t) == t \div InstantsPerDay

-----------------------------------------------------------------------------
(* Progress. *)

Counting == {i \in Row : record[i] # None /\ ~record[i].voided /\ record[i].counts}

Qualifying == {i \in Counting : ~record[i].historyOnly}

Earlier(i, j) ==
  \/ record[i].at < record[j].at
  \/ record[i].at = record[j].at /\ i < j

\* The rows that are the contribution of their day: the first that qualifies.
isDayContribution(i) ==
  i \in Qualifying /\ \A j \in Qualifying \ {i} : record[j].day = record[i].day => Earlier(i, j)

listContributingDays(from, until) ==
  {i \in Qualifying : isDayContribution(i) /\ from <= record[i].at /\ record[i].at < until}

\* Mutant: one degree more than the rank has.
DegreeTooMany(s) ==
  IF s.stripes <= MaxStripes[s.rank] THEN "STRIPE"
  ELSE IF NextOf[s.rank] = None THEN "NONE" ELSE "BELT"

resolveNextTarget(s) ==
  IF s.stripes < MaxStripes[s.rank] THEN "STRIPE"
  ELSE IF NextOf[s.rank] = None THEN "NONE" ELSE "BELT"

\* The attendances a target asks for, and those there are: days of the interval,
\* or every row since the belt.
Target(s, acc) ==
  LET last == IF resolveNextTarget(s) = "STRIPE" THEN PerStripe[s.rank] ELSE ForExam[s.rank] IN
  IF acc = "PER_INTERVAL" THEN last ELSE s.stripes * PerStripe[s.rank] + last

Count(s, acc, until) ==
  IF acc = "PER_INTERVAL" THEN Cardinality(listContributingDays(s.baseline, until))
  ELSE Cardinality({i \in Counting : s.belt <= record[i].at})

evaluateAttendance(s, acc, until) == Count(s, acc, until) >= Target(s, acc)

evaluateTime(s, at) == s.anchor # None /\ at >= s.anchor + Months[s.rank]

isEligible(s, acc, at, until) ==
  /\ resolveNextTarget(s) # "NONE" /\ ModeOf[s.rank] # "MANUAL"
  /\ ModeOf[s.rank] \in {"ATTENDANCE", "HYBRID"} => evaluateAttendance(s, acc, until)
  /\ ModeOf[s.rank] \in {"TIME", "HYBRID"} => evaluateTime(s, at)

\* By a configuration that was read: now, with no upper bound on the days.
EligibleToday(seen) == isEligible(student, seen[student.track], now, MaxNow + 2)

-----------------------------------------------------------------------------
(* Attendance. *)

NewRow(source, at, day, historyOnly) ==
  [source |-> source, at |-> at, day |-> day, historyOnly |-> historyOnly, counts |-> TRUE, voided |-> FALSE]

\* A check-in, live or from the queue of a tablet.
CheckIn(i, late) ==
  /\ record[i] = None /\ student.active /\ late <= now
  /\ record' = [record EXCEPT ![i] = NewRow("kiosk", now - late, Day(now - late), FALSE)]
  /\ UNCHANGED <<now, student, accounting, staff, earned>>

VoidRow(i) ==
  /\ record[i] # None /\ ~record[i].voided
  /\ record' = [record EXCEPT ![i].voided = TRUE]
  /\ UNCHANGED <<now, student, accounting, staff, earned>>

\* Moved to a class that counts, or to one that does not.
Reassign(i) ==
  /\ record[i] # None /\ ~record[i].voided /\ record[i].source = "kiosk"
  /\ record' = [record EXCEPT ![i].counts = ~@]
  /\ UNCHANGED <<now, student, accounting, staff, earned>>

-----------------------------------------------------------------------------
(* A coach adds a day. *)

Idle == [stage |-> "idle"]

\* A day of which it cannot be known whether the class came before the baseline.
HistoryOnly(d) ==
  /\ accounting[student.track] = "PER_INTERVAL" /\ d = Day(student.baseline)
  /\ student.kind = "AWARD" \/ d # Day(now)

\* The instant of a day: now, its middle, or just before the baseline.
Stamp(d) ==
  IF HistoryOnly(d) THEN IF student.baseline = 0 THEN 0 ELSE student.baseline - 1
  ELSE IF d = Day(now) THEN now ELSE d * InstantsPerDay + InstantsPerDay \div 2

ReadAdjustment(w, d) ==
  /\ staff[w] = Idle /\ student.active /\ d <= Day(now)
  /\ staff' = [staff EXCEPT ![w] = [stage |-> "adding", row |-> NewRow("coach", Stamp(d), d, HistoryOnly(d))]]
  /\ UNCHANGED <<now, student, accounting, record, earned>>

addAttendanceAdjustment(w, i) ==
  /\ staff[w].stage = "adding" /\ record[i] = None
  /\ record' = [record EXCEPT ![i] = staff[w].row]
  /\ staff' = [staff EXCEPT ![w] = Idle]
  /\ UNCHANGED <<now, student, accounting, earned>>

-----------------------------------------------------------------------------
(* Awards, corrections and track changes. *)

Position(s) == [rank |-> s.rank, stripes |-> s.stripes]

\* What the request sets of the student besides the rank: None leaves a field alone.
NoChange == [track |-> None, belt |-> None, anchor |-> None]

Plan(source, to, change, seen) ==
  [stage |-> "planned", source |-> source, from |-> Position(student), to |-> to,
   change |-> change, seen |-> seen, at |-> None, evidence |-> {}]

\* awardPromotion: the status and the configuration of every track.
ReadConfig(w) ==
  /\ staff[w] = Idle /\ student.active
  /\ staff' = [staff EXCEPT ![w] = [stage |-> "awarding", seen |-> accounting]]
  /\ UNCHANGED <<now, student, accounting, record, earned>>

\* Then the position and its attendance, by that configuration, and the target.
ReadAward(w) ==
  /\ staff[w].stage = "awarding" /\ EligibleToday(staff[w].seen)
  /\ LET stripe == resolveNextTarget(student) = "STRIPE" IN
     staff' = [staff EXCEPT ![w] = Plan("MANUAL",
       IF stripe THEN [rank |-> student.rank, stripes |-> student.stripes + 1]
                 ELSE [rank |-> NextOf[student.rank], stripes |-> 0],
       [NoChange EXCEPT !.belt = IF stripe THEN None ELSE now], staff[w].seen)]
  /\ UNCHANGED <<now, student, accounting, record, earned>>

\* correctPromotion: a rank of the student's track, and the dates the coach chose.
ReadCorrection(w, to, change) ==
  /\ staff[w] = Idle /\ student.active
  /\ TrackOf[to.rank] = student.track /\ to.stripes <= MaxStripes[to.rank]
  /\ staff' = [staff EXCEPT ![w] = Plan("CORRECTION", to, change, None)]
  /\ UNCHANGED <<now, student, accounting, record, earned>>

\* changeTrack: a rank of another track.
ReadTrackChange(w, to) ==
  /\ staff[w] = Idle /\ student.active
  /\ TrackOf[to.rank] # student.track /\ to.stripes <= MaxStripes[to.rank]
  /\ staff' = [staff EXCEPT ![w] =
       Plan("TRACK_CHANGE", to, [NoChange EXCEPT !.track = TrackOf[to.rank], !.belt = now], None)]
  /\ UNCHANGED <<now, student, accounting, record, earned>>

Unlocked == \A w \in Staff : staff[w].stage # "locked"

\* Mutant: the student is found under the lock, and the position of the plan kept.
FoundAgain(w) == student.active

FromState(w) == student.active /\ staff[w].from = Position(student)

\* The award instant: never within the interval before.
Boundary == IF now > student.baseline THEN now ELSE student.baseline + 1

\* The check inside the transaction, by the configuration that was read before it.
verifyEligibilityAt(w, at) ==
  staff[w].source = "MANUAL" => isEligible(student, staff[w].seen[student.track], at, at)

\* An award that the days of the interval earn.
ByDays(w) ==
  /\ staff[w].source = "MANUAL" /\ staff[w].seen[student.track] = "PER_INTERVAL"
  /\ ModeOf[student.rank] \in {"ATTENDANCE", "HYBRID"}

Evidence(w, at) == IF ByDays(w) THEN listContributingDays(student.baseline, at) ELSE {}

\* writeAward: the student's lock, the from-state, the instant, the eligibility.
LockStudent(w) ==
  /\ staff[w].stage = "planned" /\ Unlocked /\ Boundary <= MaxNow + 1
  /\ FromState(w) /\ verifyEligibilityAt(w, Boundary)
  /\ staff' = [staff EXCEPT ![w] =
       [@ EXCEPT !.stage = "locked", !.at = Boundary, !.evidence = Evidence(w, Boundary)]]
  /\ UNCHANGED <<now, student, accounting, record, earned>>

\* Mutant: only a change of track restarts the progress, and an award does not.
RestartsTrackOnly(w) == staff[w].source = "TRACK_CHANGE"

Restarts(w) == staff[w].source # "CORRECTION"

Given(value, current) == IF value = None THEN current ELSE value

\* Its writes, and the commit.
writeAward(w) ==
  LET to == staff[w].to
      change == staff[w].change
      Restarted(new, current) == IF Restarts(w) THEN new ELSE current IN
  /\ staff[w].stage = "locked"
  /\ student' = [student EXCEPT
       !.rank = to.rank, !.stripes = to.stripes,
       !.track = Given(change.track, @), !.belt = Given(change.belt, @),
       !.baseline = Restarted(staff[w].at, @), !.kind = Restarted("AWARD", @),
       !.anchor = Given(change.anchor, Restarted(staff[w].at, @))]
  /\ earned' = earned \cup staff[w].evidence
  /\ staff' = [staff EXCEPT ![w] = Idle]
  /\ UNCHANGED <<now, accounting, record>>

\* Refused, or failed, with nothing written.
GiveUp(w) ==
  /\ staff[w].stage # "idle"
  /\ staff' = [staff EXCEPT ![w] = Idle]
  /\ UNCHANGED <<now, student, accounting, record, earned>>

\* archiveStudent; restoreStudent brings an ACTIVE student back as ACTIVE.
SetStatus(active) ==
  /\ student.active # active /\ Unlocked
  /\ student' = [student EXCEPT !.active = active]
  /\ UNCHANGED <<now, accounting, record, staff, earned>>

-----------------------------------------------------------------------------
(* The activation of interval accounting. *)

\* One serializable transaction under the locks of configuration and students, on
\* a clock that is not behind the one of the last award.  The review that must
\* have come before it only refuses, and is left out.
Flipped == {t \in Track : accounting[t] = "CUMULATIVE"}

\* Mutant: every student of the organization starts anew, whatever the track.
BaselineForAll ==
  /\ Unlocked /\ Flipped # {} /\ student.baseline <= now
  /\ accounting' = [t \in Track |-> "PER_INTERVAL"]
  /\ student' = [student EXCEPT !.baseline = now, !.kind = "SYSTEM_BASELINE"]
  /\ UNCHANGED <<now, record, staff, earned>>

activateAccounting ==
  /\ Unlocked /\ Flipped # {} /\ student.baseline <= now
  /\ accounting' = [t \in Track |-> "PER_INTERVAL"]
  /\ student' = IF student.track \in Flipped
                THEN [student EXCEPT !.baseline = now, !.kind = "SYSTEM_BASELINE"] ELSE student
  /\ UNCHANGED <<now, record, staff, earned>>

-----------------------------------------------------------------------------
Tick ==
  /\ now < MaxNow /\ now' = now + 1
  /\ UNCHANGED <<student, accounting, record, staff, earned>>

\* What the coach chose: nothing, or the date of the last award.
Chosen == {NoChange, [NoChange EXCEPT !.anchor = now]}

\* A student registered at time 0, in an organization with its legacy tracks.
Init ==
  /\ now = 0
  /\ student \in [active : {TRUE}, track : Track, rank : Rank, stripes : {0},
                  baseline : {0}, kind : {"SYSTEM_BASELINE"}, belt : {0}, anchor : {None}]
  /\ student.track = TrackOf[student.rank]
  /\ accounting = [t \in Track |-> IF t \in Legacy THEN "CUMULATIVE" ELSE "PER_INTERVAL"]
  /\ record = [i \in Row |-> None]
  /\ staff = [w \in Staff |-> Idle]
  /\ earned = {}

Next ==
  \/ \E i \in Row :
       \/ \E late \in 0..Late : CheckIn(i, late)
       \/ VoidRow(i) \/ Reassign(i)
  \/ \E w \in Staff :
       \/ \E d \in 0..Day(MaxNow) : ReadAdjustment(w, d)
       \/ \E i \in Row : addAttendanceAdjustment(w, i)
       \/ ReadConfig(w) \/ ReadAward(w) \/ LockStudent(w) \/ writeAward(w) \/ GiveUp(w)
       \/ \E to \in Destination :
            ReadTrackChange(w, to) \/ \E change \in Chosen : ReadCorrection(w, to, change)
  \/ (\E active \in BOOLEAN : SetStatus(active))
  \/ activateAccounting \/ Tick

Spec == Init /\ [][Next]_vars

-----------------------------------------------------------------------------
(* Properties. *)

StudentType == [active : BOOLEAN, track : Track, rank : Rank, stripes : Nat, baseline : Time,
                kind : {"AWARD", "SYSTEM_BASELINE"}, belt : Time, anchor : Time \cup {None}]
Accounting == [Track -> {"CUMULATIVE", "PER_INTERVAL"}]
ChangeType == [track : Track \cup {None}, belt : Time \cup {None}, anchor : Time \cup {None}]
PlanType == [stage : {"planned", "locked"}, source : {"MANUAL", "CORRECTION", "TRACK_CHANGE"},
             from : [rank : Rank, stripes : Nat], to : [rank : Rank, stripes : Nat],
             change : ChangeType, seen : Accounting \cup {None},
             at : Time \cup {None}, evidence : SUBSET Row]

RequestType == {Idle} \cup [stage : {"adding"}, row : RowType]
                 \cup [stage : {"awarding"}, seen : Accounting] \cup PlanType

\* The variables have their types; a student never has more degrees than the rank has.
TypeOK ==
  /\ now \in 0..MaxNow
  /\ student \in StudentType /\ student.stripes <= MaxStripes[student.rank]
  /\ accounting \in Accounting
  /\ record \in [Row -> RowType \cup {None}]
  /\ staff \in [Staff -> RequestType]
  /\ earned \subseteq Row

\* Whoever awards, corrects or changes tracks at the same time, what is about to be
\* written starts where the student is by now, and leads to a rank of one track.
HistoryIsAChain ==
  /\ \A w \in Staff :
       staff[w].stage = "locked" => student.active /\ staff[w].from = Position(student)
  /\ TrackOf[student.rank] = student.track

\* The audited evidence of an award by days: as many days as it takes, each of the
\* student's interval, and no attendance that has earned a promotion before.
EvidenceOnce ==
  \A w \in Staff : staff[w].stage = "locked" =>
    LET proof == staff[w].evidence IN
    /\ ByDays(w) => Cardinality({record[i].day : i \in proof}) >= Target(student, "PER_INTERVAL")
    /\ Cardinality({record[i].day : i \in proof}) = Cardinality(proof)
    /\ \A i \in proof : student.baseline <= record[i].at /\ record[i].at < staff[w].at
    /\ proof \cap earned = {}

\* Progress restarts with an award or a track change, or when the student's own
\* track leaves the legacy accounting: with no correction, and no other activation.
ProgressIsKept ==
  [][student'.baseline # student.baseline
       => \/ \E w \in Staff : /\ staff[w].stage = "locked" /\ staff[w].source # "CORRECTION"
                              /\ student'.baseline = staff[w].at
          \/ accounting'[student.track] # accounting[student.track]]_vars

\* award.ts says of the check under the lock that it "is what makes 'eligible'
\* mean eligible at the moment of the write, not at some earlier read".
EligibleAtWrite ==
  [][\A w \in Staff :
       staff[w].stage = "planned" /\ staff'[w].stage = "locked" /\ staff[w].source = "MANUAL"
         => isEligible(student, accounting[student.track], staff'[w].at, staff'[w].at)]_vars
=============================================================================
