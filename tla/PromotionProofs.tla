--------------------------- MODULE PromotionProofs ---------------------------
(***************************************************************************)
(* What holds of a student's rank for any catalog of ranks, any number of  *)
(* requests of the staff and any attendance.                               *)
(***************************************************************************)
EXTENDS Promotion, FiniteSetTheorems, TLAPS

\* A plan leads to degrees its rank has, on the track it starts from unless it is
\* a change of track, which sets the track of the rank it leads to.
Leads(p) ==
  /\ p.to.stripes <= MaxStripes[p.to.rank]
  /\ IF p.source = "TRACK_CHANGE" THEN p.change.track = TrackOf[p.to.rank]
     ELSE p.change.track = None /\ TrackOf[p.to.rank] = TrackOf[p.from.rank]

PlansLead == \A w \in Staff : staff[w].stage \in {"planned", "locked"} => Leads(staff[w])

\* What a request that holds the student's lock is about to write.
Sound(w) ==
  LET p == staff[w] IN
  /\ student.active /\ p.from = Position(student)
  /\ p.at \in Time /\ student.baseline < p.at
  /\ p.evidence # {} => p.source = "MANUAL"
  /\ \A i \in p.evidence :
       record[i] # None /\ student.baseline <= record[i].at /\ record[i].at < p.at
  /\ \A i, j \in p.evidence : record[i].day = record[j].day => i = j
  /\ ByDays(w) => Cardinality(p.evidence) >= Target(student, "PER_INTERVAL")

LocksAreSound ==
  /\ \A w \in Staff : staff[w].stage = "locked" => Sound(w)
  /\ \A v, w \in Staff : staff[v].stage = "locked" /\ staff[w].stage = "locked" => v = w

\* The attendance that has earned a promotion lies before the baseline.
Written == {i \in Row : record[i] # None}

SpentIsPast ==
  /\ IsFiniteSet(Written)
  /\ \A i \in earned : record[i] # None /\ record[i].at < student.baseline

IInv ==
  /\ TypeOK /\ PlansLead /\ LocksAreSound /\ SpentIsPast
  /\ TrackOf[student.rank] = student.track

-----------------------------------------------------------------------------
LEMMA Constants ==
  /\ TrackOf \in [Rank -> Track] /\ NextOf \in [Rank -> Rank \cup {None}]
  /\ \A r \in Rank : NextOf[r] # None => TrackOf[NextOf[r]] = TrackOf[r]
  /\ MaxStripes \in [Rank -> Nat]
  /\ Row \subseteq Nat /\ InstantsPerDay \in Nat \ {0} /\ Late \in Nat /\ MaxNow \in Nat
  /\ None \notin Track /\ None \notin Rank /\ None \notin Nat /\ None \notin RowType
  /\ \A d \in Destination : d \in [rank : Rank, stripes : Nat]
  BY PromotionAssumption

LEMMA InitIsInductive == Init => IInv
  <1> SUFFICES ASSUME Init PROVE IInv
    OBVIOUS
  <1>1. TypeOK
    <2>1. /\ student \in [active : {TRUE}, track : Track, rank : Rank, stripes : {0},
                          baseline : {0}, kind : {"SYSTEM_BASELINE"}, belt : {0}, anchor : {None}]
          /\ now = 0
      BY DEF Init
    <2>2. 0 \in Time
      BY Constants DEF Time
    <2>3. PICK t \in Track, r \in Rank :
            student = [active |-> TRUE, track |-> t, rank |-> r, stripes |-> 0, baseline |-> 0,
                       kind |-> "SYSTEM_BASELINE", belt |-> 0, anchor |-> None]
      BY <2>1
    <2>4. student \in StudentType /\ student.stripes = 0 /\ student.rank \in Rank
      BY <2>2, <2>3 DEF StudentType
    <2>5. MaxStripes[student.rank] \in Nat
      BY <2>4, Constants
    <2>6. staff \in [Staff -> RequestType]
      BY DEF Init, RequestType
    <2>7. QED
      BY <2>1, <2>4, <2>5, <2>6, Constants DEF Init, TypeOK, Accounting
  <1>2. PlansLead /\ LocksAreSound
    BY DEF Init, PlansLead, LocksAreSound, Idle
  <1>3. Written = {} /\ earned = {}
    BY DEF Init, Written
  <1>4. SpentIsPast
    BY <1>3, FS_EmptySet DEF SpentIsPast
  <1>5. QED
    BY <1>1, <1>2, <1>4 DEF IInv, Init

-----------------------------------------------------------------------------
(* Days and instants. *)

LEMMA Days ==
  ASSUME NEW t \in Nat
  PROVE  Day(t) \in Nat /\ Day(t) * InstantsPerDay <= t /\ Day(t) <= t
  BY Constants DEF Day

\* The middle of an earlier day has passed.
LEMMA MiddlesPass ==
  ASSUME NEW d \in Nat, NEW t \in Nat, d < Day(t)
  PROVE  /\ d * InstantsPerDay + InstantsPerDay \div 2 \in Nat
         /\ d * InstantsPerDay + InstantsPerDay \div 2 <= t
  <1>1. InstantsPerDay \div 2 \in Nat /\ InstantsPerDay \div 2 <= InstantsPerDay
    BY Constants
  <1>2. Day(t) \in Nat /\ Day(t) * InstantsPerDay <= t
    BY Days
  <1>3. d * InstantsPerDay + InstantsPerDay <= Day(t) * InstantsPerDay
    BY <1>2, Constants
  <1>4. d * InstantsPerDay \in Nat /\ Day(t) * InstantsPerDay \in Nat
    BY <1>2, Constants
  <1>5. QED
    BY <1>1, <1>2, <1>3, <1>4, Constants

\* A day that is added gets an instant that has passed.
LEMMA StampsPass ==
  ASSUME TypeOK, NEW d \in Nat, d <= Day(now)
  PROVE  Stamp(d) \in Time /\ d \in Time
  <1>1. now \in Nat /\ now <= MaxNow /\ student.baseline \in Nat /\ student.baseline <= MaxNow + 1
    BY Constants DEF TypeOK, StudentType, Time
  <1>2. Day(now) \in Nat /\ Day(now) <= now
    BY <1>1, Days
  <1>3. CASE HistoryOnly(d)
    BY <1>1, <1>2, <1>3, Constants DEF Stamp, Time
  <1>4. CASE ~HistoryOnly(d) /\ d = Day(now)
    BY <1>1, <1>2, <1>4, Constants DEF Stamp, Time
  <1>5. CASE ~HistoryOnly(d) /\ d # Day(now)
    <2>1. /\ d * InstantsPerDay + InstantsPerDay \div 2 \in Nat
          /\ d * InstantsPerDay + InstantsPerDay \div 2 <= now
      BY <1>1, <1>2, <1>5, MiddlesPass
    <2>2. Stamp(d) = d * InstantsPerDay + InstantsPerDay \div 2
      BY <1>5 DEF Stamp
    <2>3. QED
      BY <1>1, <1>2, <2>1, <2>2, Constants DEF Time
  <1>6. QED
    BY <1>3, <1>4, <1>5

-----------------------------------------------------------------------------
(* Types. *)

\* A request is given another stage of its life.
LEMMA RequestsAreTyped ==
  ASSUME TypeOK, NEW w \in Staff,
         NEW p \in RequestType,
         staff' = [staff EXCEPT ![w] = p]
  PROVE  staff' \in [Staff -> RequestType]
  BY DEF TypeOK

\* What a request is, by its stage.
LEMMA Stages ==
  ASSUME TypeOK, NEW w \in Staff
  PROVE  /\ staff[w].stage \in {"idle", "adding", "awarding", "planned", "locked"}
         /\ staff[w].stage = "adding" => staff[w].row \in RowType
         /\ staff[w].stage = "awarding" => staff[w].seen \in Accounting
         /\ staff[w].stage \in {"planned", "locked"} => staff[w] \in PlanType
  BY DEF TypeOK, RequestType, Idle, PlanType

LEMMA NewRowsAreTyped ==
  ASSUME NEW source \in {"kiosk", "coach"}, NEW at \in Time, NEW day \in Time, NEW h \in BOOLEAN
  PROVE  NewRow(source, at, day, h) \in RowType
  BY DEF NewRow, RowType

LEMMA PlansAreTyped ==
  ASSUME TypeOK, NEW source \in {"MANUAL", "CORRECTION", "TRACK_CHANGE"},
         NEW to \in [rank : Rank, stripes : Nat], NEW change \in ChangeType,
         NEW seen \in Accounting \cup {None}
  PROVE  /\ Plan(source, to, change, seen) \in PlanType
         /\ Plan(source, to, change, seen).stage = "planned"
  <1>1. student.rank \in Rank /\ student.stripes \in Nat
    BY DEF TypeOK, StudentType
  <1>2. Position(student) \in [rank : Rank, stripes : Nat]
    BY <1>1 DEF Position
  <1>3. QED
    BY <1>2 DEF Plan, PlanType

LEMMA ChangesAreTyped ==
  ASSUME NEW track \in Track \cup {None}, NEW t \in Time \cup {None}
  PROVE  /\ [NoChange EXCEPT !.belt = t] \in ChangeType
         /\ [NoChange EXCEPT !.belt = t].track = None
         /\ [NoChange EXCEPT !.anchor = t] \in ChangeType
         /\ [NoChange EXCEPT !.anchor = t].track = None
         /\ NoChange \in ChangeType /\ NoChange.track = None
         /\ [NoChange EXCEPT !.track = track, !.belt = t] \in ChangeType
         /\ [NoChange EXCEPT !.track = track, !.belt = t].track = track
  BY DEF NoChange, ChangeType

\* What the plan of an award is.
LEMMA AwardsArePlanned ==
  ASSUME IInv, NEW w \in Staff, ReadAward(w)
  PROVE  \E p \in PlanType : staff' = [staff EXCEPT ![w] = p] /\ p.stage = "planned" /\ Leads(p)
  <1> DEFINE stripe == resolveNextTarget(student) = "STRIPE"
             to     == IF stripe THEN [rank |-> student.rank, stripes |-> student.stripes + 1]
                                 ELSE [rank |-> NextOf[student.rank], stripes |-> 0]
             change == [NoChange EXCEPT !.belt = IF stripe THEN None ELSE now]
             p      == Plan("MANUAL", to, change, staff[w].seen)
  <1>0. /\ TypeOK /\ now \in Time /\ student.rank \in Rank /\ student.stripes \in Nat
    BY Constants DEF IInv, TypeOK, StudentType, Time
  <1>s. staff[w].seen \in Accounting
    BY <1>0, Stages DEF ReadAward
  <1>1. staff' = [staff EXCEPT ![w] = p]
    BY DEF ReadAward
  <1>2. change \in ChangeType /\ change.track = None
    BY <1>0, ChangesAreTyped
  <1>3. /\ to \in [rank : Rank, stripes : Nat] /\ to.stripes <= MaxStripes[to.rank]
        /\ TrackOf[to.rank] = TrackOf[student.rank]
    <2>1. CASE stripe
      <3>1. student.stripes < MaxStripes[student.rank]
        BY <2>1 DEF resolveNextTarget
      <3>2. QED
        BY <1>0, <2>1, <3>1, Constants
    <2>2. CASE ~stripe
      <3>1. NextOf[student.rank] # None
        BY <2>2 DEF ReadAward, EligibleToday, isEligible, resolveNextTarget
      <3>2. QED
        BY <1>0, <2>2, <3>1, Constants
    <2>3. QED
      BY <2>1, <2>2
  <1> HIDE DEF stripe, to, change
  <1>4. p \in PlanType /\ p.stage = "planned"
    BY <1>0, <1>s, <1>2, <1>3, PlansAreTyped
  <1>5. Leads(p)
    BY <1>2, <1>3 DEF Leads, Plan, Position
  <1>6. QED
    BY <1>1, <1>4, <1>5

LEMMA CorrectionsArePlanned ==
  ASSUME IInv, NEW w \in Staff, NEW to \in Destination, NEW change \in Chosen,
         ReadCorrection(w, to, change)
  PROVE  \E p \in PlanType : staff' = [staff EXCEPT ![w] = p] /\ p.stage = "planned" /\ Leads(p)
  <1> DEFINE p == Plan("CORRECTION", to, change, None)
  <1>0. /\ TypeOK /\ now \in Time /\ TrackOf[student.rank] = student.track
        /\ to \in [rank : Rank, stripes : Nat]
    BY Constants DEF IInv, TypeOK, Time
  <1>1. change \in ChangeType /\ change.track = None
    BY <1>0, ChangesAreTyped DEF Chosen
  <1>2. p \in PlanType /\ p.stage = "planned"
    BY <1>0, <1>1, PlansAreTyped
  <1>3. Leads(p)
    BY <1>0, <1>1 DEF ReadCorrection, Leads, Plan, Position
  <1>4. QED
    BY <1>2, <1>3 DEF ReadCorrection

LEMMA TrackChangesArePlanned ==
  ASSUME IInv, NEW w \in Staff, NEW to \in Destination, ReadTrackChange(w, to)
  PROVE  \E p \in PlanType : staff' = [staff EXCEPT ![w] = p] /\ p.stage = "planned" /\ Leads(p)
  <1> DEFINE change == [NoChange EXCEPT !.track = TrackOf[to.rank], !.belt = now]
             p      == Plan("TRACK_CHANGE", to, change, None)
  <1>0. /\ TypeOK /\ now \in Time /\ to \in [rank : Rank, stripes : Nat]
        /\ TrackOf[to.rank] \in Track
    BY Constants DEF IInv, TypeOK, Time
  <1>1. change \in ChangeType /\ change.track = TrackOf[to.rank]
    BY <1>0, ChangesAreTyped
  <1>2. staff' = [staff EXCEPT ![w] = p]
    BY DEF ReadTrackChange
  <1> HIDE DEF change
  <1>3. p \in PlanType /\ p.stage = "planned"
    BY <1>0, <1>1, PlansAreTyped
  <1>4. Leads(p)
    BY <1>1 DEF ReadTrackChange, Leads, Plan
  <1>5. QED
    BY <1>2, <1>3, <1>4

-----------------------------------------------------------------------------
(* Steps that neither lock the student nor write it. *)

\* Attendance that was written keeps its instant and its day.
RowsAreKept ==
  \A i \in Row : record[i] # None =>
    record'[i] # None /\ record'[i].at = record[i].at /\ record'[i].day = record[i].day

LEMMA CalmStep ==
  ASSUME IInv, TypeOK', UNCHANGED <<student, earned>>, RowsAreKept, IsFiniteSet(Written'),
         \A w \in Staff : \/ staff'[w] = staff[w]
                          \/ staff'[w].stage \in {"idle", "adding", "awarding"}
                          \/ staff'[w].stage = "planned" /\ Leads(staff'[w])
  PROVE  IInv'
  <1>0. TypeOK /\ PlansLead /\ LocksAreSound /\ SpentIsPast /\ TrackOf[student.rank] = student.track
    BY DEF IInv
  <1>1. PlansLead'
    BY <1>0 DEF PlansLead, Leads
  <1>2. ASSUME NEW w \in Staff, staff'[w].stage = "locked"
        PROVE  staff'[w] = staff[w] /\ Sound(w)'
    <2>1. staff'[w] = staff[w] /\ Sound(w)
      BY <1>0, <1>2 DEF LocksAreSound
    <2>2. staff[w] \in PlanType
      BY <1>0, <1>2, <2>1, Stages
    <2>3. staff[w].evidence \subseteq Row
      BY <2>2 DEF PlanType
    <2>4. ByDays(w)' <=> ByDays(w)
      BY <2>1 DEF ByDays
    <2>5. Target(student, "PER_INTERVAL")' = Target(student, "PER_INTERVAL")
      BY DEF Target, resolveNextTarget
    <2>6. \A i \in staff[w].evidence :
            /\ record'[i] # None /\ record'[i].at = record[i].at /\ record'[i].day = record[i].day
      BY <2>1, <2>3 DEF RowsAreKept, Sound
    <2>7. QED
      BY <2>1, <2>4, <2>5, <2>6 DEF Sound, Position
  <1>3. LocksAreSound'
    BY <1>0, <1>2 DEF LocksAreSound
  <1>4. SpentIsPast'
    <2>1. earned \subseteq Row
      BY <1>0 DEF TypeOK
    <2>2. QED
      BY <1>0, <2>1 DEF SpentIsPast, RowsAreKept
  <1>5. QED
    BY <1>0, <1>1, <1>3, <1>4 DEF IInv

\* A row is written, or one that was written is changed.
LEMMA RowStep ==
  ASSUME IInv, NEW i \in Row, NEW row \in RowType, record' = [record EXCEPT ![i] = row],
         record[i] # None => row.at = record[i].at /\ row.day = record[i].day
  PROVE  /\ record' \in [Row -> RowType \cup {None}] /\ RowsAreKept /\ IsFiniteSet(Written')
  <1>0. TypeOK /\ IsFiniteSet(Written)
    BY DEF IInv, SpentIsPast
  <1>1. record' \in [Row -> RowType \cup {None}] /\ row # None
    BY <1>0, Constants DEF TypeOK
  <1>2. RowsAreKept
    BY <1>0, <1>1 DEF TypeOK, RowsAreKept
  <1>3. Written' \subseteq Written \cup {i}
    BY <1>0 DEF TypeOK, Written
  <1>4. QED
    BY <1>0, <1>1, <1>2, <1>3, FS_AddElement, FS_Subset

LEMMA AttendanceStep ==
  ASSUME IInv, NEW i \in Row,
         (\E late \in 0..Late : CheckIn(i, late)) \/ VoidRow(i) \/ Reassign(i)
  PROVE  IInv'
  <1>0. TypeOK /\ now \in Nat /\ now <= MaxNow
    BY Constants DEF IInv, TypeOK
  <1>1. ASSUME NEW row \in RowType, record' = [record EXCEPT ![i] = row],
               record[i] # None => row.at = record[i].at /\ row.day = record[i].day,
               UNCHANGED <<now, student, accounting, staff, earned>>
        PROVE  IInv'
    <2>1. record' \in [Row -> RowType \cup {None}] /\ RowsAreKept /\ IsFiniteSet(Written')
      BY <1>1, RowStep
    <2>2. TypeOK'
      BY <1>0, <1>1, <2>1 DEF TypeOK
    <2>3. QED
      BY <1>1, <2>1, <2>2, CalmStep
  <1>2. ASSUME NEW late \in 0..Late, CheckIn(i, late) PROVE IInv'
    <2>1. now - late \in Nat /\ now - late <= now
      BY <1>0, <1>2, Constants DEF CheckIn
    <2>2. now - late \in Time /\ Day(now - late) \in Time
      BY <1>0, <2>1, Days, Constants DEF Time
    <2>3. NewRow("kiosk", now - late, Day(now - late), FALSE) \in RowType
      BY <2>2, NewRowsAreTyped
    <2>4. QED
      BY <1>1, <1>2, <2>3 DEF CheckIn
  <1>3. CASE VoidRow(i)
    <2>1. record[i] \in RowType
      BY <1>0, <1>3 DEF VoidRow, TypeOK
    <2>2. /\ [record[i] EXCEPT !.voided = TRUE] \in RowType
          /\ [record[i] EXCEPT !.voided = TRUE].at = record[i].at
          /\ [record[i] EXCEPT !.voided = TRUE].day = record[i].day
      BY <2>1 DEF RowType
    <2>3. record' = [record EXCEPT ![i] = [record[i] EXCEPT !.voided = TRUE]]
      BY <1>0, <1>3 DEF VoidRow, TypeOK
    <2>4. QED
      BY <1>1, <1>3, <2>2, <2>3 DEF VoidRow
  <1>4. CASE Reassign(i)
    <2>1. record[i] \in RowType
      BY <1>0, <1>4 DEF Reassign, TypeOK
    <2> DEFINE row == [record[i] EXCEPT !.counts = ~record[i].counts]
    <2>2. row \in RowType /\ row.at = record[i].at /\ row.day = record[i].day
      BY <2>1 DEF RowType
    <2>3. record' = [record EXCEPT ![i] = row]
      BY <1>0, <1>4 DEF Reassign, TypeOK
    <2> HIDE DEF row
    <2>4. QED
      BY <1>1, <1>4, <2>2, <2>3 DEF Reassign
  <1>5. QED
    BY <1>2, <1>3, <1>4

\* A request that is given a stage in which it holds no lock.
Free(p) == p.stage \in {"idle", "adding", "awarding"} \/ (p.stage = "planned" /\ Leads(p))

LEMMA RequestStep ==
  ASSUME IInv, NEW w \in Staff,
         NEW p \in RequestType,
         staff' = [staff EXCEPT ![w] = p],
         Free(p), UNCHANGED <<now, student, accounting, earned>>,
         record' = record \/ /\ record' \in [Row -> RowType \cup {None}]
                             /\ RowsAreKept /\ IsFiniteSet(Written')
  PROVE  IInv'
  <1>0. TypeOK /\ IsFiniteSet(Written)
    BY DEF IInv, SpentIsPast
  <1>1. staff' \in [Staff -> RequestType]
    BY <1>0, RequestsAreTyped
  <1>2. record' \in [Row -> RowType \cup {None}] /\ RowsAreKept /\ IsFiniteSet(Written')
    BY <1>0 DEF TypeOK, RowsAreKept, Written
  <1>3. TypeOK'
    BY <1>0, <1>1, <1>2 DEF TypeOK
  <1>4. \A v \in Staff : staff'[v] = staff[v] \/ staff'[v] = p
    BY <1>0 DEF TypeOK
  <1>5. QED
    BY <1>2, <1>3, <1>4, CalmStep DEF Free

LEMMA UnplannedStep ==
  ASSUME IInv, NEW w \in Staff,
         \/ \E d \in 0..Day(MaxNow) : ReadAdjustment(w, d)
         \/ \E i \in Row : addAttendanceAdjustment(w, i)
         \/ ReadConfig(w) \/ GiveUp(w)
  PROVE  IInv'
  <1>0. TypeOK /\ Free(Idle) /\ Idle \in RequestType
    <2>1. Idle.stage = "idle"
      BY DEF Idle
    <2>2. QED
      BY <2>1 DEF IInv, Free, RequestType
  <1>1. ASSUME NEW d \in 0..Day(MaxNow), ReadAdjustment(w, d) PROVE IInv'
    <2>1. d \in Nat
      BY Days, Constants
    <2>2. Stamp(d) \in Time /\ d \in Time /\ HistoryOnly(d) \in BOOLEAN
      BY <1>0, <1>1, <2>1, StampsPass DEF ReadAdjustment, HistoryOnly
    <2>3. NewRow("coach", Stamp(d), d, HistoryOnly(d)) \in RowType
      BY <2>2, NewRowsAreTyped
    <2> DEFINE p == [stage |-> "adding", row |-> NewRow("coach", Stamp(d), d, HistoryOnly(d))]
    <2>4. p \in RequestType /\ p.stage = "adding"
      BY <2>3 DEF RequestType
    <2>5. /\ staff' = [staff EXCEPT ![w] = p] /\ record' = record
          /\ UNCHANGED <<now, student, accounting, earned>>
      BY <1>1 DEF ReadAdjustment
    <2> HIDE DEF p
    <2>6. Free(p)
      BY <2>4 DEF Free
    <2>7. QED
      BY <2>4, <2>5, <2>6, RequestStep
  <1>2. ASSUME NEW i \in Row, addAttendanceAdjustment(w, i) PROVE IInv'
    <2>1. staff[w].row \in RowType
      BY <1>0, <1>2, Stages DEF addAttendanceAdjustment
    <2>2. record' \in [Row -> RowType \cup {None}] /\ RowsAreKept /\ IsFiniteSet(Written')
      BY <1>2, <2>1, RowStep DEF addAttendanceAdjustment
    <2>3. staff' = [staff EXCEPT ![w] = Idle] /\ UNCHANGED <<now, student, accounting, earned>>
      BY <1>2 DEF addAttendanceAdjustment
    <2> HIDE DEF Idle
    <2>4. QED
      BY <1>0, <2>2, <2>3, RequestStep
  <1>3. CASE GiveUp(w)
    <2>1. staff' = [staff EXCEPT ![w] = Idle] /\ UNCHANGED <<now, student, accounting, record, earned>>
      BY <1>3 DEF GiveUp
    <2>2. QED
      BY <1>0, <2>1, RequestStep
  <1>4. CASE ReadConfig(w)
    <2> DEFINE p == [stage |-> "awarding", seen |-> accounting]
    <2>1. p \in RequestType /\ p.stage = "awarding"
      BY <1>0 DEF RequestType, TypeOK
    <2>2. staff' = [staff EXCEPT ![w] = p] /\ UNCHANGED <<now, student, accounting, record, earned>>
      BY <1>4 DEF ReadConfig
    <2> HIDE DEF p
    <2>3. Free(p)
      BY <2>1 DEF Free
    <2>4. QED
      BY <2>1, <2>2, <2>3, RequestStep
  <1>5. QED
    BY <1>1, <1>2, <1>3, <1>4

LEMMA PlanStep ==
  ASSUME IInv, NEW w \in Staff,
         \/ ReadAward(w)
         \/ \E to \in Destination :
              ReadTrackChange(w, to) \/ \E change \in Chosen : ReadCorrection(w, to, change)
  PROVE  IInv'
  <1>1. PICK p \in PlanType : staff' = [staff EXCEPT ![w] = p] /\ p.stage = "planned" /\ Leads(p)
    BY AwardsArePlanned, CorrectionsArePlanned, TrackChangesArePlanned
  <1>2. UNCHANGED <<now, student, accounting, record, earned>>
    BY DEF ReadAward, ReadTrackChange, ReadCorrection
  <1>3. p \in RequestType /\ Free(p)
    BY <1>1 DEF RequestType, Free
  <1>4. QED
    BY <1>1, <1>2, <1>3, RequestStep

-----------------------------------------------------------------------------
(* The lock, and what is written under it. *)

\* No two rows are the contribution of one day.
LEMMA OnePerDay ==
  ASSUME TypeOK, NEW i \in Row, NEW j \in Row, isDayContribution(i), isDayContribution(j),
         record[i].day = record[j].day
  PROVE  i = j
  <1>1. record[i] \in RowType /\ record[j] \in RowType /\ i \in Nat /\ j \in Nat
    BY Constants DEF TypeOK, isDayContribution, Qualifying, Counting
  <1>2. record[i].at \in Nat /\ record[j].at \in Nat
    BY <1>1, Constants DEF RowType, Time
  <1>3. i # j => Earlier(i, j) /\ Earlier(j, i)
    BY DEF isDayContribution, Qualifying
  <1>4. QED
    BY <1>1, <1>2, <1>3 DEF Earlier

\* What is read under the lock.
LEMMA EvidenceIsSound ==
  ASSUME IInv, NEW w \in Staff, LockStudent(w)
  PROVE  LET at == Boundary
             proof == Evidence(w, at)
         IN  /\ at \in Time /\ student.baseline < at
             /\ proof \subseteq Row
             /\ proof # {} => staff[w].source = "MANUAL"
             /\ \A i \in proof : record[i] # None /\ student.baseline <= record[i].at /\ record[i].at < at
             /\ \A i, j \in proof : record[i].day = record[j].day => i = j
             /\ ByDays(w) => Cardinality(proof) >= Target(student, "PER_INTERVAL")
  <1> DEFINE at == Boundary
             proof == Evidence(w, at)
  <1>0. TypeOK
    BY DEF IInv
  <1>1. at \in Time /\ student.baseline < at
    <2>1. now \in Nat /\ student.baseline \in Nat
      BY <1>0, Constants DEF TypeOK, StudentType, Time
    <2>2. Boundary <= MaxNow + 1
      BY DEF LockStudent
    <2>3. QED
      BY <2>1, <2>2, Constants DEF Boundary, Time
  <1> HIDE DEF at
  <1>2. ASSUME NEW i \in proof
        PROVE  /\ i \in Row /\ isDayContribution(i) /\ staff[w].source = "MANUAL"
               /\ record[i] # None /\ student.baseline <= record[i].at /\ record[i].at < at
    BY DEF Evidence, ByDays, listContributingDays, Qualifying, Counting
  <1>3. \A i, j \in proof : record[i].day = record[j].day => i = j
    BY <1>0, <1>2, OnePerDay
  <1>4. ASSUME ByDays(w) PROVE Cardinality(proof) >= Target(student, "PER_INTERVAL")
    <2>1. isEligible(student, "PER_INTERVAL", at, at)
      BY <1>4 DEF LockStudent, verifyEligibilityAt, ByDays, at
    <2>2. evaluateAttendance(student, "PER_INTERVAL", at)
      BY <1>4, <2>1 DEF isEligible, ByDays
    <2>3. proof = listContributingDays(student.baseline, at)
      BY <1>4 DEF Evidence
    <2>4. QED
      BY <2>2, <2>3 DEF evaluateAttendance, Count
  <1>5. QED
    BY <1>1, <1>2, <1>3, <1>4 DEF at

LEMMA LockStep ==
  ASSUME IInv, NEW w \in Staff, LockStudent(w)
  PROVE  IInv'
  <1> DEFINE p == [staff[w] EXCEPT !.stage = "locked", !.at = Boundary, !.evidence = Evidence(w, Boundary)]
  <1>0. /\ TypeOK /\ PlansLead /\ LocksAreSound /\ SpentIsPast /\ TrackOf[student.rank] = student.track
        /\ staff[w] \in PlanType /\ staff[w].stage = "planned"
    BY Stages DEF IInv, LockStudent
  <1>1. /\ staff' = [staff EXCEPT ![w] = p] /\ UNCHANGED <<now, student, accounting, record, earned>>
        /\ student.active /\ staff[w].from = Position(student)
    BY DEF LockStudent, FromState
  <1>2. /\ Boundary \in Time /\ student.baseline < Boundary /\ Evidence(w, Boundary) \subseteq Row
        /\ Evidence(w, Boundary) # {} => staff[w].source = "MANUAL"
        /\ \A i \in Evidence(w, Boundary) :
             record[i] # None /\ student.baseline <= record[i].at /\ record[i].at < Boundary
        /\ \A i, j \in Evidence(w, Boundary) : record[i].day = record[j].day => i = j
        /\ ByDays(w) => Cardinality(Evidence(w, Boundary)) >= Target(student, "PER_INTERVAL")
    BY EvidenceIsSound
  <1>3. /\ p \in PlanType /\ p.stage = "locked" /\ p.at = Boundary /\ p.evidence = Evidence(w, Boundary)
        /\ p.from = staff[w].from /\ p.to = staff[w].to /\ p.change = staff[w].change
        /\ p.source = staff[w].source /\ p.seen = staff[w].seen
    BY <1>0, <1>2 DEF PlanType
  <1> HIDE DEF p
  <1>4. TypeOK'
    <2>1. p \in RequestType
      BY <1>3 DEF RequestType
    <2>2. QED
      BY <1>0, <1>1, <2>1, RequestsAreTyped DEF TypeOK
  <1>5. staff'[w] = p /\ \A v \in Staff \ {w} : staff'[v] = staff[v] /\ staff[v].stage # "locked"
    BY <1>0, <1>1 DEF TypeOK, LockStudent, Unlocked
  <1>6. PlansLead'
    BY <1>0, <1>3, <1>5 DEF PlansLead, Leads
  <1>7. Sound(w)'
    <2>1. ByDays(w)' <=> ByDays(w)
      BY <1>1, <1>3, <1>5 DEF ByDays
    <2>2. Target(student, "PER_INTERVAL")' = Target(student, "PER_INTERVAL")
      BY <1>1 DEF Target, resolveNextTarget
    <2>3. QED
      BY <1>1, <1>2, <1>3, <1>5, <2>1, <2>2 DEF Sound, Position
  <1>8. LocksAreSound'
    BY <1>5, <1>7 DEF LocksAreSound
  <1>9. SpentIsPast'
    BY <1>0, <1>1 DEF SpentIsPast, Written
  <1>10. QED
    BY <1>0, <1>1, <1>4, <1>6, <1>8, <1>9 DEF IInv

LEMMA AwardStep ==
  ASSUME IInv, NEW w \in Staff, writeAward(w)
  PROVE  IInv'
  <1> DEFINE p == staff[w]
  <1>0. /\ TypeOK /\ PlansLead /\ LocksAreSound /\ SpentIsPast /\ TrackOf[student.rank] = student.track
        /\ p \in PlanType /\ p.stage = "locked" /\ Sound(w) /\ Leads(p)
        /\ student \in StudentType
    BY Stages DEF IInv, TypeOK, writeAward, LocksAreSound, PlansLead
  <1>1. /\ earned' = earned \cup p.evidence /\ staff' = [staff EXCEPT ![w] = Idle]
        /\ UNCHANGED <<now, accounting, record>>
    BY DEF writeAward
  <1>2. /\ p.source \in {"MANUAL", "CORRECTION", "TRACK_CHANGE"}
        /\ p.to.rank \in Rank /\ p.to.stripes \in Nat /\ p.at \in Time /\ p.evidence \subseteq Row
        /\ p.change.track \in Track \cup {None} /\ p.change.belt \in Time \cup {None}
        /\ p.change.anchor \in Time \cup {None}
    BY <1>0 DEF PlanType, ChangeType, Sound
  <1>3. /\ student'.rank = p.to.rank /\ student'.stripes = p.to.stripes
        /\ student'.track = IF p.change.track = None THEN student.track ELSE p.change.track
        /\ student'.baseline = IF p.source = "CORRECTION" THEN student.baseline ELSE p.at
        /\ student' \in StudentType
    <2> DEFINE track    == Given(p.change.track, student.track)
               belt     == Given(p.change.belt, student.belt)
               baseline == IF Restarts(w) THEN p.at ELSE student.baseline
               kind     == IF Restarts(w) THEN "AWARD" ELSE student.kind
               anchor   == Given(p.change.anchor, IF Restarts(w) THEN p.at ELSE student.anchor)
    <2>1. /\ track \in Track /\ belt \in Time /\ baseline \in Time
          /\ kind \in {"AWARD", "SYSTEM_BASELINE"} /\ anchor \in Time \cup {None}
          /\ track = IF p.change.track = None THEN student.track ELSE p.change.track
          /\ baseline = IF p.source = "CORRECTION" THEN student.baseline ELSE p.at
      BY <1>0, <1>2 DEF StudentType, Given, Restarts
    <2>2. student' = [student EXCEPT !.rank = p.to.rank, !.stripes = p.to.stripes, !.track = track,
                        !.belt = belt, !.baseline = baseline, !.kind = kind, !.anchor = anchor]
      BY <1>0 DEF writeAward, StudentType
    <2> HIDE DEF track, belt, baseline, kind, anchor, p
    <2>3. student' = [active |-> student.active, track |-> track, rank |-> p.to.rank,
                      stripes |-> p.to.stripes, baseline |-> baseline, kind |-> kind, belt |-> belt,
                      anchor |-> anchor]
      BY <1>0, <2>2 DEF StudentType
    <2>4. student.active \in BOOLEAN
      BY <1>0 DEF StudentType
    <2>5. QED
      BY <1>2, <2>1, <2>3, <2>4 DEF StudentType
  <1>4. TypeOK'
    <2>1. student'.stripes <= MaxStripes[student'.rank]
      BY <1>0, <1>3 DEF Leads
    <2>2. Idle \in RequestType
      BY DEF RequestType
    <2>3. QED
      BY <1>0, <1>1, <1>2, <1>3, <2>1, <2>2, RequestsAreTyped DEF TypeOK
  <1>5. \A v \in Staff : staff'[v].stage # "locked" /\ (staff'[v] = staff[v] \/ staff'[v].stage = "idle")
    <2>1. \A v \in Staff \ {w} : staff[v].stage # "locked"
      BY <1>0 DEF LocksAreSound
    <2>2. QED
      BY <1>0, <1>1, <2>1 DEF TypeOK, Idle
  <1>6. PlansLead'
    BY <1>0, <1>5 DEF PlansLead, Leads
  <1>7. LocksAreSound'
    BY <1>5 DEF LocksAreSound
  <1>8. SpentIsPast'
    <2>1. \A i \in p.evidence : record[i] # None /\ record[i].at < p.at /\ p.source = "MANUAL"
      BY <1>0 DEF Sound
    <2>2. student.baseline < p.at /\ student.baseline \in Nat /\ p.at \in Nat
      BY <1>0, <1>2, Constants DEF Sound, StudentType, Time
    <2>3. ASSUME NEW i \in earned PROVE record[i] # None /\ record[i].at < student'.baseline
      <3>1. record[i] \in RowType /\ record[i].at < student.baseline
        BY <1>0 DEF SpentIsPast, TypeOK
      <3>2. record[i].at \in Nat
        BY <3>1, Constants DEF RowType, Time
      <3>3. QED
        BY <1>0, <1>3, <2>2, <3>1, <3>2 DEF SpentIsPast
    <2>4. QED
      BY <1>0, <1>1, <1>3, <2>1, <2>3 DEF SpentIsPast, Written
  <1>9. TrackOf[student'.rank] = student'.track
    <2>1. p.source # "TRACK_CHANGE" => TrackOf[p.to.rank] = student.track
      BY <1>0 DEF Leads, Sound, Position
    <2>2. TrackOf[p.to.rank] # None
      BY <1>2, Constants
    <2>3. QED
      BY <1>0, <1>3, <2>1, <2>2 DEF Leads
  <1>10. QED
    BY <1>1, <1>4, <1>6, <1>7, <1>8, <1>9 DEF IInv

\* Nobody holds the student's lock, and progress starts at no earlier instant.
LEMMA UnlockedStep ==
  ASSUME IInv, Unlocked, UNCHANGED <<now, record, staff, earned>>,
         student' \in StudentType, accounting' \in Accounting, student.baseline <= student'.baseline,
         student'.rank = student.rank, student'.stripes = student.stripes, student'.track = student.track
  PROVE  IInv'
  <1>0. TypeOK /\ PlansLead /\ SpentIsPast /\ TrackOf[student.rank] = student.track
    BY DEF IInv
  <1>1. TypeOK'
    BY <1>0 DEF TypeOK
  <1>2. PlansLead' /\ LocksAreSound'
    BY <1>0 DEF PlansLead, Leads, LocksAreSound, Unlocked
  <1>3. SpentIsPast'
    <2>1. ASSUME NEW i \in earned PROVE record[i] # None /\ record[i].at < student'.baseline
      <3>1. record[i] \in RowType /\ record[i].at < student.baseline
        BY <1>0 DEF SpentIsPast, TypeOK
      <3>2. record[i].at \in Nat /\ student.baseline \in Nat /\ student'.baseline \in Nat
        BY <1>0, <3>1, Constants DEF TypeOK, StudentType, RowType, Time
      <3>3. QED
        BY <1>0, <3>1, <3>2 DEF SpentIsPast
    <2>2. QED
      BY <1>0, <2>1 DEF SpentIsPast, Written
  <1>4. QED
    BY <1>0, <1>1, <1>2, <1>3 DEF IInv

LEMMA InductiveStep ==
  ASSUME IInv, [Next]_vars
  PROVE  IInv'
  <1>0. TypeOK /\ student \in StudentType /\ accounting \in Accounting
    BY DEF IInv, TypeOK
  <1>1. ASSUME NEW active \in BOOLEAN, SetStatus(active) PROVE IInv'
    <2>1. /\ student' \in StudentType /\ student'.baseline = student.baseline
          /\ student'.rank = student.rank /\ student'.stripes = student.stripes
          /\ student'.track = student.track /\ student.baseline \in Nat
      BY <1>0, <1>1, Constants DEF SetStatus, StudentType, Time
    <2>2. QED
      BY <1>0, <1>1, <2>1, UnlockedStep DEF SetStatus
  <1>2. CASE activateAccounting
    <2>1. now \in Time /\ now \in Nat /\ student.baseline \in Nat
      BY <1>0, Constants DEF TypeOK, StudentType, Time
    <2>2. /\ student' \in StudentType /\ student.baseline <= student'.baseline
          /\ student'.rank = student.rank /\ student'.stripes = student.stripes
          /\ student'.track = student.track
      <3>1. CASE student' = student
        BY <1>0, <2>1, <3>1
      <3>2. CASE student' = [student EXCEPT !.baseline = now, !.kind = "SYSTEM_BASELINE"]
        <4>1. student.baseline <= now
          BY <1>2 DEF activateAccounting
        <4>2. QED
          BY <1>0, <2>1, <3>2, <4>1 DEF StudentType
      <3>3. QED
        BY <1>2, <3>1, <3>2 DEF activateAccounting
    <2>3. accounting' \in Accounting
      BY <1>2 DEF activateAccounting, Accounting
    <2>4. QED
      BY <1>0, <1>2, <2>2, <2>3, UnlockedStep DEF activateAccounting
  <1>3. ASSUME Tick \/ UNCHANGED vars PROVE IInv'
    <2>1. TypeOK'
      <3>1. now' \in 0..MaxNow
        BY <1>0, <1>3, Constants DEF TypeOK, Tick, vars
      <3>2. QED
        BY <1>0, <1>3, <3>1 DEF TypeOK, Tick, vars
    <2>2. UNCHANGED <<student, accounting, record, staff, earned>>
      BY <1>3 DEF Tick, vars
    <2>3. RowsAreKept /\ IsFiniteSet(Written')
      BY <2>2 DEF IInv, SpentIsPast, RowsAreKept, Written
    <2>4. QED
      BY <2>1, <2>2, <2>3, CalmStep
  <1>4. QED
    BY AttendanceStep, UnplannedStep, PlanStep, LockStep, AwardStep, <1>1, <1>2, <1>3 DEF Next

-----------------------------------------------------------------------------
(* Theorems. *)

LEMMA Invariance == Spec => []IInv
  BY InitIsInductive, InductiveStep, PTL DEF Spec

\* The rows keep their types, and the student has degrees the rank has.
THEOREM Types == Spec => []TypeOK
  <1>1. IInv => TypeOK
    BY DEF IInv
  <1>2. QED
    BY <1>1, Invariance, PTL

\* Whatever the staff do at once, the history of ranks is a chain on one track.
THEOREM Chain == Spec => []HistoryIsAChain
  <1>1. IInv => HistoryIsAChain
    BY DEF IInv, LocksAreSound, Sound, HistoryIsAChain
  <1>2. QED
    BY <1>1, Invariance, PTL

\* As many days as rows that are each of another day.
LEMMA ADayEach ==
  ASSUME NEW S, IsFiniteSet(S), NEW f, \A i, j \in S : f[i].day = f[j].day => i = j
  PROVE  Cardinality({f[i].day : i \in S}) = Cardinality(S)
  <1> DEFINE T == {f[i].day : i \in S}
             g == [i \in S |-> f[i].day]
  <1>1. g \in [S -> T] /\ \A i \in S : g[i] = f[i].day
    OBVIOUS
  <1>2. g \in Injection(S, T)
    BY <1>1 DEF Injection, IsInjective
  <1>3. g \in Surjection(S, T)
    BY <1>1 DEF Surjection
  <1>4. ExistsBijection(S, T)
    BY <1>2, <1>3 DEF ExistsBijection, Bijection
  <1>5. QED
    BY <1>4, FS_Bijection

\* What earns a promotion by days is enough, a day each, of the interval, and
\* never what has earned one before.
THEOREM EvidenceIsSpentOnce == Spec => []EvidenceOnce
  <1>1. ASSUME IInv PROVE EvidenceOnce
    <2>1. SUFFICES ASSUME NEW w \in Staff, staff[w].stage = "locked"
                   PROVE  LET proof == staff[w].evidence IN
                          /\ ByDays(w) => Cardinality({record[i].day : i \in proof}) >= Target(student, "PER_INTERVAL")
                          /\ Cardinality({record[i].day : i \in proof}) = Cardinality(proof)
                          /\ \A i \in proof : student.baseline <= record[i].at /\ record[i].at < staff[w].at
                          /\ proof \cap earned = {}
      BY DEF EvidenceOnce
    <2>2. TypeOK /\ SpentIsPast /\ Sound(w) /\ staff[w].evidence \subseteq Row
      BY <1>1, <2>1, Stages DEF IInv, LocksAreSound, PlanType
    <2>3. staff[w].evidence \subseteq Written
      BY <2>2 DEF Sound, Written
    <2>4. IsFiniteSet(staff[w].evidence)
      BY <2>2, <2>3, FS_Subset DEF SpentIsPast
    <2>5. Cardinality({record[i].day : i \in staff[w].evidence}) = Cardinality(staff[w].evidence)
      BY <2>2, <2>4, ADayEach DEF Sound
    <2>6. staff[w].evidence \cap earned = {}
      <3>1. ASSUME NEW i \in staff[w].evidence, i \in earned PROVE FALSE
        <4>1. record[i] \in RowType
          BY <2>2, <3>1 DEF SpentIsPast, TypeOK
        <4>2. record[i].at \in Nat /\ student.baseline \in Nat
          BY <2>2, <4>1, Constants DEF TypeOK, StudentType, RowType, Time
        <4>3. QED
          BY <2>2, <3>1, <4>2 DEF SpentIsPast, Sound
      <3>2. QED
        BY <3>1
    <2>7. QED
      BY <2>2, <2>5, <2>6 DEF Sound
  <1>2. QED
    BY <1>1, Invariance, PTL

LEMMA ProgressStep ==
  ASSUME IInv, [Next]_vars, student'.baseline # student.baseline
  PROVE  \/ \E w \in Staff : /\ staff[w].stage = "locked" /\ staff[w].source # "CORRECTION"
                              /\ student'.baseline = staff[w].at
         \/ accounting'[student.track] # accounting[student.track]
  <1>0. student \in StudentType /\ accounting \in Accounting
    BY DEF IInv, TypeOK
  <1>1. ASSUME NEW w \in Staff, writeAward(w)
        PROVE  /\ staff[w].stage = "locked" /\ staff[w].source # "CORRECTION"
               /\ student'.baseline = staff[w].at
    <2>1. student'.baseline = IF Restarts(w) THEN staff[w].at ELSE student.baseline
      BY <1>0, <1>1 DEF writeAward, StudentType
    <2>2. QED
      BY <1>1, <2>1 DEF writeAward, Restarts
  <1>2. ASSUME activateAccounting PROVE accounting'[student.track] # accounting[student.track]
    <2>1. student.track \in Flipped /\ student.track \in Track
      BY <1>2 DEF activateAccounting, Flipped
    <2>2. QED
      BY <1>2, <2>1 DEF activateAccounting, Flipped
  <1>3. ASSUME NEW active \in BOOLEAN, SetStatus(active) PROVE FALSE
    BY <1>0, <1>3 DEF SetStatus, StudentType
  <1>4. student' # student
    OBVIOUS
  <1>5. QED
    BY <1>1, <1>2, <1>3, <1>4
    DEF Next, CheckIn, VoidRow, Reassign, ReadAdjustment, addAttendanceAdjustment, ReadConfig, ReadAward,
        ReadCorrection, ReadTrackChange, LockStudent, GiveUp, Tick, vars

\* Progress restarts only with an award, a change of track, or the activation of
\* the student's own track.
THEOREM ProgressKept == Spec => ProgressIsKept
  <1>1. IInv /\ [Next]_vars =>
          [student'.baseline # student.baseline
             => \/ \E w \in Staff : /\ staff[w].stage = "locked" /\ staff[w].source # "CORRECTION"
                                    /\ student'.baseline = staff[w].at
                \/ accounting'[student.track] # accounting[student.track]]_vars
    BY ProgressStep
  <1>2. QED
    BY <1>1, Invariance, PTL DEF Spec, ProgressIsKept
=============================================================================
