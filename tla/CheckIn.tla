------------------------------ MODULE CheckIn ------------------------------
(***************************************************************************)
(* The server's side of a kiosk check-in: the route and performCheckIn     *)
(* that judge a request and write what it deserves, and the staff who      *)
(* settle the queued events kept as evidence, void an attendance or move   *)
(* it to another class.  Every handler reads first and writes in a second  *)
(* step, so that two of them may interleave as in the code.                *)
(*                                                                         *)
(* One academy and one week: a class has one occurrence, on DayOf[c], open *)
(* for check-in from Opens[c] to Closes[c].                                *)
(***************************************************************************)
EXTENDS Naturals, Sequences, FiniteSets

CONSTANTS
  Student, Class, Tap,
  StudentOf,            \* whose tap each one is
  Request,              \* slots for the requests in flight at one time
  Worker,               \* handlers of corrections in flight at one time
  Opens, Closes, DayOf, \* the occurrence of each class
  MaxNow,               \* bound on the clock
  MaxAge,               \* MAX_QUEUED_AGE_MS
  MaxMoves,             \* bound on the corrections of attendances
  MaxEnv,               \* bound on the changes of schedule, token and members
  None

ASSUME CheckInAssumption ==
  /\ StudentOf \in [Tap -> Student]
  /\ Opens \in [Class -> Nat] /\ Closes \in [Class -> Nat] /\ DayOf \in [Class -> Nat]
  /\ MaxNow \in Nat /\ MaxAge \in Nat /\ MaxMoves \in Nat /\ MaxEnv \in Nat
  /\ None \notin Student \cup Class \cup Tap \cup Request

VARIABLES
  now,         \* the server's clock
  active,      \* the classes of the academy that are active
  member,      \* the students whose status is ACTIVE
  token,       \* the kiosk token in force
  attendance,  \* the AttendanceRecord rows, in the order they were written
  evidence,    \* per tap, the status of its QueuedCheckIn row
  request,     \* the requests in flight
  worker,      \* the corrections in flight
  moves, env   \* counters of MaxMoves and MaxEnv

world  == <<now, active, member, token>>
server == <<now, active, member, token, attendance, evidence, request, worker, moves, env>>

-----------------------------------------------------------------------------
\* A request carries what the tablet sends: the code of the tap's student, the
\* class picked if any, the token; a replay also its event (the tap) and queuedAt.
Form == [tap : Tap, picked : Class \cup {None}, token : Nat, at : Nat]

Stage == {"sent", "judged", "answered"}

Answer == {"ok", "already_checked_in", "retained", "invalid_token", "invalid_code",
           "no_open_class", "class_selection_required", "class_not_open", "invalid_class"}

Free == [stage |-> "free"]

InFlight == [stage : Stage, form : Form, replay : BOOLEAN, answer : Answer \cup {"none"},
             choices : SUBSET Class, classes : SUBSET Class, when : Nat]

\* A row; by, via and taps are history: which tap and which
\* path wrote the row, and the taps that were answered that it stands for.
Row == [student : Student, class : Class, date : Nat, at : Nat,
        match : {"AUTO", "STUDENT_PICKED", "STAFF_CORRECTED"}, voided : BOOLEAN,
        by : Tap, via : {"live", "replay", "staff"}, taps : SUBSET Tap]

\* AttendanceRecord_student_class_date_valid_key: valid rows only.
Holder(s, c, d) ==
  {i \in DOMAIN attendance : /\ ~attendance[i].voided
                             /\ attendance[i].student = s
                             /\ attendance[i].class = c
                             /\ attendance[i].date = d}

OpenAt(c, t) == Opens[c] <= t /\ t <= Closes[c]

openOccurrences(t) == {c \in active : OpenAt(c, t)}

\* resolveAttendanceInstant: neither in the future nor older than the bound.
Verified(f) == f.at <= now /\ now - f.at <= MaxAge

-----------------------------------------------------------------------------
(* The route and performCheckIn. *)

\* The instant a request is judged at, and the classes it may be attributed to.
Instant(m) == IF m.replay /\ Verified(m.form) THEN m.form.at ELSE now

\* Mutant: a replay is attributed to what is open when it arrives.
CandidatesAtReplay(m) == openOccurrences(now)

Candidates(m) ==
  IF m.replay /\ ~Verified(m.form) THEN {} ELSE openOccurrences(Instant(m))

\* A valid pick wins; without one, a single open class.
Attribution(m) ==
  IF m.form.picked # None
  THEN Candidates(m) \cap {m.form.picked}
  ELSE IF Cardinality(Candidates(m)) = 1 THEN Candidates(m) ELSE {}

\* The answers that write nothing.
Refusal(m) ==
  CASE m.form.token # token -> "invalid_token"
    [] StudentOf[m.form.tap] \notin member -> "invalid_code"
    [] m.replay /\ evidence[m.form.tap] # "none" -> "retained"
    [] ~m.replay /\ Attribution(m) = {} ->
         IF m.form.picked # None
         THEN IF m.form.picked \in active THEN "class_not_open" ELSE "invalid_class"
         ELSE IF Candidates(m) = {} THEN "no_open_class" ELSE "class_selection_required"
    [] OTHER -> "none"

\* A plan without a class is to keep the event as evidence.
Judge(r) ==
  LET m == request[r]
      no == Refusal(m)
  IN /\ m.stage = "sent"
     /\ request' = [request EXCEPT ![r] =
          IF no # "none"
          THEN [m EXCEPT !.stage = "answered", !.answer = no,
                         !.choices = IF m.replay THEN {} ELSE Candidates(m)]
          ELSE [m EXCEPT !.stage = "judged", !.classes = Attribution(m), !.when = Instant(m)]]
     /\ UNCHANGED <<now, active, member, token, attendance, evidence, worker, moves, env>>

Answered(r, a) ==
  [request EXCEPT ![r] = [@ EXCEPT !.stage = "answered", !.answer = a, !.classes = {}, !.when = 0]]

\* attendanceRecord.create, a unique violation being `already_checked_in`.
Attribute(r) ==
  LET m == request[r] IN
  \E c \in m.classes :
    LET held == Holder(StudentOf[m.form.tap], c, DayOf[c]) IN
    IF held = {}
    THEN /\ attendance' = Append(attendance,
              [student |-> StudentOf[m.form.tap], class |-> c,
               date |-> DayOf[c], at |-> m.when,
               match |-> IF m.form.picked = None THEN "AUTO" ELSE "STUDENT_PICKED",
               voided |-> FALSE, by |-> m.form.tap,
               via |-> IF m.replay THEN "replay" ELSE "live", taps |-> {m.form.tap}])
         /\ request' = Answered(r, "ok")
    ELSE /\ attendance' = [i \in DOMAIN attendance |->
              IF i \in held THEN [attendance[i] EXCEPT !.taps = @ \cup {m.form.tap}] ELSE attendance[i]]
         /\ request' = Answered(r, "already_checked_in")

\* queuedCheckIn.create: on a unique violation the row that is there.
Retain(r) ==
  LET t == request[r].form.tap IN
  /\ evidence' = [evidence EXCEPT ![t] = IF @ = "none" THEN "PENDING" ELSE @]
  /\ request' = Answered(r, "retained")

Record(r) ==
  /\ request[r].stage = "judged"
  /\ \/ request[r].classes # {} /\ Attribute(r) /\ UNCHANGED evidence
     \/ request[r].classes = {} /\ Retain(r) /\ UNCHANGED attendance
  /\ UNCHANGED <<now, active, member, token, worker, moves, env>>

-----------------------------------------------------------------------------
(* Staff, and the student's own correction: each task reads, then writes.  *)

Idle == [task |-> "none"]

Correction == {Idle} \cup [task : {"resolve"}, tap : Tap, class : Class, at : Nat]
                     \cup [task : {"dismiss"}, tap : Tap]
                     \cup [task : {"reassign"}, row : Nat \ {0}, class : Class,
                           match : {"STUDENT_PICKED", "STAFF_CORRECTED"}, days : SUBSET Nat]

\* resolveQueuedCheckIn: the evidence is read PENDING, the class checked, and
\* the instant confirmed inside its window and not in the future.
ReadResolve(w, t, c, at) ==
  /\ worker[w] = Idle /\ moves < MaxMoves
  /\ evidence[t] = "PENDING"
  /\ c \in active /\ OpenAt(c, at) /\ at <= now
  /\ worker' = [worker EXCEPT ![w] = [task |-> "resolve", tap |-> t, class |-> c, at |-> at]]
  /\ moves' = moves + 1
  /\ UNCHANGED <<world, attendance, evidence, request, env>>

\* Mutant: the evidence is not claimed, the status read before being trusted.
WriteResolveUnclaimed(w) ==
  LET j == worker[w]
      student == StudentOf[j.tap]
  IN
  /\ j.task = "resolve"
  /\ worker' = [worker EXCEPT ![w] = Idle]
  /\ IF Holder(student, j.class, DayOf[j.class]) = {}
     THEN /\ evidence' = [evidence EXCEPT ![j.tap] = "RESOLVED"]
          /\ attendance' = Append(attendance,
               [student |-> student, class |-> j.class, date |-> DayOf[j.class], at |-> j.at,
                match |-> "STAFF_CORRECTED", voided |-> FALSE,
                by |-> j.tap, via |-> "staff", taps |-> {j.tap}])
     ELSE UNCHANGED <<evidence, attendance>>
  /\ UNCHANGED <<world, request, moves, env>>

\* Its transaction: claim the evidence, then record; `alreadyRecorded` rolls
\* the claim back.
WriteResolve(w) ==
  LET j == worker[w]
      student == StudentOf[j.tap]
  IN
  /\ j.task = "resolve"
  /\ worker' = [worker EXCEPT ![w] = Idle]
  /\ IF evidence[j.tap] = "PENDING" /\ Holder(student, j.class, DayOf[j.class]) = {}
     THEN /\ evidence' = [evidence EXCEPT ![j.tap] = "RESOLVED"]
          /\ attendance' = Append(attendance,
               [student |-> student, class |-> j.class, date |-> DayOf[j.class], at |-> j.at,
                match |-> "STAFF_CORRECTED", voided |-> FALSE,
                by |-> j.tap, via |-> "staff", taps |-> {j.tap}])
     ELSE UNCHANGED <<evidence, attendance>>
  /\ UNCHANGED <<world, request, moves, env>>

\* dismissQueuedCheckIn.
ReadDismiss(w, t) ==
  /\ worker[w] = Idle /\ moves < MaxMoves
  /\ evidence[t] = "PENDING"
  /\ worker' = [worker EXCEPT ![w] = [task |-> "dismiss", tap |-> t]]
  /\ moves' = moves + 1
  /\ UNCHANGED <<world, attendance, evidence, request, env>>

WriteDismiss(w) ==
  LET t == worker[w].tap IN
  /\ worker[w].task = "dismiss"
  /\ worker' = [worker EXCEPT ![w] = Idle]
  /\ evidence' = [evidence EXCEPT ![t] = IF @ = "PENDING" THEN "DISMISSED" ELSE @]
  /\ UNCHANGED <<world, attendance, request, moves, env>>

\* reassignAttendance: the student's own correction must be to a class open
\* when the attendance was recorded, and takes that class's day; a coach's is
\* to a class of the day it has.  The day is written only when it changes.
ReadReassign(w, i, c, match) ==
  LET row == attendance[i] IN
  /\ worker[w] = Idle /\ moves < MaxMoves
  /\ ~row.voided /\ c \in active
  /\ IF match = "STUDENT_PICKED" THEN OpenAt(c, row.at) ELSE DayOf[c] = row.date
  /\ worker' = [worker EXCEPT ![w] =
       [task |-> "reassign", row |-> i, class |-> c, match |-> match,
        days |-> {DayOf[c]} \ {row.date}]]
  /\ moves' = moves + 1
  /\ UNCHANGED <<world, attendance, evidence, request, env>>

\* The update names the row alone; only the unique index can refuse it.
WriteReassign(w) ==
  LET j == worker[w]
      row == attendance[j.row]
      date == IF j.days = {} THEN row.date ELSE CHOOSE d \in j.days : TRUE
  IN /\ j.task = "reassign"
     /\ worker' = [worker EXCEPT ![w] = Idle]
     /\ attendance' = IF ~row.voided /\ Holder(row.student, j.class, date) \ {j.row} # {}
                      THEN attendance
                      ELSE [attendance EXCEPT ![j.row].class = j.class,
                                              ![j.row].match = j.match,
                                              ![j.row].date = date]
     /\ UNCHANGED <<world, evidence, request, moves, env>>

\* voidAttendanceEntry: its updateMany repeats the guard it read, so the two
\* steps are one.
Void(i) ==
  /\ moves < MaxMoves
  /\ ~attendance[i].voided
  /\ attendance' = [attendance EXCEPT ![i].voided = TRUE]
  /\ moves' = moves + 1
  /\ UNCHANGED <<world, evidence, request, worker, env>>

-----------------------------------------------------------------------------
(* The world. *)

Tick ==
  /\ now < MaxNow
  /\ now' = now + 1
  /\ UNCHANGED <<active, member, token, attendance, evidence, request, worker, moves, env>>

Outside == env < MaxEnv /\ env' = env + 1
           /\ UNCHANGED <<now, attendance, evidence, request, worker, moves>>

deactivateClassSession(c) ==
  /\ Outside
  /\ c \in active /\ active' = active \ {c}
  /\ UNCHANGED <<member, token>>

\* A student's status stops or starts being ACTIVE.
SetMember(s) ==
  /\ Outside
  /\ member' = IF s \in member THEN member \ {s} ELSE member \cup {s}
  /\ UNCHANGED <<active, token>>

regenerateKioskToken ==
  /\ Outside
  /\ token' = token + 1
  /\ UNCHANGED <<active, member>>

ServerInit ==
  /\ now = 0 /\ active = Class /\ member = Student /\ token = 1
  /\ attendance = <<>> /\ evidence = [t \in Tap |-> "none"]
  /\ request = [r \in Request |-> Free]
  /\ worker = [w \in Worker |-> Idle]
  /\ moves = 0 /\ env = 0
=============================================================================
