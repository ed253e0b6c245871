---------------------------- MODULE KioskProofs ----------------------------
(***************************************************************************)
(* What holds of check-ins for any number of taps, pages, requests and     *)
(* coaches, any schedule of the classes and any number of failures, and    *)
(* that the tablet and the server together keep CheckInPromise.            *)
(***************************************************************************)
EXTENDS Kiosk, FiniteSetTheorems, SequenceTheorems, TLAPS

\* Who waits for a request, and for what: a tap for its own live request, one
\* page for the replay of its next entry.
TapWaits(t) ==
  LET m == request[tap[t].req] IN
  /\ tap[t].told = "wait" <=> tap[t].req # None
  /\ tap[t].req # None => m.stage # "free" /\ m.form.tap = t /\ ~m.replay

PageWaits(p) ==
  LET m == request[page[p].req] IN
  page[p].req # None =>
    /\ page[p].left # <<>>
    /\ m.stage # "free" /\ m.replay /\ m.form = Head(page[p].left)

Waiting ==
  /\ \A t \in Tap : TapWaits(t)
  /\ \A p \in Page : PageWaits(p)
  /\ \A p, q \in Page : page[p].req = page[q].req /\ page[p].req # None => p = q

\* A judged request is to be attributed to classes open at its instant; the answer
\* of an answered one is true of its tap, and stays so.
Attributable(m) == \A c \in m.classes : c \in Class /\ OpenAt(c, m.when)

Settles(t, answer) ==
  IF answer \in {"ok", "already_checked_in", "retained"} THEN Held(t)
  ELSE answer \in {"invalid_code", "invalid_token"}

AnswerIsTrue(m) ==
  IF m.replay THEN Settles(m.form.tap, m.answer)
  ELSE m.answer = "ok" => Written(m.form.tap, "live") # {}

RequestSound(r) ==
  /\ request[r].stage = "judged" => Attributable(request[r])
  /\ request[r].stage = "answered" => request[r].answer # "none" /\ AnswerIsTrue(request[r])

RequestsAreSound == \A r \in Request : RequestSound(r)

\* Only queued taps have entries, at most one each, and what was deleted on an
\* answer is settled by it.
EntriesAreQueued ==
  /\ \A i \in DOMAIN queue : tap[queue[i].tap].told = "queued"
  /\ \A p \in Page : \A i \in DOMAIN page[p].left : tap[page[p].left[i].tap].told = "queued"
  /\ \A i, j \in DOMAIN queue : queue[i].tap = queue[j].tap => i = j

TapTold(t) ==
  /\ tap[t].told = "success" => Written(t, "live") # {}
  /\ tap[t].told = "queued" => Queued(t) \/ fate[t] # "none"
  /\ fate[t] # "none" => tap[t].told = "queued" /\ Settles(t, fate[t])

TapsAreTold == \A t \in Tap : TapTold(t)

\* The staff's attendances and the evidence they settled.
Settled(t) ==
  IF evidence[t] = "RESOLVED" THEN \E i \in DOMAIN attendance : Written(t, "staff") = {i}
  ELSE Written(t, "staff") = {}

EvidenceIsSettled == \A t \in Tap : Settled(t)

\* A correction in flight is of a row that is there, and the student's own is to a
\* class that was open at the row's instant.
CorrectionSound(w) ==
  worker[w].task = "reassign" =>
    /\ worker[w].row \in DOMAIN attendance
    /\ worker[w].match = "STUDENT_PICKED" => OpenAt(worker[w].class, attendance[worker[w].row].at)

CorrectionsAreSound == \A w \in Worker : CorrectionSound(w)

IInv ==
  /\ TypeOK /\ Waiting /\ RequestsAreSound /\ EntriesAreQueued /\ TapsAreTold
  /\ EvidenceIsSettled /\ CorrectionsAreSound /\ OpenWhenTapped

-----------------------------------------------------------------------------
LEMMA Constants ==
  /\ StudentOf \in [Tap -> Student]
  /\ Opens \in [Class -> Nat] /\ Closes \in [Class -> Nat] /\ DayOf \in [Class -> Nat]
  /\ MaxNow \in Nat /\ Skew \subseteq Nat
  /\ None \notin Class /\ None \notin Tap /\ None \notin Request
  BY CheckInAssumption, KioskAssumption

LEMMA InitTyped == Init => ServerTyped /\ DeviceTyped
  <1> SUFFICES ASSUME Init PROVE ServerTyped /\ DeviceTyped
    OBVIOUS
  <1>1. 0 \in 0..MaxNow
    BY Constants
  <1>2. <<>> \in Seq(Row) /\ <<>> \in Seq(Form)
    BY EmptySeq
  <1>3. Idle \in Correction
    BY DEF Correction
  <1>4. Gone("new") \in TapType
    BY DEF Gone, TapType
  <1>5. Resting \in PageType /\ Resting.flushing = (Resting.left # <<>>)
    BY <1>2 DEF Resting, PageType
  <1>6. QED
    BY <1>1, <1>2, <1>3, <1>4, <1>5 DEF Init, ServerInit, ServerTyped, DeviceTyped

\* One waiter at most: a request carries the tap it is for, and whether it is a replay.
LEMMA AtMostOne ==
  ASSUME NEW S, \A x, y \in S : x = y
  PROVE  S = {} \/ Cardinality(S) = 1
  <1>1. CASE S # {}
    <2>1. PICK x \in S : S = {x}
      BY <1>1
    <2>2. QED
      BY <2>1, FS_Singleton
  <1>2. QED
    BY <1>1

LEMMA SoleWaiter ==
  ASSUME Waiting, NEW r \in Request
  PROVE  Cardinality({t \in Tap : tap[t].req = r}) + Cardinality({p \in Page : page[p].req = r}) <= 1
  <1> DEFINE T == {t \in Tap : tap[t].req = r}
             P == {p \in Page : page[p].req = r}
  <1>1. r # None
    BY Constants
  <1>2. \A t \in T : request[r].form.tap = t /\ ~request[r].replay
    BY <1>1 DEF Waiting, TapWaits
  <1>3. \A p \in P : request[r].replay
    BY <1>1 DEF Waiting, PageWaits
  <1>4. \A p, q \in P : p = q
    BY <1>1 DEF Waiting
  <1>5. T = {} \/ Cardinality(T) = 1
    BY <1>2, AtMostOne
  <1>6. P = {} \/ Cardinality(P) = 1
    BY <1>4, AtMostOne
  <1>7. T = {} \/ P = {}
    BY <1>2, <1>3
  <1> HIDE DEF T, P
  <1>8. Cardinality(T) + Cardinality(P) <= 1
    BY <1>5, <1>6, <1>7, FS_EmptySet
  <1>9. QED
    BY <1>8 DEF T, P

LEMMA TypesFollow == ServerTyped /\ DeviceTyped /\ Waiting => TypeOK
  BY SoleWaiter DEF TypeOK

LEMMA InitIsInductive == Init => IInv
  <1> SUFFICES ASSUME Init PROVE IInv
    OBVIOUS
  <1>1. ServerTyped /\ DeviceTyped
    BY InitTyped
  <1>2. /\ \A t \in Tap : tap[t] = Gone("new") /\ fate[t] = "none" /\ evidence[t] = "none"
        /\ \A p \in Page : page[p] = Resting
        /\ \A r \in Request : request[r] = Free
        /\ \A w \in Worker : worker[w] = Idle
        /\ queue = <<>> /\ attendance = <<>>
    BY DEF Init, ServerInit
  <1>3. Waiting
    BY <1>2 DEF Waiting, TapWaits, PageWaits, Gone, Resting
  <1>4. RequestsAreSound
    BY <1>2 DEF RequestsAreSound, RequestSound, Free
  <1>5. EntriesAreQueued
    BY <1>2 DEF EntriesAreQueued, Resting
  <1>6. TapsAreTold
    BY <1>2 DEF TapsAreTold, TapTold, Gone
  <1>7. EvidenceIsSettled
    BY <1>2 DEF EvidenceIsSettled, Settled, Written
  <1>8. CorrectionsAreSound
    BY <1>2 DEF CorrectionsAreSound, CorrectionSound, Idle
  <1>9. OpenWhenTapped
    BY <1>2 DEF OpenWhenTapped
  <1>10. QED
    BY <1>1, <1>3, <1>4, <1>5, <1>6, <1>7, <1>8, <1>9, TypesFollow DEF IInv

-----------------------------------------------------------------------------
(* The server's variables. *)

\* Everything but one of the server's variables, as the types see it.
LEMMA ServerKept ==
  ASSUME ServerTyped, UNCHANGED <<world, attendance, evidence, worker>>,
         request' \in [Request -> {Free} \cup InFlight]
  PROVE  ServerTyped'
  BY DEF ServerTyped, world

LEMMA RequestsTyped ==
  ASSUME ServerTyped, NEW r \in Request, NEW m \in {Free} \cup InFlight,
         request' = [request EXCEPT ![r] = m]
  PROVE  request' \in [Request -> {Free} \cup InFlight]
  BY DEF ServerTyped

LEMMA NotFree ==
  ASSUME ServerTyped, NEW r \in Request, request[r].stage # "free"
  PROVE  request[r] \in InFlight
  BY DEF ServerTyped, Free

LEMMA SentTyped ==
  ASSUME ServerTyped, NEW r \in Request, NEW f \in Form, NEW b \in BOOLEAN,
         request' = Sent(r, f, b)
  PROVE  request' \in [Request -> {Free} \cup InFlight]
  <1>1. [stage |-> "sent", form |-> f, replay |-> b, answer |-> "none",
         choices |-> {}, classes |-> {}, when |-> 0] \in InFlight
    BY DEF InFlight, Stage
  <1>2. QED
    BY <1>1, RequestsTyped DEF Sent

LEMMA FreedTyped ==
  ASSUME ServerTyped, NEW r \in Request, request' = Freed(r)
  PROVE  request' \in [Request -> {Free} \cup InFlight]
  BY RequestsTyped DEF Freed

LEMMA OpenClasses ==
  ASSUME ServerTyped, NEW m \in InFlight
  PROVE  /\ Candidates(m) \subseteq Class /\ Attribution(m) \subseteq Class
         /\ Instant(m) \in Nat
         /\ \A c \in Attribution(m) : OpenAt(c, Instant(m))
  <1>1. now \in Nat /\ m.form.at \in Nat
    BY Constants DEF ServerTyped, InFlight, Form
  <1>2. Instant(m) \in Nat
    BY <1>1 DEF Instant
  <1>3. \A c \in Candidates(m) : c \in active /\ OpenAt(c, Instant(m))
    BY DEF Candidates, openOccurrences
  <1>4. Attribution(m) \subseteq Candidates(m)
    BY DEF Attribution
  <1>5. QED
    BY <1>2, <1>3, <1>4 DEF ServerTyped

LEMMA RefusalsAreAnswers ==
  ASSUME NEW m
  PROVE  /\ Refusal(m) \in Answer \cup {"none"}
         /\ m.replay /\ Refusal(m) # "none" => Refusal(m) \in {"invalid_token", "invalid_code", "retained"}
         /\ Refusal(m) = "retained" => evidence[m.form.tap] # "none"
         /\ Refusal(m) # "ok"
  BY DEF Refusal, Answer

LEMMA JudgeTyped ==
  ASSUME ServerTyped, NEW r \in Request, Judge(r)
  PROVE  ServerTyped'
  <1> DEFINE m == request[r]
             no == Refusal(m)
  <1>1. m \in InFlight
    BY NotFree DEF Judge
  <1>2. CASE no # "none"
    <2>1. [m EXCEPT !.stage = "answered", !.answer = no,
                    !.choices = IF m.replay THEN {} ELSE Candidates(m)] \in InFlight
      BY <1>1, <1>2, OpenClasses, RefusalsAreAnswers DEF InFlight, Stage
    <2>2. QED
      BY <2>1, <1>2, RequestsTyped, ServerKept DEF Judge, world
  <1>3. CASE no = "none"
    <2>1. [m EXCEPT !.stage = "judged", !.classes = Attribution(m), !.when = Instant(m)] \in InFlight
      BY <1>1, OpenClasses DEF InFlight, Stage
    <2>2. QED
      BY <2>1, <1>3, RequestsTyped, ServerKept DEF Judge, world
  <1>4. QED
    BY <1>2, <1>3

LEMMA AnsweredTyped ==
  ASSUME ServerTyped, NEW r \in Request, request[r].stage # "free", NEW a \in Answer,
         request' = Answered(r, a)
  PROVE  request' \in [Request -> {Free} \cup InFlight]
  <1>1. request[r] \in InFlight
    BY NotFree
  <1>2. [request[r] EXCEPT !.stage = "answered", !.answer = a, !.classes = {}, !.when = 0] \in InFlight
    BY <1>1 DEF InFlight, Stage
  <1>3. request' = [request EXCEPT ![r] =
           [request[r] EXCEPT !.stage = "answered", !.answer = a, !.classes = {}, !.when = 0]]
    BY DEF Answered, ServerTyped
  <1>4. QED
    BY <1>2, <1>3, RequestsTyped

\* A row is added after those there are.
LEMMA RowAdded ==
  ASSUME attendance \in Seq(Row), NEW row \in Row, attendance' = Append(attendance, row)
  PROVE  /\ attendance' \in Seq(Row)
         /\ Len(attendance) + 1 \notin DOMAIN attendance
         /\ DOMAIN attendance' = DOMAIN attendance \cup {Len(attendance) + 1}
         /\ attendance'[Len(attendance) + 1] = row
         /\ \A i \in DOMAIN attendance : attendance'[i] = attendance[i]
  <1>1. Len(attendance) \in Nat /\ DOMAIN attendance = 1..Len(attendance)
    BY LenProperties
  <1>2. attendance' \in Seq(Row) /\ Len(attendance') = Len(attendance) + 1
    BY AppendProperties
  <1>3. DOMAIN attendance' = 1..(Len(attendance) + 1)
    BY <1>2, LenProperties
  <1>4. /\ attendance'[Len(attendance) + 1] = row
        /\ \A i \in 1..Len(attendance) : attendance'[i] = attendance[i]
    BY AppendProperties
  <1>5. QED
    BY <1>1, <1>2, <1>3, <1>4

\* Rows are changed where they are.
LEMMA RowsChanged ==
  ASSUME attendance \in Seq(Row), NEW f, f \in [DOMAIN attendance -> Row]
  PROVE  f \in Seq(Row)
  <1>1. Len(attendance) \in Nat /\ DOMAIN attendance = 1..Len(attendance)
    BY LenProperties
  <1>2. QED
    BY <1>1, SeqDef

LEMMA RowsAreRows ==
  ASSUME attendance \in Seq(Row), NEW i \in DOMAIN attendance
  PROVE  attendance[i] \in Row
  BY LenProperties, ElementOfSeq

\* Two ways to write attendances: a row more, or the rows there are with others taps,
\* classes, days, matches and voids.
Added(row) == row \in Row /\ attendance' = Append(attendance, row)

SameOrigin ==
  /\ attendance' \in Seq(Row) /\ DOMAIN attendance' = DOMAIN attendance
  /\ \A i \in DOMAIN attendance :
       /\ attendance'[i].by = attendance[i].by /\ attendance'[i].via = attendance[i].via
       /\ attendance'[i].at = attendance[i].at
       /\ attendance[i].taps \subseteq attendance'[i].taps

NewRow(r, c) ==
  LET m == request[r] IN
  [student |-> StudentOf[m.form.tap], class |-> c, date |-> DayOf[c], at |-> m.when,
   match |-> IF m.form.picked = None THEN "AUTO" ELSE "STUDENT_PICKED",
   voided |-> FALSE, by |-> m.form.tap,
   via |-> IF m.replay THEN "replay" ELSE "live", taps |-> {m.form.tap}]

\* What attributing does to the attendances: a row of its own, or its tap added to
\* the row that holds the place.
LEMMA Attributed ==
  ASSUME ServerTyped, NEW r \in Request, request[r].stage = "judged",
         Attributable(request[r]), Attribute(r)
  PROVE  \/ /\ request' = Answered(r, "ok")
            /\ \E c \in request[r].classes : Added(NewRow(r, c))
         \/ /\ request' = Answered(r, "already_checked_in")
            /\ SameOrigin
            /\ \A i \in DOMAIN attendance :
                 /\ attendance'[i].class = attendance[i].class
                 /\ attendance'[i].match = attendance[i].match
            /\ \A i \in DOMAIN attendance, t \in Tap \ {request[r].form.tap} :
                 t \in attendance'[i].taps => t \in attendance[i].taps
            /\ \E i \in DOMAIN attendance : request[r].form.tap \in attendance'[i].taps
  <1> DEFINE m == request[r]
             held(c) == Holder(StudentOf[m.form.tap], c, DayOf[c])
  <1>1. m \in InFlight
    BY NotFree
  <1>2. /\ m.form.tap \in Tap /\ m.when \in Nat /\ m.classes \subseteq Class
        /\ StudentOf[m.form.tap] \in Student
    BY <1>1, Constants DEF InFlight, Form
  <1>3. PICK c \in m.classes :
          IF held(c) = {}
          THEN attendance' = Append(attendance, NewRow(r, c)) /\ request' = Answered(r, "ok")
          ELSE /\ attendance' = [i \in DOMAIN attendance |->
                    IF i \in held(c) THEN [attendance[i] EXCEPT !.taps = @ \cup {m.form.tap}]
                    ELSE attendance[i]]
               /\ request' = Answered(r, "already_checked_in")
    BY DEF Attribute, NewRow
  <1>4. CASE held(c) = {}
    <2>1. c \in Class /\ DayOf[c] \in Nat
      BY <1>2, Constants
    <2>2. NewRow(r, c) \in Row
      BY <1>2, <2>1 DEF NewRow, Row
    <2>3. QED
      BY <2>2, <1>3, <1>4 DEF Added
  <1>5. CASE held(c) # {}
    <2>1. \A i \in DOMAIN attendance :
            /\ attendance[i] \in Row
            /\ [attendance[i] EXCEPT !.taps = @ \cup {m.form.tap}] \in Row
      BY <1>2, RowsAreRows DEF ServerTyped, Row
    <2> DEFINE f == [i \in DOMAIN attendance |->
                       IF i \in held(c) THEN [attendance[i] EXCEPT !.taps = @ \cup {m.form.tap}]
                       ELSE attendance[i]]
    <2>2. attendance' = f
      BY <1>3, <1>5
    <2>3. f \in [DOMAIN attendance -> Row]
      BY <2>1
    <2>4. attendance' \in Seq(Row) /\ DOMAIN attendance' = DOMAIN attendance
      BY <2>2, <2>3, RowsChanged DEF ServerTyped
    <2>5. \A i \in DOMAIN attendance :
            attendance'[i] = attendance[i] \/
            attendance'[i] = [attendance[i] EXCEPT !.taps = @ \cup {m.form.tap}]
      BY <2>2
    <2>6. PICK h \in held(c) : TRUE
      BY <1>5
    <2>7. h \in DOMAIN attendance /\ m.form.tap \in attendance'[h].taps
      BY <2>1, <2>2, <2>6 DEF Holder, Row
    <2>8. ASSUME NEW i \in DOMAIN attendance
          PROVE  /\ attendance'[i].by = attendance[i].by /\ attendance'[i].via = attendance[i].via
                 /\ attendance'[i].at = attendance[i].at
                 /\ attendance'[i].class = attendance[i].class
                 /\ attendance'[i].match = attendance[i].match
                 /\ attendance[i].taps \subseteq attendance'[i].taps
                 /\ attendance'[i].taps \subseteq attendance[i].taps \cup {m.form.tap}
      <3>1. attendance[i] \in Row
        BY <2>1
      <3>2. CASE attendance'[i] = attendance[i]
        BY <3>2
      <3>3. CASE attendance'[i] = [attendance[i] EXCEPT !.taps = @ \cup {m.form.tap}]
        BY <3>1, <3>3 DEF Row
      <3>4. QED
        BY <2>5, <3>2, <3>3
    <2>9. QED
      BY <2>4, <2>7, <2>8, <1>3, <1>5 DEF SameOrigin
  <1>6. QED
    BY <1>4, <1>5

-----------------------------------------------------------------------------
(* What the steps of the server leave true. *)

RowsKept ==
  \A i \in DOMAIN attendance :
    /\ i \in DOMAIN attendance'
    /\ attendance'[i].by = attendance[i].by /\ attendance'[i].via = attendance[i].via
    /\ attendance'[i].at = attendance[i].at
    /\ attendance[i].taps \subseteq attendance'[i].taps

EvidenceKept == \A t \in Tap : evidence[t] # "none" => evidence'[t] # "none"

\* The taps that the server holds, but for one.
OthersHeld(t) == \A u \in Tap \ {t} : Held(u)' = Held(u)

SameHeld == \A t \in Tap : Held(t)' = Held(t)

LEMMA AddedKeeps ==
  ASSUME ServerTyped, NEW row, Added(row)
  PROVE  RowsKept
  BY RowAdded DEF ServerTyped, Added, RowsKept

LEMMA SameOriginKeeps == SameOrigin => RowsKept
  BY DEF SameOrigin, RowsKept

LEMMA UnchangedIsSame == ServerTyped /\ UNCHANGED attendance => SameOrigin
  BY DEF SameOrigin, ServerTyped

\* What has been written, and what an answer has settled, stays so.
LEMMA FactsLast ==
  ASSUME RowsKept, EvidenceKept, NEW t \in Tap
  PROVE  /\ Held(t) => Held(t)'
         /\ \A via : Written(t, via) # {} => Written(t, via)' # {}
         /\ \A answer : Settles(t, answer) => Settles(t, answer)'
  <1>1. Held(t) => Held(t)'
    BY DEF Held, RowsKept, EvidenceKept
  <1>2. ASSUME NEW via, Written(t, via) # {}
        PROVE  Written(t, via)' # {}
    <2>1. PICK i \in DOMAIN attendance : attendance[i].by = t /\ attendance[i].via = via
      BY <1>2 DEF Written
    <2>2. i \in Written(t, via)'
      BY <2>1 DEF RowsKept, Written
    <2>3. QED
      BY <2>2
  <1>3. QED
    BY <1>1, <1>2 DEF Settles

LEMMA SoundLasts ==
  ASSUME ServerTyped, RowsKept, EvidenceKept, NEW r \in Request, RequestSound(r),
         request'[r] = request[r]
  PROVE  RequestSound(r)'
  <1>1. CASE request[r].stage = "judged"
    BY <1>1 DEF RequestSound, Attributable, OpenAt
  <1>2. CASE request[r].stage = "answered"
    <2>1. request[r].form.tap \in Tap
      BY <1>2, NotFree DEF InFlight, Form
    <2>2. AnswerIsTrue(request[r]) => AnswerIsTrue(request[r])'
      BY <2>1, FactsLast DEF AnswerIsTrue
    <2>3. QED
      BY <1>2, <2>2 DEF RequestSound, AnswerIsTrue
  <1>3. QED
    BY <1>1, <1>2 DEF RequestSound

LEMMA RequestsLast ==
  ASSUME ServerTyped, RequestsAreSound, RowsKept, EvidenceKept, UNCHANGED request
  PROVE  RequestsAreSound'
  BY SoundLasts DEF RequestsAreSound

\* A request is replaced by one that is sound.
LEMMA RequestsSoundBut ==
  ASSUME ServerTyped, RequestsAreSound, RowsKept, EvidenceKept, NEW r \in Request, NEW m,
         request' = [request EXCEPT ![r] = m], RequestSound(r)'
  PROVE  RequestsAreSound'
  <1>1. \A q \in Request \ {r} : request'[q] = request[q]
    BY DEF ServerTyped
  <1>2. QED
    BY <1>1, SoundLasts DEF RequestsAreSound

LEMMA SettledKept ==
  ASSUME EvidenceIsSettled, SameOrigin,
         \A t \in Tap : evidence'[t] = "RESOLVED" <=> evidence[t] = "RESOLVED"
  PROVE  EvidenceIsSettled'
  <1>1. \A t \in Tap : Written(t, "staff")' = Written(t, "staff")
    BY DEF Written, SameOrigin
  <1>2. QED
    BY <1>1 DEF EvidenceIsSettled, Settled, SameOrigin

\* An attendance that staff did not write settles no evidence.
LEMMA SettledBeside ==
  ASSUME ServerTyped, EvidenceIsSettled, NEW row, Added(row), row.via # "staff",
         \A t \in Tap : evidence'[t] = "RESOLVED" <=> evidence[t] = "RESOLVED"
  PROVE  EvidenceIsSettled'
  <1>1. \A t \in Tap : Written(t, "staff")' = Written(t, "staff")
    BY RowAdded DEF Written, Added, ServerTyped
  <1>2. DOMAIN attendance \subseteq DOMAIN attendance'
    BY RowAdded DEF Added, ServerTyped
  <1>3. QED
    BY <1>1, <1>2 DEF EvidenceIsSettled, Settled

LEMMA CorrectionsKept ==
  ASSUME CorrectionsAreSound, RowsKept,
         \A w \in Worker : worker'[w] = worker[w] \/ worker'[w].task # "reassign"
  PROVE  CorrectionsAreSound'
  BY DEF CorrectionsAreSound, CorrectionSound, RowsKept, OpenAt

LEMMA OpenKept ==
  ASSUME ServerTyped, OpenWhenTapped, SameOrigin,
         \A i \in DOMAIN attendance :
           attendance'[i].class = attendance[i].class /\ attendance'[i].match = attendance[i].match
  PROVE  OpenWhenTapped'
  BY DEF OpenWhenTapped, SameOrigin, OpenAt

LEMMA OpenAdded ==
  ASSUME ServerTyped, OpenWhenTapped, NEW row, Added(row),
         row.match # "STAFF_CORRECTED" => OpenAt(row.class, row.at)
  PROVE  OpenWhenTapped'
  BY RowAdded DEF ServerTyped, OpenWhenTapped, Added, OpenAt

\* The server's share of the invariant.
SInv ==
  /\ ServerTyped /\ RequestsAreSound /\ EvidenceIsSettled
  /\ CorrectionsAreSound /\ OpenWhenTapped

LEMMA StillServer ==
  ASSUME SInv, UNCHANGED <<world, attendance, evidence, worker>>,
         request' \in [Request -> {Free} \cup InFlight], RequestsAreSound'
  PROVE  SInv' /\ RowsKept /\ EvidenceKept /\ SameHeld
  <1>1. SameOrigin /\ RowsKept
    BY UnchangedIsSame, SameOriginKeeps DEF SInv
  <1>2. EvidenceKept /\ SameHeld
    BY DEF EvidenceKept, SameHeld, Held
  <1>3. ServerTyped' /\ EvidenceIsSettled' /\ CorrectionsAreSound' /\ OpenWhenTapped'
    BY <1>1, ServerKept, SettledKept, CorrectionsKept, OpenKept DEF SInv
  <1>4. QED
    BY <1>1, <1>2, <1>3 DEF SInv

-----------------------------------------------------------------------------
(* The route and performCheckIn. *)

LEMMA JudgeSound ==
  ASSUME SInv, NEW r \in Request, Judge(r)
  PROVE  SInv' /\ RowsKept /\ EvidenceKept /\ SameHeld
  <1> DEFINE m == request[r]
             no == Refusal(m)
  <1>1. m \in InFlight
    BY NotFree DEF Judge, SInv
  <1>2. ServerTyped' /\ RowsKept /\ EvidenceKept
    BY JudgeTyped, UnchangedIsSame, SameOriginKeeps DEF SInv, Judge, EvidenceKept
  <1>3. PICK t \in Tap : m.form.tap = t
    BY <1>1 DEF InFlight, Form
  <1>4. CASE no # "none"
    <2> DEFINE n == [m EXCEPT !.stage = "answered", !.answer = no,
                              !.choices = IF m.replay THEN {} ELSE Candidates(m)]
    <2>1. request' = [request EXCEPT ![r] = n]
      BY <1>4 DEF Judge
    <2>2. request'[r] = n
      BY <2>1 DEF SInv, ServerTyped
    <2>3. n.stage = "answered" /\ n.answer = no /\ n.form = m.form /\ n.replay = m.replay
      BY <1>1 DEF InFlight
    <2>4. PICK a : a = no
      OBVIOUS
    <2>5. a # "none" /\ a # "ok" /\ (m.replay => Settles(t, a))
      BY <1>3, <1>4, <2>4, RefusalsAreAnswers DEF Settles, Held
    <2>6. m.replay => Settles(t, a)'
      BY <1>2, <2>5, FactsLast
    <2>7. RequestSound(r)'
      BY <1>3, <2>2, <2>3, <2>4, <2>5, <2>6 DEF RequestSound, AnswerIsTrue
    <2>8. QED
      BY <1>2, <2>1, <2>7, RequestsSoundBut, StillServer DEF SInv, Judge, world, ServerTyped
  <1>5. CASE no = "none"
    <2> DEFINE n == [m EXCEPT !.stage = "judged", !.classes = Attribution(m), !.when = Instant(m)]
    <2>1. request' = [request EXCEPT ![r] = n]
      BY <1>5 DEF Judge
    <2>2. request'[r] = n
      BY <2>1 DEF SInv, ServerTyped
    <2>3. n.stage = "judged" /\ n.classes = Attribution(m) /\ n.when = Instant(m)
      BY <1>1 DEF InFlight
    <2>4. Attributable(request'[r])
      BY <1>1, <2>2, <2>3, OpenClasses DEF SInv, Attributable
    <2>5. RequestSound(r)'
      BY <2>2, <2>3, <2>4 DEF RequestSound, Attributable, OpenAt
    <2>6. QED
      BY <1>2, <2>1, <2>5, RequestsSoundBut, StillServer DEF SInv, Judge, world, ServerTyped
  <1>6. QED
    BY <1>4, <1>5

LEMMA AnsweredIs ==
  ASSUME ServerTyped, NEW r \in Request, request[r].stage # "free", NEW a \in Answer,
         request' = Answered(r, a)
  PROVE  /\ request' = [request EXCEPT ![r] = request'[r]]
         /\ request'[r].stage = "answered" /\ request'[r].answer = a
         /\ request'[r].form = request[r].form /\ request'[r].replay = request[r].replay
  <1>1. request[r] \in InFlight
    BY NotFree
  <1>2. request'[r] = [request[r] EXCEPT !.stage = "answered", !.answer = a, !.classes = {}, !.when = 0]
    BY DEF Answered, ServerTyped
  <1>3. request' = [request EXCEPT ![r] = request'[r]]
    BY DEF Answered, ServerTyped
  <1>4. QED
    BY <1>1, <1>2, <1>3 DEF InFlight

\* A request that was judged is answered, its tap held.
LEMMA AnsweredSound ==
  ASSUME ServerTyped, RequestsAreSound, RowsKept, EvidenceKept, NEW r \in Request,
         request[r].stage = "judged", NEW a \in {"ok", "already_checked_in", "retained"},
         request' = Answered(r, a), NEW t \in Tap, t = request[r].form.tap, Held(t)',
         ~request[r].replay /\ a = "ok" => Written(t, "live")' # {}
  PROVE  RequestsAreSound' /\ request' \in [Request -> {Free} \cup InFlight]
  <1>1. a \in Answer /\ a # "none"
    BY DEF Answer
  <1>2. /\ request' = [request EXCEPT ![r] = request'[r]]
        /\ request'[r].stage = "answered" /\ request'[r].answer = a
        /\ request'[r].form = request[r].form /\ request'[r].replay = request[r].replay
    BY <1>1, AnsweredIs
  <1>3. RequestSound(r)'
    BY <1>1, <1>2 DEF RequestSound, AnswerIsTrue, Settles
  <1>4. QED
    BY <1>1, <1>2, <1>3, RequestsSoundBut, AnsweredTyped

LEMMA RecordSound ==
  ASSUME SInv, NEW r \in Request, Record(r)
  PROVE  SInv' /\ RowsKept /\ EvidenceKept /\ OthersHeld(request[r].form.tap)
  <1> DEFINE m == request[r]
  <1> PICK t \in Tap : t = m.form.tap
    BY NotFree DEF Record, SInv, InFlight, Form
  <1>1. m \in InFlight /\ Attributable(m) /\ m.stage = "judged"
    BY NotFree DEF Record, SInv, RequestsAreSound, RequestSound
  <1>2. UNCHANGED <<world, worker>>
    BY DEF Record, world
  <1>3. ASSUME NEW c \in m.classes, Added(NewRow(r, c)), request' = Answered(r, "ok"),
               UNCHANGED evidence
        PROVE  SInv' /\ RowsKept /\ EvidenceKept /\ OthersHeld(t)
    <2> DEFINE row == NewRow(r, c)
               k == Len(attendance) + 1
    <2>1. /\ DOMAIN attendance' = DOMAIN attendance \cup {k} /\ attendance'[k] = row
          /\ attendance' \in Seq(Row)
          /\ \A i \in DOMAIN attendance : attendance'[i] = attendance[i]
      BY <1>3, RowAdded DEF SInv, ServerTyped, Added
    <2>2. RowsKept /\ EvidenceKept
      BY <1>3, AddedKeeps DEF SInv, EvidenceKept
    <2>3. /\ row.by = t /\ row.taps = {t} /\ row.via = IF m.replay THEN "replay" ELSE "live"
          /\ OpenAt(row.class, row.at)
      BY <1>1 DEF NewRow, Attributable
    <2>4. Held(t)' /\ OthersHeld(t)
      BY <2>1, <2>3, <1>3 DEF Held, OthersHeld
    <2>5. ~m.replay => k \in Written(t, "live")'
      BY <2>1, <2>3 DEF Written
    <2>6. RequestsAreSound' /\ request' \in [Request -> {Free} \cup InFlight]
      BY <1>1, <1>3, <2>2, <2>4, <2>5, AnsweredSound DEF SInv
    <2>7. EvidenceIsSettled' /\ OpenWhenTapped'
      BY <1>3, <2>3, SettledBeside, OpenAdded DEF SInv
    <2>8. CorrectionsAreSound'
      BY <1>2, <2>2, CorrectionsKept DEF SInv
    <2>9. ServerTyped'
      BY <1>2, <1>3, <2>1, <2>6 DEF SInv, ServerTyped, world
    <2>10. QED
      BY <2>2, <2>4, <2>6, <2>7, <2>8, <2>9 DEF SInv
  <1>4. ASSUME SameOrigin, request' = Answered(r, "already_checked_in"), UNCHANGED evidence,
               \A i \in DOMAIN attendance :
                 /\ attendance'[i].class = attendance[i].class
                 /\ attendance'[i].match = attendance[i].match,
               \A i \in DOMAIN attendance, u \in Tap \ {t} :
                 u \in attendance'[i].taps => u \in attendance[i].taps,
               \E i \in DOMAIN attendance : t \in attendance'[i].taps
        PROVE  SInv' /\ RowsKept /\ EvidenceKept /\ OthersHeld(t)
    <2>1. RowsKept /\ EvidenceKept
      BY <1>4, SameOriginKeeps DEF EvidenceKept
    <2>2. Held(t)' /\ OthersHeld(t)
      BY <1>4 DEF Held, OthersHeld, SameOrigin
    <2>3. RequestsAreSound' /\ request' \in [Request -> {Free} \cup InFlight]
      BY <1>1, <1>4, <2>1, <2>2, AnsweredSound DEF SInv
    <2>4. EvidenceIsSettled' /\ OpenWhenTapped' /\ CorrectionsAreSound'
      BY <1>2, <1>4, <2>1, SettledKept, OpenKept, CorrectionsKept DEF SInv
    <2>5. ServerTyped'
      BY <1>2, <1>4, <2>3 DEF SInv, ServerTyped, SameOrigin, world
    <2>6. QED
      BY <2>1, <2>2, <2>3, <2>4, <2>5 DEF SInv
  <1>5. ASSUME Retain(r), UNCHANGED attendance
        PROVE  SInv' /\ RowsKept /\ EvidenceKept /\ OthersHeld(t)
    <2>1. SameOrigin /\ RowsKept
      BY <1>5, UnchangedIsSame, SameOriginKeeps DEF SInv
    <2>2. /\ request' = Answered(r, "retained")
          /\ evidence' = [evidence EXCEPT ![t] = IF @ = "none" THEN "PENDING" ELSE @]
      BY <1>5 DEF Retain
    <2>3. /\ evidence' \in [Tap -> {"none", "PENDING", "RESOLVED", "DISMISSED"}]
          /\ evidence'[t] # "none" /\ \A u \in Tap \ {t} : evidence'[u] = evidence[u]
          /\ \A u \in Tap : evidence'[u] = "RESOLVED" <=> evidence[u] = "RESOLVED"
      BY <1>1, <2>2 DEF SInv, ServerTyped
    <2>4. EvidenceKept /\ Held(t)' /\ OthersHeld(t)
      BY <1>5, <2>3 DEF EvidenceKept, Held, OthersHeld
    <2>5. RequestsAreSound' /\ request' \in [Request -> {Free} \cup InFlight]
      BY <1>1, <2>1, <2>2, <2>4, AnsweredSound DEF SInv
    <2>6. EvidenceIsSettled' /\ OpenWhenTapped' /\ CorrectionsAreSound'
      BY <1>2, <1>5, <2>1, <2>3, SettledKept, OpenKept, CorrectionsKept DEF SInv
    <2>7. ServerTyped'
      BY <1>2, <1>5, <2>3, <2>5 DEF SInv, ServerTyped, world
    <2>8. QED
      BY <2>1, <2>4, <2>5, <2>6, <2>7 DEF SInv
  <1>6. CASE Attribute(r) /\ UNCHANGED evidence
    <2>1. CASE request' = Answered(r, "ok") /\ \E c \in m.classes : Added(NewRow(r, c))
      BY <1>3, <1>6, <2>1
    <2>2. CASE ~(request' = Answered(r, "ok") /\ \E c \in m.classes : Added(NewRow(r, c)))
      BY <1>1, <1>4, <1>6, <2>2, Attributed DEF SInv
    <2>3. QED
      BY <2>1, <2>2
  <1>7. QED
    BY <1>5, <1>6 DEF Record

-----------------------------------------------------------------------------
(* Corrections and the world. *)

\* A step that writes no attendance and settles no evidence.
LEMMA ReadSound ==
  ASSUME SInv, UNCHANGED <<world, attendance, evidence, request>>,
         NEW w \in Worker, NEW j \in Correction, worker' = [worker EXCEPT ![w] = j],
         CorrectionSound(w)'
  PROVE  SInv' /\ RowsKept /\ EvidenceKept /\ SameHeld
  <1>1. SameOrigin /\ RowsKept /\ EvidenceKept /\ SameHeld
    BY UnchangedIsSame, SameOriginKeeps DEF SInv, EvidenceKept, SameHeld, Held
  <1>2. EvidenceIsSettled' /\ OpenWhenTapped' /\ RequestsAreSound'
    BY <1>1, SettledKept, OpenKept, RequestsLast DEF SInv
  <1>3. \A v \in Worker \ {w} : worker'[v] = worker[v]
    BY DEF SInv, ServerTyped
  <1>4. CorrectionsAreSound'
    BY <1>3 DEF SInv, CorrectionsAreSound, CorrectionSound, OpenAt
  <1>5. ServerTyped'
    BY DEF SInv, ServerTyped, world
  <1>6. QED
    BY <1>1, <1>2, <1>4, <1>5 DEF SInv

LEMMA ReadResolveSound ==
  ASSUME SInv, NEW w \in Worker, NEW t \in Tap, NEW c \in Class, NEW at \in 0..MaxNow,
         ReadResolve(w, t, c, at)
  PROVE  SInv' /\ RowsKept /\ EvidenceKept /\ SameHeld
  <1> DEFINE j == [task |-> "resolve", tap |-> t, class |-> c, at |-> at]
  <1>1. j \in Correction
    BY Constants DEF Correction
  <1>2. worker' = [worker EXCEPT ![w] = j] /\ worker'[w] = j
    BY DEF ReadResolve, SInv, ServerTyped
  <1>3. CorrectionSound(w)'
    BY <1>2 DEF CorrectionSound
  <1>4. QED
    BY <1>1, <1>2, <1>3, ReadSound DEF ReadResolve

LEMMA ReadDismissSound ==
  ASSUME SInv, NEW w \in Worker, NEW t \in Tap, ReadDismiss(w, t)
  PROVE  SInv' /\ RowsKept /\ EvidenceKept /\ SameHeld
  <1> DEFINE j == [task |-> "dismiss", tap |-> t]
  <1>1. j \in Correction
    BY DEF Correction
  <1>2. worker' = [worker EXCEPT ![w] = j] /\ worker'[w] = j
    BY DEF ReadDismiss, SInv, ServerTyped
  <1>3. CorrectionSound(w)'
    BY <1>2 DEF CorrectionSound
  <1>4. QED
    BY <1>1, <1>2, <1>3, ReadSound DEF ReadDismiss

LEMMA ReadReassignSound ==
  ASSUME SInv, NEW w \in Worker, NEW i \in DOMAIN attendance, NEW c \in Class,
         NEW k \in {"STUDENT_PICKED", "STAFF_CORRECTED"}, ReadReassign(w, i, c, k)
  PROVE  SInv' /\ RowsKept /\ EvidenceKept /\ SameHeld
  <1> DEFINE j == [task |-> "reassign", row |-> i, class |-> c, match |-> k,
                   days |-> {DayOf[c]} \ {attendance[i].date}]
  <1>1. i \in Nat \ {0}
    BY LenProperties DEF SInv, ServerTyped
  <1>2. j \in Correction
    BY <1>1, Constants DEF Correction
  <1>3. worker' = [worker EXCEPT ![w] = j] /\ worker'[w] = j
    BY DEF ReadReassign, SInv, ServerTyped
  <1>4. k = "STUDENT_PICKED" => OpenAt(c, attendance[i].at)
    BY DEF ReadReassign
  <1>5. attendance' = attendance
    BY DEF ReadReassign
  <1>6. CorrectionSound(w)'
    BY <1>3, <1>4, <1>5 DEF CorrectionSound, OpenAt
  <1>7. QED
    BY <1>2, <1>3, <1>6, ReadSound DEF ReadReassign

LEMMA IdleIsSound ==
  ASSUME SInv, NEW w \in Worker, worker' = [worker EXCEPT ![w] = Idle]
  PROVE  /\ worker' \in [Worker -> Correction]
         /\ \A v \in Worker : worker'[v] = worker[v] \/ worker'[v].task # "reassign"
  BY DEF SInv, ServerTyped, Correction, Idle

LEMMA WriteDismissSound ==
  ASSUME SInv, NEW w \in Worker, WriteDismiss(w)
  PROVE  SInv' /\ RowsKept /\ EvidenceKept /\ SameHeld
  <1> PICK t \in Tap : t = worker[w].tap
    BY DEF WriteDismiss, SInv, ServerTyped, Correction, Idle
  <1>1. /\ worker' = [worker EXCEPT ![w] = Idle]
        /\ evidence' = [evidence EXCEPT ![t] = IF @ = "PENDING" THEN "DISMISSED" ELSE @]
        /\ UNCHANGED <<world, attendance, request>>
    BY DEF WriteDismiss
  <1>2. /\ evidence' \in [Tap -> {"none", "PENDING", "RESOLVED", "DISMISSED"}]
        /\ \A u \in Tap : evidence'[u] = evidence[u]
                          \/ (evidence[u] = "PENDING" /\ evidence'[u] = "DISMISSED")
    <2>1. CASE evidence[t] = "PENDING"
      <3>1. evidence' = [evidence EXCEPT ![t] = "DISMISSED"]
        BY <1>1, <2>1
      <3>2. QED
        BY <2>1, <3>1 DEF SInv, ServerTyped
    <2>2. CASE evidence[t] # "PENDING"
      <3>1. evidence' = evidence
        BY <1>1, <2>2 DEF SInv, ServerTyped
      <3>2. QED
        BY <3>1 DEF SInv, ServerTyped
    <2>3. QED
      BY <2>1, <2>2
  <1>3. SameOrigin /\ RowsKept
    BY <1>1, UnchangedIsSame, SameOriginKeeps DEF SInv
  <1>4. EvidenceKept /\ SameHeld
    BY <1>1, <1>2 DEF EvidenceKept, SameHeld, Held
  <1>5. EvidenceIsSettled' /\ OpenWhenTapped' /\ RequestsAreSound' /\ CorrectionsAreSound'
    BY <1>1, <1>2, <1>3, <1>4, SettledKept, OpenKept, RequestsLast, CorrectionsKept, IdleIsSound
    DEF SInv
  <1>6. ServerTyped'
    BY <1>1, <1>2, IdleIsSound DEF SInv, ServerTyped, world
  <1>7. QED
    BY <1>3, <1>4, <1>5, <1>6 DEF SInv

\* Claiming the evidence is what makes it settled once: a second writer finds it
\* no longer PENDING.
LEMMA WriteResolveSound ==
  ASSUME SInv, NEW w \in Worker, WriteResolve(w)
  PROVE  SInv' /\ RowsKept /\ EvidenceKept /\ SameHeld
  <1> DEFINE j == worker[w]
             row == [student |-> StudentOf[j.tap], class |-> j.class, date |-> DayOf[j.class],
                     at |-> j.at, match |-> "STAFF_CORRECTED", voided |-> FALSE,
                     by |-> j.tap, via |-> "staff", taps |-> {j.tap}]
  <1>1. j \in [task : {"resolve"}, tap : Tap, class : Class, at : Nat]
    BY DEF WriteResolve, SInv, ServerTyped, Correction, Idle
  <1>2. worker' = [worker EXCEPT ![w] = Idle] /\ UNCHANGED <<world, request>>
    BY DEF WriteResolve
  <1>3. CASE UNCHANGED <<evidence, attendance>>
    <2>1. SameOrigin /\ RowsKept /\ EvidenceKept /\ SameHeld
      BY <1>3, UnchangedIsSame, SameOriginKeeps DEF SInv, EvidenceKept, SameHeld, Held
    <2>2. EvidenceIsSettled' /\ OpenWhenTapped' /\ RequestsAreSound' /\ CorrectionsAreSound'
      BY <1>2, <1>3, <2>1, SettledKept, OpenKept, RequestsLast, CorrectionsKept, IdleIsSound
      DEF SInv
    <2>3. ServerTyped'
      BY <1>2, <1>3, IdleIsSound DEF SInv, ServerTyped, world
    <2>4. QED
      BY <2>1, <2>2, <2>3 DEF SInv
  <1>4. CASE ~UNCHANGED <<evidence, attendance>>
    <2> PICK t \in Tap : t = j.tap
      BY <1>1
    <2> DEFINE k == Len(attendance) + 1
    <2>1. /\ evidence[t] = "PENDING"
          /\ evidence' = [evidence EXCEPT ![t] = "RESOLVED"]
          /\ attendance' = Append(attendance, row)
      BY <1>4 DEF WriteResolve
    <2>2. row \in Row
      BY <1>1, Constants DEF Row
    <2>3. Added(row)
      BY <2>1, <2>2 DEF Added
    <2> PICK new : new = row
      OBVIOUS
    <2>4. /\ new.by = t /\ new.via = "staff" /\ new.taps = {t} /\ new.match = "STAFF_CORRECTED"
          /\ Added(new)
      BY <2>3
    <2> HIDE DEF row
    <2>5. /\ DOMAIN attendance' = DOMAIN attendance \cup {k} /\ attendance'[k] = new
          /\ k \notin DOMAIN attendance /\ attendance' \in Seq(Row)
          /\ \A i \in DOMAIN attendance : attendance'[i] = attendance[i]
      BY <2>4, RowAdded DEF SInv, ServerTyped, Added
    <2>6. /\ evidence' \in [Tap -> {"none", "PENDING", "RESOLVED", "DISMISSED"}]
          /\ evidence'[t] = "RESOLVED" /\ \A u \in Tap \ {t} : evidence'[u] = evidence[u]
      BY <2>1 DEF SInv, ServerTyped
    <2>7. RowsKept /\ EvidenceKept
      BY <2>4, <2>6, AddedKeeps DEF SInv, EvidenceKept
    <2>8. SameHeld
      BY <2>1, <2>4, <2>5, <2>6 DEF SameHeld, Held
    <2>9. Written(t, "staff") = {}
      BY <2>1 DEF SInv, EvidenceIsSettled, Settled
    <2>10. Written(t, "staff")' = {k}
      BY <2>4, <2>5, <2>9 DEF Written
    <2>11. \A u \in Tap \ {t} : Written(u, "staff")' = Written(u, "staff")
      BY <2>4, <2>5 DEF Written
    <2>12. EvidenceIsSettled'
      BY <2>5, <2>6, <2>10, <2>11 DEF SInv, EvidenceIsSettled, Settled
    <2>13. OpenWhenTapped' /\ RequestsAreSound' /\ CorrectionsAreSound'
      BY <1>2, <2>4, <2>7, OpenAdded, RequestsLast, CorrectionsKept, IdleIsSound DEF SInv
    <2>14. ServerTyped'
      BY <1>2, <2>5, <2>6, IdleIsSound DEF SInv, ServerTyped, world
    <2>15. QED
      BY <2>7, <2>8, <2>12, <2>13, <2>14 DEF SInv
  <1>5. QED
    BY <1>3, <1>4

LEMMA RowOfAnother ==
  ASSUME ServerTyped, NEW i \in DOMAIN attendance, NEW c \in Class, NEW d \in Nat,
         NEW k \in {"STUDENT_PICKED", "STAFF_CORRECTED"},
         attendance' = [attendance EXCEPT ![i].class = c, ![i].match = k, ![i].date = d]
  PROVE  /\ SameOrigin
         /\ \A h \in DOMAIN attendance \ {i} : attendance'[h] = attendance[h]
         /\ attendance'[i].class = c /\ attendance'[i].match = k
         /\ \A h \in DOMAIN attendance : attendance'[h].taps = attendance[h].taps
  <1>1. attendance[i] \in Row
    BY RowsAreRows DEF ServerTyped
  <1> DEFINE n == [attendance[i] EXCEPT !.class = c, !.match = k, !.date = d]
  <1>2. n \in Row
    BY <1>1 DEF Row
  <1>3. /\ n.class = c /\ n.match = k /\ n.at = attendance[i].at
        /\ n.by = attendance[i].by /\ n.via = attendance[i].via /\ n.taps = attendance[i].taps
    BY <1>1 DEF Row
  <1>4. attendance' = [attendance EXCEPT ![i] = n]
    BY LenProperties DEF ServerTyped
  <1> HIDE DEF n
  <1>5. attendance' \in [DOMAIN attendance -> Row]
    BY <1>2, <1>4, RowsAreRows DEF ServerTyped
  <1>6. attendance' \in Seq(Row) /\ DOMAIN attendance' = DOMAIN attendance
    BY <1>5, RowsChanged DEF ServerTyped
  <1>7. attendance'[i] = n /\ \A h \in DOMAIN attendance \ {i} : attendance'[h] = attendance[h]
    BY <1>4
  <1>8. \A h \in DOMAIN attendance :
          /\ attendance'[h].by = attendance[h].by /\ attendance'[h].via = attendance[h].via
          /\ attendance'[h].at = attendance[h].at /\ attendance'[h].taps = attendance[h].taps
    BY <1>3, <1>7
  <1>9. QED
    BY <1>3, <1>6, <1>7, <1>8 DEF SameOrigin

LEMMA WriteReassignSound ==
  ASSUME SInv, NEW w \in Worker, WriteReassign(w)
  PROVE  SInv' /\ RowsKept /\ EvidenceKept /\ SameHeld
  <1> DEFINE j == worker[w]
             date == IF j.days = {} THEN attendance[j.row].date ELSE CHOOSE d \in j.days : TRUE
  <1>1. j \in [task : {"reassign"}, row : Nat \ {0}, class : Class,
               match : {"STUDENT_PICKED", "STAFF_CORRECTED"}, days : SUBSET Nat]
    BY DEF WriteReassign, SInv, ServerTyped, Correction, Idle
  <1>2. j.row \in DOMAIN attendance
        /\ (j.match = "STUDENT_PICKED" => OpenAt(j.class, attendance[j.row].at))
    BY <1>1 DEF SInv, CorrectionsAreSound, CorrectionSound
  <1>3. worker' = [worker EXCEPT ![w] = Idle] /\ UNCHANGED <<world, evidence, request>>
    BY DEF WriteReassign
  <1>4. date \in Nat
    <2>1. attendance[j.row] \in Row
      BY <1>2, RowsAreRows DEF SInv, ServerTyped
    <2>2. QED
      BY <1>1, <2>1 DEF Row
  <1>5. SameOrigin /\ OpenWhenTapped'
        /\ \A h \in DOMAIN attendance : attendance'[h].taps = attendance[h].taps
    <2>1. CASE attendance' = attendance
      BY <2>1, UnchangedIsSame, OpenKept DEF SInv
    <2>2. CASE attendance' # attendance
      <3> DEFINE i == j.row
      <3>1. attendance' = [attendance EXCEPT ![i].class = j.class, ![i].match = j.match,
                                             ![i].date = date]
        BY <2>2 DEF WriteReassign
      <3> PICK c \in Class, k \in {"STUDENT_PICKED", "STAFF_CORRECTED"}, d \in Nat :
               c = j.class /\ k = j.match /\ d = date
        BY <1>1, <1>4
      <3> HIDE DEF date
      <3>2. /\ SameOrigin
            /\ \A h \in DOMAIN attendance \ {i} : attendance'[h] = attendance[h]
            /\ attendance'[i].class = j.class /\ attendance'[i].match = j.match
            /\ \A h \in DOMAIN attendance : attendance'[h].taps = attendance[h].taps
        BY <1>1, <1>2, <1>4, <3>1, RowOfAnother DEF SInv
      <3>3. OpenWhenTapped'
        BY <1>1, <1>2, <3>2 DEF SInv, OpenWhenTapped, SameOrigin, OpenAt
      <3>4. QED
        BY <3>2, <3>3
    <2>3. QED
      BY <2>1, <2>2
  <1>6. RowsKept /\ EvidenceKept /\ SameHeld
    BY <1>3, <1>5, SameOriginKeeps DEF EvidenceKept, SameHeld, Held, SameOrigin
  <1>7. EvidenceIsSettled' /\ RequestsAreSound' /\ CorrectionsAreSound'
    BY <1>3, <1>5, <1>6, SettledKept, RequestsLast, CorrectionsKept, IdleIsSound DEF SInv
  <1>8. ServerTyped'
    BY <1>3, <1>5, IdleIsSound DEF SInv, ServerTyped, SameOrigin, world
  <1>9. QED
    BY <1>5, <1>6, <1>7, <1>8 DEF SInv

LEMMA CorrectSound ==
  ASSUME SInv, NEW w \in Worker, Correct(w)
  PROVE  SInv' /\ RowsKept /\ EvidenceKept /\ SameHeld
  BY ReadResolveSound, ReadDismissSound, ReadReassignSound, WriteResolveSound,
     WriteDismissSound, WriteReassignSound DEF Correct

LEMMA EnvironmentSound ==
  ASSUME SInv, Environment
  PROVE  SInv' /\ RowsKept /\ EvidenceKept /\ SameHeld
  <1>1. UNCHANGED <<evidence, request, worker>>
    BY DEF Environment, Tick, regenerateKioskToken, deactivateClassSession, SetMember, Outside,
           Void, world
  <1>2. now' \in 0..MaxNow /\ active' \subseteq Class /\ member' \subseteq Student /\ token' \in Nat
    BY Constants DEF Environment, Tick, regenerateKioskToken, deactivateClassSession, SetMember,
                     Outside, Void, world, SInv, ServerTyped
  <1>3. /\ SameOrigin
        /\ \A i \in DOMAIN attendance :
             /\ attendance'[i].class = attendance[i].class
             /\ attendance'[i].match = attendance[i].match
             /\ attendance'[i].taps = attendance[i].taps
    <2>1. CASE UNCHANGED attendance
      BY <2>1, UnchangedIsSame DEF SInv
    <2>2. ASSUME NEW i \in DOMAIN attendance, Void(i)
          PROVE  <1>3
      <3> DEFINE n == [attendance[i] EXCEPT !.voided = TRUE]
      <3>1. attendance' = [attendance EXCEPT ![i] = n] /\ attendance[i] \in Row
        BY <2>2, RowsAreRows DEF Void, SInv, ServerTyped
      <3>2. n \in Row /\ n.by = attendance[i].by /\ n.via = attendance[i].via
            /\ n.at = attendance[i].at /\ n.taps = attendance[i].taps
            /\ n.class = attendance[i].class /\ n.match = attendance[i].match
        BY <3>1 DEF Row
      <3> HIDE DEF n
      <3>3. attendance' \in [DOMAIN attendance -> Row]
        BY <3>1, <3>2, RowsAreRows DEF SInv, ServerTyped
      <3>4. attendance' \in Seq(Row) /\ DOMAIN attendance' = DOMAIN attendance
        BY <3>3, RowsChanged DEF SInv, ServerTyped
      <3>5. \A h \in DOMAIN attendance : attendance'[h] = IF h = i THEN n ELSE attendance[h]
        BY <3>1
      <3>6. QED
        BY <3>2, <3>4, <3>5 DEF SameOrigin
    <2>3. QED
      BY <2>1, <2>2 DEF Environment, Tick, regenerateKioskToken, deactivateClassSession, SetMember,
                        Outside
  <1>4. RowsKept /\ EvidenceKept /\ SameHeld
    BY <1>1, <1>3, SameOriginKeeps DEF EvidenceKept, SameHeld, Held, SameOrigin
  <1>5. EvidenceIsSettled' /\ OpenWhenTapped' /\ RequestsAreSound' /\ CorrectionsAreSound'
    BY <1>1, <1>3, <1>4, SettledKept, OpenKept, RequestsLast, CorrectionsKept DEF SInv
  <1>6. ServerTyped'
    BY <1>1, <1>2, <1>3 DEF SInv, ServerTyped, SameOrigin
  <1>7. QED
    BY <1>4, <1>5, <1>6 DEF SInv

-----------------------------------------------------------------------------
(* The tablet's variables. *)

\* The tablet's share of the invariant.
DInv == DeviceTyped /\ Waiting /\ EntriesAreQueued /\ TapsAreTold

LEMMA Shares == IInv <=> SInv /\ DInv
  BY TypesFollow DEF IInv, SInv, DInv, TypeOK

LEMMA ServerAsleep ==
  ASSUME SInv, UNCHANGED server
  PROVE  SInv' /\ RowsKept /\ EvidenceKept /\ SameHeld
  <1>1. UNCHANGED <<world, attendance, evidence, worker, request>>
    BY DEF server, world
  <1>2. RowsKept /\ EvidenceKept
    BY <1>1, UnchangedIsSame, SameOriginKeeps DEF SInv, EvidenceKept
  <1>3. RequestsAreSound' /\ request' \in [Request -> {Free} \cup InFlight]
    BY <1>1, <1>2, RequestsLast DEF SInv, ServerTyped
  <1>4. QED
    BY <1>1, <1>3, StillServer

LEMMA SentSound ==
  ASSUME SInv, ServerUnchanged, NEW r \in Request, NEW f \in Form, NEW b \in BOOLEAN,
         request' = Sent(r, f, b)
  PROVE  SInv' /\ RowsKept /\ EvidenceKept /\ SameHeld
  <1>1. RowsKept /\ EvidenceKept
    BY UnchangedIsSame, SameOriginKeeps DEF SInv, EvidenceKept, ServerUnchanged
  <1>2. request'[r].stage = "sent"
    BY DEF Sent, SInv, ServerTyped
  <1>3. RequestSound(r)'
    BY <1>2 DEF RequestSound
  <1>4. RequestsAreSound' /\ request' \in [Request -> {Free} \cup InFlight]
    BY <1>1, <1>3, RequestsSoundBut, SentTyped DEF SInv, Sent
  <1>5. QED
    BY <1>4, StillServer DEF ServerUnchanged

LEMMA FreedSound ==
  ASSUME SInv, ServerUnchanged, NEW r \in Request, request' = Freed(r)
  PROVE  SInv' /\ RowsKept /\ EvidenceKept /\ SameHeld
  <1>1. RowsKept /\ EvidenceKept
    BY UnchangedIsSame, SameOriginKeeps DEF SInv, EvidenceKept, ServerUnchanged
  <1>2. request'[r].stage = "free"
    BY DEF Freed, Free, SInv, ServerTyped
  <1>3. RequestSound(r)'
    BY <1>2 DEF RequestSound
  <1>4. RequestsAreSound' /\ request' \in [Request -> {Free} \cup InFlight]
    BY <1>1, <1>3, RequestsSoundBut, FreedTyped DEF SInv, Freed
  <1>5. QED
    BY <1>4, StillServer DEF ServerUnchanged

\* A tap that was told something stays told truly.
LEMMA ToldLasts ==
  ASSUME RowsKept, EvidenceKept, NEW t \in Tap, TapTold(t), tap'[t] = tap[t],
         fate'[t] = fate[t], Queued(t)' = Queued(t)
  PROVE  TapTold(t)'
  <1>1. Written(t, "live") # {} => Written(t, "live")' # {}
    BY FactsLast
  <1>2. PICK a : a = fate[t]
    OBVIOUS
  <1>3. Settles(t, a) => Settles(t, a)'
    BY FactsLast
  <1>4. QED
    BY <1>1, <1>2, <1>3 DEF TapTold

\* A request keeps what was sent, and is not free.
SameForm(r) ==
  request[r].stage # "free" =>
    /\ request'[r].stage # "free" /\ request'[r].form = request[r].form
    /\ request'[r].replay = request[r].replay

\* A step of the server alone.
LEMMA DeviceAsleep ==
  ASSUME DInv, RowsKept, EvidenceKept, UNCHANGED device,
         \A r \in Request : Awaited(r) => SameForm(r)
  PROVE  DInv'
  <1>1. DeviceTyped'
    BY DEF DInv, DeviceTyped, device
  <1>2. EntriesAreQueued'
    BY DEF DInv, EntriesAreQueued, device
  <1>3. TapsAreTold'
    BY ToldLasts DEF DInv, TapsAreTold, device, Queued
  <1>4. ASSUME NEW t \in Tap PROVE TapWaits(t)'
    <2>1. tap[t].req \in Request \cup {None}
      BY DEF DInv, DeviceTyped, TapType
    <2>2. tap[t].req # None => SameForm(tap[t].req)
      BY <2>1 DEF Awaited
    <2>3. QED
      BY <2>2 DEF DInv, Waiting, TapWaits, SameForm, device
  <1>5. ASSUME NEW p \in Page PROVE PageWaits(p)'
    <2>1. page[p].req \in Request \cup {None}
      BY DEF DInv, DeviceTyped, PageType
    <2>2. page[p].req # None => SameForm(page[p].req)
      BY <2>1 DEF Awaited
    <2>3. QED
      BY <2>2 DEF DInv, Waiting, PageWaits, SameForm, device
  <1>6. Waiting'
    BY <1>4, <1>5 DEF DInv, Waiting, device
  <1>7. QED
    BY <1>1, <1>2, <1>3, <1>6 DEF DInv

LEMMA JudgeSameForm ==
  ASSUME ServerTyped, NEW r \in Request, Judge(r)
  PROVE  \A q \in Request : SameForm(q)
  <1>1. request[r] \in InFlight
    BY NotFree DEF Judge
  <1>2. PICK no, ch, cl, wh :
          request' = [request EXCEPT ![r] =
            IF no # "none" THEN [request[r] EXCEPT !.stage = "answered", !.answer = no, !.choices = ch]
            ELSE [request[r] EXCEPT !.stage = "judged", !.classes = cl, !.when = wh]]
    BY DEF Judge
  <1>3. \A q \in Request \ {r} : request'[q] = request[q]
    BY <1>2 DEF ServerTyped
  <1>4. SameForm(r)
    BY <1>1, <1>2 DEF ServerTyped, SameForm, InFlight
  <1>5. QED
    BY <1>3, <1>4 DEF SameForm

LEMMA RecordSameForm ==
  ASSUME ServerTyped, NEW r \in Request, Record(r)
  PROVE  \A q \in Request : SameForm(q)
  <1>1. request[r].stage # "free"
    BY DEF Record
  <1>2. PICK a \in {"ok", "already_checked_in", "retained"} : request' = Answered(r, a)
    BY DEF Record, Attribute, Retain
  <1>3. a \in Answer
    BY DEF Answer
  <1>4. SameForm(r)
    BY <1>1, <1>2, <1>3, AnsweredIs DEF SameForm
  <1>5. \A q \in Request \ {r} : request'[q] = request[q]
    BY <1>2 DEF Answered, ServerTyped
  <1>6. QED
    BY <1>4, <1>5 DEF SameForm

LEMMA HandleKeeps ==
  ASSUME SInv, DInv, NEW r \in Request, Handle(r)
  PROVE  SInv' /\ DInv'
  <1>1. CASE Judge(r)
    BY <1>1, JudgeSound, JudgeSameForm, DeviceAsleep DEF Handle, SInv
  <1>2. CASE Record(r)
    BY <1>2, RecordSound, RecordSameForm, DeviceAsleep DEF Handle, SInv
  <1>3. QED
    BY <1>1, <1>2 DEF Handle

LEMMA VanishKeeps ==
  ASSUME SInv, DInv, NEW r \in Request, Vanish(r)
  PROVE  SInv' /\ DInv' /\ SameHeld
  <1>1. SInv' /\ RowsKept /\ EvidenceKept /\ SameHeld
    BY FreedSound DEF Vanish
  <1>2. \A q \in Request : Awaited(q) => SameForm(q)
    BY DEF Vanish, Freed, SInv, ServerTyped, SameForm
  <1>3. QED
    BY <1>1, <1>2, DeviceAsleep DEF Vanish

LEMMA CorrectKeeps ==
  ASSUME SInv, DInv, NEW w \in Worker, Correct(w)
  PROVE  SInv' /\ DInv' /\ SameHeld
  <1>1. SInv' /\ RowsKept /\ EvidenceKept /\ SameHeld
    BY CorrectSound
  <1>2. UNCHANGED device /\ UNCHANGED request
    BY DEF Correct, ReadResolve, ReadDismiss, ReadReassign, WriteResolve, WriteDismiss, WriteReassign
  <1>3. QED
    BY <1>1, <1>2, DeviceAsleep DEF SameForm

LEMMA EnvironmentKeeps ==
  ASSUME SInv, DInv, Environment
  PROVE  SInv' /\ DInv' /\ SameHeld
  <1>1. SInv' /\ RowsKept /\ EvidenceKept /\ SameHeld
    BY EnvironmentSound
  <1>2. UNCHANGED device /\ UNCHANGED request
    BY DEF Environment, Tick, regenerateKioskToken, deactivateClassSession, SetMember, Outside, Void
  <1>3. QED
    BY <1>1, <1>2, DeviceAsleep DEF SameForm

-----------------------------------------------------------------------------
(* Submitting a code. *)

LEMMA TapsTyped ==
  ASSUME DeviceTyped, NEW t \in Tap, NEW v \in TapType, tap' = [tap EXCEPT ![t] = v]
  PROVE  /\ tap' \in [Tap -> TapType] /\ tap'[t] = v
         /\ \A u \in Tap \ {t} : tap'[u] = tap[u]
  BY DEF DeviceTyped

LEMMA GoneTyped ==
  ASSUME NEW told \in {"new", "success", "error", "queued"}
  PROVE  Gone(told) \in TapType /\ Gone(told).told = told /\ Gone(told).req = None
  BY DEF Gone, TapType

\* A tap that is not queued yet has no entry, on the queue or in a flush.
LEMMA NotQueued ==
  ASSUME DInv, NEW t \in Tap, tap[t].told # "queued"
  PROVE  /\ \A i \in DOMAIN queue : queue[i].tap # t
         /\ \A p \in Page : \A i \in DOMAIN page[p].left : page[p].left[i].tap # t
         /\ fate[t] = "none"
  BY DEF DInv, EntriesAreQueued, TapsAreTold, TapTold

LEMMA EntriesTyped ==
  ASSUME DInv
  PROVE  /\ \A i \in DOMAIN queue : queue[i].tap \in Tap
         /\ \A p \in Page : \A i \in DOMAIN page[p].left : page[p].left[i].tap \in Tap
  <1>1. \A i \in DOMAIN queue : queue[i] \in Form
    BY LenProperties, ElementOfSeq DEF DInv, DeviceTyped
  <1>2. ASSUME NEW p \in Page, NEW i \in DOMAIN page[p].left
        PROVE  page[p].left[i] \in Form
    <2>1. page[p].left \in Seq(Form)
      BY DEF DInv, DeviceTyped, PageType
    <2>2. QED
      BY <2>1, LenProperties, ElementOfSeq
  <1>3. QED
    BY <1>1, <1>2 DEF Form

\* What another tap was told is nothing to the entries there are.
LEMMA EntriesStay ==
  ASSUME DInv, NEW t \in Tap, tap[t].told # "queued",
         \A u \in Tap \ {t} : tap'[u] = tap[u]
  PROVE  /\ \A i \in DOMAIN queue : tap'[queue[i].tap].told = "queued"
         /\ \A p \in Page : \A i \in DOMAIN page[p].left : tap'[page[p].left[i].tap].told = "queued"
  <1>1. /\ \A i \in DOMAIN queue : queue[i].tap \in Tap \ {t}
        /\ \A p \in Page : \A i \in DOMAIN page[p].left : page[p].left[i].tap \in Tap \ {t}
    BY EntriesTyped, NotQueued
  <1>2. QED
    BY <1>1 DEF DInv, EntriesAreQueued

LEMMA ReadyTyped ==
  ASSUME SInv, DInv, NEW t \in Tap, NEW c \in Class \cup {None}, Ready(t, c)
  PROVE  Token(t) \in Nat /\ tap[t].told \in {"new", "choose"} /\ tap[t].req = None
  BY DEF SInv, ServerTyped, DInv, DeviceTyped, TapType, Ready, Token, Waiting, TapWaits

LEMMA FormsInFlight ==
  ASSUME ServerTyped, NEW r \in Request, request[r].stage # "free"
  PROVE  request[r].form \in Form
  BY NotFree DEF InFlight

\* The other taps keep what they were told and wait for.
LEMMA OthersKept ==
  ASSUME DInv, RowsKept, EvidenceKept, NEW t \in Tap,
         \A u \in Tap \ {t} : tap'[u] = tap[u] /\ fate'[u] = fate[u] /\ Queued(u)' = Queued(u),
         UNCHANGED page, \A r \in Request : r # tap[t].req /\ Awaited(r) => SameForm(r),
         TapTold(t)', TapWaits(t)'
  PROVE  TapsAreTold' /\ Waiting'
  <1>1. TapsAreTold'
    BY ToldLasts DEF DInv, TapsAreTold
  <1>2. ASSUME NEW u \in Tap \ {t} PROVE TapWaits(u)'
    <2>1. tap[u].req \in Request \cup {None}
      BY DEF DInv, DeviceTyped, TapType
    <2>2. tap[u].req # None => SameForm(tap[u].req)
      BY <2>1 DEF Awaited, DInv, Waiting, TapWaits
    <2>3. QED
      BY <2>2 DEF DInv, Waiting, TapWaits, SameForm
  <1>3. ASSUME NEW p \in Page PROVE PageWaits(p)'
    <2>1. page[p].req \in Request \cup {None}
      BY DEF DInv, DeviceTyped, PageType
    <2>2. page[p].req # None => SameForm(page[p].req)
      BY <2>1 DEF Awaited, DInv, Waiting, TapWaits, PageWaits
    <2>3. QED
      BY <2>2 DEF DInv, Waiting, PageWaits, SameForm
  <1>4. Waiting'
    BY <1>2, <1>3 DEF DInv, Waiting
  <1>5. QED
    BY <1>1, <1>4

SameQueue == SameHeld /\ UNCHANGED <<queue, fate>>

LEMMA SubmitLiveKeeps ==
  ASSUME SInv, DInv, NEW t \in Tap, NEW c \in Class \cup {None}, NEW r \in Request,
         SubmitLive(t, c, r)
  PROVE  SInv' /\ DInv' /\ SameQueue
  <1> DEFINE f == [tap |-> t, picked |-> c, token |-> Token(t), at |-> 0]
             v == [told |-> "wait", picked |-> c, choices |-> {}, token |-> Token(t), req |-> r]
  <1>1. Token(t) \in Nat /\ tap[t].told \in {"new", "choose"} /\ tap[t].req = None
    BY ReadyTyped DEF SubmitLive
  <1>2. f \in Form /\ v \in TapType
    BY <1>1 DEF Form, TapType
  <1>3. SInv' /\ RowsKept /\ EvidenceKept /\ SameHeld
    BY <1>2, SentSound DEF SubmitLive
  <1>4. tap' \in [Tap -> TapType] /\ tap'[t] = v /\ \A u \in Tap \ {t} : tap'[u] = tap[u]
    BY <1>2, TapsTyped DEF SubmitLive, DInv
  <1>5. /\ request'[r].stage = "sent" /\ request'[r].form = f /\ request'[r].replay = FALSE
        /\ \A q \in Request : request[q].stage # "free" => SameForm(q)
    BY DEF SubmitLive, Sent, SInv, ServerTyped, SameForm
  <1>6. \A q \in Request : q # tap[t].req /\ Awaited(q) => SameForm(q)
    BY <1>5 DEF SameForm
  <1>7. UNCHANGED <<queue, page, fate>>
    BY DEF SubmitLive
  <1>8. TapTold(t)'
    BY <1>1, <1>4, <1>7, NotQueued DEF TapTold
  <1>9. TapWaits(t)'
    BY <1>4, <1>5, Constants DEF TapWaits
  <1>10. TapsAreTold' /\ Waiting'
    BY <1>3, <1>4, <1>6, <1>7, <1>8, <1>9, OthersKept DEF Queued
  <1>11. EntriesAreQueued'
    BY <1>1, <1>4, <1>7, EntriesStay DEF DInv, EntriesAreQueued
  <1>12. DeviceTyped'
    BY <1>4, <1>7 DEF DInv, DeviceTyped
  <1>13. QED
    BY <1>3, <1>7, <1>10, <1>11, <1>12 DEF DInv, SameQueue

\* What a tap may be told without having an entry: it gives up its request, if it had one.
LEMMA ToldKeeps ==
  ASSUME SInv, DInv, SInv', RowsKept, EvidenceKept, NEW t \in Tap, NEW v \in TapType,
         tap' = [tap EXCEPT ![t] = v], tap[t].told # "queued",
         v.told \in {"error", "success", "choose"}, v.req = None,
         v.told = "success" => Written(t, "live")' # {},
         UNCHANGED <<queue, page, fate>>,
         \A r \in Request : r # tap[t].req /\ Awaited(r) => SameForm(r)
  PROVE  DInv'
  <1>1. tap' \in [Tap -> TapType] /\ tap'[t] = v /\ \A u \in Tap \ {t} : tap'[u] = tap[u]
    BY TapsTyped DEF DInv
  <1>2. TapTold(t)'
    BY <1>1, NotQueued DEF TapTold
  <1>3. TapWaits(t)'
    BY <1>1 DEF TapWaits
  <1>4. TapsAreTold' /\ Waiting'
    BY <1>1, <1>2, <1>3, OthersKept DEF Queued
  <1>5. EntriesAreQueued'
    BY <1>1, EntriesStay DEF DInv, EntriesAreQueued
  <1>6. DeviceTyped'
    BY <1>1 DEF DInv, DeviceTyped
  <1>7. QED
    BY <1>4, <1>5, <1>6 DEF DInv

LEMMA DismissedKeeps ==
  ASSUME SInv, DInv, NEW t \in Tap, tap[t].told # "queued", Dismissed(t),
         UNCHANGED <<server, queue, page, fate>>
  PROVE  SInv' /\ DInv' /\ SameQueue
  <1>1. SInv' /\ RowsKept /\ EvidenceKept /\ SameHeld
    BY ServerAsleep
  <1>2. \A r \in Request : SameForm(r)
    BY DEF server, SameForm
  <1>3. /\ Gone("error") \in TapType /\ Gone("error").told = "error" /\ Gone("error").req = None
    BY GoneTyped
  <1>4. DInv'
    BY <1>1, <1>2, <1>3, ToldKeeps DEF Dismissed
  <1>5. QED
    BY <1>1, <1>4 DEF SameQueue

LEMMA LiveAnsweredKeeps ==
  ASSUME SInv, DInv, NEW t \in Tap, LiveAnswered(t)
  PROVE  SInv' /\ DInv' /\ SameQueue
  <1> DEFINE r == tap[t].req
             m == request[r]
             ask == m.answer \in {"class_selection_required", "class_not_open"} /\ m.choices # {}
  <1>1. tap[t].told = "wait" /\ r # None /\ m.form.tap = t /\ ~m.replay /\ m.stage = "answered"
    BY DEF LiveAnswered, DInv, Waiting, TapWaits
  <1>2. tap[t] \in TapType /\ r \in Request
    BY <1>1 DEF DInv, DeviceTyped, TapType
  <1>3. m \in InFlight
    BY <1>1, <1>2, NotFree DEF SInv
  <1>4. SInv' /\ RowsKept /\ EvidenceKept /\ SameHeld
    BY <1>2, FreedSound DEF LiveAnswered
  <1>5. \A q \in Request : q # r => SameForm(q)
    BY <1>2 DEF LiveAnswered, Freed, SInv, ServerTyped, SameForm
  <1>6. PICK v : /\ v = IF ask
                        THEN [tap[t] EXCEPT !.told = "choose", !.picked = None,
                                            !.choices = m.choices, !.req = None]
                        ELSE Gone(IF m.answer = "ok" THEN "success" ELSE "error")
    OBVIOUS
  <1>7. tap' = [tap EXCEPT ![t] = v] /\ UNCHANGED <<queue, page, fate>>
    BY <1>6 DEF LiveAnswered
  <1>8. v \in TapType /\ v.req = None /\ v.told \in {"error", "success", "choose"}
        /\ (v.told = "success" => m.answer = "ok")
    <2>1. CASE ask
      BY <1>2, <1>3, <1>6, <2>1 DEF TapType, InFlight
    <2>2. CASE ~ask
      BY <1>6, <2>2, GoneTyped
    <2>3. QED
      BY <2>1, <2>2
  <1>9. m.answer = "ok" => Written(t, "live") # {}
    BY <1>1, <1>2 DEF SInv, RequestsAreSound, RequestSound, AnswerIsTrue
  <1>10. v.told = "success" => Written(t, "live")' # {}
    BY <1>4, <1>8, <1>9, FactsLast
  <1>11. DInv'
    BY <1>1, <1>4, <1>5, <1>7, <1>8, <1>10, ToldKeeps
  <1>12. QED
    BY <1>4, <1>7, <1>11 DEF SameQueue

\* A tap becomes queued: its entry goes last.
LEMMA EnqueueKeeps ==
  ASSUME SInv, DInv, NEW t \in Tap, tap[t].told # "queued", NEW c \in Class \cup {None},
         Token(t) \in Nat, NEW k \in Skew, Enqueue(t, c, k), UNCHANGED <<server, page, fate>>
  PROVE  /\ SInv' /\ DInv' /\ SameHeld /\ UNCHANGED fate
         /\ ~Queued(t) /\ fate[t] = "none" /\ Queued(t)'
         /\ \A u \in Tap \ {t} : Queued(u)' = Queued(u)
  <1> DEFINE e == [tap |-> t, picked |-> c, token |-> Token(t), at |-> now + k]
             n == Len(queue) + 1
  <1>1. SInv' /\ RowsKept /\ EvidenceKept /\ SameHeld
    BY ServerAsleep
  <1>2. e \in Form
    BY Constants DEF Form, SInv, ServerTyped
  <1>3. /\ queue \in Seq(Form) /\ Len(queue) \in Nat /\ DOMAIN queue = 1..Len(queue)
    BY LenProperties DEF DInv, DeviceTyped
  <1>4. /\ queue' \in Seq(Form) /\ Len(queue') = n /\ queue'[n] = e
        /\ \A i \in 1..Len(queue) : queue'[i] = queue[i]
    BY <1>2, <1>3, AppendProperties DEF Enqueue
  <1>5. DOMAIN queue' = DOMAIN queue \cup {n} /\ n \notin DOMAIN queue
    <2>1. DOMAIN queue' = 1..n
      BY <1>4, LenProperties
    <2>2. QED
      BY <1>3, <2>1
  <1>6. tap' \in [Tap -> TapType] /\ tap'[t] = Gone("queued") /\ \A u \in Tap \ {t} : tap'[u] = tap[u]
    BY GoneTyped, TapsTyped DEF Enqueue, DInv
  <1>7. /\ \A i \in DOMAIN queue : queue[i].tap # t
        /\ \A p \in Page : \A i \in DOMAIN page[p].left : page[p].left[i].tap # t
        /\ fate[t] = "none"
    BY NotQueued
  <1>8. queue'[n].tap = t
    BY <1>4
  <1> HIDE DEF e, n
  <1>9. /\ ~Queued(t) /\ Queued(t)'
        /\ \A u \in Tap \ {t} : Queued(u)' = Queued(u)
    BY <1>3, <1>4, <1>5, <1>7, <1>8 DEF Queued
  <1>10. TapTold(t)' /\ TapWaits(t)'
    BY <1>6, <1>7, <1>9, GoneTyped DEF TapTold, TapWaits
  <1>11. \A r \in Request : SameForm(r)
    BY DEF server, SameForm
  <1>12. TapsAreTold' /\ Waiting'
    BY <1>1, <1>6, <1>9, <1>10, <1>11, OthersKept
  <1>13. EntriesAreQueued'
    <2>1. \A i \in DOMAIN queue' : tap'[queue'[i].tap].told = "queued"
      BY <1>3, <1>4, <1>5, <1>6, <1>8, EntriesStay, GoneTyped
    <2>2. \A i, j \in DOMAIN queue' : queue'[i].tap = queue'[j].tap => i = j
      BY <1>3, <1>4, <1>5, <1>7, <1>8 DEF DInv, EntriesAreQueued
    <2>3. QED
      BY <1>6, <2>1, <2>2, EntriesStay DEF EntriesAreQueued
  <1>14. DeviceTyped'
    BY <1>4, <1>6 DEF DInv, DeviceTyped
  <1>15. QED
    BY <1>1, <1>7, <1>9, <1>12, <1>13, <1>14 DEF DInv

-----------------------------------------------------------------------------
(* Flushing the queue. *)

LEMMA PagesTyped ==
  ASSUME DeviceTyped, NEW p \in Page, NEW v \in PageType, v.flushing = (v.left # <<>>),
         page' = [page EXCEPT ![p] = v]
  PROVE  /\ page' \in [Page -> PageType] /\ page'[p] = v
         /\ \A q \in Page \ {p} : page'[q] = page[q]
         /\ \A q \in Page : page'[q].flushing = (page'[q].left # <<>>)
  <1>1. page' \in [Page -> PageType] /\ page'[p] = v /\ \A q \in Page \ {p} : page'[q] = page[q]
    BY DEF DeviceTyped
  <1>2. \A q \in Page : page'[q].flushing = (page'[q].left # <<>>)
    BY <1>1 DEF DeviceTyped
  <1>3. QED
    BY <1>1, <1>2

\* The taps and the other pages wait for what they waited for.
LEMMA OtherPagesKept ==
  ASSUME DInv, NEW p \in Page, UNCHANGED tap,
         \A q \in Page \ {p} : page'[q] = page[q],
         \A r \in Request : r # page[p].req /\ Awaited(r) => SameForm(r),
         PageWaits(p)',
         page'[p].req # None => \A q \in Page \ {p} : page[q].req # page'[p].req
  PROVE  Waiting'
  <1>1. ASSUME NEW t \in Tap PROVE TapWaits(t)'
    <2>1. tap[t].req \in Request \cup {None}
      BY DEF DInv, DeviceTyped, TapType
    <2>2. tap[t].req # None => SameForm(tap[t].req)
      BY <2>1 DEF Awaited, DInv, Waiting, TapWaits, PageWaits
    <2>3. QED
      BY <2>2 DEF DInv, Waiting, TapWaits, SameForm
  <1>2. ASSUME NEW q \in Page \ {p} PROVE PageWaits(q)'
    <2>1. page[q].req \in Request \cup {None}
      BY DEF DInv, DeviceTyped, PageType
    <2>2. page[q].req # None => SameForm(page[q].req)
      BY <2>1 DEF Awaited, DInv, Waiting
    <2>3. QED
      BY <2>2 DEF DInv, Waiting, PageWaits, SameForm
  <1>3. ASSUME NEW u \in Page, NEW q \in Page,
               page'[u].req = page'[q].req, page'[u].req # None
        PROVE  u = q
    BY <1>3 DEF DInv, Waiting
  <1>4. QED
    BY <1>1, <1>2, <1>3 DEF Waiting

LEMMA FlushStartKeeps ==
  ASSUME SInv, DInv, NEW p \in Page, FlushStart(p)
  PROVE  SInv' /\ DInv' /\ SameQueue
  <1> DEFINE v == [flushing |-> TRUE, left |-> queue, req |-> None]
  <1>1. SInv' /\ RowsKept /\ EvidenceKept /\ SameHeld
    BY ServerAsleep DEF FlushStart
  <1>2. UNCHANGED <<tap, queue, fate, request>>
    BY DEF FlushStart, server
  <1>3. v \in PageType /\ v.flushing = (v.left # <<>>) /\ page' = [page EXCEPT ![p] = v]
    BY DEF FlushStart, DInv, DeviceTyped, PageType
  <1>4. /\ page' \in [Page -> PageType] /\ page'[p] = v
        /\ \A q \in Page \ {p} : page'[q] = page[q]
        /\ \A q \in Page : page'[q].flushing = (page'[q].left # <<>>)
    BY <1>3, PagesTyped DEF DInv
  <1>5. DeviceTyped'
    BY <1>2, <1>4 DEF DInv, DeviceTyped
  <1>6. Waiting'
    BY <1>2, <1>4, OtherPagesKept DEF PageWaits, SameForm
  <1>7. EntriesAreQueued'
    BY <1>2, <1>4 DEF DInv, EntriesAreQueued
  <1>8. TapsAreTold'
    BY <1>1, <1>2, ToldLasts DEF DInv, TapsAreTold, Queued
  <1>9. QED
    BY <1>1, <1>2, <1>5, <1>6, <1>7, <1>8 DEF DInv, SameQueue

LEMMA FlushStopsKeeps ==
  ASSUME SInv, DInv, NEW p \in Page, FlushStops(p)
  PROVE  SInv' /\ DInv' /\ SameQueue
  <1>1. SInv' /\ RowsKept /\ EvidenceKept /\ SameHeld
    BY ServerAsleep DEF FlushStops
  <1>2. UNCHANGED <<tap, queue, fate, request>>
    BY DEF FlushStops, server
  <1>3. Resting \in PageType /\ Resting.flushing = (Resting.left # <<>>)
        /\ page' = [page EXCEPT ![p] = Resting]
    BY EmptySeq DEF FlushStops, Resting, PageType
  <1>4. /\ page' \in [Page -> PageType] /\ page'[p] = Resting
        /\ \A q \in Page \ {p} : page'[q] = page[q]
        /\ \A q \in Page : page'[q].flushing = (page'[q].left # <<>>)
    BY <1>3, PagesTyped DEF DInv
  <1>5. DeviceTyped'
    BY <1>2, <1>4 DEF DInv, DeviceTyped
  <1>6. Waiting'
    BY <1>2, <1>4, OtherPagesKept DEF PageWaits, SameForm, Resting
  <1>7. EntriesAreQueued'
    BY <1>2, <1>4 DEF DInv, EntriesAreQueued, Resting
  <1>8. TapsAreTold'
    BY <1>1, <1>2, ToldLasts DEF DInv, TapsAreTold, Queued
  <1>9. QED
    BY <1>1, <1>2, <1>5, <1>6, <1>7, <1>8 DEF DInv, SameQueue

LEMMA FlushSendKeeps ==
  ASSUME SInv, DInv, NEW p \in Page, NEW r \in Request, FlushSend(p, r)
  PROVE  SInv' /\ DInv' /\ SameQueue
  <1> DEFINE e == Head(page[p].left)
             v == [page[p] EXCEPT !.req = r]
  <1>1. /\ page[p] \in PageType /\ page[p].left \in Seq(Form) /\ page[p].left # <<>>
        /\ page[p].flushing
    BY DEF FlushSend, DInv, DeviceTyped, PageType
  <1>2. e \in Form
    BY <1>1, HeadTailProperties
  <1>3. SInv' /\ RowsKept /\ EvidenceKept /\ SameHeld
    BY <1>2, SentSound DEF FlushSend
  <1>4. UNCHANGED <<tap, queue, fate>>
    BY DEF FlushSend
  <1>5. /\ v \in PageType /\ v.flushing = (v.left # <<>>) /\ v.left = page[p].left /\ v.req = r
        /\ page' = [page EXCEPT ![p] = v]
    BY <1>1 DEF FlushSend, PageType
  <1>6. /\ page' \in [Page -> PageType] /\ page'[p] = v
        /\ \A q \in Page \ {p} : page'[q] = page[q]
        /\ \A q \in Page : page'[q].flushing = (page'[q].left # <<>>)
    BY <1>5, PagesTyped DEF DInv
  <1>7. /\ request[r].stage = "free"
        /\ request'[r].stage = "sent" /\ request'[r].form = e /\ request'[r].replay = TRUE
        /\ \A q \in Request : request[q].stage # "free" => SameForm(q)
    BY DEF FlushSend, Sent, SInv, ServerTyped, SameForm
  <1>8. \A q \in Request : SameForm(q)
    BY <1>7 DEF SameForm
  <1>9. PageWaits(p)'
    BY <1>1, <1>5, <1>6, <1>7 DEF PageWaits
  <1>10. \A q \in Page : page[q].req # r
    BY <1>7, Constants DEF DInv, Waiting, PageWaits
  <1>11. Waiting'
    BY <1>4, <1>5, <1>6, <1>8, <1>9, <1>10, OtherPagesKept
  <1>12. DeviceTyped'
    BY <1>4, <1>6 DEF DInv, DeviceTyped
  <1>13. EntriesAreQueued'
    BY <1>4, <1>5, <1>6 DEF DInv, EntriesAreQueued
  <1>14. TapsAreTold'
    BY <1>3, <1>4, ToldLasts DEF DInv, TapsAreTold, Queued
  <1>15. QED
    BY <1>3, <1>4, <1>11, <1>12, <1>13, <1>14 DEF DInv, SameQueue

\* Deleting a tap's entry deletes its only one, and leaves the others in their order.
LEMMA EntryDeleted ==
  ASSUME DInv, NEW t \in Tap, queue' = WithoutEntry(t)
  PROVE  /\ queue' \in Seq(Form)
         /\ \A i \in DOMAIN queue' : \E k \in DOMAIN queue : queue'[i] = queue[k]
         /\ \A i, j \in DOMAIN queue' : queue'[i].tap = queue'[j].tap => i = j
         /\ ~Queued(t)'
         /\ \A u \in Tap \ {t} : Queued(u)' = Queued(u)
  <1>1. /\ queue \in Seq(Form) /\ Len(queue) \in Nat /\ DOMAIN queue = 1..Len(queue)
        /\ \A i \in 1..Len(queue) : queue[i] \in Form
        /\ \A i, j \in DOMAIN queue : queue[i].tap = queue[j].tap => i = j
    BY LenProperties, ElementOfSeq DEF DInv, DeviceTyped, EntriesAreQueued
  <1>2. CASE ~Queued(t)
    <2>1. queue' = queue
      BY <1>2 DEF WithoutEntry
    <2>2. QED
      BY <1>1, <1>2, <2>1 DEF Queued
  <1>3. CASE Queued(t)
    <2> DEFINE at == CHOOSE i \in DOMAIN queue : queue[i].tap = t
               n == Len(queue) - 1
               src(i) == IF i < at THEN i ELSE i + 1
    <2>1. at \in 1..Len(queue) /\ queue[at].tap = t
      BY <1>1, <1>3 DEF Queued
    <2>2. n \in Nat
      BY <1>1, <2>1
    <2>3. queue' = [i \in 1..n |-> IF i < at THEN queue[i] ELSE queue[i + 1]]
      BY <1>3 DEF WithoutEntry
    <2> HIDE DEF at
    <2>4. /\ DOMAIN queue' = 1..n
          /\ \A i \in 1..n : /\ src(i) \in 1..Len(queue) /\ src(i) # at
                             /\ queue'[i] = queue[src(i)]
          /\ \A i, j \in 1..n : src(i) = src(j) => i = j
      BY <1>1, <2>1, <2>2, <2>3
    <2>5. queue' \in [1..n -> Form]
      BY <1>1, <2>1, <2>2, <2>3
    <2>6. queue' \in Seq(Form)
      BY <2>2, <2>5, SeqDef
    <2>7. \A i \in 1..n : queue'[i].tap # t
      BY <1>1, <2>1, <2>4
    <2>8. ASSUME NEW k \in DOMAIN queue, k # at
          PROVE  \E i \in DOMAIN queue' : queue'[i] = queue[k]
      <3> DEFINE i == IF k < at THEN k ELSE k - 1
      <3>1. i \in 1..n /\ src(i) = k
        BY <1>1, <2>1, <2>8
      <3>2. QED
        BY <2>4, <3>1
    <2>9. ~Queued(t)'
      BY <2>4, <2>7 DEF Queued
    <2>10. ASSUME NEW u \in Tap \ {t}
           PROVE  Queued(u)' = Queued(u)
      <3>1. Queued(u)' => Queued(u)
        BY <1>1, <2>4 DEF Queued
      <3>2. ASSUME NEW k \in DOMAIN queue, queue[k].tap = u
            PROVE  Queued(u)'
        <4>1. k # at
          BY <2>1, <3>2
        <4>2. PICK i \in DOMAIN queue' : queue'[i] = queue[k]
          BY <2>8, <4>1
        <4>3. QED
          BY <3>2, <4>2 DEF Queued
      <3>3. QED
        BY <3>1, <3>2 DEF Queued
    <2>11. \A i, j \in DOMAIN queue' : queue'[i].tap = queue'[j].tap => i = j
      BY <1>1, <2>4
    <2>12. QED
      BY <1>1, <2>4, <2>6, <2>9, <2>10, <2>11
  <1>4. QED
    BY <1>2, <1>3

LEMMA FlushAnsweredKeeps ==
  ASSUME SInv, DInv, NEW p \in Page, FlushAnswered(p)
  PROVE  /\ SInv' /\ DInv' /\ SameHeld
         /\ \E t \in Tap : /\ Queued(t) \/ fate[t] # "none"
                           /\ ~Queued(t)' /\ fate'[t] # "none"
                           /\ \A u \in Tap \ {t} : Queued(u)' = Queued(u) /\ fate'[u] = fate[u]
  <1> DEFINE r == page[p].req
             rest == Tail(page[p].left)
             v == [flushing |-> rest # <<>>, left |-> rest, req |-> None]
  <1>1. /\ page[p] \in PageType /\ page[p].left \in Seq(Form) /\ page[p].left # <<>>
        /\ r \in Request /\ request[r].stage = "answered" /\ request[r].replay
        /\ request[r].form = Head(page[p].left)
    BY DEF FlushAnswered, DInv, DeviceTyped, PageType, Waiting, PageWaits
  <1>2. request[r] \in InFlight
    BY <1>1, NotFree DEF SInv
  <1> PICK t \in Tap : t = Head(page[p].left).tap
    <2>1. Head(page[p].left) \in Form
      BY <1>1, HeadTailProperties
    <2>2. QED
      BY <2>1 DEF Form
  <1> PICK a \in Answer \cup {"none"} : a = request[r].answer
    BY <1>2 DEF InFlight
  <1>3. a # "none" /\ Settles(t, a)
    BY <1>1 DEF SInv, RequestsAreSound, RequestSound, AnswerIsTrue
  <1>4. SInv' /\ RowsKept /\ EvidenceKept /\ SameHeld
    BY <1>1, FreedSound DEF FlushAnswered
  <1>5. Settles(t, a)'
    BY <1>3, <1>4, FactsLast
  <1>6. /\ UNCHANGED tap /\ queue' = WithoutEntry(t) /\ fate' = [fate EXCEPT ![t] = a]
        /\ page' = [page EXCEPT ![p] = v]
    BY DEF FlushAnswered
  <1>7. tap[t].told = "queued"
    <2>1. 1 \in DOMAIN page[p].left /\ Head(page[p].left) = page[p].left[1]
      BY <1>1, LenProperties, EmptySeq
    <2>2. QED
      BY <2>1 DEF DInv, EntriesAreQueued
  <1>8. /\ rest \in Seq(Form) /\ \A i \in DOMAIN rest : \E k \in DOMAIN page[p].left : rest[i] = page[p].left[k]
    <2>1. /\ rest \in Seq(Form) /\ Len(rest) = Len(page[p].left) - 1
          /\ \A i \in 1..Len(rest) : rest[i] = page[p].left[i + 1]
      BY <1>1, HeadTailProperties
    <2>2. /\ DOMAIN rest = 1..Len(rest) /\ DOMAIN page[p].left = 1..Len(page[p].left)
          /\ Len(rest) \in Nat /\ Len(page[p].left) \in Nat
      BY <1>1, <2>1, LenProperties
    <2>3. QED
      BY <2>1, <2>2
  <1>9. v \in PageType /\ v.flushing = (v.left # <<>>) /\ v.left = rest /\ v.req = None
    BY <1>8 DEF PageType
  <1>10. /\ page' \in [Page -> PageType] /\ page'[p] = v
         /\ \A q \in Page \ {p} : page'[q] = page[q]
         /\ \A q \in Page : page'[q].flushing = (page'[q].left # <<>>)
    BY <1>6, <1>9, PagesTyped DEF DInv
  <1>11. \A q \in Request : q # r => SameForm(q)
    BY <1>1 DEF FlushAnswered, Freed, SInv, ServerTyped, SameForm
  <1> HIDE DEF v, rest
  <1>12. Waiting'
    BY <1>6, <1>9, <1>10, <1>11, OtherPagesKept DEF PageWaits
  <1>13. /\ queue' \in Seq(Form)
         /\ \A i \in DOMAIN queue' : \E k \in DOMAIN queue : queue'[i] = queue[k]
         /\ \A i, j \in DOMAIN queue' : queue'[i].tap = queue'[j].tap => i = j
         /\ ~Queued(t)'
         /\ \A u \in Tap \ {t} : Queued(u)' = Queued(u)
    BY <1>6, EntryDeleted
  <1>14. /\ fate' \in [Tap -> Answer \cup {"none"}] /\ fate'[t] = a
         /\ \A u \in Tap \ {t} : fate'[u] = fate[u]
    BY <1>6 DEF DInv, DeviceTyped
  <1>15. DeviceTyped'
    BY <1>6, <1>10, <1>13, <1>14 DEF DInv, DeviceTyped
  <1>16. EntriesAreQueued'
    <2>1. \A i \in DOMAIN queue' : tap'[queue'[i].tap].told = "queued"
      BY <1>6, <1>13 DEF DInv, EntriesAreQueued
    <2>2. \A q \in Page : \A i \in DOMAIN page'[q].left : tap'[page'[q].left[i].tap].told = "queued"
      BY <1>6, <1>8, <1>9, <1>10 DEF DInv, EntriesAreQueued
    <2>3. QED
      BY <1>13, <2>1, <2>2 DEF EntriesAreQueued
  <1>17. TapTold(t)'
    BY <1>3, <1>5, <1>6, <1>7, <1>14 DEF TapTold
  <1>18. TapsAreTold'
    BY <1>4, <1>6, <1>13, <1>14, <1>17, ToldLasts DEF DInv, TapsAreTold
  <1>19. Queued(t) \/ fate[t] # "none"
    BY <1>7 DEF DInv, TapsAreTold, TapTold
  <1>20. QED
    BY <1>3, <1>4, <1>12, <1>13, <1>14, <1>15, <1>16, <1>18, <1>19 DEF DInv

-----------------------------------------------------------------------------
(* What the tablet says and the server holds. *)

LEMMA SubmitKeeps ==
  ASSUME SInv, DInv, NEW t \in Tap, Submit(t)
  PROVE  /\ SInv' /\ DInv'
         /\ \/ SameQueue
            \/ /\ SameHeld /\ UNCHANGED fate
               /\ ~Queued(t) /\ fate[t] = "none" /\ Queued(t)'
               /\ \A u \in Tap \ {t} : Queued(u)' = Queued(u)
  <1>1. CASE LiveAnswered(t)
    BY <1>1, LiveAnsweredKeeps
  <1>2. CASE LiveUnread(t)
    BY <1>2, DismissedKeeps DEF LiveUnread
  <1>3. CASE LiveThrown(t)
    <2>1. PICK k \in Skew : Enqueue(t, tap[t].picked, k)
      BY <1>3 DEF LiveThrown
    <2>2. /\ tap[t].picked \in Class \cup {None} /\ Token(t) \in Nat /\ tap[t].told # "queued"
      BY <1>3 DEF LiveThrown, Token, DInv, DeviceTyped, TapType
    <2>3. QED
      BY <1>3, <2>1, <2>2, EnqueueKeeps DEF LiveThrown
  <1>4. ASSUME NEW c \in Class \cup {None}, SubmitOffline(t, c)
        PROVE  /\ SInv' /\ DInv'
               /\ \/ SameQueue
                  \/ /\ SameHeld /\ UNCHANGED fate
                     /\ ~Queued(t) /\ fate[t] = "none" /\ Queued(t)'
                     /\ \A u \in Tap \ {t} : Queued(u)' = Queued(u)
    <2>1. Token(t) \in Nat /\ tap[t].told \in {"new", "choose"}
      BY <1>4, ReadyTyped DEF SubmitOffline
    <2>2. QED
      BY <1>4, <2>1, EnqueueKeeps, DismissedKeeps DEF SubmitOffline
  <1>5. ASSUME NEW c \in Class \cup {None}, NEW r \in Request, SubmitLive(t, c, r)
        PROVE  SInv' /\ DInv' /\ SameQueue
    BY <1>5, SubmitLiveKeeps
  <1>6. QED
    BY <1>1, <1>2, <1>3, <1>4, <1>5 DEF Submit

\* One tap's promise is all that a step changes.
OthersStand(t) == \A u \in Tap \ {t} : Stands(u)' = Stands(u)

LEMMA SameStand ==
  ASSUME SameQueue
  PROVE  UNCHANGED promised
  <1>1. \A t \in Tap : Stands(t)' = Stands(t)
    BY DEF SameQueue, SameHeld, Stands, Queued
  <1>2. QED
    BY <1>1 DEF promised

LEMMA PromiseMoves ==
  ASSUME NEW t \in Tap, OthersStand(t),
         \/ Stands(t)' = Stands(t)
         \/ Stands(t) = "open" /\ Stands(t)' = "kept"
         \/ Stands(t) # "held" /\ Stands(t)' = "held"
         \/ Stands(t) = "kept" /\ Stands(t)' = "refused"
  PROVE  [Promise!Next]_promised
  <1> DEFINE v == Stands(t)'
  <1>1. promised[t] = Stands(t)
    BY DEF promised
  <1>2. promised' = [promised EXCEPT ![t] = v]
    BY DEF promised, OthersStand
  <1>3. CASE v = Stands(t)
    BY <1>1, <1>2, <1>3 DEF promised
  <1>4. CASE v # Stands(t)
    BY <1>1, <1>2, <1>4 DEF Promise!Next, Promise!Keep, Promise!Hold, Promise!Refuse
  <1>5. QED
    BY <1>3, <1>4

\* Every step keeps the invariant, and is a step of the promise or none.
LEMMA StepKeeps ==
  ASSUME SInv, DInv, [Next]_vars
  PROVE  SInv' /\ DInv' /\ [Promise!Next]_promised
  <1>1. ASSUME NEW t \in Tap, Submit(t)
        PROVE  SInv' /\ DInv' /\ [Promise!Next]_promised
    <2>1. SInv' /\ DInv'
      BY <1>1, SubmitKeeps
    <2>2. CASE SameQueue
      BY <2>1, <2>2, SameStand
    <2>3. CASE ~SameQueue
      <3>1. /\ SameHeld /\ UNCHANGED fate
            /\ ~Queued(t) /\ fate[t] = "none" /\ Queued(t)'
            /\ \A u \in Tap \ {t} : Queued(u)' = Queued(u)
        BY <1>1, <2>3, SubmitKeeps
      <3>2. OthersStand(t)
        BY <3>1 DEF OthersStand, Stands, SameHeld
      <3>3. Stands(t)' = Stands(t) \/ (Stands(t) = "open" /\ Stands(t)' = "kept")
        BY <3>1 DEF Stands, SameHeld
      <3>4. QED
        BY <2>1, <3>2, <3>3, PromiseMoves
    <2>4. QED
      BY <2>2, <2>3
  <1>2. ASSUME NEW p \in Page, FlushAnswered(p)
        PROVE  SInv' /\ DInv' /\ [Promise!Next]_promised
    <2>1. PICK t \in Tap :
            /\ SInv' /\ DInv' /\ SameHeld
            /\ Queued(t) \/ fate[t] # "none"
            /\ ~Queued(t)' /\ fate'[t] # "none"
            /\ \A u \in Tap \ {t} : Queued(u)' = Queued(u) /\ fate'[u] = fate[u]
      BY <1>2, FlushAnsweredKeeps
    <2>2. OthersStand(t)
      BY <2>1 DEF OthersStand, Stands, SameHeld
    <2>3. Stands(t)' = Stands(t) \/ (Stands(t) = "kept" /\ Stands(t)' = "refused")
      BY <2>1 DEF Stands, SameHeld
    <2>4. QED
      BY <2>1, <2>2, <2>3, PromiseMoves
  <1>3. ASSUME NEW p \in Page, FlushStart(p) \/ FlushStops(p) \/ \E r \in Request : FlushSend(p, r)
        PROVE  SInv' /\ DInv' /\ [Promise!Next]_promised
    BY <1>3, FlushStartKeeps, FlushStopsKeeps, FlushSendKeeps, SameStand
  <1>4. ASSUME NEW r \in Request, Handle(r)
        PROVE  SInv' /\ DInv' /\ [Promise!Next]_promised
    <2>1. SInv' /\ DInv'
      BY <1>4, HandleKeeps
    <2>2. UNCHANGED <<queue, fate>>
      BY <1>4 DEF Handle, device
    <2>3. CASE Judge(r)
      BY <2>1, <2>2, <2>3, JudgeSound, SameStand DEF SameQueue
    <2>4. CASE Record(r)
      <3> PICK t \in Tap : t = request[r].form.tap
        BY <2>4, NotFree DEF Record, SInv, InFlight, Form
      <3>1. RowsKept /\ EvidenceKept /\ OthersHeld(t)
        BY <2>4, RecordSound
      <3>2. OthersStand(t)
        BY <2>2, <3>1 DEF OthersStand, OthersHeld, Stands, Queued
      <3>3. Held(t) => Held(t)'
        BY <3>1, FactsLast
      <3>4. Stands(t)' = Stands(t) \/ (Stands(t) # "held" /\ Stands(t)' = "held")
        BY <2>2, <3>3 DEF Stands, Queued
      <3>5. QED
        BY <2>1, <3>2, <3>4, PromiseMoves
    <2>5. QED
      BY <1>4, <2>3, <2>4 DEF Handle
  <1>5. ASSUME NEW r \in Request, Vanish(r)
        PROVE  SInv' /\ DInv' /\ [Promise!Next]_promised
    BY <1>5, VanishKeeps, SameStand DEF SameQueue, Vanish, device
  <1>6. ASSUME NEW w \in Worker, Correct(w)
        PROVE  SInv' /\ DInv' /\ [Promise!Next]_promised
    BY <1>6, CorrectKeeps, SameStand DEF SameQueue, Correct, device
  <1>7. ASSUME Environment
        PROVE  SInv' /\ DInv' /\ [Promise!Next]_promised
    BY <1>7, EnvironmentKeeps, SameStand DEF SameQueue, Environment, device
  <1>8. CASE UNCHANGED vars
    <2>1. UNCHANGED server /\ UNCHANGED device
      BY <1>8 DEF vars
    <2>2. SInv' /\ RowsKept /\ EvidenceKept /\ SameHeld
      BY <2>1, ServerAsleep
    <2>3. \A r \in Request : SameForm(r)
      BY <2>1 DEF server, SameForm
    <2>4. DInv'
      BY <2>1, <2>2, <2>3, DeviceAsleep
    <2>5. QED
      BY <2>1, <2>2, <2>4, SameStand DEF SameQueue, device
  <1>9. QED
    BY <1>1, <1>2, <1>3, <1>4, <1>5, <1>6, <1>7, <1>8 DEF Next, Flush

-----------------------------------------------------------------------------
THEOREM Invariance == Spec => []IInv
  <1>1. Init => IInv
    BY InitIsInductive
  <1>2. IInv /\ [Next]_vars => IInv'
    <2> SUFFICES ASSUME IInv, [Next]_vars PROVE IInv'
      OBVIOUS
    <2>1. SInv /\ DInv
      BY Shares
    <2>2. SInv' /\ DInv'
      BY <2>1, StepKeeps
    <2>3. (IInv <=> SInv /\ DInv)'
      BY Shares, PTL
    <2>4. QED
      BY <2>2, <2>3
  <1>3. QED
    BY <1>1, <1>2, PTL DEF Spec

\* Every variable of the tablet and of the server keeps its type, a page is flushing
\* exactly while it has entries left, and a request in flight is waited for by one tap
\* or one page at most.
THEOREM Types == Spec => []TypeOK
  <1>1. IInv => TypeOK
    BY DEF IInv
  <1>2. QED
    BY <1>1, Invariance, PTL

\* Evidence is settled once: RESOLVED exactly when one attendance was recorded from
\* it, whatever two coaches do to it at the same time.
THEOREM EvidenceSettledOnce == Spec => []SettledOnce
  <1>1. IInv => SettledOnce
    <2> SUFFICES ASSUME IInv, NEW t \in Tap
                 PROVE  Cardinality(Written(t, "staff")) = IF evidence[t] = "RESOLVED" THEN 1 ELSE 0
      BY DEF SettledOnce
    <2>1. Settled(t)
      BY DEF IInv, EvidenceIsSettled
    <2>2. CASE evidence[t] = "RESOLVED"
      BY <2>1, <2>2, FS_Singleton DEF Settled
    <2>3. CASE evidence[t] # "RESOLVED"
      BY <2>1, <2>3, FS_EmptySet DEF Settled
    <2>4. QED
      BY <2>2, <2>3
  <1>2. QED
    BY <1>1, Invariance, PTL

\* An attendance that no coach decided is in a class that was open at its instant,
\* after any interleaving of replays, corrections and coaches.
THEOREM AttendedWhenOpen == Spec => []OpenWhenTapped
  <1>1. IInv => OpenWhenTapped
    BY DEF IInv
  <1>2. QED
    BY <1>1, Invariance, PTL

\* The tablet tells the truth: a success has its attendance, and a queued check-in is
\* in the queue, held by the server or was refused by its code or its token.
THEOREM TabletIsTruthful == Spec => []ToldTruly
  <1>1. IInv => ToldTruly
    BY DEF IInv, TapsAreTold, TapTold, Settles, ToldTruly
  <1>2. QED
    BY <1>1, Invariance, PTL

\* The tablet and the server together keep CheckInPromise: a queued event is kept
\* until the server holds it, for good, or has refused it by name.
THEOREM PromiseImplemented == Spec => PromiseKept
  <1>1. Init => Promise!Init
    <2> SUFFICES ASSUME Init PROVE promised = [t \in Tap |-> "open"]
      BY DEF Promise!Init
    <2>1. \A t \in Tap : Stands(t) = "open"
      BY DEF Init, ServerInit, Stands, Held, Queued
    <2>2. QED
      BY <2>1 DEF promised
  <1>2. IInv /\ [Next]_vars => [Promise!Next]_promised
    BY Shares, StepKeeps
  <1>3. QED
    BY <1>1, <1>2, Invariance, PTL DEF Spec, PromiseKept, Promise!Spec
=============================================================================
