-------------------------- MODULE SubmissionProofs --------------------------
(***************************************************************************)
(* What holds of the submission ids for any number of ids, cards and       *)
(* calls.                                                                  *)
(***************************************************************************)
EXTENDS Submission, TLAPS

\* A call that is made is about an id, and is awaited only by a card that is
\* submitting that id; no card awaits two calls.
CallsAreAwaited ==
  /\ \A c \in Call : call[c].at \notin {"unused", "over"} => call[c].id \in Id
  /\ \A c \in Call : call[c].card # NoCard =>
       /\ card[call[c].card].phase = "submitting"
       /\ card[call[c].card].head = call[c].id
  /\ \A c, d \in Call : call[c].card # NoCard /\ call[c].card = call[d].card => c = d

\* One transaction at most holds an id, and only before anything is recorded for
\* it; an answer that says "recorded" is true.
IdsAreArbitrated ==
  /\ \A c \in Call : call[c].at = "won" => row[call[c].id] = "none"
  /\ \A c, d \in Call : Holds(c, call[d].id) /\ Holds(d, call[d].id) => c = d
  /\ \A c \in Call : call[c].at \in Known => row[call[c].id] # "none"

\* A card is busy with the head of its queue, or its queue is empty; what it has
\* seen, found readable and not seen cleared is in the queue; a failed clear is
\* one of an attempt that has an answer.
Busy == {"submitting", "checking", "blocked", "cleanup"}
WorksOff(k) ==
  /\ IF card[k].phase \in Busy THEN card[k].head \in card[k].queue
                               ELSE card[k].queue = {} /\ card[k].head = NoId
  /\ \A i \in card[k].seen \ card[k].odd : stored[i] # "absent" => i \in card[k].queue
  /\ card[k].phase = "cleanup" =>
       /\ card[k].head \in learned \cup refused
       /\ card[k].next \in {"form", "outcome"}
QueuesAreWorkedOff == \A k \in Card : WorksOff(k)

OnlyMinted ==
  /\ \A i \in Id : stored[i] # "absent" => i \in minted
  /\ \A k \in Card : card[k].seen \subseteq minted

IInv ==
  /\ TypeOK /\ CallsAreAwaited /\ IdsAreArbitrated /\ OneOutcome
  /\ QueuesAreWorkedOff /\ OnlyMinted /\ AttemptsAreKept

-----------------------------------------------------------------------------
LEMMA InitIsInductive == Init => IInv
  BY Nobody
  DEF Init, IInv, TypeOK, CallsAreAwaited, IdsAreArbitrated, OneOutcome,
      QueuesAreWorkedOff, WorksOff, OnlyMinted, AttemptsAreKept, CallType, CardType, Unused,
      Closed, Recorded, Known, Holds, Busy

\* How a call is answered, and what it is once nobody awaits it.
LEMMA AnswersAreTyped ==
  ASSUME TypeOK, NEW c \in Call, NEW answer \in {"pre", "refused", "over"} \cup Known,
         Answer(c, answer)
  PROVE  call' \in [Call -> CallType]
  BY DEF TypeOK, CallType, Answer, Over, Unused, Known, Recorded

LEMMA UnawaitedIsTyped ==
  ASSUME TypeOK, NEW c \in Call
  PROVE  Unawaited(c) \in CallType
  BY DEF TypeOK, CallType, Unawaited, InFlight, Over, Unused, Known, Recorded

LEMMA SentIsTyped ==
  ASSUME TypeOK, NEW k \in Card, NEW i \in Id, NEW retry \in BOOLEAN, Send(k, i, retry)
  PROVE  call' \in [Call -> CallType]
  <1>1. [at |-> "sent", id |-> i, retry |-> retry, card |-> k] \in CallType
    BY DEF CallType
  <1>2. QED
    BY <1>1 DEF TypeOK, Send

\* A card may be given any phase and any list of unreadable entries.
LEMMA CardsAreTyped ==
  ASSUME TypeOK, NEW k \in Card, NEW r \in CardType, card' = [card EXCEPT ![k] = r]
  PROVE  card' \in [Card -> CardType]
  BY DEF TypeOK

LEMMA PhasesAreTyped ==
  ASSUME TypeOK, NEW k \in Card,
         NEW phase \in {"unavailable", "form", "submitting", "checking", "blocked", "cleanup"},
         card' = [card EXCEPT ![k].phase = phase]
  PROVE  card' \in [Card -> CardType]
  <1>1. [card[k] EXCEPT !.phase = phase] \in CardType
    BY DEF TypeOK, CardType
  <1>2. QED
    BY <1>1, CardsAreTyped

LEMMA UnreadableAreIds ==
  ASSUME NEW entries, NEW k
  PROVE  /\ Unclassifiable(k, entries) \subseteq Id /\ Matching(k, entries) \subseteq Id
         /\ Bar(entries) \in {"open", "barred"}
  BY DEF Unclassifiable, Unreadable, Matching, Bar

\* Clearing an entry leaves the storage and the cards well formed.
LEMMA ClearIsTyped ==
  ASSUME TypeOK, NEW k \in Card, NEW i \in Id, NEW next \in {"form", "outcome"},
         AttemptClear(k, i, next)
  PROVE  /\ stored' \in [Id -> {"absent", "good", "bad"}]
         /\ card' \in [Card -> CardType]
  <1>1. CASE ClearEntry(k, i, next)
    <2> DEFINE rest   == card[k].queue \ {i}
               popped == [card[k] EXCEPT !.queue = rest, !.next = "none",
                                         !.bar = Bar(stored')]
    <2>1. popped \in CardType
      BY UnreadableAreIds DEF TypeOK, CardType
    <2>2. [popped EXCEPT !.head = NoId, !.phase = next] \in CardType
      BY <2>1 DEF CardType
    <2>3. \A h \in rest : [popped EXCEPT !.head = h, !.phase = "checking"] \in CardType
      BY <2>1 DEF TypeOK, CardType
    <2>4. /\ stored' = [stored EXCEPT ![i] = "absent"]
          /\ \/ card' = [card EXCEPT ![k] = [popped EXCEPT !.head = NoId, !.phase = next]]
             \/ \E h \in rest :
                  card' = [card EXCEPT ![k] = [popped EXCEPT !.head = h, !.phase = "checking"]]
      BY <1>1 DEF ClearEntry, PopQueue
    <2> HIDE DEF popped, rest
    <2>5. QED
      BY <2>2, <2>3, <2>4, CardsAreTyped DEF TypeOK
  <1>2. CASE /\ card' = [card EXCEPT ![k].phase = "cleanup", ![k].next = next]
             /\ UNCHANGED stored
    <2>1. [card[k] EXCEPT !.phase = "cleanup", !.next = next] \in CardType
      BY DEF TypeOK, CardType
    <2>2. card' = [card EXCEPT ![k] = [card[k] EXCEPT !.phase = "cleanup", !.next = next]]
      BY <1>2 DEF TypeOK
    <2>3. QED
      BY <1>2, <2>1, <2>2, CardsAreTyped DEF TypeOK
  <1>3. QED
    BY <1>1, <1>2 DEF AttemptClear

LEMMA TypeStep ==
  ASSUME IInv, [Next]_vars
  PROVE  TypeOK'
  <1>0. TypeOK /\ CallsAreAwaited /\ QueuesAreWorkedOff
    BY DEF IInv
  <1>1. ASSUME NEW c \in Call, RefuseBefore(c) PROVE TypeOK'
    BY <1>0, <1>1, AnswersAreTyped DEF TypeOK, RefuseBefore, server, client
  <1>2. ASSUME NEW c \in Call, Insert(c) PROVE TypeOK'
    BY <1>0, <1>2 DEF TypeOK, Insert, CallType, server, client
  <1>3. ASSUME NEW c \in Call, Replay(c) PROVE TypeOK'
    BY <1>0, <1>3, AnswersAreTyped DEF TypeOK, Replay, Known, server, client
  <1>4. ASSUME NEW c \in Call, Record(c) PROVE TypeOK'
    <2>1. call[c].id \in Id
      BY <1>0, <1>4 DEF CallsAreAwaited, Record
    <2>2. PICK kind \in Recorded : row' = [row EXCEPT ![call[c].id] = kind] /\ Answer(c, kind)
      BY <1>4 DEF Record
    <2>3. call' \in [Call -> CallType]
      BY <1>0, <2>2, AnswersAreTyped DEF Known
    <2>4. QED
      BY <1>0, <1>4, <2>1, <2>2, <2>3 DEF TypeOK, Record, client
  <1>5. ASSUME NEW c \in Call, RollBack(c) PROVE TypeOK'
    BY <1>0, <1>5, AnswersAreTyped DEF TypeOK, RollBack, server, client
  <1>6. ASSUME NEW c \in Call, Die(c) PROVE TypeOK'
    BY <1>0, <1>6, AnswersAreTyped DEF TypeOK, Die, server, client
  <1>7. ASSUME NEW c \in Call, Rejected(c) PROVE TypeOK'
    <2>1. call[c].card \in Card
      BY <1>0, <1>7 DEF TypeOK, CallType, Rejected
    <2>2. card' \in [Card -> CardType]
      BY <1>0, <1>7, <2>1, PhasesAreTyped DEF Rejected
    <2>3. QED
      BY <1>0, <1>7, <2>2, UnawaitedIsTyped DEF TypeOK, Rejected, server
  <1>8. ASSUME NEW c \in Call, Answered(c) PROVE TypeOK'
    <2>1. call[c].card \in Card /\ Over \in CallType
      BY <1>0, <1>8 DEF TypeOK, CallType, Answered, Over, Unused
    <2>2. call[c].at \in Known \cup {"pre", "refused"} => call[c].id \in Id
      BY <1>0 DEF CallsAreAwaited, Known, Recorded
    <2>3. CASE /\ Blocks(c)
               /\ card' = [card EXCEPT ![call[c].card].phase = "blocked"]
               /\ UNCHANGED <<stored, learned, refused>>
      BY <1>0, <1>8, <2>1, <2>3 DEF TypeOK, Answered, CardType, server
    <2>4. CASE Refuses(c) /\ refused' = refused \cup {call[c].id}
               /\ AttemptClear(call[c].card, call[c].id, "form") /\ UNCHANGED learned
      BY <1>0, <1>8, <2>1, <2>2, <2>4, ClearIsTyped DEF TypeOK, Answered, Refuses, server
    <2>5. CASE call[c].at \in Known /\ learned' = learned \cup {call[c].id}
               /\ AttemptClear(call[c].card, call[c].id, "outcome") /\ UNCHANGED refused
      BY <1>0, <1>8, <2>1, <2>2, <2>5, ClearIsTyped DEF TypeOK, Answered, server
    <2>6. QED
      BY <1>8, <2>3, <2>4, <2>5 DEF Answered
  <1>9. ASSUME NEW k \in Card, Mount(k) PROVE TypeOK'
    <2> DEFINE found == [Closed EXCEPT !.odd = Unclassifiable(k, stored),
                                       !.bar = Bar(stored),
                                       !.seen = Unclassifiable(k, stored) \cup Matching(k, stored)]
    <2>1. found \in CardType
      BY UnreadableAreIds DEF CardType, Closed
    <2>2. [found EXCEPT !.phase = "form"] \in CardType
      BY <2>1 DEF CardType
    <2>3. \A h \in Matching(k, stored) :
            [found EXCEPT !.phase = "checking", !.queue = Matching(k, stored), !.head = h]
              \in CardType
      BY <2>1, UnreadableAreIds DEF CardType
    <2>4. \/ card' = [card EXCEPT ![k].phase = "unavailable"]
          \/ card' = [card EXCEPT ![k] = [found EXCEPT !.phase = "form"]]
          \/ \E h \in Matching(k, stored) :
                card' = [card EXCEPT ![k] = [found EXCEPT
                           !.phase = "checking", !.queue = Matching(k, stored), !.head = h]]
      BY <1>9 DEF Mount
    <2> HIDE DEF found
    <2>5. card' \in [Card -> CardType]
      BY <1>0, <2>2, <2>3, <2>4, CardsAreTyped, PhasesAreTyped
    <2>6. QED
      BY <1>0, <1>9, <2>5 DEF TypeOK, Mount, server
  <1>10. ASSUME NEW k \in Card, Close(k) PROVE TypeOK'
    BY <1>0, <1>10, UnawaitedIsTyped DEF TypeOK, Close, CardType, Closed, server
  <1>11. ASSUME NEW k \in Card, FinishCleanup(k) PROVE TypeOK'
    <2>1. card[k].head \in Id /\ card[k].next \in {"form", "outcome"}
      BY <1>0, <1>11 DEF TypeOK, CardType, QueuesAreWorkedOff, WorksOff, FinishCleanup, Busy
    <2>2. QED
      BY <1>0, <1>11, <2>1, ClearIsTyped DEF TypeOK, FinishCleanup, AttemptClear, server
  <1>12. ASSUME NEW k \in Card, HandleSubmit(k) PROVE TypeOK'
    <2>1. PICK i \in Id \ minted :
            /\ minted' = minted \cup {i}
            /\ stored' = [stored EXCEPT ![i] = "good"]
            /\ card' = [card EXCEPT ![k] = [card[k] EXCEPT
                          !.phase = "submitting", !.queue = {i}, !.head = i,
                          !.seen = card[k].seen \cup {i}]]
            /\ Send(k, i, FALSE)
      BY <1>12 DEF HandleSubmit
    <2>2. [card[k] EXCEPT !.phase = "submitting", !.queue = {i}, !.head = i,
                          !.seen = card[k].seen \cup {i}] \in CardType
      BY <1>0 DEF TypeOK, CardType
    <2>3. card' \in [Card -> CardType]
      BY <1>0, <2>1, <2>2, CardsAreTyped
    <2>4. call' \in [Call -> CallType]
      BY <1>0, <2>1, SentIsTyped
    <2>5. QED
      BY <1>0, <1>12, <2>1, <2>3, <2>4 DEF TypeOK, HandleSubmit, server
  <1>13. ASSUME NEW k \in Card, HandleRetrySafely(k) PROVE TypeOK'
    <2>1. card[k].head \in Id
      BY <1>0, <1>13 DEF TypeOK, CardType, QueuesAreWorkedOff, WorksOff, HandleRetrySafely, Busy
    <2>2. QED
      BY <1>0, <1>13, <2>1, PhasesAreTyped, SentIsTyped DEF TypeOK, HandleRetrySafely, server
  <1>14. ASSUME NEW k \in Card, ResolveQueueHead(k) PROVE TypeOK'
    <2>1. card[k].head \in Id
      BY <1>0, <1>14 DEF TypeOK, CardType, QueuesAreWorkedOff, WorksOff, ResolveQueueHead, Busy
    <2>2. CASE AttemptClear(k, card[k].head, "outcome") /\ learned' = learned \cup {card[k].head}
      BY <1>0, <1>14, <2>1, <2>2, ClearIsTyped DEF TypeOK, ResolveQueueHead, server
    <2>3. CASE card' = [card EXCEPT ![k].phase = "blocked"] /\ UNCHANGED <<stored, learned>>
      BY <1>0, <1>14, <2>3 DEF TypeOK, CardType, ResolveQueueHead, server
    <2>4. QED
      BY <1>14, <2>2, <2>3 DEF ResolveQueueHead
  <1>15. ASSUME NEW k \in Card, HandleCheckStatusAgain(k) \/ StartOver(k) PROVE TypeOK'
    BY <1>0, <1>15, PhasesAreTyped DEF TypeOK, HandleCheckStatusAgain, StartOver, server
  <1>16. ASSUME NEW k \in Card, Notified(k) PROVE TypeOK'
    <2>1. [card[k] EXCEPT !.bar = Bar(stored)] \in CardType
      BY <1>0, UnreadableAreIds DEF TypeOK, CardType
    <2>2. card' \in [Card -> CardType]
      BY <1>0, <1>16, <2>1, CardsAreTyped DEF Notified
    <2>3. QED
      BY <1>0, <1>16, <2>2 DEF TypeOK, Notified, server
  <1>17. ASSUME NEW k \in Card, NEW i \in Id, CheckUnclassifiable(k, i) PROVE TypeOK'
    <2>1. [card[k] EXCEPT !.odd = card[k].odd \ {i}, !.bar = Bar(stored')]
            \in CardType
      BY <1>0, UnreadableAreIds DEF TypeOK, CardType
    <2>2. card' = [card EXCEPT ![k] = [card[k] EXCEPT !.odd = card[k].odd \ {i},
                                                     !.bar = Bar(stored')]]
      BY <1>0, <1>17 DEF TypeOK, CheckUnclassifiable
    <2>3. QED
      BY <1>0, <1>17, <2>1, <2>2, CardsAreTyped DEF TypeOK, CheckUnclassifiable, server
  <1>18. ASSUME NEW i \in Id, Spoil(i) \/ Heal(i) PROVE TypeOK'
    BY <1>0, <1>18 DEF TypeOK, Spoil, Heal, server
  <1>19. CASE UNCHANGED vars
    BY <1>0, <1>19 DEF TypeOK, vars, server, client
  <1>20. QED
    BY <1>1, <1>2, <1>3, <1>4, <1>5, <1>6, <1>7, <1>8, <1>9, <1>10, <1>11, <1>12, <1>13,
       <1>14, <1>15, <1>16, <1>17, <1>18, <1>19
    DEF Next, ServerStep, CardStep

-----------------------------------------------------------------------------
(***************************************************************************)
(* What the steps do to a call and to a card, field by field.              *)
(***************************************************************************)
LEMMA AnswerEffect ==
  ASSUME TypeOK, NEW c \in Call, NEW answer, Answer(c, answer)
  PROVE  /\ \A d \in Call : d # c => call'[d] = call[d]
         /\ \/ call'[c].at = "over" /\ call'[c].card = NoCard
            \/ /\ call'[c].at = answer
               /\ call'[c].id = call[c].id /\ call'[c].card = call[c].card
  BY DEF TypeOK, CallType, Answer, Over, Unused

LEMMA UnawaitedEffect ==
  ASSUME TypeOK, NEW c \in Call
  PROVE  /\ Unawaited(c).card = NoCard
         /\ \/ Unawaited(c).at = "over"
            \/ Unawaited(c).at = call[c].at /\ Unawaited(c).id = call[c].id
  BY DEF TypeOK, CallType, Unawaited, Over, Unused

LEMMA SendEffect ==
  ASSUME TypeOK, NEW k \in Card, NEW i \in Id, NEW retry \in BOOLEAN, Send(k, i, retry)
  PROVE  \E c \in Call :
           /\ \A d \in Call : d # c => call'[d] = call[d]
           /\ call'[c].at = "sent" /\ call'[c].id = i /\ call'[c].card = k
  BY DEF TypeOK, Send

LEMMA ClearEntryEffect ==
  ASSUME TypeOK, NEW k \in Card, NEW i \in Id, NEW next \in {"form", "outcome"},
         ClearEntry(k, i, next)
  PROVE  /\ \A j \in Card : j # k => card'[j] = card[j]
         /\ card'[k].seen = card[k].seen /\ card'[k].odd = card[k].odd
         /\ stored' = [stored EXCEPT ![i] = "absent"]
         /\ card'[k].queue = card[k].queue \ {i}
         /\ \/ card'[k].queue = {} /\ card'[k].head = NoId /\ card'[k].phase = next
            \/ card'[k].head \in card'[k].queue /\ card'[k].phase = "checking"
  <1> DEFINE rest   == card[k].queue \ {i}
             popped == [card[k] EXCEPT !.queue = rest, !.next = "none",
                                       !.bar = Bar(stored')]
  <1>1. /\ stored' = [stored EXCEPT ![i] = "absent"]
        /\ \/ /\ rest = {}
              /\ card' = [card EXCEPT ![k] = [popped EXCEPT !.head = NoId, !.phase = next]]
           \/ \E h \in rest :
                card' = [card EXCEPT ![k] = [popped EXCEPT !.head = h, !.phase = "checking"]]
    BY DEF ClearEntry, PopQueue
  <1>2. /\ popped.queue = rest
        /\ popped.seen = card[k].seen /\ popped.odd = card[k].odd
        /\ popped \in [phase : {card[k].phase}, queue : {rest}, head : {card[k].head},
                       next : {"none"}, odd : {card[k].odd},
                       bar : {Bar(stored')}, seen : {card[k].seen}]
    BY DEF TypeOK, CardType
  <1> HIDE DEF popped
  <1>3. CASE /\ rest = {}
             /\ card' = [card EXCEPT ![k] = [popped EXCEPT !.head = NoId, !.phase = next]]
    BY <1>1, <1>2, <1>3 DEF TypeOK
  <1>4. ASSUME NEW h \in rest,
               card' = [card EXCEPT ![k] = [popped EXCEPT !.head = h, !.phase = "checking"]]
        PROVE  /\ \A j \in Card : j # k => card'[j] = card[j]
               /\ card'[k].seen = card[k].seen /\ card'[k].odd = card[k].odd
               /\ card'[k].queue = rest
               /\ card'[k].head \in card'[k].queue /\ card'[k].phase = "checking"
    BY <1>2, <1>4 DEF TypeOK
  <1>5. QED
    BY <1>1, <1>3, <1>4

LEMMA AttemptClearEffect ==
  ASSUME TypeOK, NEW k \in Card, NEW i \in Id, NEW next \in {"form", "outcome"},
         AttemptClear(k, i, next), ~ClearEntry(k, i, next)
  PROVE  /\ \A j \in Card : j # k => card'[j] = card[j]
         /\ card'[k].seen = card[k].seen /\ card'[k].odd = card[k].odd
         /\ stored' = stored
         /\ card'[k].queue = card[k].queue /\ card'[k].head = card[k].head
         /\ card'[k].phase = "cleanup" /\ card'[k].next = next
  BY DEF TypeOK, CardType, AttemptClear

LEMMA PhaseEffect ==
  ASSUME TypeOK, NEW k \in Card, NEW phase, card' = [card EXCEPT ![k].phase = phase]
  PROVE  /\ \A j \in Card : j # k => card'[j] = card[j]
         /\ card'[k].phase = phase
         /\ card'[k].seen = card[k].seen /\ card'[k].odd = card[k].odd
         /\ card'[k].queue = card[k].queue /\ card'[k].head = card[k].head
         /\ card'[k].next = card[k].next
  BY DEF TypeOK, CardType

LEMMA MountEffect ==
  ASSUME TypeOK, NEW k \in Card, Mount(k)
  PROVE  /\ \A j \in Card : j # k => card'[j] = card[j]
         /\ \/ card' = [card EXCEPT ![k].phase = "unavailable"]
            \/ /\ card'[k].seen = Unclassifiable(k, stored) \cup Matching(k, stored)
               /\ card'[k].odd = Unclassifiable(k, stored)
               /\ card'[k].queue = Matching(k, stored)
               /\ \/ Matching(k, stored) = {} /\ card'[k].head = NoId /\ card'[k].phase = "form"
                  \/ card'[k].head \in card'[k].queue /\ card'[k].phase = "checking"
  <1> DEFINE found == [Closed EXCEPT !.odd = Unclassifiable(k, stored),
                                     !.bar = Bar(stored),
                                     !.seen = Unclassifiable(k, stored) \cup Matching(k, stored)]
  <1>1. \/ card' = [card EXCEPT ![k].phase = "unavailable"]
        \/ /\ Matching(k, stored) = {}
           /\ card' = [card EXCEPT ![k] = [found EXCEPT !.phase = "form"]]
        \/ \E h \in Matching(k, stored) :
             card' = [card EXCEPT ![k] = [found EXCEPT
                        !.phase = "checking", !.queue = Matching(k, stored), !.head = h]]
    BY DEF Mount
  <1>2. found \in [phase : {"closed"}, queue : {{}}, head : {NoId}, next : {"none"},
                   odd : {Unclassifiable(k, stored)}, bar : {Bar(stored)},
                   seen : {Unclassifiable(k, stored) \cup Matching(k, stored)}]
    BY DEF Closed
  <1> HIDE DEF found
  <1>3. CASE card' = [card EXCEPT ![k].phase = "unavailable"]
    BY <1>3 DEF TypeOK
  <1>4. CASE /\ Matching(k, stored) = {}
             /\ card' = [card EXCEPT ![k] = [found EXCEPT !.phase = "form"]]
    BY <1>2, <1>4 DEF TypeOK
  <1>5. ASSUME NEW h \in Matching(k, stored),
               card' = [card EXCEPT ![k] = [found EXCEPT
                          !.phase = "checking", !.queue = Matching(k, stored), !.head = h]]
        PROVE  /\ \A j \in Card : j # k => card'[j] = card[j]
               /\ card'[k].seen = Unclassifiable(k, stored) \cup Matching(k, stored)
               /\ card'[k].odd = Unclassifiable(k, stored)
               /\ card'[k].queue = Matching(k, stored)
               /\ card'[k].head \in card'[k].queue /\ card'[k].phase = "checking"
    BY <1>2, <1>5 DEF TypeOK
  <1>6. QED
    BY <1>1, <1>3, <1>4, <1>5

LEMMA HandleSubmitEffect ==
  ASSUME TypeOK, NEW k \in Card, HandleSubmit(k)
  PROVE  \E i \in Id \ minted :
           /\ minted' = minted \cup {i}
           /\ stored' = [stored EXCEPT ![i] = "good"]
           /\ \A j \in Card : j # k => card'[j] = card[j]
           /\ card'[k].phase = "submitting" /\ card'[k].head = i
           /\ card'[k].queue = {i} /\ card'[k].odd = card[k].odd
           /\ card'[k].seen = card[k].seen \cup {i}
           /\ Send(k, i, FALSE)
  <1>1. PICK i \in Id \ minted :
          /\ minted' = minted \cup {i}
          /\ stored' = [stored EXCEPT ![i] = "good"]
          /\ card' = [card EXCEPT ![k] = [card[k] EXCEPT
                        !.phase = "submitting", !.queue = {i}, !.head = i,
                        !.seen = card[k].seen \cup {i}]]
          /\ Send(k, i, FALSE)
    BY DEF HandleSubmit
  <1>2. /\ \A j \in Card : j # k => card'[j] = card[j]
        /\ card'[k].phase = "submitting" /\ card'[k].head = i
        /\ card'[k].queue = {i} /\ card'[k].odd = card[k].odd
        /\ card'[k].seen = card[k].seen \cup {i}
    BY <1>1 DEF TypeOK, CardType
  <1>3. QED
    BY <1>1, <1>2, Zenon

LEMMA NotifiedEffect ==
  ASSUME TypeOK, NEW k \in Card, Notified(k)
  PROVE  /\ \A j \in Card : j # k => card'[j] = card[j]
         /\ card'[k].phase = card[k].phase /\ card'[k].next = card[k].next
         /\ card'[k].seen = card[k].seen /\ card'[k].odd = card[k].odd
         /\ card'[k].queue = card[k].queue /\ card'[k].head = card[k].head
  BY DEF TypeOK, CardType, Notified

LEMMA CheckUnclassifiableEffect ==
  ASSUME TypeOK, NEW k \in Card, NEW i \in Id, CheckUnclassifiable(k, i)
  PROVE  /\ \A j \in Card : j # k => card'[j] = card[j]
         /\ card'[k].phase = card[k].phase /\ card'[k].next = card[k].next
         /\ card'[k].seen = card[k].seen /\ card'[k].odd = card[k].odd \ {i}
         /\ card'[k].queue = card[k].queue /\ card'[k].head = card[k].head
         /\ stored' = [stored EXCEPT ![i] = "absent"]
  BY DEF TypeOK, CardType, CheckUnclassifiable

-----------------------------------------------------------------------------
(***************************************************************************)
(* Calls and the cards that await them.                                    *)
(***************************************************************************)
\* A step of one card that awaits nothing, or goes on awaiting the same.
LEMMA OneCardMoves ==
  ASSUME TypeOK, CallsAreAwaited, NEW k \in Card, UNCHANGED call,
         \A j \in Card : j # k => card'[j] = card[j],
         \/ card[k].phase # "submitting"
         \/ card'[k].phase = card[k].phase /\ card'[k].head = card[k].head
  PROVE  CallsAreAwaited'
  BY DEF TypeOK, CallType, CallsAreAwaited

\* A call that is answered, sent on or left alone, the cards being what they were.
LEMMA OneCallMoves ==
  ASSUME TypeOK, CallsAreAwaited, NEW c \in Call, UNCHANGED card,
         \A d \in Call : d # c => call'[d] = call[d],
         \/ call'[c].at = "over" /\ call'[c].card = NoCard
         \/ /\ call[c].at \in {"sent", "won"}
            /\ call'[c].id = call[c].id /\ call'[c].card = call[c].card
  PROVE  CallsAreAwaited'
  BY DEF CallsAreAwaited

\* An awaited call comes back to its card, which may move as it pleases.
LEMMA CallComesBack ==
  ASSUME TypeOK, CallsAreAwaited, NEW c \in Call, NEW k \in Card, call[c].card = k,
         \A d \in Call : d # c => call'[d] = call[d],
         \A j \in Card : j # k => card'[j] = card[j],
         call'[c].card = NoCard,
         \/ call'[c].at = "over"
         \/ call'[c].at = call[c].at /\ call'[c].id = call[c].id
  PROVE  CallsAreAwaited'
  BY Nobody DEF TypeOK, CallType, CallsAreAwaited

\* A card that awaits nothing sends the head of its queue.
LEMMA CardSends ==
  ASSUME TypeOK, CallsAreAwaited, NEW k \in Card, NEW i \in Id, NEW retry \in BOOLEAN,
         Send(k, i, retry), card[k].phase # "submitting",
         \A j \in Card : j # k => card'[j] = card[j],
         card'[k].phase = "submitting", card'[k].head = i
  PROVE  CallsAreAwaited'
  <1>1. PICK c \in Call : /\ \A d \in Call : d # c => call'[d] = call[d]
                          /\ call'[c].at = "sent" /\ call'[c].id = i /\ call'[c].card = k
    BY SendEffect
  <1>2. QED
    BY <1>1, Nobody DEF TypeOK, CallType, CallsAreAwaited

LEMMA AwaitedStep ==
  ASSUME IInv, TypeOK', [Next]_vars
  PROVE  CallsAreAwaited'
  <1>0. TypeOK /\ CallsAreAwaited /\ QueuesAreWorkedOff
    BY DEF IInv
  <1>1. ASSUME NEW c \in Call, ServerStep(c) PROVE CallsAreAwaited'
    <2>0. UNCHANGED card
      BY <1>1 DEF ServerStep, RefuseBefore, Insert, Replay, Record, RollBack, Die, client
    <2>1. CASE Insert(c)
      <3>1. /\ \A d \in Call : d # c => call'[d] = call[d]
            /\ call'[c].id = call[c].id /\ call'[c].card = call[c].card
        BY <1>0, <2>1 DEF TypeOK, CallType, Insert
      <3>2. QED
        BY <1>0, <2>0, <2>1, <3>1, OneCallMoves DEF Insert
    <2>2. CASE \E answer : Answer(c, answer) /\ call[c].at \in {"sent", "won"}
      BY <1>0, <2>0, <2>2, AnswerEffect, OneCallMoves
    <2>3. QED
      BY <1>1, <2>1, <2>2
      DEF ServerStep, RefuseBefore, Replay, Record, RollBack, Die, InFlight
  <1>2. ASSUME NEW c \in Call, Rejected(c) PROVE CallsAreAwaited'
    <2>1. call[c].card \in Card
      BY <1>0, <1>2 DEF TypeOK, CallType, Rejected
    <2>2. \A j \in Card : j # call[c].card => card'[j] = card[j]
      BY <1>0, <1>2, <2>1, PhaseEffect DEF Rejected
    <2>3. call'[c] = Unawaited(c) /\ \A d \in Call : d # c => call'[d] = call[d]
      BY <1>0, <1>2 DEF TypeOK, Rejected
    <2>4. QED
      BY <1>0, <2>1, <2>2, <2>3, UnawaitedEffect, CallComesBack
  <1>3. ASSUME NEW c \in Call, Answered(c) PROVE CallsAreAwaited'
    <2>1. call[c].card \in Card
      BY <1>0, <1>3 DEF TypeOK, CallType, Answered
    <2>2. /\ call'[c].at = "over" /\ call'[c].card = NoCard
          /\ \A d \in Call : d # c => call'[d] = call[d]
      BY <1>0, <1>3 DEF TypeOK, Answered, Over, Unused
    <2>3. call[c].at \in Known \cup {"pre", "refused"} => call[c].id \in Id
      BY <1>0 DEF CallsAreAwaited, Known, Recorded
    <2>4. \A j \in Card : j # call[c].card => card'[j] = card[j]
      <3>1. CASE card' = [card EXCEPT ![call[c].card].phase = "blocked"]
        BY <1>0, <2>1, <3>1, PhaseEffect
      <3>2. CASE \E next \in {"form", "outcome"} :
                   AttemptClear(call[c].card, call[c].id, next) /\ call[c].id \in Id
        BY <1>0, <2>1, <3>2, ClearEntryEffect, AttemptClearEffect
      <3>3. QED
        BY <1>3, <2>3, <3>1, <3>2 DEF Answered, Refuses
    <2>5. QED
      BY <1>0, <2>1, <2>2, <2>4, CallComesBack
  <1>4. ASSUME NEW k \in Card, Mount(k) PROVE CallsAreAwaited'
    BY <1>0, <1>4, MountEffect, OneCardMoves DEF Mount
  <1>5. ASSUME NEW k \in Card, Close(k) PROVE CallsAreAwaited'
    <2>1. \A d \in Call : IF call[d].card = k THEN call'[d] = Unawaited(d)
                                              ELSE call'[d] = call[d]
      BY <1>5 DEF Close
    <2>2. \A j \in Card : j # k => card'[j] = card[j]
      BY <1>0, <1>5 DEF TypeOK, Close
    <2>3. QED
      BY <1>0, <2>1, <2>2, UnawaitedEffect, Nobody DEF TypeOK, CallType, CallsAreAwaited
  <1>6. ASSUME NEW k \in Card, FinishCleanup(k) PROVE CallsAreAwaited'
    <2>1. card[k].head \in Id /\ card[k].next \in {"form", "outcome"}
      BY <1>0, <1>6 DEF TypeOK, CardType, QueuesAreWorkedOff, WorksOff, FinishCleanup, Busy
    <2>2. QED
      BY <1>0, <1>6, <2>1, ClearEntryEffect, OneCardMoves DEF FinishCleanup
  <1>7. ASSUME NEW k \in Card, HandleSubmit(k) PROVE CallsAreAwaited'
    <2>1. card[k].phase # "submitting"
      BY <1>7 DEF HandleSubmit, MaySubmit
    <2>2. QED
      BY <1>0, <1>7, <2>1, HandleSubmitEffect, CardSends
  <1>8. ASSUME NEW k \in Card, HandleRetrySafely(k) PROVE CallsAreAwaited'
    <2>1. card[k].head \in Id /\ card[k].phase # "submitting"
      BY <1>0, <1>8 DEF TypeOK, CardType, QueuesAreWorkedOff, WorksOff, HandleRetrySafely, Busy
    <2>2. card' = [card EXCEPT ![k].phase = "submitting"] /\ Send(k, card[k].head, TRUE)
      BY <1>8 DEF HandleRetrySafely
    <2>3. /\ \A j \in Card : j # k => card'[j] = card[j]
          /\ card'[k].phase = "submitting" /\ card'[k].head = card[k].head
      BY <1>0, <2>2, PhaseEffect
    <2>4. QED
      BY <1>0, <2>1, <2>2, <2>3, CardSends
  <1>9. ASSUME NEW k \in Card, ResolveQueueHead(k) PROVE CallsAreAwaited'
    <2>1. card[k].head \in Id /\ card[k].phase # "submitting"
      BY <1>0, <1>9 DEF TypeOK, CardType, QueuesAreWorkedOff, WorksOff, ResolveQueueHead, Busy
    <2>2. \A j \in Card : j # k => card'[j] = card[j]
      <3>1. CASE card' = [card EXCEPT ![k].phase = "blocked"]
        BY <1>0, <3>1, PhaseEffect
      <3>2. CASE AttemptClear(k, card[k].head, "outcome")
        BY <1>0, <2>1, <3>2, ClearEntryEffect, AttemptClearEffect
      <3>3. QED
        BY <1>9, <3>1, <3>2 DEF ResolveQueueHead
    <2>3. QED
      BY <1>0, <1>9, <2>1, <2>2, OneCardMoves DEF ResolveQueueHead
  <1>10. ASSUME NEW k \in Card, HandleCheckStatusAgain(k) \/ StartOver(k)
         PROVE CallsAreAwaited'
    BY <1>0, <1>10, PhaseEffect, OneCardMoves DEF HandleCheckStatusAgain, StartOver
  <1>11. ASSUME NEW k \in Card, Notified(k) PROVE CallsAreAwaited'
    BY <1>0, <1>11, NotifiedEffect, OneCardMoves DEF Notified
  <1>12. ASSUME NEW k \in Card, NEW i \in Id, CheckUnclassifiable(k, i)
         PROVE CallsAreAwaited'
    BY <1>0, <1>12, CheckUnclassifiableEffect, OneCardMoves DEF CheckUnclassifiable
  <1>13. CASE UNCHANGED <<call, card>>
    BY <1>0, <1>13 DEF CallsAreAwaited
  <1>14. QED
    BY <1>1, <1>2, <1>3, <1>4, <1>5, <1>6, <1>7, <1>8, <1>9, <1>10, <1>11, <1>12, <1>13
    DEF Next, CardStep, Spoil, Heal, vars, client

-----------------------------------------------------------------------------
(***************************************************************************)
(* The arbitration of the ids.                                             *)
(***************************************************************************)
\* A step that records nothing, and gives each call an answer that is no more
\* than it had, or none at all.
LEMMA NothingIsRecorded ==
  ASSUME IdsAreArbitrated, OneOutcome, UNCHANGED server,
         \A d \in Call : \/ call'[d].at \notin {"won"} \cup Known
                         \/ call'[d].at = call[d].at /\ call'[d].id = call[d].id
  PROVE  IdsAreArbitrated' /\ OneOutcome'
  BY DEF IdsAreArbitrated, OneOutcome, Holds, server

LEMMA ArbitratedStep ==
  ASSUME IInv, TypeOK', [Next]_vars
  PROVE  IdsAreArbitrated' /\ OneOutcome'
  <1>0. TypeOK /\ CallsAreAwaited /\ IdsAreArbitrated /\ OneOutcome
    BY DEF IInv
  <1>1. ASSUME NEW c \in Call, Insert(c) PROVE IdsAreArbitrated' /\ OneOutcome'
    <2>1. /\ \A d \in Call : d # c => call'[d] = call[d]
          /\ call'[c].at = "won" /\ call'[c].id = call[c].id
          /\ UNCHANGED <<row, booked>>
      BY <1>0, <1>1 DEF TypeOK, CallType, Insert, server
    <2>2. row[call[c].id] = "none" /\ \A d \in Call : ~Holds(d, call[c].id)
      BY <1>1 DEF Insert
    <2>3. QED
      BY <1>0, <2>1, <2>2 DEF IdsAreArbitrated, OneOutcome, Holds, Known, Recorded
  <1>2. ASSUME NEW c \in Call, Replay(c) PROVE IdsAreArbitrated' /\ OneOutcome'
    <2>1. /\ \A d \in Call : d # c => call'[d] = call[d]
          /\ \/ call'[c].at = "over"
             \/ call'[c].at = "replay" /\ call'[c].id = call[c].id
          /\ UNCHANGED <<row, booked>>
      BY <1>0, <1>2, AnswerEffect DEF Replay, server
    <2>2. row[call[c].id] # "none"
      BY <1>2 DEF Replay
    <2>3. QED
      BY <1>0, <2>1, <2>2 DEF IdsAreArbitrated, OneOutcome, Holds, Known, Recorded
  <1>3. ASSUME NEW c \in Call, Record(c) PROVE IdsAreArbitrated' /\ OneOutcome'
    <2>1. call[c].id \in Id /\ call[c].at = "won"
      BY <1>0, <1>3 DEF CallsAreAwaited, Record
    <2>2. PICK kind \in Recorded : row' = [row EXCEPT ![call[c].id] = kind] /\ Answer(c, kind)
      BY <1>3 DEF Record
    <2>3. /\ \A d \in Call : d # c => call'[d] = call[d]
          /\ \/ call'[c].at = "over"
             \/ call'[c].at = kind /\ call'[c].id = call[c].id
      BY <1>0, <2>2, AnswerEffect
    <2>4. /\ \A i \in Id : row'[i] = IF i = call[c].id THEN kind ELSE row[i]
          /\ \A i \in Id : booked'[i] = IF i = call[c].id THEN booked[i] \cup {c}
                                                          ELSE booked[i]
      BY <1>0, <1>3, <2>1, <2>2 DEF TypeOK, Record
    <2>5. row[call[c].id] = "none" /\ booked[call[c].id] = {}
      BY <1>0, <2>1 DEF IdsAreArbitrated, OneOutcome
    <2>6. kind # "none"
      BY DEF Recorded
    <2>7. OneOutcome'
      <3> SUFFICES ASSUME NEW i \in Id
                   PROVE  /\ \A d, e \in booked'[i] : d = e
                          /\ booked'[i] = {} <=> row'[i] = "none"
        BY DEF OneOutcome
      <3>1. CASE i = call[c].id
        <4>1. booked'[i] = {c} /\ row'[i] = kind
          BY <2>4, <2>5, <3>1
        <4>2. QED
          BY <2>6, <4>1
      <3>2. CASE i # call[c].id
        BY <1>0, <2>4, <3>2 DEF OneOutcome
      <3>3. QED
        BY <3>1, <3>2
    <2>8. \A d \in Call : call[d].at = "won" /\ d # c => call[d].id # call[c].id
      BY <1>0, <2>1 DEF IdsAreArbitrated, Holds
    <2>9. \A d \in Call : call[d].at \in {"won"} \cup Known => call[d].id \in Id
      BY <1>0 DEF CallsAreAwaited, Known, Recorded
    <2>10. (\A d \in Call : call[d].at = "won" => row[call[d].id] = "none")'
      BY <1>0, <2>3, <2>4, <2>8, <2>9 DEF IdsAreArbitrated, Recorded
    <2>11. (\A d, e \in Call : Holds(d, call[e].id) /\ Holds(e, call[e].id) => d = e)'
      BY <1>0, <2>3 DEF IdsAreArbitrated, Holds, Recorded
    <2>12. (\A d \in Call : call[d].at \in Known => row[call[d].id] # "none")'
      BY <1>0, <2>1, <2>3, <2>4, <2>6, <2>9 DEF IdsAreArbitrated, Known, Recorded
    <2>13. QED
      BY <2>7, <2>10, <2>11, <2>12 DEF IdsAreArbitrated
  <1>4. ASSUME NEW c \in Call, RefuseBefore(c) \/ RollBack(c) \/ Die(c)
        PROVE  IdsAreArbitrated' /\ OneOutcome'
    <2>1. UNCHANGED server /\ \E answer \in {"pre", "refused", "over"} : Answer(c, answer)
      BY <1>4 DEF RefuseBefore, RollBack, Die
    <2>2. call'[c].at \notin {"won"} \cup Known /\ \A d \in Call : d # c => call'[d] = call[d]
      BY <1>0, <2>1, AnswerEffect DEF Known, Recorded
    <2>3. QED
      BY <1>0, <2>1, <2>2, NothingIsRecorded
  <1>5. ASSUME NEW c \in Call, Rejected(c) \/ Answered(c)
        PROVE  IdsAreArbitrated' /\ OneOutcome'
    <2>1. UNCHANGED server
      BY <1>5 DEF Rejected, Answered
    <2>2. /\ \A d \in Call : d # c => call'[d] = call[d]
          /\ call'[c] = Unawaited(c) \/ call'[c] = Over
      BY <1>0, <1>5 DEF TypeOK, Rejected, Answered
    <2>3. Over.at \notin {"won"} \cup Known
      BY DEF Over, Unused, Known, Recorded
    <2>4. QED
      BY <1>0, <2>1, <2>2, <2>3, UnawaitedEffect, NothingIsRecorded DEF Known, Recorded
  <1>6. ASSUME NEW k \in Card, Close(k) PROVE IdsAreArbitrated' /\ OneOutcome'
    <2>1. /\ UNCHANGED server
          /\ \A d \in Call : call'[d] = Unawaited(d) \/ call'[d] = call[d]
      BY <1>6 DEF Close
    <2>2. QED
      BY <1>0, <2>1, UnawaitedEffect, NothingIsRecorded DEF Known, Recorded
  <1>7. ASSUME NEW k \in Card, HandleSubmit(k) \/ HandleRetrySafely(k)
        PROVE  IdsAreArbitrated' /\ OneOutcome'
    <2>1. /\ UNCHANGED server
          /\ \E i \in Id \cup {NoId}, retry \in BOOLEAN : Send(k, i, retry)
      BY <1>0, <1>7 DEF TypeOK, CardType, HandleSubmit, HandleRetrySafely
    <2>2. PICK c \in Call : /\ \A d \in Call : d # c => call'[d] = call[d]
                            /\ call'[c].at = "sent"
      BY <1>0, <2>1 DEF TypeOK, Send
    <2>3. QED
      BY <1>0, <2>1, <2>2, NothingIsRecorded DEF Known, Recorded
  <1>8. CASE UNCHANGED <<server, call>>
    BY <1>0, <1>8 DEF IdsAreArbitrated, OneOutcome, Holds, server
  <1>9. QED
    BY <1>1, <1>2, <1>3, <1>4, <1>5, <1>6, <1>7, <1>8
    DEF Next, ServerStep, CardStep, Mount, FinishCleanup, ResolveQueueHead,
        HandleCheckStatusAgain, StartOver, Notified, CheckUnclassifiable, Spoil, Heal, vars

-----------------------------------------------------------------------------
(***************************************************************************)
(* The queues and the storage.                                             *)
(***************************************************************************)
Kept == QueuesAreWorkedOff /\ OnlyMinted /\ AttemptsAreKept

\* A step of one card, or of none, after which no entry a card has seen is newly
\* there: the other cards are as they were, and an entry that went has an answer.
LEMMA OneCardWorks ==
  ASSUME TypeOK, TypeOK', Kept, NEW k \in Card, WorksOff(k)',
         \A j \in Card : j # k => card'[j] = card[j],
         card'[k].seen \subseteq minted,
         UNCHANGED minted, learned \subseteq learned', refused \subseteq refused',
         \A i \in Id : stored'[i] # "absent" => stored[i] # "absent",
         \A i \in Id : stored'[i] = "absent" /\ stored[i] # "absent"
                        => i \in learned' \cup refused'
  PROVE  Kept'
  <1>1. QueuesAreWorkedOff'
    <2> SUFFICES ASSUME NEW j \in Card, j # k PROVE WorksOff(j)'
      BY DEF QueuesAreWorkedOff
    <2>1. WorksOff(j) /\ card'[j] = card[j] /\ card[j].seen \subseteq Id
      BY DEF Kept, QueuesAreWorkedOff, TypeOK, CardType
    <2>2. QED
      BY <2>1 DEF WorksOff
  <1>2. OnlyMinted'
    BY DEF Kept, OnlyMinted
  <1>3. AttemptsAreKept'
    BY DEF Kept, AttemptsAreKept, TypeOK
  <1>4. QED
    BY <1>1, <1>2, <1>3 DEF Kept

\* The entry of the head is cleared, or cannot be; its id has an answer.
LEMMA ClearKeeps ==
  ASSUME TypeOK, TypeOK', Kept, NEW k \in Card, NEW next \in {"form", "outcome"},
         card[k].head \in Id, card[k].phase \in Busy,
         AttemptClear(k, card[k].head, next),
         UNCHANGED minted, learned \subseteq learned', refused \subseteq refused',
         card[k].head \in learned' \cup refused'
  PROVE  Kept'
  <1>0. WorksOff(k) /\ card[k].seen \subseteq minted /\ card[k].seen \subseteq Id
    BY DEF Kept, QueuesAreWorkedOff, OnlyMinted, TypeOK, CardType
  <1>1. CASE ClearEntry(k, card[k].head, next)
    <2>1. /\ \A j \in Card : j # k => card'[j] = card[j]
          /\ card'[k].seen = card[k].seen /\ card'[k].odd = card[k].odd
          /\ stored' = [stored EXCEPT ![card[k].head] = "absent"]
          /\ card'[k].queue = card[k].queue \ {card[k].head}
          /\ \/ card'[k].queue = {} /\ card'[k].head = NoId /\ card'[k].phase = next
             \/ card'[k].head \in card'[k].queue /\ card'[k].phase = "checking"
      BY <1>1, ClearEntryEffect
    <2>2. \A i \in Id : stored'[i] = IF i = card[k].head THEN "absent" ELSE stored[i]
      BY <2>1 DEF TypeOK
    <2>3. WorksOff(k)'
      BY <1>0, <2>1, <2>2 DEF WorksOff, Busy
    <2>4. QED
      BY <1>0, <2>1, <2>2, <2>3, OneCardWorks
  <1>2. CASE ~ClearEntry(k, card[k].head, next)
    <2>1. /\ \A j \in Card : j # k => card'[j] = card[j]
          /\ card'[k].seen = card[k].seen /\ card'[k].odd = card[k].odd
          /\ stored' = stored
          /\ card'[k].queue = card[k].queue /\ card'[k].head = card[k].head
          /\ card'[k].phase = "cleanup" /\ card'[k].next = next
      BY <1>2, AttemptClearEffect
    <2>2. WorksOff(k)'
      BY <1>0, <2>1 DEF WorksOff, Busy
    <2>3. QED
      BY <1>0, <2>1, <2>2, OneCardWorks
  <1>3. QED
    BY <1>1, <1>2

\* A card changes between phases in which it is busy with the same head, or idle
\* in both.
LEMMA PhaseKeeps ==
  ASSUME TypeOK, TypeOK', Kept, NEW k \in Card, NEW phase,
         card' = [card EXCEPT ![k].phase = phase], phase # "cleanup",
         phase \in Busy <=> card[k].phase \in Busy,
         UNCHANGED <<stored, minted, learned, refused>>
  PROVE  Kept'
  <1>1. /\ \A j \in Card : j # k => card'[j] = card[j]
        /\ card'[k].phase = phase
        /\ card'[k].seen = card[k].seen /\ card'[k].odd = card[k].odd
        /\ card'[k].queue = card[k].queue /\ card'[k].head = card[k].head
    BY PhaseEffect
  <1>2. WorksOff(k) /\ card[k].seen \subseteq minted
    BY DEF Kept, QueuesAreWorkedOff, OnlyMinted
  <1>3. WorksOff(k)'
    BY <1>1, <1>2 DEF WorksOff
  <1>4. QED
    BY <1>1, <1>2, <1>3, OneCardWorks

LEMMA KeptStep ==
  ASSUME IInv, TypeOK', [Next]_vars
  PROVE  Kept'
  <1>0. /\ TypeOK /\ CallsAreAwaited /\ Kept
        /\ \A k \in Card : WorksOff(k) /\ card[k].seen \subseteq minted
    BY DEF IInv, Kept, QueuesAreWorkedOff, OnlyMinted
  <1>1. ASSUME NEW c \in Call, Rejected(c) PROVE Kept'
    <2>1. call[c].card \in Card /\ card[call[c].card].phase \in Busy
      BY <1>0, <1>1 DEF TypeOK, CallType, CallsAreAwaited, Rejected, Busy
    <2>2. QED
      BY <1>0, <1>1, <2>1, PhaseKeeps DEF Rejected, Busy
  <1>2. ASSUME NEW c \in Call, Answered(c) PROVE Kept'
    <2>1. /\ call[c].card \in Card /\ card[call[c].card].phase \in Busy
          /\ card[call[c].card].head = call[c].id
      BY <1>0, <1>2 DEF TypeOK, CallType, CallsAreAwaited, Answered, Busy
    <2>2. call[c].at \in Known \cup {"pre", "refused"} => call[c].id \in Id
      BY <1>0 DEF CallsAreAwaited, Known, Recorded
    <2>3. CASE /\ card' = [card EXCEPT ![call[c].card].phase = "blocked"]
               /\ UNCHANGED <<stored, learned, refused>>
      BY <1>0, <1>2, <2>1, <2>3, PhaseKeeps DEF Answered, Busy
    <2>4. CASE /\ Refuses(c) /\ refused' = refused \cup {call[c].id}
               /\ AttemptClear(call[c].card, call[c].id, "form") /\ UNCHANGED learned
      BY <1>0, <1>2, <2>1, <2>2, <2>4, ClearKeeps DEF Answered, Refuses
    <2>5. CASE /\ call[c].at \in Known /\ learned' = learned \cup {call[c].id}
               /\ AttemptClear(call[c].card, call[c].id, "outcome") /\ UNCHANGED refused
      BY <1>0, <1>2, <2>1, <2>2, <2>5, ClearKeeps DEF Answered
    <2>6. QED
      BY <1>2, <2>3, <2>4, <2>5 DEF Answered
  <1>3. ASSUME NEW k \in Card, Mount(k) PROVE Kept'
    <2>1. CASE card' = [card EXCEPT ![k].phase = "unavailable"]
      BY <1>0, <1>3, <2>1, PhaseKeeps DEF Mount, Busy
    <2>2. CASE /\ card'[k].seen = Unclassifiable(k, stored) \cup Matching(k, stored)
               /\ card'[k].odd = Unclassifiable(k, stored)
               /\ card'[k].queue = Matching(k, stored)
               /\ \/ Matching(k, stored) = {} /\ card'[k].head = NoId /\ card'[k].phase = "form"
                  \/ card'[k].head \in card'[k].queue /\ card'[k].phase = "checking"
      <3>1. UNCHANGED <<stored, minted, learned, refused>>
        BY <1>3 DEF Mount
      <3>2. WorksOff(k)'
        BY <2>2, <3>1 DEF WorksOff, Busy
      <3>3. card'[k].seen \subseteq minted
        BY <1>0, <2>2 DEF Kept, OnlyMinted, Unclassifiable, Unreadable, Matching
      <3>4. QED
        BY <1>0, <1>3, <3>1, <3>2, <3>3, MountEffect, OneCardWorks
    <2>3. QED
      BY <1>0, <1>3, <2>1, <2>2, MountEffect
  <1>4. ASSUME NEW k \in Card, Close(k) PROVE Kept'
    <2>1. /\ \A j \in Card : j # k => card'[j] = card[j]
          /\ card'[k] = Closed
          /\ UNCHANGED <<stored, minted, learned, refused>>
      BY <1>0, <1>4 DEF TypeOK, Close
    <2>2. WorksOff(k)' /\ card'[k].seen = {}
      BY <2>1 DEF WorksOff, Closed, Busy
    <2>3. QED
      BY <1>0, <2>1, <2>2, OneCardWorks
  <1>5. ASSUME NEW k \in Card, FinishCleanup(k) PROVE Kept'
    <2>1. /\ card[k].head \in Id /\ card[k].next \in {"form", "outcome"}
          /\ card[k].phase \in Busy /\ card[k].head \in learned \cup refused
      BY <1>0, <1>5 DEF TypeOK, CardType, WorksOff, FinishCleanup, Busy
    <2>2. QED
      BY <1>0, <1>5, <2>1, ClearKeeps DEF FinishCleanup, AttemptClear
  <1>6. ASSUME NEW k \in Card, HandleSubmit(k) PROVE Kept'
    <2>1. PICK i \in Id \ minted :
            /\ minted' = minted \cup {i}
            /\ stored' = [stored EXCEPT ![i] = "good"]
            /\ \A j \in Card : j # k => card'[j] = card[j]
            /\ card'[k].phase = "submitting" /\ card'[k].head = i
            /\ card'[k].queue = {i} /\ card'[k].odd = card[k].odd
            /\ card'[k].seen = card[k].seen \cup {i}
      BY <1>0, <1>6, HandleSubmitEffect
    <2>2. /\ \A j \in Id : stored'[j] = IF j = i THEN "good" ELSE stored[j]
          /\ UNCHANGED <<learned, refused>>
      BY <1>0, <1>6, <2>1 DEF TypeOK, HandleSubmit
    <2>3. card[k].phase = "form" /\ card[k].queue = {} /\ card[k].seen \subseteq Id
      BY <1>0, <1>6 DEF HandleSubmit, MaySubmit, WorksOff, Busy, TypeOK, CardType
    <2>4. QueuesAreWorkedOff'
      <3>1. WorksOff(k)'
        BY <1>0, <2>1, <2>2, <2>3 DEF WorksOff, Busy
      <3>2. ASSUME NEW j \in Card, j # k PROVE WorksOff(j)'
        <4>1. WorksOff(j) /\ card'[j] = card[j] /\ card[j].seen \subseteq Id \cap minted
          BY <1>0, <2>1, <3>2 DEF TypeOK, CardType
        <4>2. QED
          BY <2>1, <2>2, <4>1 DEF WorksOff
      <3>3. QED
        BY <3>1, <3>2 DEF QueuesAreWorkedOff
    <2>5. OnlyMinted'
      BY <1>0, <2>1, <2>2 DEF Kept, OnlyMinted
    <2>6. AttemptsAreKept'
      BY <1>0, <2>1, <2>2 DEF Kept, AttemptsAreKept, TypeOK
    <2>7. QED
      BY <2>4, <2>5, <2>6 DEF Kept
  <1>7. ASSUME NEW k \in Card, HandleRetrySafely(k) \/ HandleCheckStatusAgain(k) \/ StartOver(k)
        PROVE  Kept'
    BY <1>0, <1>7, PhaseKeeps DEF HandleRetrySafely, HandleCheckStatusAgain, StartOver, Busy
  <1>8. ASSUME NEW k \in Card, ResolveQueueHead(k) PROVE Kept'
    <2>1. card[k].head \in Id /\ card[k].phase \in Busy
      BY <1>0, <1>8 DEF TypeOK, CardType, WorksOff, ResolveQueueHead, Busy
    <2>2. CASE /\ learned' = learned \cup {card[k].head}
               /\ AttemptClear(k, card[k].head, "outcome")
      BY <1>0, <1>8, <2>1, <2>2, ClearKeeps DEF ResolveQueueHead
    <2>3. CASE /\ card' = [card EXCEPT ![k].phase = "blocked"]
               /\ UNCHANGED <<stored, learned>>
      BY <1>0, <1>8, <2>1, <2>3, PhaseKeeps DEF ResolveQueueHead, Busy
    <2>4. QED
      BY <1>8, <2>2, <2>3 DEF ResolveQueueHead
  <1>9. ASSUME NEW k \in Card, Notified(k) PROVE Kept'
    <2>1. UNCHANGED <<stored, minted, learned, refused>>
      BY <1>9 DEF Notified
    <2>2. WorksOff(k)' /\ card'[k].seen \subseteq minted
      BY <1>0, <1>9, <2>1, NotifiedEffect DEF WorksOff
    <2>3. QED
      BY <1>0, <1>9, <2>1, <2>2, NotifiedEffect, OneCardWorks
  <1>10. ASSUME NEW k \in Card, NEW i \in Id, CheckUnclassifiable(k, i) PROVE Kept'
    <2>1. learned' = learned \cup {i} /\ UNCHANGED <<minted, refused>>
      BY <1>10 DEF CheckUnclassifiable
    <2>2. /\ \A j \in Card : j # k => card'[j] = card[j]
          /\ card'[k].phase = card[k].phase /\ card'[k].next = card[k].next
          /\ card'[k].seen = card[k].seen /\ card'[k].odd = card[k].odd \ {i}
          /\ card'[k].queue = card[k].queue /\ card'[k].head = card[k].head
          /\ stored' = [stored EXCEPT ![i] = "absent"]
      BY <1>0, <1>10, CheckUnclassifiableEffect
    <2>3. \A j \in Id : stored'[j] = IF j = i THEN "absent" ELSE stored[j]
      BY <1>0, <2>2 DEF TypeOK
    <2>4. WorksOff(k)'
      BY <1>0, <2>1, <2>2, <2>3 DEF WorksOff, TypeOK, CardType
    <2>5. QED
      BY <1>0, <2>1, <2>2, <2>3, <2>4, OneCardWorks
  <1>11. ASSUME NEW i \in Id, Spoil(i) \/ Heal(i) PROVE Kept'
    <2>1. /\ \A j \in Id : stored'[j] # "absent" <=> stored[j] # "absent"
          /\ UNCHANGED <<card, minted, learned, refused>>
      BY <1>0, <1>11 DEF TypeOK, Spoil, Heal
    <2>2. \A k \in Card : card[k].seen \subseteq Id
      BY <1>0 DEF TypeOK, CardType
    <2>3. QED
      BY <1>0, <2>1, <2>2
      DEF Kept, QueuesAreWorkedOff, WorksOff, OnlyMinted, AttemptsAreKept, TypeOK
  <1>12. CASE UNCHANGED client
    BY <1>0, <1>12
    DEF Kept, QueuesAreWorkedOff, WorksOff, OnlyMinted, AttemptsAreKept, client
  <1>13. QED
    BY <1>1, <1>2, <1>3, <1>4, <1>5, <1>6, <1>7, <1>8, <1>9, <1>10, <1>11, <1>12
    DEF Next, ServerStep, CardStep, RefuseBefore, Insert, Replay, Record, RollBack, Die, vars

-----------------------------------------------------------------------------
\* The inductive invariant holds of every reachable state.
THEOREM Inductive == Spec => []IInv
  <1>1. IInv /\ [Next]_vars => IInv'
    BY TypeStep, AwaitedStep, ArbitratedStep, KeptStep DEF IInv, Kept
  <1>2. QED
    BY InitIsInductive, <1>1, PTL DEF Spec

\* The state of the ids, the calls, the storage and the cards is well formed
\* (TypeOK of module Submission).
THEOREM Typed == Spec => []TypeOK
  <1>1. IInv => TypeOK
    BY DEF IInv
  <1>2. QED
    BY Inductive, <1>1, PTL

\* Any number of calls of any number of cards write at most one payment or
\* receipt for an id (recordDuesPaymentWithSubmissionIdentity).
THEOREM OutcomesAreUnique == Spec => []OneOutcome
  <1>1. IInv => OneOutcome
    BY DEF IInv
  <1>2. QED
    BY Inductive, <1>1, PTL

\* No attempt is dropped from the storage before a card has an answer for it
\* (attemptClear and its callers).
THEOREM NothingIsForgotten == Spec => []AttemptsAreKept
  <1>1. IInv => AttemptsAreKept
    BY DEF IInv
  <1>2. QED
    BY Inductive, <1>1, PTL

\* A card whose form is open has no readable attempt of its own left in the
\* storage (popQueueAndContinueOrElse and handleSubmit).
THEOREM NothingIsOutstanding == Spec => []NothingOutstanding
  <1>1. IInv => NothingOutstanding
    BY DEF IInv, QueuesAreWorkedOff, WorksOff, NothingOutstanding, MaySubmit, Busy, TypeOK,
           CardType
  <1>2. QED
    BY Inductive, <1>1, PTL

-----------------------------------------------------------------------------
(***************************************************************************)
(* The ids are write-once registers.                                       *)
(***************************************************************************)
\* A step that writes a register, that reads one, or that does neither.
LEMMA RegisterStep ==
  ASSUME IInv, [Next]_vars
  PROVE  [Register!Next]_(Register!vars)
  <1>0. TypeOK /\ CallsAreAwaited /\ IdsAreArbitrated /\ QueuesAreWorkedOff
    BY DEF IInv
  <1> DEFINE Learns(i) == /\ row[i] # "none" /\ learned' = learned \cup {i}
                          /\ UNCHANGED row
  <1>1. ASSUME NEW i \in Id, Learns(i) PROVE [Register!Next]_(Register!vars)
    BY <1>1 DEF Register!Next, Register!Learn
  <1>2. CASE UNCHANGED <<row, learned>>
    BY <1>2 DEF Register!vars
  <1> HIDE DEF Learns
  <1>3. ASSUME NEW c \in Call, Record(c) PROVE [Register!Next]_(Register!vars)
    <2>1. call[c].id \in Id /\ row[call[c].id] = "none"
      BY <1>0, <1>3 DEF CallsAreAwaited, IdsAreArbitrated, Record
    <2>2. /\ \E kind \in {"payment", "receipt"} : row' = [row EXCEPT ![call[c].id] = kind]
          /\ UNCHANGED learned
      BY <1>3 DEF Record, Recorded, client
    <2>3. QED
      BY <2>1, <2>2 DEF Register!Next, Register!Take
  <1>4. ASSUME NEW c \in Call, Answered(c) PROVE [Register!Next]_(Register!vars)
    <2>1. CASE call[c].at \in Known /\ learned' = learned \cup {call[c].id}
      <3>1. call[c].id \in Id /\ row[call[c].id] # "none"
        BY <1>0, <2>1 DEF CallsAreAwaited, IdsAreArbitrated, Known, Recorded
      <3>2. QED
        BY <1>1, <1>4, <2>1, <3>1 DEF Learns, Answered, server
    <2>2. CASE UNCHANGED learned
      BY <1>2, <1>4, <2>2 DEF Answered, server
    <2>3. QED
      BY <1>4, <2>1, <2>2 DEF Answered
  <1>5. ASSUME NEW k \in Card, ResolveQueueHead(k) PROVE [Register!Next]_(Register!vars)
    <2>1. card[k].head \in Id
      BY <1>0, <1>5 DEF TypeOK, CardType, QueuesAreWorkedOff, WorksOff, ResolveQueueHead, Busy
    <2>2. QED
      BY <1>1, <1>2, <1>5, <2>1 DEF Learns, ResolveQueueHead, server
  <1>6. ASSUME NEW k \in Card, NEW i \in Id, CheckUnclassifiable(k, i)
        PROVE  [Register!Next]_(Register!vars)
    BY <1>1, <1>6 DEF Learns, CheckUnclassifiable, server
  <1>7. QED
    BY <1>2, <1>3, <1>4, <1>5, <1>6
    DEF Next, ServerStep, CardStep, RefuseBefore, Insert, Replay, RollBack, Die, Rejected,
        Mount, Close, FinishCleanup, HandleSubmit, HandleRetrySafely,
        HandleCheckStatusAgain, StartOver, Notified, Spoil, Heal, vars, server, client

\* The submission ids implement the write-once registers of SubmissionRegister: a
\* card is told of a payment or a receipt only once it is there for good.
THEOREM IdsAreRegisters == Spec => RegisterContract
  <1>1. Init => Register!Init
    BY DEF Init, Register!Init
  <1>2. IInv /\ [Next]_vars => [Register!Next]_(Register!vars)
    BY RegisterStep
  <1>3. QED
    BY Inductive, <1>1, <1>2, PTL DEF Spec, RegisterContract, Register!Spec
=============================================================================
