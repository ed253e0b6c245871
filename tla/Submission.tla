----------------------------- MODULE Submission -----------------------------
(***************************************************************************)
(* The cards of the payments page, for ordinary payments, packages and     *)
(* prepayments, and the submission ids that make what they send safe to    *)
(* send again.                                                             *)
(*                                                                         *)
(* A card mints an id, stores its draft under the id in localStorage and   *)
(* only then calls the server; whatever is left uncertain (a call that     *)
(* fails, a page that closes) is taken up from the storage, by this card   *)
(* or by the one another tab mounts.  The server inserts the id and        *)
(* records the payment in one transaction, and a call that finds the id    *)
(* there is answered with what it stands for.  The three cards and their   *)
(* writers follow one protocol, each for the ids of its own operation;     *)
(* what tells them apart is who looks after an entry that cannot be read.  *)
(*                                                                         *)
(* Abstractions.  A card is one mounted section; the sections of a page    *)
(* are cards of their own, which may be closed one by one.  One that its   *)
(* user has navigated away from goes on as a card nobody touches.  Every   *)
(* card belongs to one user of one organization, so all share the stored   *)
(* entries.  The ledger (module DuesLedger) is changed by others at any    *)
(* moment, so each transaction may end with any of its verdicts.  The      *)
(* payload of an id never changes, hence no submissionPayloadMismatch.     *)
(* The draft, the obligations it lists and their loading are left out.     *)
(***************************************************************************)
EXTENDS FiniteSets

CONSTANTS
  Id,    \* submission ids
  Card,  \* mounted cards
  Call,  \* calls of the writers; each is made once
  OperationOf,  \* what a card is for, and what an id is minted for
  NoId, NoCard

Operation == {"ORDINARY", "PACKAGE", "PREPAYMENT"}

ASSUME Nobody == NoId \notin Id /\ NoCard \notin Card
ASSUME Operations == OperationOf \in [Id \cup Card -> Operation]

VARIABLES
  row,      \* DuesPaymentAttempt, committed: what the id stands for
  booked,   \* [Id -> calls that have written a payment or a receipt for it]
  call,     \* the calls, each with the card that still awaits it
  stored,   \* localStorage: [Id -> "absent", "good" or "bad" (not readable)]
  card,     \* the cards
  minted,   \* ids handed out by crypto.randomUUID()
  learned,  \* ids a card was told are recorded
  refused   \* ids a card has dropped because a call was refused

server == <<row, booked>>
client == <<stored, card, minted, learned, refused>>
vars   == <<server, call, client>>

Recorded == {"payment", "receipt"}
Known    == Recorded \cup {"replay"}
CallType ==
  [at : {"unused", "sent", "won", "pre", "refused", "over"} \cup Known,
   id : Id \cup {NoId}, retry : BOOLEAN, card : Card \cup {NoCard}]
CardType ==
  [phase : {"closed", "unavailable", "form", "submitting", "checking", "blocked",
            "cleanup", "outcome"},
   queue : SUBSET Id,              \* recoveryQueueRef
   head  : Id \cup {NoId},         \* its first id: submissionIdRef
   next  : {"none", "form", "outcome"},  \* pendingClearRef: what follows the clear
   odd   : SUBSET Id,              \* unclassifiableEntries
   bar   : {"open", "barred"},     \* what useHasUnresolvedUnclassifiable last found
   seen  : SUBSET Id]              \* ids it has found in the storage or minted

Unused == [at |-> "unused", id |-> NoId, retry |-> FALSE, card |-> NoCard]
Over   == [Unused EXCEPT !.at = "over"]
Closed ==
  [phase |-> "closed", queue |-> {}, head |-> NoId, next |-> "none", odd |-> {},
   bar |-> "open", seen |-> {}]

TypeOK ==
  /\ row \in [Id -> Recorded \cup {"none"}]
  /\ booked \in [Id -> SUBSET Call]
  /\ call \in [Call -> CallType]
  /\ stored \in [Id -> {"absent", "good", "bad"}]
  /\ card \in [Card -> CardType]
  /\ minted \subseteq Id /\ learned \subseteq Id /\ refused \subseteq Id

Init ==
  /\ row = [i \in Id |-> "none"]
  /\ booked = [i \in Id |-> {}]
  /\ call = [c \in Call |-> Unused]
  /\ stored = [i \in Id |-> "absent"]
  /\ card = [k \in Card |-> Closed]
  /\ minted = {} /\ learned = {} /\ refused = {}

-----------------------------------------------------------------------------
(***************************************************************************)
(* The server.  The checks before the transaction (session, activation,    *)
(* form of the input, scope) answer for themselves; the insert of the id   *)
(* waits while another transaction holds it uncommitted; from the student  *)
(* lock on, what the transaction writes is one step.                       *)
(***************************************************************************)
\* An answer nobody awaits any longer is dropped.
Answer(c, answer) ==
  call' = [call EXCEPT ![c] =
             IF @.card = NoCard THEN Over ELSE [@ EXCEPT !.at = answer]]

RefuseBefore(c) ==
  /\ call[c].at = "sent"
  /\ Answer(c, "pre")
  /\ UNCHANGED <<server, client>>

Holds(d, i) == call[d].at = "won" /\ call[d].id = i

\* Mutant: the insert does not wait for the transaction that holds the id.
InsertUnordered(c) ==
  /\ call[c].at = "sent"
  /\ row[call[c].id] = "none"
  /\ call' = [call EXCEPT ![c].at = "won"]
  /\ UNCHANGED <<server, client>>

Insert(c) ==
  /\ call[c].at = "sent"
  /\ row[call[c].id] = "none"
  /\ \A d \in Call : ~Holds(d, call[c].id)
  /\ call' = [call EXCEPT ![c].at = "won"]
  /\ UNCHANGED <<server, client>>

Replay(c) ==
  /\ call[c].at = "sent"
  /\ row[call[c].id] # "none"
  /\ Answer(c, "replay")
  /\ UNCHANGED <<server, client>>

\* Mutant: the captured receipt does not commit the id it was captured for.
RecordWithoutId(c) ==
  /\ call[c].at = "won"
  /\ \/ Answer(c, "payment") /\ row' = [row EXCEPT ![call[c].id] = "payment"]
     \/ Answer(c, "receipt") /\ UNCHANGED row
  /\ booked' = [booked EXCEPT ![call[c].id] = @ \cup {c}]
  /\ UNCHANGED client

\* recordDuesPaymentInTx, purchasePackageInTx or prepayMonthlyObligationsInTx
\* succeeds, or finds no rate and the receipt is captured.
Record(c) ==
  /\ call[c].at = "won"
  /\ \E kind \in Recorded :
       /\ row' = [row EXCEPT ![call[c].id] = kind]
       /\ Answer(c, kind)
  /\ booked' = [booked EXCEPT ![call[c].id] = @ \cup {c}]
  /\ UNCHANGED client

\* Mutant: a verdict the card has no classification for.
RollBackUnclassified(c) ==
  /\ call[c].at = "won"
  /\ Answer(c, "conflict")
  /\ UNCHANGED <<server, client>>

\* Any other verdict rolls the id back.  Inside the transaction the ledger
\* repeats the earlier checks, with the same codes.
RollBack(c) ==
  /\ call[c].at = "won"
  /\ \E answer \in {"refused", "pre"} : Answer(c, answer)
  /\ UNCHANGED <<server, client>>

\* The request is lost, or its process dies before the commit: its promise is
\* rejected sooner or later.
InFlight(c) == call[c].at \in {"sent", "won"}

Die(c) ==
  /\ InFlight(c)
  /\ Answer(c, "over")
  /\ UNCHANGED <<server, client>>

-----------------------------------------------------------------------------
(***************************************************************************)
(* The card.                                                               *)
(***************************************************************************)
Unreadable(entries)  == {i \in Id : entries[i] = "bad"}
Matching(k, entries) == {i \in Id : entries[i] = "good" /\ OperationOf[i] = OperationOf[k]}

\* An entry whose operation is not known is left to the ordinary card.
Unclassifiable(k, entries) ==
  IF OperationOf[k] = "ORDINARY" THEN Unreadable(entries) ELSE {}

Bar(entries) == IF Unreadable(entries) = {} THEN "open" ELSE "barred"

\* The mount scan.  localStorage lists its keys in any order.
Mount(k) ==
  /\ card[k].phase = "closed"
  /\ \/ card' = [card EXCEPT ![k].phase = "unavailable"]
     \/ LET own   == Matching(k, stored)
            odd   == Unclassifiable(k, stored)
            found == [Closed EXCEPT !.odd = odd, !.bar = Bar(stored), !.seen = odd \cup own]
        IN  \/ /\ own = {}
               /\ card' = [card EXCEPT ![k] = [found EXCEPT !.phase = "form"]]
            \/ \E h \in own :
                 card' = [card EXCEPT ![k] = [found EXCEPT
                            !.phase = "checking", !.queue = own, !.head = h]]
  /\ UNCHANGED <<server, call, stored, minted, learned, refused>>

\* A call that nobody awaits any longer goes on until it is answered.
Unawaited(c) == IF InFlight(c) THEN [call[c] EXCEPT !.card = NoCard] ELSE Over

\* The tab is closed or reloaded.
Close(k) ==
  /\ card[k].phase # "closed"
  /\ card' = [card EXCEPT ![k] = Closed]
  /\ call' = [c \in Call |-> IF call[c].card = k THEN Unawaited(c) ELSE call[c]]
  /\ UNCHANGED <<server, stored, minted, learned, refused>>

\* popQueueAndContinueOrElse; the successful clear has notified the page.
PopQueue(k, i, next, entries) ==
  LET rest   == card[k].queue \ {i}
      popped == [card[k] EXCEPT !.queue = rest, !.next = "none",
                                !.bar = Bar(entries)]
  IN  \/ /\ rest = {}
         /\ card' = [card EXCEPT ![k] = [popped EXCEPT !.head = NoId, !.phase = next]]
      \/ \E h \in rest :
           card' = [card EXCEPT ![k] = [popped EXCEPT !.head = h, !.phase = "checking"]]

ClearEntry(k, i, next) ==
  /\ stored' = [stored EXCEPT ![i] = "absent"]
  /\ PopQueue(k, i, next, stored')

\* Mutant: a failed clear is not noticed, and the card goes on without the entry.
AttemptClearUnchecked(k, i, next) ==
  \/ ClearEntry(k, i, next)
  \/ UNCHANGED stored /\ PopQueue(k, i, next, stored)

AttemptClear(k, i, next) ==
  \/ ClearEntry(k, i, next)
  \/ /\ card' = [card EXCEPT ![k].phase = "cleanup", ![k].next = next]
     /\ UNCHANGED stored

FinishCleanup(k) ==
  /\ card[k].phase = "cleanup"
  /\ ClearEntry(k, card[k].head, card[k].next)
  /\ UNCHANGED <<server, call, minted, learned, refused>>

Send(k, i, retry) ==
  \E c \in Call :
    /\ call[c].at = "unused"
    /\ call' = [call EXCEPT ![c] = [at |-> "sent", id |-> i, retry |-> retry, card |-> k]]

MaySubmit(k) == card[k].phase = "form" /\ card[k].head = NoId /\ card[k].bar = "open"

\* An entry that cannot be stored stops the submission before anything is sent.
HandleSubmit(k) ==
  /\ MaySubmit(k)
  /\ \E i \in Id \ minted :
       /\ OperationOf[i] = OperationOf[k]
       /\ minted' = minted \cup {i}
       /\ stored' = [stored EXCEPT ![i] = "good"]
       /\ card' = [card EXCEPT ![k] = [card[k] EXCEPT
                      !.phase = "submitting", !.queue = {i}, !.head = i,
                      !.seen = card[k].seen \cup {i}]]
       /\ Send(k, i, FALSE)
  /\ UNCHANGED <<server, learned, refused>>

HandleRetrySafely(k) ==
  /\ card[k].phase = "blocked"
  /\ stored[card[k].head] = "good"
  /\ card' = [card EXCEPT ![k].phase = "submitting"]
  /\ Send(k, card[k].head, TRUE)
  /\ UNCHANGED <<server, stored, minted, learned, refused>>

\* The promise of the call is rejected, whatever becomes of the call.
Rejected(c) ==
  LET k == call[c].card IN
  /\ k # NoCard
  /\ call' = [call EXCEPT ![c] = Unawaited(c)]
  /\ card' = [card EXCEPT ![k].phase = "blocked"]
  /\ UNCHANGED <<server, stored, minted, learned, refused>>

\* classifyWriteResult on the answer of a call, and what runWrite does with it.
Blocks(c)  == call[c].at = "pre" /\ call[c].retry
Refuses(c) == call[c].at \in {"pre", "refused"} /\ ~Blocks(c)

Answered(c) ==
  LET k == call[c].card
      i == call[c].id
  IN
  /\ k # NoCard
  /\ \/ /\ Blocks(c)
        /\ card' = [card EXCEPT ![k].phase = "blocked"]
        /\ UNCHANGED <<stored, learned, refused>>
     \/ /\ Refuses(c)
        /\ refused' = refused \cup {i}
        /\ AttemptClear(k, i, "form")
        /\ UNCHANGED learned
     \/ /\ call[c].at \in Known
        /\ learned' = learned \cup {i}
        /\ AttemptClear(k, i, "outcome")
        /\ UNCHANGED refused
  /\ call' = [call EXCEPT ![c] = Over]
  /\ UNCHANGED <<server, minted>>

\* Mutant: a check that finds nothing drops the attempt.
ResolveQueueHeadNotFound(k) ==
  /\ card[k].phase = "checking"
  /\ \/ /\ row[card[k].head] # "none"
        /\ learned' = learned \cup {card[k].head}
        /\ AttemptClear(k, card[k].head, "outcome")
     \/ /\ row[card[k].head] = "none"
        /\ AttemptClear(k, card[k].head, "form")
        /\ UNCHANGED learned
  /\ UNCHANGED <<server, call, minted, refused>>

\* resolveQueueHead.  A check that finds nothing, is not allowed or gets no
\* answer says nothing about the attempt; an outcome found stays true, so the
\* reading and its answer are one step.
ResolveQueueHead(k) ==
  /\ card[k].phase = "checking"
  /\ \/ /\ row[card[k].head] # "none"
        /\ learned' = learned \cup {card[k].head}
        /\ AttemptClear(k, card[k].head, "outcome")
     \/ /\ card' = [card EXCEPT ![k].phase = "blocked"]
        /\ UNCHANGED <<stored, learned>>
  /\ UNCHANGED <<server, call, minted, refused>>

HandleCheckStatusAgain(k) ==
  /\ card[k].phase = "blocked"
  /\ card' = [card EXCEPT ![k].phase = "checking"]
  /\ UNCHANGED <<server, call, stored, minted, learned, refused>>

StartOver(k) ==
  /\ card[k].phase = "outcome"
  /\ card' = [card EXCEPT ![k].phase = "form"]
  /\ UNCHANGED <<server, call, stored, minted, learned, refused>>

\* An entry the scan could not classify is only ever checked, and cleared once
\* its outcome is found; a clear that fails is tried again from the same list.
CheckUnclassifiable(k, i) ==
  /\ i \in card[k].odd
  /\ row[i] # "none"
  /\ stored' = [stored EXCEPT ![i] = "absent"]
  /\ card' = [card EXCEPT ![k].odd = @ \ {i}, ![k].bar = Bar(stored')]
  /\ learned' = learned \cup {i}
  /\ UNCHANGED <<server, call, minted, refused>>

\* Another card of the page has cleared an entry of its own.
Notified(k) ==
  /\ card[k].phase # "closed"
  /\ card' = [card EXCEPT ![k].bar = Bar(stored)]
  /\ UNCHANGED <<server, call, stored, minted, learned, refused>>

\* An entry becomes unreadable; if it was its reading that failed and not its
\* content, it is readable again later.
Spoil(i) ==
  /\ stored[i] = "good"
  /\ stored' = [stored EXCEPT ![i] = "bad"]
  /\ UNCHANGED <<server, call, card, minted, learned, refused>>

Heal(i) ==
  /\ stored[i] = "bad"
  /\ stored' = [stored EXCEPT ![i] = "good"]
  /\ UNCHANGED <<server, call, card, minted, learned, refused>>

-----------------------------------------------------------------------------
ServerStep(c) ==
  RefuseBefore(c) \/ Insert(c) \/ Replay(c) \/ Record(c) \/ RollBack(c) \/ Die(c)

CardStep(k) ==
  \/ Mount(k) \/ Close(k) \/ FinishCleanup(k) \/ HandleSubmit(k)
  \/ HandleRetrySafely(k) \/ ResolveQueueHead(k) \/ HandleCheckStatusAgain(k)
  \/ StartOver(k) \/ Notified(k)
  \/ \E i \in Id : CheckUnclassifiable(k, i)

Next ==
  \/ \E c \in Call : ServerStep(c) \/ Rejected(c) \/ Answered(c)
  \/ \E k \in Card : CardStep(k)
  \/ \E i \in Id : Spoil(i) \/ Heal(i)

Spec == Init /\ [][Next]_vars

-----------------------------------------------------------------------------
(***************************************************************************)
(* Properties.                                                             *)
(***************************************************************************)

\* However often an id is sent, by however many cards, and however the calls
\* overlap, roll back or die, at most one payment or receipt is written for it,
\* and the id stands for what was written.
OneOutcome ==
  \A i \in Id : /\ \A c, d \in booked[i] : c = d
                /\ booked[i] = {} <=> row[i] = "none"

\* An attempt of which no card was ever given an answer is still in the storage,
\* so that the next card to look finds it: no lost answer, closed tab, failed
\* clear or answer meant for another card makes the client forget it.
AttemptsAreKept ==
  \A i \in minted \ (learned \cup refused) : stored[i] # "absent"

\* A card that would send a payment under a new id has nothing outstanding: each
\* id it has found readable or minted is gone from the storage, whatever order
\* its queue was worked off in and however often a clear has failed.
NothingOutstanding ==
  \A k \in Card : MaySubmit(k) =>
    \A i \in card[k].seen \ card[k].odd : stored[i] = "absent"

\* The id is a register written once and read only after it was written: a card
\* that says "recorded" is right, for a payment and for a waiting receipt alike.
Register == INSTANCE SubmissionRegister WITH outcome <- row, known <- learned
RegisterContract == Register!Spec

\* What payment-entry-recovery.ts says of a refusal: an attempt dropped on it has
\* not been, and is not going to be, recorded.
RefusalIsDefinitive == \A i \in refused : row[i] = "none"
=============================================================================
