------------------------------- MODULE Kiosk -------------------------------
(***************************************************************************)
(* The kiosk tablet in front of CheckIn: check-ins submitted while         *)
(* online, the IndexedDB queue of those that could not be, and the pages   *)
(* of the tablet that replay it.  The pages share the queue; isFlushing is *)
(* a page's own.  A request whose page gave up may still be served, late   *)
(* or never, and a page may be reloaded at any time.                       *)
(***************************************************************************)
EXTENDS CheckIn

CONSTANTS
  Page,
  Skew,       \* how far ahead of the server the tablet's clock may be
  MaxFaults   \* bound on failed calls, failed writes and reloads

ASSUME KioskAssumption == Skew \subseteq Nat /\ MaxFaults \in Nat

VARIABLES
  tap,     \* what each student at the tablet was told, and their live request
  queue,   \* the IndexedDB store, in key order
  page,    \* the flush of each page
  fate,    \* history: the answer on which a queued entry was deleted
  faults

device == <<tap, queue, page, fate, faults>>
vars   == <<server, device>>

-----------------------------------------------------------------------------
Resting == [flushing |-> FALSE, left |-> <<>>, req |-> None]

Gone(told) == [told |-> told, picked |-> None, choices |-> {}, token |-> 0, req |-> None]

Fault == faults < MaxFaults /\ faults' = faults + 1

Awaited(r) == \/ \E t \in Tap : tap[t].req = r
              \/ \E p \in Page : page[p].req = r

Sent(r, form, replay) ==
  [request EXCEPT ![r] = [stage |-> "sent", form |-> form, replay |-> replay, answer |-> "none",
                          choices |-> {}, classes |-> {}, when |-> 0]]

Freed(r) == [request EXCEPT ![r] = Free]

ServerUnchanged == UNCHANGED <<world, attendance, evidence, worker, moves, env>>

-----------------------------------------------------------------------------
(* Submitting a code. *)

\* The code is entered, or a class is chosen from the picker.
Ready(t, c) == \/ tap[t].told = "new" /\ c = None
               \/ tap[t].told = "choose" /\ c \in tap[t].choices

\* The token of the tablet's page, in force when the code was entered.
Token(t) == IF tap[t].told = "new" THEN token ELSE tap[t].token

SubmitLive(t, c, r) ==
  /\ Ready(t, c) /\ request[r].stage = "free"
  /\ request' = Sent(r, [tap |-> t, picked |-> c, token |-> Token(t), at |-> 0], FALSE)
  /\ tap' = [tap EXCEPT ![t] =
       [told |-> "wait", picked |-> c, choices |-> {}, token |-> Token(t), req |-> r]]
  /\ ServerUnchanged /\ UNCHANGED <<queue, page, fate, faults>>

\* queueCheckIn: the entry is added with the tablet's time, or could not be.
Enqueue(t, c, skew) ==
  /\ queue' = Append(queue, [tap |-> t, picked |-> c, token |-> Token(t), at |-> now + skew])
  /\ tap' = [tap EXCEPT ![t] = Gone("queued")]

\* Mutant: the attempt that could not be stored is reported as queued.
DismissedAsQueued(t) == tap' = [tap EXCEPT ![t] = Gone("queued")]

\* The picker is closed by its timer or cancelled, the answer cannot be read,
\* the limiter turns the tablet away or the page is reloaded: a new code.
Dismissed(t) == tap' = [tap EXCEPT ![t] = Gone("error")]

\* navigator.onLine is false.
SubmitOffline(t, c) ==
  /\ Ready(t, c)
  /\ \/ \E k \in Skew : Enqueue(t, c, k) /\ UNCHANGED faults
     \/ Fault /\ Dismissed(t) /\ UNCHANGED queue
  /\ UNCHANGED <<server, page, fate>>

\* The fetch throws: the attempt is queued, whatever becomes of the request.
LiveThrown(t) ==
  /\ tap[t].told = "wait" /\ Fault
  /\ \E k \in Skew : Enqueue(t, tap[t].picked, k)
  /\ UNCHANGED <<server, page, fate>>

LiveUnread(t) ==
  /\ tap[t].told \in {"wait", "choose"} /\ Fault
  /\ Dismissed(t)
  /\ UNCHANGED <<server, queue, page, fate>>

LiveAnswered(t) ==
  LET m == request[tap[t].req]
      ask == m.answer \in {"class_selection_required", "class_not_open"} /\ m.choices # {}
  IN /\ tap[t].told = "wait" /\ m.stage = "answered"
     /\ tap' = [tap EXCEPT ![t] =
          IF ask
          THEN [@ EXCEPT !.told = "choose", !.picked = None, !.choices = m.choices, !.req = None]
          ELSE Gone(IF m.answer = "ok" THEN "success" ELSE "error")]
     /\ request' = Freed(tap[t].req)
     /\ ServerUnchanged /\ UNCHANGED <<queue, page, fate, faults>>

-----------------------------------------------------------------------------
(* flushOfflineQueue, on mount and whenever the browser is online again. *)

\* The entries are read once; those added later wait for the next flush.
FlushStart(p) ==
  /\ ~page[p].flushing /\ queue # <<>>
  /\ page' = [page EXCEPT ![p] = [flushing |-> TRUE, left |-> queue, req |-> None]]
  /\ UNCHANGED <<server, tap, queue, fate, faults>>

Queued(t) == \E i \in DOMAIN queue : queue[i].tap = t

\* The store without the entry of a tap, if it is still there.
WithoutEntry(t) ==
  LET at == CHOOSE i \in DOMAIN queue : queue[i].tap = t IN
  IF Queued(t) THEN [i \in 1..Len(queue) - 1 |-> IF i < at THEN queue[i] ELSE queue[i + 1]] ELSE queue

\* Mutant: the entry is deleted as soon as its replay was sent.
FlushSendDeletes(p, r) ==
  LET e == Head(page[p].left) IN
  /\ page[p].flushing /\ page[p].req = None /\ request[r].stage = "free"
  /\ request' = Sent(r, e, TRUE)
  /\ page' = [page EXCEPT ![p].req = r]
  /\ queue' = WithoutEntry(e.tap)
  /\ ServerUnchanged /\ UNCHANGED <<tap, fate, faults>>

FlushSend(p, r) ==
  /\ page[p].flushing /\ page[p].req = None /\ request[r].stage = "free"
  /\ request' = Sent(r, Head(page[p].left), TRUE)
  /\ page' = [page EXCEPT ![p].req = r]
  /\ ServerUnchanged /\ UNCHANGED <<tap, queue, fate, faults>>

\* replayEntry answers `retry` (a thrown fetch, 403, 429, 5xx, an unreadable
\* body), the delete throws, or the page is reloaded: the flush is over.
FlushStops(p) ==
  /\ page[p].req # None /\ Fault
  /\ page' = [page EXCEPT ![p] = Resting]
  /\ UNCHANGED <<server, tap, queue, fate>>

\* Mutant: isFlushing is not reset after the last entry.
FlushAnsweredFlagged(p) ==
  LET r == page[p].req
      t == Head(page[p].left).tap
  IN /\ r # None /\ request[r].stage = "answered"
     /\ queue' = WithoutEntry(t)
     /\ page' = [page EXCEPT ![p] = [@ EXCEPT !.left = Tail(@), !.req = None]]
     /\ fate' = [fate EXCEPT ![t] = request[r].answer]
     /\ request' = Freed(r)
     /\ ServerUnchanged /\ UNCHANGED <<tap, faults>>

\* Mutant: an invalid_token is left to a later flush, as if waiting could help.
FlushAnsweredRetriesToken(p) ==
  LET r == page[p].req
      t == Head(page[p].left).tap
      rest == IF request[r].answer = "invalid_token" THEN <<>> ELSE Tail(page[p].left)
  IN /\ r # None /\ request[r].stage = "answered"
     /\ queue' = IF request[r].answer = "invalid_token" THEN queue ELSE WithoutEntry(t)
     /\ page' = [page EXCEPT ![p] = [flushing |-> rest # <<>>, left |-> rest, req |-> None]]
     /\ fate' = [fate EXCEPT ![t] = request[r].answer]
     /\ request' = Freed(r)
     /\ ServerUnchanged /\ UNCHANGED <<tap, faults>>

\* A definitive answer: the entry is deleted, the next one is taken.
FlushAnswered(p) ==
  LET r == page[p].req
      t == Head(page[p].left).tap
      rest == Tail(page[p].left)
  IN /\ r # None /\ request[r].stage = "answered"
     /\ queue' = WithoutEntry(t)
     /\ page' = [page EXCEPT ![p] = [flushing |-> rest # <<>>, left |-> rest, req |-> None]]
     /\ fate' = [fate EXCEPT ![t] = request[r].answer]
     /\ request' = Freed(r)
     /\ ServerUnchanged /\ UNCHANGED <<tap, faults>>

\* A request nobody waits for any more is lost on its way, or its answer is.
Vanish(r) ==
  /\ request[r].stage # "free" /\ ~Awaited(r)
  /\ request' = Freed(r)
  /\ ServerUnchanged /\ UNCHANGED device

-----------------------------------------------------------------------------
Init ==
  /\ ServerInit
  /\ tap = [t \in Tap |-> Gone("new")]
  /\ queue = <<>> /\ page = [p \in Page |-> Resting]
  /\ fate = [t \in Tap |-> "none"] /\ faults = 0

Handle(r) == (Judge(r) \/ Record(r)) /\ UNCHANGED device

Correct(w) ==
  /\ \/ \E t \in Tap, c \in Class, at \in 0..MaxNow : ReadResolve(w, t, c, at)
     \/ \E t \in Tap : ReadDismiss(w, t)
     \/ \E i \in DOMAIN attendance, c \in Class, k \in {"STUDENT_PICKED", "STAFF_CORRECTED"} :
          ReadReassign(w, i, c, k)
     \/ WriteResolve(w) \/ WriteDismiss(w) \/ WriteReassign(w)
  /\ UNCHANGED device

Environment ==
  /\ \/ Tick \/ regenerateKioskToken
     \/ \E c \in Class : deactivateClassSession(c)
     \/ \E s \in Student : SetMember(s)
     \/ \E i \in DOMAIN attendance : Void(i)
  /\ UNCHANGED device

Submit(t) ==
  \/ LiveThrown(t) \/ LiveUnread(t) \/ LiveAnswered(t)
  \/ \E c \in Class \cup {None} : SubmitOffline(t, c) \/ \E r \in Request : SubmitLive(t, c, r)

Flush(p) ==
  \/ FlushStart(p) \/ FlushStops(p) \/ FlushAnswered(p)
  \/ \E r \in Request : FlushSend(p, r)

Next ==
  \/ \E t \in Tap : Submit(t)
  \/ \E p \in Page : Flush(p)
  \/ \E r \in Request : Handle(r) \/ Vanish(r)
  \/ \E w \in Worker : Correct(w)
  \/ Environment

Spec == Init /\ [][Next]_vars

\* The tablet comes back online, or its page is loaded, again and again; a
\* server that has a request answers it.
LiveSpec ==
  /\ Spec
  /\ \A p \in Page : /\ WF_vars(FlushStart(p)) /\ WF_vars(FlushAnswered(p))
                     /\ WF_vars(\E r \in Request : FlushSend(p, r))
  /\ \A r \in Request : WF_vars(Handle(r)) /\ WF_vars(Vanish(r))

-----------------------------------------------------------------------------
(* Properties. *)

Held(t) == evidence[t] # "none" \/ \E i \in DOMAIN attendance : t \in attendance[i].taps

Written(t, via) == {i \in DOMAIN attendance : attendance[i].by = t /\ attendance[i].via = via}

TapType == [told : {"new", "wait", "choose", "success", "error", "queued"}, picked : Class \cup {None},
            choices : SUBSET Class, token : Nat, req : Request \cup {None}]
PageType == [flushing : BOOLEAN, left : Seq(Form), req : Request \cup {None}]

ServerTyped ==
  /\ now \in 0..MaxNow /\ active \subseteq Class /\ member \subseteq Student /\ token \in Nat
  /\ attendance \in Seq(Row)
  /\ evidence \in [Tap -> {"none", "PENDING", "RESOLVED", "DISMISSED"}]
  /\ request \in [Request -> {Free} \cup InFlight]
  /\ worker \in [Worker -> Correction]

DeviceTyped ==
  /\ tap \in [Tap -> TapType] /\ queue \in Seq(Form) /\ fate \in [Tap -> Answer \cup {"none"}]
  /\ page \in [Page -> PageType]
  /\ \A p \in Page : page[p].flushing = (page[p].left # <<>>)

\* The variables have their types, a page is flushing while it has entries left, and a
\* request in flight is one that is waited for by at most one of the tablet's pages
\* and taps.
TypeOK ==
  /\ ServerTyped /\ DeviceTyped
  /\ \A r \in Request :
       Cardinality({t \in Tap : tap[t].req = r}) + Cardinality({p \in Page : page[p].req = r}) <= 1

\* Evidence is settled once: it is RESOLVED exactly when one attendance was
\* recorded from it, whatever two coaches do to it at the same time.
SettledOnce ==
  \A t \in Tap : Cardinality(Written(t, "staff")) = IF evidence[t] = "RESOLVED" THEN 1 ELSE 0

\* An attendance a coach did not decide is in a class that was open at its
\* instant, after any interleaving of replays, corrections and coaches.
OpenWhenTapped ==
  \A i \in DOMAIN attendance :
    attendance[i].match # "STAFF_CORRECTED" => OpenAt(attendance[i].class, attendance[i].at)

\* What the student read on the tablet is so: a success has its attendance;
\* a queued check-in is in the queue, held by the server, or was deleted on
\* an answer that refused its code or its token.
ToldTruly ==
  \A t \in Tap :
    /\ tap[t].told = "success" => Written(t, "live") # {}
    /\ tap[t].told = "queued" =>
         Queued(t) \/ Held(t) \/ fate[t] \in {"invalid_code", "invalid_token"}

\* The tablet and the server together implement CheckInPromise.
Stands(t) == IF Held(t) THEN "held"
             ELSE IF Queued(t) THEN "kept"
             ELSE IF fate[t] = "none" THEN "open" ELSE "refused"

promised == [t \in Tap |-> Stands(t)]

Promise == INSTANCE CheckInPromise WITH promise <- promised

PromiseKept == Promise!Spec

\* A queued check-in leaves the queue: its place behind others, a flush that
\* stopped and a page that was reloaded only delay it.
QueueDrains == \A t \in Tap : tap[t].told = "queued" ~> ~Queued(t)
=============================================================================
