# Verification of the academy application

TLA+ models, TLC runs and TLAPS proofs about the BJJ academy application in
`src/` (Next.js, Prisma, PostgreSQL; one deployment, many organizations): its
dues engine, the cards that pay into it, the kiosk, sign-in and promotion. The
first part of this file is an inventory of the system and of what is hard in
it. The rest says what is modelled, how, what each run and theorem shows, and
what is left.

Paths are relative to `src/src/lib/` unless they begin with `src/`.

## 1. The system

Requests are served by short-lived processes that share nothing but the
database. What the code relies on for order is therefore: one transaction per
operation, row locks (`SELECT ... FOR UPDATE` on the student first), advisory
locks (the exchange-rate namespace, the throttles), unique indexes, and
compare-and-set updates. Scheduled work is an HTTP route that a scheduler
calls; it may overlap with itself and may be killed at any time.

| component | state | operations | talks to |
| --- | --- | --- | --- |
| Monthly generation (`dues/monthly-generation-progress.ts`, `monthly-generation.ts`) | `DuesGenerationProgress`: one row per month with cursor, lease, in-flight marker, counts; `DuesGenerationFailure` | discover, claim, gate, roll over, read a page, mark, bill one student, record a failure, end a pass, release | writes `DuesObligation` and `DuesCoverage` through the ledger's `create-monthly-obligation` |
| Dues ledger (`dues/settlement.ts`, `dues/ledger/*`) | `DuesObligation`, `DuesLateFee`, `DuesPayment`, `DuesSettlement` | charge, enroll, assess fees, record a payment, prepay, reverse, waive, correct | rates, policies, plans; called by staff pages, by enrollment and by the job |
| Awaiting-rate receipts (`dues/ledger/awaiting-rate-receipt.ts`) | `AwaitingRateReceipt` with a JSON snapshot | capture, resolve, cancel | created by payments and prepayments; resolution is a settlement |
| Exchange rates (`dues/ledger/exchange-rate*.ts`) | `ExchangeRateQuote`, revisions per date | enter a quote; resolve the quote in force; convert | read by every settlement in a foreign currency |
| Package purchase (`dues/ledger/purchase-package.ts`) | a PACKAGE obligation and several `DuesCoverage` rows | buy | the settlement writer |
| Submission identity (`dues/ledger/submission-identity.ts`, `dues/payment-attempt-storage.ts`, `payment-entry-recovery.ts`, `ledger/purchase-submission-identity.ts`, the three cards `src/src/app/[locale]/(staff)/payments/{payment-entry,package-purchase,prepayment}-section.tsx`) | `DuesPaymentAttempt` rows; attempts in the browser's local storage | begin, submit, retry, check the outcome, clear | wraps `recordDuesPaymentInTx`, `purchasePackageInTx`, `prepayMonthlyObligationsInTx` |
| Ledger activation and readiness (`dues/ledger/activation.ts`, `dues/readiness/*`) | `LedgerActivation`, opening items, confirmations | confirm, withdraw, activate | gates every ledger writer and the job |
| Plans, policies, assignments (`dues/config-actions.ts`, `assignment-actions.ts`) | versioned terms, policies, assignments | add or correct a version | read by charges and prepayments |
| Legacy payments (`payments/*`) | `Payment` per period | record, edit plans | replaced by the ledger |
| Kiosk (`kiosk/offline-queue.ts`, `perform-check-in.ts`, `rate-limit.ts`, `queued-check-ins.ts`) | IndexedDB queue on the device; attendance, queued check-ins, attempts | enqueue, flush, check in, keep as evidence, resolve, reassign | the check-in route |
| Sign-in (`auth/*`) | login attempts, reset tokens, `credentialsVersion` | reserve, verify, release; issue, deliver after the response, redeem | email provider |
| Scheduled jobs (`jobs/*`) | `JobRun` | create, run, finalize, ping a monitor | the digest and the generation route |
| Promotion (`promotion/*`) | rank, stripes, progress boundary, `Promotion` rows | award, correct, change track, switch accounting | reads attendance and configuration |
| Organizations and staff (`organizations/*`, `staff/*`) | organizations, members, invitations | approve, invite, accept, deactivate | email |
| Tenancy (`tenant/*`) | none of its own | pin a request to an organization | everything |
| Pages, analytics, portal, branding | none | read | |

### What is hard, and what makes each part correct

* **Monthly generation.** Overlapping runs, leases that run out under a live
  run, kills between two transactions, a commit whose acknowledgement is lost,
  students who appear behind the cursor, a student whose transaction always
  kills the process. Correct when: counts are exactly what the pass saw; nobody
  at or before the cursor was skipped; only the lease holder bills; a counted
  charge exists; every billable student is billed in the end.
* **Dues ledger.** Each writer is serialized by the student lock, so the
  difficulty is in sequences: fees assessed, waived or voided before, between
  or after payments that are reversed, months that are prepaid, receipts dated
  in the past. Correct when: debts are settled whole and oldest first, each by
  one payment; a payment's amount is what its settlements cost; fees and
  settlements agree; what must not be reopened is not; and no sequence of legal
  operations leaves a debt that cannot be paid.
* **Receipts.** Time passes between capture and resolution. Correct when each
  is used at most once, on its own date and terms, or not at all.
* **Submission identity.** A call may be lost, delayed past its retry or sent
  twice, from several tabs; the clear of a stored attempt may fail. Correct when
  an id is recorded at most once, an attempt without an answer is never
  forgotten, and nobody is invited to pay again while one is outstanding.
* **Kiosk.** The queue is replayed while it grows; answers get lost. Correct
  when every accepted check-in ends as one attendance, as kept evidence or as a
  counted drop.
* **Sign-in and reset.** Work after the response, slow hashing between the
  read of a token and its use. Correct when at most one token of a user can be
  redeemed, once, and redemption ends the earlier sessions.
* **Jobs.** Every bookkeeping write has an ambiguous commit. Correct when the
  monitor never hears of a success that the row denies.
* **Promotion.** Configuration and attendance are read outside the award's
  transaction. Correct when an award rests on evidence that held at its
  boundary and boundaries of one student never overlap.

`PROJECT.json` lists the hazards one by one at their lines, with the property
that covers each or the reason why none does.

## 2. Plan

In order of what the business depends on:

1. `MonthlyGeneration` and its contract `GenerationPass`. **Done**, proved.
2. `DuesLedger` and its contract `DebtAccount`. **Done** with packages, proved.
3. `Submission` and its contract `SubmissionRegister`: local storage, calls in
   flight, the identity row, retries and recovery checks, for the three cards.
   **Done**, proved.
4. `CheckIn` and `Kiosk`, composed, and their contract `CheckInPromise`.
   **Done**, proved.
5. `Accounts` and its contract `ResetTicket`: throttle, sign-in, reset,
   invitations. **Done**, proved.
6. `Promotion`: awards, corrections and track changes, the attendance they rest
   on, the activation of interval accounting. **Done**, proved.
7. Proofs about 4, 5 and 6, the contracts first. **Done**.
8. `LedgerLocks`: one process per writer with its sequence of locks; no deadlock
   for any number of writers, by an order on the locks. Left.
9. `ScheduledJob`: the run row, its ambiguous commits and the monitor. Left.
10. `Eligibility` and `CheckInWindow`: pure operators against reference
    definitions over bounded inputs; ledger readiness and activation. Left.

## 3. Modules

| module | what it is |
| --- | --- |
| `MonthlyGeneration` | the job: one organization, months, students, overlapping runs |
| `GenerationPass` | its contract: passes over students in order, with no run, lease or page |
| `MonthlyGenerationProofs` | theorems about `MonthlyGeneration` |
| `DuesLedger` | the ledger of one student |
| `DebtAccount` | its contract: whole debts, oldest first, one payment each, no month twice |
| `DuesLedgerProofs` | theorems about `DuesLedger` |
| `Submission` | the payment cards of one user, their stored attempts, calls in flight, the identity rows |
| `SubmissionRegister` | its contract: an id is a register written once, read after |
| `SubmissionProofs` | theorems about `Submission` |
| `CheckIn` | the server's side of check-in: requests, evidence, corrections |
| `Kiosk` | the tablet and its queue, composed with `CheckIn` |
| `CheckInPromise` | their contract: a queued check-in is kept until it is held or refused |
| `KioskProofs` | theorems about `Kiosk` with `CheckIn` |
| `Accounts` | one person's account: sign-in, reset, invitations |
| `ResetTicket` | the contract of a reset |
| `AccountsProofs` | theorems about `Accounts` |
| `Promotion` | one student's attendance, awards and accounting |
| `PromotionProofs` | theorems about `Promotion` |
| `MCMonthlyGeneration`, `MCDuesLedger`, `MCSubmission`, `MCKiosk`, `MCAccounts`, `MCPromotion` | instances for TLC |

### `MonthlyGeneration`

State: `rows`, `row` (the columns of a `DuesGenerationProgress` row), `older`
(the order by `lastVisitedAt`, `id`), `coverage` (`DuesCoverage`), `enrolled`,
`standing` (what eligibility, assignments and configuration decide for a
student), `current` (the earliest current month of the branches), `org`
(suspension and activation), and `run`, the local variables of each invocation.
`walk` and `due` are history variables: the class recorded for each student in
the open pass and the students that existed when it began; no guard reads them.

One action per database transaction of `runMonthlyGeneration` and
`visitSegment`: `Discover`, `Claim`, `Gate`, `Rollover`, `ReadPage`,
`MarkInFlight`, `ProcessStudent`, `RecordFailure`, `PassEnd`, `Release`, plus
the early ends (`EndSlice`, `StopAtDeadline`, `ClaimLost`). Each has its failing
form, in which the transaction either leaves nothing or commits and only its
acknowledgement is lost, and the process may die between any two (`Crash`) or
inside a student's transaction (`Dies`, for students in `Poison`).

Abstractions. A student's whole transaction is one step because its first
statement locks the progress row `FOR UPDATE` and checks token, expiry and
cursor there; the lease is not checked again at commit, so the step is placed
at the fence. `leaseUntil` is kept relative to the database clock. A token is
the run's name. Time is abstracted to the guarantees of the admission budget: a
run may stop before any unit of work, but not before its first visit made
progress.

### `DuesLedger`

State: `charged`, `prepaid`, `terms`, `fee`, `pay` (payments with their
settlements), `receipt`, `quote`, `horizon`, `today`. One action per writer:
`ChargeMonth`, `Enroll`, `AssessLateFees`, `RecordPayment` (settles, or captures
a receipt when a rate is needed and there is none), `Prepay`, `PurchasePackage`,
`Reverse`, `Waive`, `CorrectLateFee`, `Resolve`, `Cancel`, `EnterQuote`; and the
outside world: `Reprice`, `SetHorizon`, `DayPasses`.

A writer is one action because each opens one transaction, locks the student
before it decides anything and reads again what it decides on; a refusal rolls
everything back and is no step. The shared parts of the code are shared
operators: `Choosable` and `Accepted` (`resolveMonthlyDebtItemsInTx`,
`settleObligationsInTx`), `Settle` (`writeSettlementInTx`), `Assessed`
(`assessLateFeeInTx`), `TenderMatches` (`settleReceipt`), `FirstUncovered` and
`Free` (the look-ups in `DuesCoverage`). `FeesReread` is the assertion inside
`writeSettlementInTx`: where it fails the code throws, so in the model the
payment is refused, and `NeverStuck` shows that this never happens to a payment
that should be accepted.

A package is one debt that covers `Span` months from `Coverage` on. Buying it
(`Purchasable`) starts at the first uncovered month, must end within the horizon
and meet no covered month, and takes everything open with it. Prepayments and
packages share `PayAhead`: named debts and new ones, settled together or captured
when the rate is missing. A captured one is checked again by `StillFits` when it
is resolved, against the coverage and the horizon of that later day.

Abstractions. Debts are numbered in the ledger's order; a package's debt stands
for one plan and one first month. Terms of a debt not yet charged are the ones in
force for it. The enrollment month's due day is left open (`Enroll` chooses). All
debts are in one currency and tenders in it or in the other. The database ids of
payments and receipts are handed out in order, which is sound because no property
looks at an id.

### `Submission`

State of the server: `row` (what a committed `DuesPaymentAttempt` stands for)
and the history `booked` (the calls that wrote a payment or a receipt). State of
the browser: `stored` (local storage) and `card`, one record per mounted section
with its phase, recovery queue, pending clear and unclassifiable entries. Between
them, `call`: each call of a writer, with the card that still awaits it. `minted`,
`learned` and `refused` are history.

| action | code |
| --- | --- |
| `RefuseBefore`, `Insert`, `Replay`, `Record`, `RollBack` | the exits of `recordDuesPaymentWithSubmissionIdentity` and of its counterparts for packages and prepayments; the insert waits for an uncommitted row of the same id |
| `Die`, `Rejected` | a call that is lost; a promise that is rejected although its call may go on |
| `Mount`, `Close` | the mount effect; a closed or reloaded tab |
| `HandleSubmit`, `HandleRetrySafely`, `Answered` | `handleSubmit`, `handleRetrySafely` and `runWrite` after its `await` |
| `ResolveQueueHead`, `HandleCheckStatusAgain`, `FinishCleanup`, `StartOver` | the functions of these names |
| `CheckUnclassifiable`, `Notified` | the section of unclassifiable entries, of the ordinary card alone; `useHasUnresolvedUnclassifiable`, of every card |
| `Spoil`, `Heal` | an entry stops or starts being readable |

The three cards are one text three times over, each for the ids of its own
operation (`OperationOf`): a card takes up the entries of its operation at mount
and leaves the others alone; what cannot be classified is the ordinary card's to
check and bars all of them. `PROJECT.json` maps each shared definition to the
ordinary card. `AttemptClear` and `PopQueue`, which the code shares between the
write and the recovery path, are shared operators.

Abstractions. Each transaction may end with any verdict, since the ledger is
changed by others at any moment (module `DuesLedger` says how). From the student
lock on, a transaction is one step. A check reads an outcome and clears in one
step, because an outcome once found stays true; one that finds nothing leads to
the same state whenever it read. A recovery queue is a set with a head, for local
storage lists its keys in any order. The three sections of a page are closed one
by one in the model, together in the browser. A card refetching plans or
obligations after a refusal is locked, and then a form: it is `form` here. The
payload of an id never changes and an id is only sent to the writer it was minted
for, so `submissionPayloadMismatch` cannot be caused by a card.

### `CheckIn` and `Kiosk`

Server state: `attendance` and `evidence` (`AttendanceRecord`, `QueuedCheckIn`),
the `request`s in flight, the `worker`s that correct, and the world they read
(`active` classes, `member`s, `token`, the clock `now`). Tablet state: `tap`
(what each student was told), `queue` (IndexedDB), `page` (the flush of each page
that shares the queue). `fate`, and the fields `by`, `via` and `taps` of a row,
are history.

| action | code |
| --- | --- |
| `Judge`, `Record` (`Attribute`, `Retain`) | the check-in route and `performCheckIn`: what is read, then what is written, the unique indexes deciding |
| `ReadResolve`/`WriteResolve`, `ReadDismiss`/`WriteDismiss` | `resolveQueuedCheckIn`, `dismissQueuedCheckIn`: the read, and the transaction that claims the evidence |
| `ReadReassign`/`WriteReassign`, `Void` | `reassignAttendance` and `voidAttendanceEntry` |
| `SubmitLive`, `SubmitOffline`, `LiveThrown`, `LiveUnread`, `LiveAnswered` | a code entered at the kiosk, its class picker, and the outcomes of its fetch |
| `FlushStart`, `FlushSend`, `FlushAnswered`, `FlushStops` | `flushOfflineQueue` and `replayEntry` |
| `Vanish` | a request nobody awaits is lost, or its answer is |

Abstractions. One academy and one week: a class has one occurrence, with a day of
its own so that one after midnight belongs to the next. A tap is one event id.
Not modelled: the rate limiter and its lockout and the answer of an unreachable
organization, which only send a code away to be entered again; edits of a class's
times; every screen.

### `Accounts`

State: `user`, the `attempt`s to sign in and the sessions they became, `counted`
(`LoginAttempt`), the reset `request`s with their admission and delivery, `ticket`
(`PasswordResetToken`), the `redeemer`s in flight, and `invitation`. Each handler
is split where the code awaits: `Arrive`, `Reserve`, `Verify`, `SignIn`; `Ask`,
`claimResetRequest`, `issueResetToken`, `deliverResetEmail` (after the response),
`invalidateIssuedToken`; `ReadTicket`, `Redeem`; `ReadInvitation`,
`acceptInvitation`, `NotAccepted`; and the `Sweep` of old attempts. What is
refused goes no further.

Abstractions. One account, so the limit of an address over many accounts is not
there; nor are the sweep of reset requests, changes of a password in the account
pages, and `user.active`, which no code sets to false. `LoginWindow + Wait <=
Retention` is an assumption on the constants: an attempt whose limits are checked
as of its arrival may write up to the timeout of its transaction later, and a
sweep that keeps less than both would forget what still counts.

### `Promotion`

State: `student`, `accounting` (`stripeAccounting` by track), `record`
(attendance), `staff` (what each request has read and is about to write), and
the history `earned`. Actions: `CheckIn`, `VoidRow`, `Reassign` on attendance;
`ReadAdjustment` and `addAttendanceAdjustment` for a day a coach adds; `ReadConfig`,
`ReadAward` (the two reads of an award), `ReadCorrection` and `ReadTrackChange` before the transaction, `LockStudent` and
`writeAward` in it, `GiveUp`; `SetStatus`; `activateAccounting`. Progress is a set
of pure operators (`isDayContribution`, `listContributingDays`, `Target`, `Count`,
`isEligible`) used wherever the code uses them.

Abstractions. The catalog is constant, since `updateTrackConfig` has no caller.
Left out: legacy credits, the impact report (which can only refuse an activation),
its completion of the black-belt catalog, the belt date in a correction, the statuses
PENDING and INACTIVE: a student who is not `active` is ARCHIVED. `ReadAdjustment` takes
its two reads, student and configuration, in one step: an award or an activation between
them would change no more than the instant and the history flag of that one row. The
activation runs on a clock that is not behind the last award (`student.baseline
<= now`); the boundary of an award may be one instant ahead of the clock that set
it, and the code compares nothing there.

## 4. Runs

Deadlock is checked for the job and for submissions. It is not for the others: a
ledger with the payments and days of its instance used up, a kiosk with no tap
left, an account with no request left and a student with no row left are a normal
end.

| run | instance | properties | shows |
| --- | --- | --- | --- |
| `walk` | 2 runs, 1 month, ids 1..3 with 2 possibly appearing later, 1 killing every process that visits it, 1 fault, 1 outside change | `TypeOK`, `Tally`, `Contiguous`, `CoveredIsCovered`, `IInv`, `BilledUnderItsLease`, `PassContract`, `EveryoneBilled`, `PassesKeepEnding` | counts, cursor and coverage stay together, the job refines its contract, and the marker gets the walk past a killer |
| `months` | 1 run, 3 months, first row up to two behind, calendar moving | `RowsWithoutGap`, `EveryoneBilled` | rollover and the visit order leave no month out |
| `fees` | a SIGNUP and two months, 3 days, 3 payments, backdating by 2, tender in dollars or in colones, one quote entered on some day at rate 1 or 2, rounding to 8 | `FeesAreLate`, `FeesAgree`, `NeverStuck` | fees, waivers, corrections and reversals in any order, of payments in either currency |
| `waiting` | two months and a package of the month between them and the second, 3 days, 2 payments, 1 receipt, horizon 0 or 2, rates 1 and 2, repricing of the second month and of the package | `TypeOK`, `Permanent`, `ReceiptOnce`, `PrepaidAsCaptured`, `AccountContract`, `TenderIsTotal` | receipts, prepayments and packages that wait while others charge and pay; nothing, a newer quote included, unsettles a payment's sum |
| `tabs` | 2 prepayment cards and 1 ordinary one, 2 ids, 2 calls | `TypeOK`, `OneOutcome`, `AttemptsAreKept`, `NothingOutstanding`, `RegisterContract` | ids are recorded once and cards forget nothing, with overlapping, dead and late calls, failing clears and unreadable entries |
| `refusal` | 1 ordinary card, 2 ids, 2 calls | `RefusalIsDefinitive` (violated) | the first finding |
| `kiosk` | 1 tap, 2 pages, 2 requests, 2 workers, 3 classes, 1 fault, 1 outside change, the tablet's clock right or one instant ahead | `TypeOK`, `SettledOnce`, `OpenWhenTapped`, `ToldTruly`, `PromiseKept` | replays, corrections and coaches in any order; tablet and server implement the promise |
| `drain` | 2 taps, 1 page, 1 fault, the same clocks | `QueueDrains` | every queued check-in leaves the queue |
| `accounts` | 2 sign-ins, 2 reset requests, 2 redeemers, 2 invitations of one organization | `TypeOK`, `ThrottlesHold`, `OldPasswordOut`, `MailedLinkLasts`, `ResetContract` | limits, sessions and tokens under every overlap of handlers |
| `accepted` | invitations of two organizations | `PasswordIsTheirs` (violated) | the second finding |
| `promotion` | a kids' track and a legacy adult one, 2 rows, 2 requests of staff, 3 instants, corrections and track changes to the children's belt without degrees | `TypeOK`, `HistoryIsAChain`, `EvidenceOnce`, `ProgressIsKept` | awards, corrections, track changes, added and voided days, and the activation in any order |
| `stale` | 1 row, 2 requests of staff | `EligibleAtWrite` (violated) | the third finding |

Why the bounds are enough. Two runs give every interleaving of a run that lost
its lease with the one that took it. Three ids with pages and slices of two put
page ends, slice ends and a late student on both sides of the cursor. One fault
puts a kill or a lost acknowledgement at each transaction; `MaxAttempts` 1 makes
the second visit of a killer the skipping one. Three months with one rollover
per visit make catching up take several visits. In the ledger, two months are
enough for "older" and "newer", and a SIGNUP adds the tie in one month; three
payments let a debt be paid, reversed and paid again beside another; each month
can be paid on time (the second by backdating) and late, before or after a quote; a receipt can wait across a
change of month, and a package overlaps the month after its first, so that either
can be in the other's way. The rounding multiple of 8 makes totals 3 and 4 collide
at rate 2, so that the refusal of ambiguous totals takes effect. Two
prepayment cards and two ids let one tab take up what the other left, with a second
entry queued behind the first, and the ordinary card beside them is the one that
looks after their unreadable entries; two calls are an original and its retry, or
the calls of two tabs or of two ids, and the theorems have any number. At the kiosk, one tap can be live and queued, replayed by two pages at once and served
late, with an attendance that two workers resolve, move or void meanwhile; the
three classes have an instant at which one, two or none are open. Of an account,
two of each kind of request are what a race takes, and three instants put each
window's edge between them; with two attempts the pair limit and the account limit
are both 1, so that the pair's clause follows from the account's in the run and only
the theorem separates them. In `promotion` a children's degree takes one day, and a
coach may take it back, so that it is earned a second time by another row; the adult
belt takes two days of one interval, and the last one is by time. Three instants are
what these take: the second award is of a day after the first one's boundary, and an
award of two days ends after both. With an award that does not restart progress the
second one is earned by the row of the first, which is the mutant of `EvidenceOnce`.
The track change back to the adult track is left to the theorems.

Ids, calls, pages, requests and staff are interchangeable, hence the symmetries,
which no run with a liveness property uses. Every component has
theorems, and they cover what the bounds leave out, except as section 6 says.

`PROJECT.json` pairs each property with a mutant of a modelled definition (a
dropped guard, a wrong edge, a missing reset) which the property's run detects.

### Fairness

`LiveWalkSpec` and `LiveCalendarSpec` ask for weak fairness of each run's normal
progress and of the expiry of a lease that no visit holds. The first means that
the schedule keeps calling the route and that a process not killed goes on; faults
and kills are not fair and are bounded. The second is the database clock. The
schedule is an assumption: `vercel.json` has no entry for the generation route, and
`dues/monthly-generation-route.ts:15-18` says that it is not scheduled yet. The
liveness results hold of the system once it is. In `months` only the calendar,
of all outside changes, moves, so that the question is about the order of rows.

The kiosk's `LiveSpec` asks that its page, when the browser is online again or the
page is loaded again, begins a flush and goes on with it, that a server that has a
request answers it, and that one nobody awaits is gone in the end. Failures are
bounded. This is what "the tablet comes back" means; nothing makes the student,
the staff or the clock move.

Submissions, accounts and promotions are checked without fairness: a network, a
browser and a user who may walk away justify none, and what matters there is that
nothing is lost or granted wrongly while nobody acts.

### Findings

**A refusal is not definitive** (`refusal`). `dues/payment-entry-recovery.ts:56-57`
calls in-transaction refusals "always definitive" and safe to clear. In the run
the original call's promise is rejected while the call goes on; its retry is
refused inside the transaction, whose rollback makes the id fresh again; the card
drops the attempt and unlocks the form; then the original commits. For the two
calls to get different verdicts the ledger must change between them: a payment
that made the retry `alreadySettled` is reversed, a quote or a fee changes the
required total, a debt comes or goes. The owner has been shown a refusal, and the
stored attempt that would have told otherwise is gone. The other tab's call can
take the place of either. The same disagreement concerns a refusal before
arbitration on the first call of an id: another tab, mounted meanwhile, may have
sent the same id already.

**An accepted invitation overwrites a password** (`accepted`).
`src/src/app/[locale]/accept-invitation/actions.ts:35-37` says of an account that is
active that "the password is NEVER touched". Whether it is, is read before the
transaction (`:62-68`), which locks its own organization only (`:95`). Two
organizations invite a person whose account is still a placeholder; both acceptances
read it so, one activates the account with a password, and the other overwrites
that password (`:122`) without advancing `credentialsVersion`, so that the sessions
opened with the first one stay.

**Eligible by the accounting of before** (`stale`). `promotion/award.ts:86-87` says
that the check in the award's transaction "is what makes "eligible" mean eligible at
the moment of the write". Student and attendance are read again there; the
accounting is the map resolved before the transaction (`:279`, handed on at `:333`).
`promotion/accounting-activation.ts:378-379` counts on its locks to make an award in
flight finish first or wait; one that waits is then verified by the legacy count
against progress the activation has just reset, and written.

Smaller things seen while modelling, without a run of their own:

* `src/prisma/schema.prisma:1503-1505` says of SIGNUP "NOT YET WIRED: no
  payment-recording writer accepts type: 'SIGNUP' [...], so a SIGNUP charge can be
  created but not yet paid, settled or currency-converted"; so do
  `src/docs/DUES_PAYMENT_SCHEDULES.md:131` and `:155` and
  `src/scripts/pending-callers.ts:327`. The code settles it:
  `dues/ledger/record-payment.ts:271` reads `MONTHLY` and `SIGNUP` debts alike for every
  writer, and orders a SIGNUP before the month it falls in
  (`src/tests/integration/dues-ledger-writers.test.ts:761` agrees). The model follows
  the code, the `fees` run settles SIGNUPs, and `NeverStuck` says that an open one can
  always be paid; the comments are out of date.
* `dues/monthly-generation-progress.ts:35-36` says that every write but the claim
  compares token and cursor; the release (`:570`) compares the token alone. Harmless:
  `BilledUnderItsLease` is proved with it.
* `src/src/app/[locale]/(staff)/payments/payment-entry-section.tsx:68` says an unclassifiable entry blocks while its
  outcome is unknown. One whose `getItem` threw at mount and no longer does is in
  neither the queue nor the block until the next mount.
* `src/prisma/schema.prisma:1900-1901` says a retry of a queued check-in is
  recognized. `kiosk/perform-check-in.ts:253-260` looks for kept evidence only: an
  event that was recorded as attendance and is retried after the age limit is kept as
  evidence too.
* `reassignAttendance` reads a row that is not voided and updates it by id alone
  (`kiosk/reassign-attendance.ts:82-89`, `:132`), so it may move a row voided in
  between.
* A queued check-in of a student who is no longer ACTIVE gets `invalid_code`, is
  deleted from the queue, and is not among the drops it counts
  (`kiosk/offline-queue.ts:272`, `kiosk/perform-check-in.ts:146-147`).
* A day a coach adds takes its instant from the baseline read before an award
  (`src/src/app/[locale]/(staff)/students/[id]/adjustment-actions.ts:147`), and may land after it.

## 5. Theorems

All hold for every value of the constants that meets the named assumptions of
the modules (ids are naturals, tables finite, limits positive; debts ordered by
coverage month, days ordered with months, amounts positive; the next rank is of the
same track; the sweep of sign-in attempts keeps them for a window and a timeout; the
`None` of a module is none of its ids). Nothing else is assumed, but for the one
hypothesis that `OldPasswordIsOut` states.

Every safety invariant and every action property that a passing run checks is a
theorem here, and every contract is proved to be implemented.

### The job (`MonthlyGenerationProofs`)

`TypesHold`, `CountsAreExact`, `NobodyIsSkipped`, `CoveredMeansCovered`,
`BillingIsLeased` and `ImplementsPass` follow from `InvariantHolds`
(`Spec => []IInv`). `IInv` adds to the three stated invariants what they rest
on: where each invocation is in its loop and what it then knows about its row
(`Located`), that a pass starts with existing students, that a month without a
row has no open pass, and `PageIsNext`: while a run's fence holds, everything on
its page is beyond the cursor, the students of the pass it has not reached yet are
on the page or behind all of it, and at the pass end none is left. Without it
`Contiguous` is not inductive, since a page read long ago decides who is visited
next.

Each action is first summarised by its effect on one row: nothing (`Quiet`), one
more student seen (`Saw`), the pass ended (`Ended`), or a change elsewhere. The
invariants and the refinement are then proved of the summaries, once each, not
of twenty actions. `BillingIsLeased` shows that only `Saw` covers a month for the
job, under a live lease with the runner's token.

`RowsAreContiguous` (`RowsWithoutGap`) is inductive beside `IInv`: only a rollover
adds rows and only the calendar moves the current month. A visit that is not of
the newest row adds nothing; one that is adds the months directly after it, as many
as the visit may and as the branches have reached, so that a month between two rows
is either old or among them.

### The ledger (`DuesLedgerProofs`)

`TypesHold`, `LateFeesAreLate`, `FeesAndSettlementsAgree`,
`PermanentStaysSettled`, `ReceiptsPayOnce`, `PrepaidTermsHold`, `DebtsCanBePaid`
and `ImplementsAccount`. The inductive invariant is the conjunction of `TypeOK`,
`FeesAreLate`, `FeesAgree`, `Permanent`, `ReceiptOnce`, `PrepaidAsCaptured` and
`MonthsOnce` (no two charged debts cover one month, which the contract needs and
`Free` keeps), and no part is inductive alone: a settlement keeps `FeesAgree` only because what
it settles was open and the fees it meets are late ones; voiding keeps
`Permanent` only because the same step settles the month on time.

The five writers that settle (record, prepay, purchase, correct, resolve) are shown
to be one kind of step, `Settling`, with its facts; those that bring new debts with
them share a lemma on what they charge (`ChargingAhead`); the remaining writers are the other
cases of `Step`. Each part of the invariant is then proved over these kinds.
`DebtsCanBePaid` needs the whole invariant: the assertion on fees holds because
`FeesAreLate` excludes an active fee on a debt that is not late today, and the
amount's own-currency total matches by definition. `ImplementsAccount` maps a
payment in force to the debts it settles.

`TendersAreTotals` (`TenderIsTotal`) is the sum of a payment. When it is made, the
total that was validated and the settlement that is written are sums of the same
summands: `FeesReread` and `FeesAreLate` make the fee in a debt's amount due the fee
whose row is active afterwards (`FeeIsInTotal`). From then on no summand changes,
because what is settled is charged and a charged debt keeps its terms. No induction
over the sum is needed, for equal functions have equal sums.

`LedgerIsKept` says what an undoing is: no step removes a debt, rewrites the terms of
a charged one or the content of a payment or a captured receipt; fees go from active to
waived or voided, payments to reversed, receipts to resolved or cancelled, once and for
good. It is the one theorem about the ledger that no run checks.

### Submissions (`SubmissionProofs`)

`Typed`, `OutcomesAreUnique`, `NothingIsForgotten` and `NothingIsOutstanding`
follow from `Inductive` (`Spec => []IInv`); `IdsAreRegisters` uses it step by
step. `IInv` adds to the stated invariants `CallsAreAwaited` (a card awaits one
call at most, and only while it is submitting that call's id, so no answer
reaches a card that is doing something else), `IdsAreArbitrated` (one call at
most holds an id, before anything is recorded for it, and an answer that says
"recorded" is true), `QueuesAreWorkedOff` (what a card has found and not seen
cleared is in its queue, whose head it is busy with; a failed clear is of an
attempt that has an answer) and `OnlyMinted`. `OneOutcome` rests on the second,
`NothingOutstanding` is the third read at an idle card, and `AttemptsAreKept`
needs it for the clear that is tried again long after the answer.

The proof gives each action a lemma on its effect (which cards, calls and entries
it touches), then proves the three parts that interact, `AwaitedStep`,
`ArbitratedStep` and `KeptStep`, from the effects.

### Check-ins (`KioskProofs`)

`Types`, `EvidenceSettledOnce`, `AttendedWhenOpen` and `TabletIsTruthful` follow
from `Invariance` (`Spec => []IInv`), which was checked by TLC on both instances of
the kiosk before it was proved. The parts of `IInv`, beside the types and
`OpenWhenTapped`:

| part | says | why it is needed |
| --- | --- | --- |
| `Waiting` | a live request is awaited by its own tap, a replay by at most one page, whose next entry it carries | an answer is applied to the tap it is about |
| `RequestsAreSound` | a judged request is to be attributed to classes open at its instant; what an answer says of its tap is true | the judgement is used after the world moved, the answer after that |
| `EntriesAreQueued` | entries are of queued taps, one each in the store | the deletion of an entry concerns its tap alone |
| `TapsAreTold` | who was told of a success has the attendance; a queued tap is in the queue or has its fate, which settles it | it is `ToldTruly` in the form that a deletion preserves |
| `EvidenceIsSettled` | RESOLVED evidence has exactly one attendance of the staff's, other evidence none | two coaches: only the claim of the evidence in the transaction separates them |
| `CorrectionsAreSound` | a correction in flight is of a row that exists, and a student's own pick was open at the row's instant | the row is read before the transaction |

A server that was judged right stays right because attendance and evidence only grow:
`RowsKept` (a row keeps its instant, its origin and its taps through every correction) and
`EvidenceKept` give `FactsLast`, by which every answer on its way stays true. The
invariant has a share of the server (`SInv`) and one of the tablet (`DInv`); an action
of one leaves the other `Asleep`, and `StepKeeps` puts the shares together. The same
lemmas say how the step moves the promise of one tap (`PromiseMoves`), which is
`PromiseImplemented`: kept while it is queued, then held by the server for good or
refused by its code or token, never dropped.

### Accounts (`AccountsProofs`)

`Types`, `Throttled`, `MailedLinksLast` and `ResetImplemented` rest on
`IInv`: the types, `TicketsFollowRequests` (a ticket exists only of a request that
was claimed, one at most is unused, a mail is the end of its request) and
`SweptAreOld`, without which `ThrottlesHold` is not inductive: a swept attempt no
longer counts, so it must be too old to share a window with any that is still to be
admitted. That follows from `LoginWindow + Wait <= Retention` and from the timeout of
the admission's transaction. The count of a window grows only by the attempt that was
just found below the limit (`OneMore`), and the windows that contain it are those the
check looked at (`WindowsAreRecent`).

`OldPasswordIsOut` needs its own invariant: a checked password is the account's for
as long as the credentials version is, and who found the account not yet active and
may still accept finds it so to the end. The second part is false with invitations of
two organizations, which is the second finding; the theorem has the hypothesis
`OneOrganization`, and no other.

### Promotion (`PromotionProofs`)

`Types`, `Chain`, `EvidenceIsSpentOnce` and `ProgressKept` rest on an invariant of
four parts beside the types: `PlansLead` (a plan leads to degrees its rank has, on
the track it starts from unless it changes the track), `LocksAreSound` (one request
at most holds the student's lock, and what it then reads again is what it writes: the
position, evidence within the interval, a day each, enough of it), `SpentIsPast`
(attendance that has earned a promotion lies before the baseline) and that the rank is
one of the track. `EvidenceOnce` is the meeting of the last two: evidence is taken
from the baseline on, and an award moves the baseline past it. A day added or
moved meanwhile cannot undo it, because rows keep their instants and the lock is held
from the reading to the write.

## 6. Only model-checked, and not modelled

* Liveness (`EveryoneBilled`, `PassesKeepEnding`, `QueueDrains`) is checked by TLC
  only: the proof system does not treat fairness.
* `RefusalIsDefinitive`, `PasswordIsTheirs` and `EligibleAtWrite` are violated: see
  the findings. With two organizations, `OldPasswordOut` fails with the second of them.
* `Submission` has no liveness: a card another tab has left without its stored
  entry (after a refusal) can only be freed by a reload, and no fairness of the
  user is justified.
* The eligibility rules, the route's time budget arithmetic, the audit log,
  roles and scopes are left out of the models: they select who may ask and what
  a student's standing is, and the models let either vary freely.
* Not covered by a property: the lock order of the ledger's writers, the commits
  of a scheduled job that are reported as failed (both planned), the retry of a
  card whose entry another tab has cleared, and the added day that races an award.
* Not modelled at all: pages and forms, translations, tables and charts, branding,
  notifications, analytics, the student portal, seeds, scripts and tests. They are
  more than half of the repository's lines, read state that the modelled writers
  change, and keep none of their own beyond a form; a model of them would restate a
  query or a layout. What has state of its own and is left out is named in section
  2 or, with its reason, in `PROJECT.json`.
