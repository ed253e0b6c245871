----------------------------- MODULE DuesLedger -----------------------------
(***************************************************************************)
(* The dues ledger of one student: charges, payments, late fees, receipts  *)
(* that wait for an exchange rate, prepayment, packages and corrections.   *)
(*                                                                         *)
(* Every writer opens one transaction, locks the student row first and     *)
(* reads again, under the lock, all that it decides on; the exchange-rate  *)
(* namespace is locked for the whole of every settlement.  So each writer  *)
(* is one action, and the interleavings are those of whole writers, in     *)
(* any order and on any day.  A refusal changes nothing: what was written  *)
(* before it in the same transaction (a voided fee, a month's obligation)  *)
(* is rolled back, and the refused request is no step.                     *)
(*                                                                         *)
(* Abstractions.  The debts are the natural numbers of Debt, in the order  *)
(* the ledger sorts them: coverage month, a SIGNUP before the MONTHLY of   *)
(* the same month.  All debts have one currency and a receipt has that one *)
(* or the other ("foreign"): debts in two currencies are refused whatever  *)
(* is tendered.  terms[o] is the snapshot a charged debt holds and, until  *)
(* it is charged, the price and policy in force for it.  A package's debt  *)
(* stands for one plan and one first month.  Scope, roles, notes and the   *)
(* audit log are left out.                                                 *)
(***************************************************************************)
EXTENDS Integers, FiniteSets, Functions

CONSTANTS
  Debt,       \* obligations the student may come to have
  Monthly,    \* those of type MONTHLY
  Package,    \* those of type PACKAGE; the others are of type SIGNUP
  Coverage,   \* [Debt -> coverage month, a package's first]
  Span,       \* [Package -> monthsCovered]
  Offer,      \* [Debt -> set of terms (price and policy) it may be charged under]
  Day,        \* calendar days, as naturals
  MonthOf,    \* [Day -> month]
  BackDays,   \* maxBackdateDays
  Horizon,    \* values of the policy's maxPrepaidMonths (0: none set)
  Tender,     \* amounts a receipt may carry
  MaxMinor,   \* MAX_MINOR_UNITS
  Rate,       \* exchange rates, in units of 1 / RateUnit
  RateUnit,   \* 10 ^ decimals of a rate
  Colon,      \* minor units of a whole colon
  ToColones,  \* TRUE: the debts are in dollars and the foreign tender in colones
  Payment,    \* payment ids
  Receipt,    \* awaiting-rate receipt ids
  MaxEnv      \* bound: quotes entered and configuration saves

Terms == [amount : Nat \ {0}, lateFee : Nat, grace : Nat]

ASSUME DebtsAreOrdered ==
  /\ Debt \subseteq Nat \ {0} /\ IsFiniteSet(Debt) /\ Monthly \subseteq Debt
  /\ Package \subseteq Debt \ Monthly /\ Span \in [Package -> Nat \ {0, 1}]
  /\ Coverage \in [Debt -> Nat]
  /\ \A o, q \in Debt : o < q => Coverage[o] <= Coverage[q]
  /\ \A o, q \in Monthly : o # q => Coverage[o] # Coverage[q]
  /\ \A k \in Package, o \in Debt \ (Monthly \cup Package) : Coverage[o] = Coverage[k] => o < k
  /\ Offer \in [Debt -> SUBSET Terms]
ASSUME DaysAreOrdered ==
  /\ Day \subseteq Nat \ {0} /\ MonthOf \in [Day -> Nat] /\ BackDays \in Nat
  /\ \A d, e \in Day : d <= e => MonthOf[d] <= MonthOf[e]
ASSUME AmountsAndIds ==
  /\ Tender \subseteq Nat \ {0} /\ Rate \subseteq Nat \ {0}
  /\ {RateUnit, Colon} \subseteq Nat \ {0} /\ MaxMinor \in Nat
  /\ Horizon \subseteq Nat /\ MaxEnv \in Nat /\ ToColones \in BOOLEAN
  /\ Payment \subseteq Nat \ {0} /\ Receipt \subseteq Nat \ {0}

VARIABLES
  charged,  \* obligations that exist
  prepaid,  \* those charged only to be settled: of origin PREPAYMENT, or packages
  terms,    \* [Debt -> Terms]: see the head of the module
  fee,      \* DuesLateFee: [Debt -> FeeState]
  pay,      \* DuesPayment with its DuesSettlement rows
  receipt,  \* AwaitingRateReceipt
  quote,    \* [Day -> value of the date's highest revision], 0: none entered
  horizon,  \* maxPrepaidMonths of the policy in force
  today,    \* today in the branch's timezone
  env       \* outside changes so far (bounded by MaxEnv)

config == <<quote, horizon, today, env>>
vars   == <<charged, prepaid, terms, fee, pay, receipt, config>>

FeeState == {"none", "active", "WAIVED", "VOIDED"}
Unshown  == [amount |-> 0, lateFee |-> 0, grace |-> 0]
Ahead    == Monthly \cup Package  \* what can be paid before it is charged:
Purchase == (SUBSET Monthly) \cup {{k} : k \in Package}
Snapshot == [Ahead -> Terms \cup {Unshown}]
PayType ==
  [state : {"none", "active", "reversed"}, items : SUBSET Debt, fees : SUBSET Debt,
   on : Nat, foreign : BOOLEAN, amount : Nat, rate : Nat, from : Receipt \cup {0}]
ReceiptType ==
  [status : {"none", "PENDING", "RESOLVED", "CANCELLED"}, items : SUBSET Debt,
   months : Purchase, snapshot : Snapshot, on : Day \cup {0}, amount : Nat]
NoPayment == [state |-> "none", items |-> {}, fees |-> {}, on |-> 0, foreign |-> FALSE,
              amount |-> 0, rate |-> 0, from |-> 0]
NoReceipt == [status |-> "none", items |-> {}, months |-> {}, on |-> 0,
              snapshot |-> [o \in Ahead |-> Unshown], amount |-> 0]

First(S) == CHOOSE x \in S : \A y \in S : x <= y

-----------------------------------------------------------------------------
(* Settlement: what a debt costs and which receipts settle what.           *)

\* lateFeeApplies: the receipt is dated after the inclusive grace deadline.
Late(o, d) == o \in Monthly /\ d > terms[o].grace

Settled(o)  == \E p \in Payment : pay[p].state = "active" /\ o \in pay[p].items
SettledOnTime(o) ==
  \E p \in Payment : pay[p].state = "active" /\ o \in pay[p].items /\ ~Late(o, pay[p].on)
Open(debts) == {o \in debts : ~Settled(o)}

\* amountDueMinor over the terms resolveMonthlyDebtItemsInTx builds: a removed fee
\* is not owed.  `fees` is the fee table as this transaction sees it.
FeeDue(o, d, fees) ==
  IF Late(o, d) /\ fees[o] \notin {"WAIVED", "VOIDED"} THEN terms[o].lateFee ELSE 0
AmountDue(o, d, fees) == terms[o].amount + FeeDue(o, d, fees)
Total(S, d, fees) == SumFunction([o \in S |-> AmountDue(o, d, fees)])

\* Mutant: a month already settled on time is assessed all the same.
AssessedUnsettled(o, d, fees) ==
  IF fees[o] # "none" THEN fees[o]
  ELSE IF Late(o, d) /\ terms[o].lateFee > 0 THEN "active" ELSE "none"

\* Mutant: the fee is assessed on the last day of grace.
AssessedOnDeadline(o, d, fees) ==
  IF fees[o] # "none" THEN fees[o]
  ELSE IF o \in Monthly /\ d >= terms[o].grace /\ terms[o].lateFee > 0 /\ ~SettledOnTime(o)
       THEN "active" ELSE "none"

\* assessLateFeeInTx: a fee row, once there, is left as it is; otherwise the fee is
\* owed when asOf is late, unless the month is settled by a receipt that was on time.
Assessed(o, d, fees) ==
  IF fees[o] # "none" THEN fees[o]
  ELSE IF Late(o, d) /\ terms[o].lateFee > 0 /\ ~SettledOnTime(o) THEN "active" ELSE "none"

\* The chosen debts are exactly the first of the open ones.
InOrder(S, debts) == \A s \in S, o \in Open(debts) \ S : s < o

\* Mutant: any active fee is refused, late receipt or not.
FeeClashAlways(S, d, fees) == \E o \in S \cap Monthly : fees[o] = "active"

\* feeAlreadyAssessed: an assessed fee is not removed by an earlier received date.
FeeClash(S, d, fees) == \E o \in S \cap Monthly : fees[o] = "active" /\ ~Late(o, d)

\* resolveMonthlyDebtItemsInTx accepts the chosen debts.
Choosable(S, d, debts, fees) ==
  S \subseteq Open(debts) /\ InOrder(S, debts) /\ ~FeeClash(S, d, fees)

\* resolveEffectiveQuote: the quote of the date, else of the latest earlier date that
\* has one; never a later one.  0: no quote.
Quote(d) ==
  LET earlier == {e \in Day : e <= d /\ quote[e] # 0}
  IN  IF earlier = {} THEN 0
      ELSE quote[CHOOSE e \in earlier : \A x \in earlier : x <= e]

\* roundToNearestMultiple: numerator / denominator to the nearest multiple, half up.
RoundToNearestMultiple(numerator, denominator, multiple) ==
  LET scaled == denominator * multiple
  IN  ((numerator * 2 + scaled) \div (2 * scaled)) * multiple

\* convertUsdToCrcMinor, convertCrcToUsdMinor.
Converted(total, rate) ==
  IF ToColones THEN RoundToNearestMultiple(total * rate, RateUnit, Colon)
               ELSE RoundToNearestMultiple(total * RateUnit, rate, 1)
Required(total, foreign, rate) == IF foreign THEN Converted(total, rate) ELSE total

\* Mutant: the tender matches some total, not that of the chosen debts.
TenderMatchesAny(S, d, foreign, amount, debts, fees) ==
  \E T \in SUBSET Open(debts) :
    T # {} /\ InOrder(T, debts) /\ Required(Total(T, d, fees), foreign, Quote(d)) = amount

\* settleReceipt: the tender is the total of the chosen debts and, after rounding, of
\* no other candidate.
TenderMatches(S, d, foreign, amount, debts, fees) ==
  /\ Required(Total(S, d, fees), foreign, Quote(d)) = amount
  /\ foreign => \A T \in SUBSET Open(debts) \ {S, {}} :
       InOrder(T, debts) => Required(Total(T, d, fees), foreign, Quote(d)) # amount

\* The oldest open debt's amount fits a payment column (else amountUnsupported).
Payable(d, debts, fees) == AmountDue(First(Open(debts)), d, fees) <= MaxMinor

\* writeSettlementInTx reads the fees again and throws if they disagree with what
\* was validated.
FeesReread(S, d, fees) ==
  \A o \in S \cap Monthly : (FeeDue(o, d, fees) > 0) <=> (Assessed(o, d, fees) = "active")

\* settleObligationsInTx accepts.
Accepted(S, d, foreign, amount, debts, fees) ==
  /\ S # {}
  /\ Choosable(S, d, debts, fees)
  /\ Payable(d, debts, fees)
  /\ foreign => Quote(d) # 0
  /\ TenderMatches(S, d, foreign, amount, debts, fees)
  /\ FeesReread(S, d, fees)

FreePayment == First({p \in Payment : pay[p].state = "none"})
FreeReceipt == First({r \in Receipt : receipt[r].status = "none"})

\* writeSettlementInTx: assess the fees, insert the payment and its settlements.
Settle(S, d, foreign, amount, fees, r) ==
  LET after == [o \in Debt |-> IF o \in S THEN Assessed(o, d, fees) ELSE fees[o]]
      p == FreePayment
  IN
  /\ \E q \in Payment : pay[q].state = "none"
  /\ fee' = after
  /\ pay' = [pay EXCEPT ![p] =
       [state |-> "active", items |-> S, fees |-> {o \in S : after[o] = "active"}, on |-> d,
        foreign |-> foreign, amount |-> amount,
        rate |-> IF foreign THEN Quote(d) ELSE 0, from |-> r]]

\* captureAwaitingRateReceiptInTx: the tender is recorded, nothing is settled.
Capture(S, months, d, amount) ==
  LET r == FreeReceipt IN
  /\ \E q \in Receipt : receipt[q].status = "none"
  /\ receipt' = [receipt EXCEPT ![r] =
       [status |-> "PENDING", items |-> S, months |-> months,
        snapshot |-> [o \in Ahead |-> IF o \in months THEN terms[o] ELSE Unshown],
        on |-> d, amount |-> amount]]

\* Mutant: a received date in the future is accepted.
AcceptsDateInFuture(d) == d >= today - BackDays

\* futureDate, tooOld.
AcceptsDate(d) == d <= today /\ d >= today - BackDays

-----------------------------------------------------------------------------
(* The writers.                                                            *)

CurrentMonth == MonthOf[today]

\* The DuesCoverage rows of each debt: a SIGNUP covers no month.
Covers == [o \in Debt |-> IF o \in Monthly THEN {Coverage[o]}
                          ELSE IF o \in Package THEN Coverage[o]..(Coverage[o] + Span[o] - 1)
                          ELSE {}]
Covered(debts) == UNION {Covers[o] : o \in debts}

\* Mutant: only the first month of a package is looked up.
FreeFirstMonth(debts) == \A o \in debts : Coverage[o] \notin Covered(charged)

\* No charged debt covers a month of these (else coverageTaken, coverageGap).
Free(debts) == Covered(debts) \cap Covered(charged) = {}

\* createMonthlyObligation, by staff or by the generation job.
ChargeMonth(o) ==
  /\ o \in Monthly \ charged /\ Coverage[o] <= CurrentMonth /\ Free({o})
  /\ charged' = charged \cup {o}
  /\ UNCHANGED <<prepaid, terms, fee, pay, receipt, config>>

\* chargeEnrollment: a new student's SIGNUP and, before the branch's due day, the
\* enrollment month's MONTHLY.
Enroll(o) ==
  /\ charged = {} /\ o \in Debt \ Ahead /\ Coverage[o] = CurrentMonth
  /\ \E withMonth \in BOOLEAN :
       charged' = {o} \cup {m \in Monthly : withMonth /\ Coverage[m] = CurrentMonth}
  /\ UNCHANGED <<prepaid, terms, fee, pay, receipt, config>>

\* assessLateFeesForStudent: every MONTHLY obligation, as of today.
AssessLateFees ==
  /\ fee' = [o \in Debt |-> IF o \in charged \cap Monthly
                            THEN Assessed(o, today, fee) ELSE fee[o]]
  /\ UNCHANGED <<charged, prepaid, terms, pay, receipt, config>>

\* recordDuesPayment: the settlement, or, when a rate is needed and there is none, a
\* captured receipt.
RecordPayment(S, d, foreign, amount) ==
  /\ S # {} /\ AcceptsDate(d)
  /\ \/ /\ Accepted(S, d, foreign, amount, charged, fee)
        /\ Settle(S, d, foreign, amount, fee, 0)
        /\ UNCHANGED receipt
     \/ /\ Choosable(S, d, charged, fee) /\ Payable(d, charged, fee)
        /\ foreign /\ Quote(d) = 0
        /\ Capture(S, {}, d, amount)
        /\ UNCHANGED <<fee, pay>>
  /\ UNCHANGED <<charged, prepaid, terms, config>>

Future(m)      == m > CurrentMonth /\ m <= CurrentMonth + horizon
Consecutive(S) == \A a, b \in S : \A m \in Coverage[a]..Coverage[b] : \E c \in S : Coverage[c] = m

\* firstUncoveredFrom, from the month `floor` on.
FirstUncovered(m, floor) ==
  m >= floor /\ m \notin Covered(charged) /\ floor..(m - 1) \subseteq Covered(charged)

\* prepayMonthlyObligations asks for consecutive months within the horizon, from the
\* first uncovered one on.
Requestable(months) ==
  /\ months \subseteq Monthly /\ months # {}
  /\ \A o \in months : Future(Coverage[o])
  /\ Consecutive(months) /\ FirstUncovered(Coverage[First(months)], CurrentMonth + 1)

\* purchasePackage: it starts at the first uncovered month, which may be the current
\* one, ends within the horizon and meets no month that is covered already; everything
\* open is paid with it, and the sum fits a payment column.
Purchasable(k, named, d, fees) ==
  /\ Future(Coverage[k] + Span[k] - 1)
  /\ FirstUncovered(Coverage[k], CurrentMonth) /\ Free({k})
  /\ named = Open(charged) /\ Choosable(named, d, charged, fees)
  /\ Total(named \cup {k}, d, fees) <= MaxMinor

\* writeMonthlyObligationInTx with origin PREPAYMENT for each month, which leaves an
\* obligation that exists as it is, or writePackageObligationInTx.
ChargeAhead(new) ==
  /\ Free(new \ charged)
  /\ charged' = charged \cup new /\ prepaid' = prepaid \cup (new \ charged)

\* Named debts and new ones, settled together; captured when there is no rate yet.
PayAhead(named, new, d, foreign, amount) ==
  /\ IF foreign /\ Quote(d) = 0
     THEN /\ Capture(named, new, d, amount)
          /\ UNCHANGED <<charged, prepaid, fee, pay>>
     ELSE /\ Accepted(named \cup new, d, foreign, amount, charged \cup new, fee)
          /\ ChargeAhead(new)
          /\ Settle(named \cup new, d, foreign, amount, fee, 0)
          /\ UNCHANGED receipt
  /\ UNCHANGED <<terms, config>>

Prepay(named, months, d, foreign, amount) ==
  /\ AcceptsDate(d) /\ Requestable(months) /\ Choosable(named, d, charged, fee)
  /\ PayAhead(named, months, d, foreign, amount)

PurchasePackage(k, d, foreign, amount) ==
  /\ AcceptsDate(d) /\ Purchasable(k, Open(charged), d, fee)
  /\ PayAhead(Open(charged), {k}, d, foreign, amount)

\* Mutant: a prepayment may be reversed, and so may one whose fee was voided.
ReversibleAny(p) == pay[p].items \subseteq Monthly

\* reversePayment refuses SIGNUP and PACKAGE debts, voided fees and prepaid months.
Reversible(p) ==
  /\ pay[p].items \subseteq Monthly
  /\ \A o \in pay[p].items : fee[o] # "VOIDED" /\ o \notin prepaid

\* reversePayment: the payment and its settlements are marked; the fees stay.
Reverse(p) ==
  /\ pay[p].state = "active" /\ Reversible(p)
  /\ pay' = [pay EXCEPT ![p].state = "reversed"]
  /\ UNCHANGED <<charged, prepaid, terms, fee, receipt, config>>

\* waiveLateFee: not when an active settlement includes the fee (alreadyPaid).
Waive(o) ==
  /\ fee[o] = "active"
  /\ \A p \in Payment : pay[p].state = "active" => o \notin pay[p].fees
  /\ fee' = [fee EXCEPT ![o] = "WAIVED"]
  /\ UNCHANGED <<charged, prepaid, terms, pay, receipt, config>>

\* correctLateFeeAndSettle: the fee is voided (the receipt was on time) and its
\* month settled, together or not at all.
CorrectLateFee(o, d, foreign, amount) ==
  LET voided == [fee EXCEPT ![o] = "VOIDED"] IN
  /\ fee[o] = "active" /\ ~Late(o, d)
  /\ AcceptsDate(d)
  /\ Accepted({o}, d, foreign, amount, charged, voided)
  /\ Settle({o}, d, foreign, amount, voided, 0)
  /\ UNCHANGED <<charged, prepaid, terms, receipt, config>>

-----------------------------------------------------------------------------
(* Receipts that wait for a rate.                                          *)

\* voidWronglyAssessedFeesInTx: fees assessed while a receipt that was on time waited.
WithoutWrongFees(S, d) ==
  [o \in Debt |-> IF o \in S \cap Monthly /\ fee[o] = "active" /\ ~Late(o, d)
                  THEN "VOIDED" ELSE fee[o]]

\* What the captured receipt asks for can still be bought: its months are future,
\* within the horizon now in force and met by no debt, its package is purchasable.
StillFits(q) ==
  /\ \A o \in q.months \cap Monthly :
       Future(Coverage[o]) /\ Free({o}) /\ \A c \in charged : Coverage[c] # Coverage[o]
  /\ \A k \in q.months \cap Package :
       Purchasable(k, q.items, q.on, WithoutWrongFees(q.items, q.on))

\* Mutant: the terms in force are not compared with the captured ones.
UndriftedAnyTerms(r) == StillFits(receipt[r])

\* Nothing the receipt relied on has changed, and it is charged under the same terms.
Undrifted(r) ==
  StillFits(receipt[r]) /\ \A o \in receipt[r].months : terms[o] = receipt[r].snapshot[o]

\* Mutant: the receipt's status is not read again under the lock.
WaitingOrDone(r) == receipt[r].status \in {"PENDING", "RESOLVED"}
Waiting(r) == receipt[r].status = "PENDING"

\* resolveAwaitingRateReceipt, with the receipt's own date, however old.
Resolve(r) ==
  LET q    == receipt[r]
      S    == q.items \cup q.months
      fees == WithoutWrongFees(q.items, q.on)
  IN
  /\ Waiting(r)
  /\ Undrifted(r)
  /\ Accepted(S, q.on, TRUE, q.amount, charged \cup q.months, fees)
  /\ ChargeAhead(q.months)
  /\ Settle(S, q.on, TRUE, q.amount, fees, r)
  /\ receipt' = [receipt EXCEPT ![r].status = "RESOLVED"]
  /\ UNCHANGED <<terms, config>>

\* cancelAwaitingRateReceipt.
Cancel(r) ==
  /\ receipt[r].status = "PENDING"
  /\ receipt' = [receipt EXCEPT ![r].status = "CANCELLED"]
  /\ UNCHANGED <<charged, prepaid, terms, fee, pay, config>>

-----------------------------------------------------------------------------
(* The rest of the application.                                            *)

\* enterExchangeRateQuote: a first quote of a date, or the next revision of it.
EnterQuote(d, v) ==
  /\ env < MaxEnv /\ env' = env + 1
  /\ quote' = [quote EXCEPT ![d] = v]
  /\ UNCHANGED <<charged, prepaid, terms, fee, pay, receipt, horizon, today>>

\* The owner saves a price, a policy or an assignment (external).  A charged debt
\* keeps its snapshot.
Reprice(o) ==
  /\ env < MaxEnv /\ env' = env + 1
  /\ o \notin charged
  /\ \E t \in Offer[o] \ {terms[o]} : terms' = [terms EXCEPT ![o] = t]
  /\ UNCHANGED <<charged, prepaid, fee, pay, receipt, quote, horizon, today>>

SetHorizon(h) ==
  /\ env < MaxEnv /\ env' = env + 1
  /\ h # horizon /\ horizon' = h
  /\ UNCHANGED <<charged, prepaid, terms, fee, pay, receipt, quote, today>>

DayPasses ==
  /\ today + 1 \in Day /\ today' = today + 1
  /\ UNCHANGED <<charged, prepaid, terms, fee, pay, receipt, quote, horizon, env>>

-----------------------------------------------------------------------------
\* A new student: nothing charged, no rate entered.
Init ==
  /\ charged = {} /\ prepaid = {}
  /\ terms \in [Debt -> UNION {Offer[o] : o \in Debt}]
  /\ \A o \in Debt : terms[o] \in Offer[o]
  /\ fee = [o \in Debt |-> "none"]
  /\ pay = [p \in Payment |-> NoPayment]
  /\ receipt = [r \in Receipt |-> NoReceipt]
  /\ quote = [d \in Day |-> 0]
  /\ horizon \in Horizon
  /\ today \in Day /\ \A d \in Day : today <= d
  /\ env = 0

\* What is asked for is a selection among the debts there are and the months that can
\* be prepaid; the writers refuse anything else.
Request ==
  \E d \in Day, foreign \in BOOLEAN, amount \in Tender :
    \/ \E S \in SUBSET charged : RecordPayment(S, d, foreign, amount)
    \/ \E named \in SUBSET charged, months \in SUBSET {o \in Monthly : Future(Coverage[o])} :
         Prepay(named, months, d, foreign, amount)
    \/ \E k \in Package : PurchasePackage(k, d, foreign, amount)
    \/ \E o \in Monthly : CorrectLateFee(o, d, foreign, amount)

Outside ==
  \/ \E d \in Day, v \in Rate : EnterQuote(d, v)
  \/ \E o \in Debt : Reprice(o)
  \/ \E h \in Horizon : SetHorizon(h)
  \/ DayPasses

Next ==
  \/ \E o \in Debt : ChargeMonth(o) \/ Enroll(o) \/ Waive(o)
  \/ AssessLateFees
  \/ Request
  \/ \E p \in Payment : Reverse(p)
  \/ \E r \in Receipt : Resolve(r) \/ Cancel(r)
  \/ Outside

Spec == Init /\ [][Next]_vars

-----------------------------------------------------------------------------
(* Properties.                                                             *)

\* Every variable has its type; in particular no payment is dated after today, though
\* a receipt can wait for days and a date is only checked when it is first entered.
TypeOK ==
  /\ charged \subseteq Debt /\ prepaid \subseteq charged \cap Ahead
  /\ terms \in [Debt -> Terms] /\ fee \in [Debt -> FeeState]
  /\ pay \in [Payment -> PayType] /\ receipt \in [Receipt -> ReceiptType]
  /\ \A p \in Payment :
       /\ pay[p].on <= today /\ pay[p].fees \cup pay[p].items \subseteq charged
       /\ pay[p].state = "none" => pay[p] = NoPayment
  /\ \A r \in Receipt :
       /\ receipt[r].on <= today /\ receipt[r].items \subseteq charged
       /\ receipt[r].status # "none" => receipt[r].on # 0
  /\ quote \in [Day -> Rate \cup {0}] /\ horizon \in Horizon
  /\ today \in Day /\ env \in 0..MaxEnv

\* A fee in force is owed: its month is past its grace today and its own terms have a
\* fee, however the fee came to be assessed and whatever was repriced since.
FeesAreLate ==
  \A o \in Debt :
    /\ fee[o] # "none" => o \in charged \cap Monthly
    /\ fee[o] = "active" => Late(o, today) /\ terms[o].lateFee > 0

\* A settled month and its fee row agree, whoever wrote the row and whenever: the
\* payment includes the fee exactly if the fee is active, the fee of a month paid late
\* exists, and a month paid on time has none in force (record-payment.ts throws
\* rather than write a settlement that disagrees).
FeesAgree ==
  \A p \in Payment : pay[p].state = "active" =>
    \A o \in pay[p].items \cap Monthly :
      /\ o \in pay[p].fees <=> fee[o] = "active"
      /\ Late(o, pay[p].on) /\ terms[o].lateFee > 0 => fee[o] # "none"
      /\ ~Late(o, pay[p].on) => fee[o] # "active"

\* What must not be reopened stays settled: a month whose fee was voided, because its
\* payment was on time, and a prepaid month or a package, only charged to be settled.
Permanent ==
  \A o \in Debt :
    /\ fee[o] = "VOIDED" => SettledOnTime(o)
    /\ o \in prepaid => Settled(o)

\* What a payment's settlement rows cost: each tuition, and the fee if it is included.
Cost(q) ==
  SumFunction([o \in q.items |->
    terms[o].amount + (IF o \in q.fees THEN terms[o].lateFee ELSE 0)])

\* The tender of a payment in force is exactly what its own settlements cost: the
\* tuitions and the fees they include, at the rate the payment keeps.  Later quotes,
\* fees, waivers and price changes do not unsettle the sum.
TenderIsTotal ==
  \A p \in Payment : pay[p].state = "active" =>
    /\ pay[p].fees \subseteq pay[p].items
    /\ pay[p].amount = Required(Cost(pay[p]), pay[p].foreign, pay[p].rate)

MadeFrom(r) == {p \in Payment : pay[p].from = r}

\* A captured receipt is turned into money at most once: a payment is made from it
\* when it is resolved, one and never a second, though that payment may be reversed
\* later, with the receipt's date, amount and debts; a receipt that waits or was
\* cancelled has none.
ReceiptOnce ==
  \A r \in Receipt : LET q == receipt[r] IN
    /\ q.status = "RESOLVED" <=> MadeFrom(r) # {}
    /\ \A a, b \in MadeFrom(r) : a = b
    /\ \A p \in MadeFrom(r) :
         pay[p].on = q.on /\ pay[p].amount = q.amount /\ pay[p].items = q.items \cup q.months

\* A prepayment or package that waited for a rate is charged on the terms the payer was
\* shown when it was captured, whatever was saved in between.
PrepaidAsCaptured ==
  \A r \in Receipt : receipt[r].status = "RESOLVED" =>
    \A o \in receipt[r].months : o \in prepaid /\ terms[o] = receipt[r].snapshot[o]

\* No sequence of charges, fees, waivers, reversals and corrections leaves an open debt
\* that no payment can settle: today, its amount in its own currency is accepted for
\* the oldest one.  That one may be a SIGNUP, which the code settles (record-payment.ts:
\* 271), though schema.prisma:1503-1505 still says that no writer takes it.
NeverStuck ==
  Open(charged) # {} =>
    LET o == First(Open(charged)) IN
      AmountDue(o, today, fee) <= MaxMinor =>
        Accepted({o}, today, FALSE, Total({o}, today, fee), charged, fee)

\* The ledger implements the account's contract: whole debts, oldest first, each
\* settled by one payment, and no month charged twice, alone or within a package.
Account == INSTANCE DebtAccount WITH
  settles <- [p \in Payment |-> IF pay[p].state = "active" THEN pay[p].items ELSE {}],
  used    <- {p \in Payment : pay[p].state # "none"}
AccountContract == Account!Spec
=============================================================================
