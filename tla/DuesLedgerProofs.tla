-------------------------- MODULE DuesLedgerProofs --------------------------
(***************************************************************************)
(* Theorems about DuesLedger, for every set of debts, days, payments,      *)
(* receipts, rates and amounts and every bound.                            *)
(***************************************************************************)
EXTENDS DuesLedger, WellFoundedInduction, TLAPS

-----------------------------------------------------------------------------
(* Lemmas about the operators.                                             *)

\* A set of naturals that is not empty has a first member.
LEMMA FirstIsMember ==
  ASSUME NEW S, S \subseteq Nat, S # {}
  PROVE  First(S) \in S /\ \A y \in S : First(S) <= y
<1> DEFINE R == {p \in Nat \X Nat : p[1] < p[2]}
<1>1. IsWellFoundedOn(R, Nat)
  BY NatLessThanWellFounded, Zenon DEF OpToRel
<1>2. \A x, y \in Nat : y < x => <<y, x>> \in R
  OBVIOUS
<1>3. \E z \in S : \A y \in S : ~(<<y, z>> \in R)
  <2> HIDE DEF R
  <2> QED BY <1>1, WFMin
<1>4. \E z \in S : \A y \in S : ~(y < z)
  <2> HIDE DEF R
  <2> QED BY <1>2, <1>3
<1>5. \E z \in S : \A y \in S : z <= y
  BY <1>4
<1>6. QED
  BY <1>5 DEF First

\* The days up to d that have a quote, if any, have a last one: the rate is a rate.
LEMMA QuoteIsRate ==
  ASSUME TypeOK, NEW d \in Day
  PROVE  Quote(d) \in Rate \cup {0}
<1> DEFINE earlier == {e \in Day : e <= d /\ quote[e] # 0}
           back    == {d - e : e \in earlier}
<1>1. CASE earlier = {}
  BY <1>1 DEF Quote
<1>2. CASE earlier # {}
  <2>1. back \subseteq Nat /\ back # {}
    BY <1>2, DaysAreOrdered
  <2>2. First(back) \in back /\ \A y \in back : First(back) <= y
    BY <2>1, FirstIsMember
  <2>3. PICK e \in earlier : First(back) = d - e
    BY <2>2
  <2>4. \A x \in earlier : x <= e
    <3>1. SUFFICES ASSUME NEW x \in earlier PROVE x <= e
      OBVIOUS
    <3>2. First(back) <= d - x
      BY <2>2
    <3>3. x \in Nat /\ e \in Nat /\ d \in Nat
      BY DaysAreOrdered
    <3>4. QED
      BY <2>3, <3>2, <3>3
  <2>5. \E z \in earlier : \A x \in earlier : x <= z
    BY <2>4
  <2>6. Quote(d) = quote[CHOOSE z \in earlier : \A x \in earlier : x <= z]
    BY <1>2 DEF Quote
  <2>7. (CHOOSE z \in earlier : \A x \in earlier : x <= z) \in Day
    BY <2>5
  <2>8. QED
    BY <2>6, <2>7 DEF TypeOK
<1>3. QED
  BY <1>1, <1>2

LEMMA FreePaymentIsFree ==
  ASSUME \E q \in Payment : pay[q].state = "none"
  PROVE  FreePayment \in Payment /\ pay[FreePayment].state = "none"
<1> DEFINE S == {p \in Payment : pay[p].state = "none"}
<1>1. S \subseteq Nat /\ S # {}
  BY AmountsAndIds
<1>2. QED
  BY <1>1, FirstIsMember DEF FreePayment

LEMMA FreeReceiptIsFree ==
  ASSUME \E q \in Receipt : receipt[q].status = "none"
  PROVE  FreeReceipt \in Receipt /\ receipt[FreeReceipt].status = "none"
<1> DEFINE S == {r \in Receipt : receipt[r].status = "none"}
<1>1. S \subseteq Nat /\ S # {}
  BY AmountsAndIds
<1>2. QED
  BY <1>1, FirstIsMember DEF FreeReceipt

-----------------------------------------------------------------------------
(* Months that are covered.                                                *)

\* What can be paid ahead covers no month twice: months are distinct, a package alone.
LEMMA PurchaseOneEach ==
  ASSUME NEW new \in Purchase
  PROVE  new \subseteq Ahead /\ new \subseteq Debt /\ Account!OneEach(new)
<1>1. CASE new \in SUBSET Monthly
  <2>1. ASSUME NEW a \in new, NEW b \in new, a # b PROVE Covers[a] \cap Covers[b] = {}
    <3>1. a \in Monthly /\ b \in Monthly /\ a \in Debt /\ b \in Debt
      BY <1>1, DebtsAreOrdered
    <3>2. Covers[a] = {Coverage[a]} /\ Covers[b] = {Coverage[b]}
      BY <3>1 DEF Covers
    <3>3. Coverage[a] # Coverage[b]
      BY <2>1, <3>1, DebtsAreOrdered
    <3>4. QED
      BY <3>2, <3>3
  <2>2. QED
    BY <1>1, <2>1, DebtsAreOrdered DEF Account!OneEach, Ahead
<1>2. CASE new \in {{k} : k \in Package}
  BY <1>2, DebtsAreOrdered DEF Account!OneEach, Ahead
<1>3. QED
  BY <1>1, <1>2 DEF Purchase

\* Debts whose months are free may join those that are charged.
LEMMA FreeOneEach ==
  ASSUME NEW new, Free(new), Account!OneEach(new), Account!OneEach(charged)
  PROVE  Account!OneEach(charged \cup new)
<1>1. ASSUME NEW a \in new, NEW b \in charged
      PROVE  Covers[a] \cap Covers[b] = {} /\ Covers[b] \cap Covers[a] = {}
  BY DEF Free, Covered
<1>2. QED
  BY <1>1 DEF Account!OneEach

\* A debt that covers a month is charged no more once that month is free.
LEMMA FreeIsNew ==
  ASSUME NEW o \in Ahead, Free({o})
  PROVE  o \notin charged
<1>1. Coverage[o] \in Covers[o]
  <2>1. CASE o \in Monthly
    BY <2>1, DebtsAreOrdered DEF Covers
  <2>2. CASE o \in Package
    <3>1. o \in Debt \ Monthly /\ Coverage[o] \in Nat /\ Span[o] \in Nat \ {0, 1}
      BY <2>2, DebtsAreOrdered
    <3>2. Covers[o] = Coverage[o]..(Coverage[o] + Span[o] - 1)
      BY <2>2, <3>1 DEF Covers
    <3>3. QED
      BY <3>1, <3>2
  <2>3. QED
    BY <2>1, <2>2 DEF Ahead
<1>2. QED
  BY <1>1 DEF Free, Covered

-----------------------------------------------------------------------------
(* What every settlement has in common, whichever writer makes it: chosen  *)
(* debts S that are open, a date that has come, and a fee table in which   *)
(* some fees of S that were on time have been voided.                      *)

Voids(S, d, fees) ==
  /\ fees \in [Debt -> FeeState]
  /\ \A o \in Debt : \/ fees[o] = fee[o]
                     \/ /\ o \in S \cap Monthly /\ fee[o] = "active" /\ ~Late(o, d)
                        /\ fees[o] = "VOIDED"

\* The new debts of S are paid ahead and cover free months; nothing else is charged.
Brings(S, New) ==
  /\ New \subseteq Ahead \ charged /\ New \subseteq S
  /\ Free(New) /\ Account!OneEach(New)
  /\ charged' = charged \cup New /\ prepaid' = prepaid \cup New

\* The tender is the total, and the fees read again agree with it.
Sums(S, d, foreign, amount, fees) ==
  /\ Required(Total(S, d, fees), foreign, Quote(d)) = amount
  /\ FeesReread(S, d, fees)

Settling(S, New, d, foreign, amount, fees, r) ==
  /\ S \in SUBSET Debt /\ S # {} /\ d \in Day /\ d <= today /\ foreign \in BOOLEAN
  /\ amount \in Nat /\ r \in Receipt \cup {0}
  /\ Brings(S, New)
  /\ S \subseteq Open(charged \cup New) /\ InOrder(S, charged \cup New)
  /\ ~FeeClash(S, d, fees)
  /\ Voids(S, d, fees)
  /\ Sums(S, d, foreign, amount, fees)
  /\ Settle(S, d, foreign, amount, fees, r)
  /\ UNCHANGED <<terms, config>>

LEMMA AcceptedSums ==
  ASSUME NEW S, NEW d, NEW foreign, NEW amount, NEW debts, NEW fees,
         Accepted(S, d, foreign, amount, debts, fees)
  PROVE  Sums(S, d, foreign, amount, fees)
BY DEF Sums, Accepted, TenderMatches

\* The payment of S that Settle inserts.
MadePayment(S, d, foreign, amount, rate, r) ==
  [state |-> "active", items |-> S, fees |-> {o \in S : fee'[o] = "active"}, on |-> d,
   foreign |-> foreign, amount |-> amount, rate |-> rate, from |-> r]

LEMMA SettleEffect ==
  ASSUME TypeOK, NEW S, NEW New, NEW d, NEW foreign, NEW amount, NEW fees, NEW r,
         Settling(S, New, d, foreign, amount, fees, r)
  PROVE  \E p \in Payment, rate \in Nat :
           /\ pay[p] = NoPayment /\ rate = (IF foreign THEN Quote(d) ELSE 0)
           /\ fee' = [o \in Debt |-> IF o \in S THEN Assessed(o, d, fees) ELSE fees[o]]
           /\ pay' = [pay EXCEPT ![p] = MadePayment(S, d, foreign, amount, rate, r)]
<1> DEFINE rate == IF foreign THEN Quote(d) ELSE 0
           after == [o \in Debt |-> IF o \in S THEN Assessed(o, d, fees) ELSE fees[o]]
<1>1. Settle(S, d, foreign, amount, fees, r) /\ d \in Day /\ S \subseteq Debt
  BY DEF Settling
<1>2. FreePayment \in Payment /\ pay[FreePayment].state = "none"
  BY <1>1, FreePaymentIsFree DEF Settle
<1>3. pay[FreePayment] = NoPayment
  BY <1>2 DEF TypeOK
<1>4. rate \in Nat
  <2>1. Quote(d) \in Rate \cup {0}
    BY <1>1, QuoteIsRate
  <2>2. Rate \cup {0} \subseteq Nat
    BY AmountsAndIds
  <2>3. Quote(d) \in Nat
    BY <2>1, <2>2, Zenon
  <2>4. QED
    BY <2>3, Zenon
<1>5. fee' = after
  BY <1>1 DEF Settle
<1>6. {o \in S : after[o] = "active"} = {o \in S : fee'[o] = "active"}
  BY <1>5
<1>7. pay' = [pay EXCEPT ![FreePayment] =
                [state |-> "active", items |-> S, fees |-> {o \in S : after[o] = "active"},
                 on |-> d, foreign |-> foreign, amount |-> amount, rate |-> rate, from |-> r]]
  BY <1>1 DEF Settle
<1> HIDE DEF rate, after
<1>8. pay' = [pay EXCEPT ![FreePayment] = MadePayment(S, d, foreign, amount, rate, r)]
  BY <1>6, <1>7 DEF MadePayment
<1> USE DEF after
<1>9. rate = (IF foreign THEN Quote(d) ELSE 0)
  BY DEF rate
<1>10. QED
  BY <1>2, <1>3, <1>4, <1>5, <1>8, <1>9

-----------------------------------------------------------------------------
(* The four writers that settle.                                           *)

LEMMA RecordSettles ==
  ASSUME TypeOK, NEW S \in SUBSET Debt, NEW d \in Day, NEW foreign \in BOOLEAN,
         NEW amount \in Tender, AcceptsDate(d), Accepted(S, d, foreign, amount, charged, fee),
         Settle(S, d, foreign, amount, fee, 0), UNCHANGED <<charged, prepaid, terms, config>>
  PROVE  Settling(S, {}, d, foreign, amount, fee, 0)
<1>1. Brings(S, {})
  BY DEF Brings, Free, Covered, Account!OneEach
<1>2. Sums(S, d, foreign, amount, fee)
  BY AcceptedSums
<1>3. QED
  BY <1>1, <1>2, AmountsAndIds DEF Settling, Voids, Accepted, Choosable, AcceptsDate, TypeOK

\* prepayMonthlyObligations and purchasePackage, and the receipts made for them.
LEMMA ChargingAhead ==
  ASSUME NEW S, NEW new \in Purchase, new \subseteq S, ChargeAhead(new)
  PROVE  Brings(S, new \ charged)
<1>1. new \subseteq Ahead /\ Account!OneEach(new \ charged)
  BY PurchaseOneEach DEF Account!OneEach
<1>2. charged \cup (new \ charged) = charged \cup new
  OBVIOUS
<1>3. QED
  BY <1>1, <1>2 DEF Brings, ChargeAhead

LEMMA AheadSettles ==
  ASSUME TypeOK, NEW named \in SUBSET Debt, NEW new \in Purchase, NEW d \in Day,
         NEW foreign \in BOOLEAN, NEW amount \in Tender, AcceptsDate(d),
         Accepted(named \cup new, d, foreign, amount, charged \cup new, fee),
         ChargeAhead(new), Settle(named \cup new, d, foreign, amount, fee, 0),
         UNCHANGED <<terms, config>>
  PROVE  Settling(named \cup new, new \ charged, d, foreign, amount, fee, 0)
<1> DEFINE S == named \cup new
           New == new \ charged
<1>1. charged \cup New = charged \cup new
  OBVIOUS
<1>2. Brings(S, New)
  BY ChargingAhead
<1>3. S \in SUBSET Debt /\ Voids(S, d, fee)
  BY PurchaseOneEach DEF Voids, TypeOK
<1>4. S # {} /\ S \subseteq Open(charged \cup New) /\ InOrder(S, charged \cup New) /\ ~FeeClash(S, d, fee)
  BY <1>1 DEF Accepted, Choosable
<1>5. d <= today
  BY DEF AcceptsDate
<1>6. Sums(S, d, foreign, amount, fee)
  BY AcceptedSums
<1> HIDE DEF S, New
<1>7. QED
  BY <1>2, <1>3, <1>4, <1>5, <1>6, AmountsAndIds DEF Settling, S, New

LEMMA CorrectionSettles ==
  ASSUME TypeOK, NEW o \in Monthly, NEW d \in Day, NEW foreign \in BOOLEAN,
         NEW amount \in Tender, CorrectLateFee(o, d, foreign, amount)
  PROVE  Settling({o}, {}, d, foreign, amount, [fee EXCEPT ![o] = "VOIDED"], 0)
<1> DEFINE voided == [fee EXCEPT ![o] = "VOIDED"]
<1>1. Voids({o}, d, voided)
  BY DebtsAreOrdered DEF Voids, TypeOK, CorrectLateFee, FeeState
<1>2. Brings({o}, {})
  BY DEF Brings, Free, Covered, Account!OneEach, CorrectLateFee
<1>3. Accepted({o}, d, foreign, amount, charged, voided) /\ AcceptsDate(d)
       /\ Settle({o}, d, foreign, amount, voided, 0) /\ UNCHANGED <<terms, config>>
  BY DEF CorrectLateFee
<1> HIDE DEF voided
<1>4. Sums({o}, d, foreign, amount, voided)
  BY <1>3, AcceptedSums
<1>5. Settling({o}, {}, d, foreign, amount, voided, 0)
  BY <1>1, <1>2, <1>3, <1>4, AmountsAndIds, DebtsAreOrdered
     DEF Settling, Accepted, Choosable, AcceptsDate
<1>6. QED
  BY <1>5 DEF voided

LEMMA ResolutionSettles ==
  ASSUME TypeOK, NEW r \in Receipt, Resolve(r)
  PROVE  LET q == receipt[r] S == q.items \cup q.months IN
         Settling(S, q.months \ charged, q.on, TRUE, q.amount,
                  WithoutWrongFees(q.items, q.on), r)
<1> DEFINE q == receipt[r]
           S == q.items \cup q.months
           New == q.months \ charged
           fees == WithoutWrongFees(q.items, q.on)
<1>0. q.items \subseteq charged /\ q.months \in Purchase /\ q.amount \in Nat
       /\ charged \subseteq Debt
  BY DEF TypeOK, ReceiptType
<1>1. q.on \in Day /\ q.on <= today
  BY DEF TypeOK, ReceiptType, Resolve, Waiting
<1>2. charged \cup New = charged \cup q.months
  OBVIOUS
<1>3. S \in SUBSET Debt /\ Brings(S, New)
  <2>1. ChargeAhead(q.months)
    BY DEF Resolve
  <2>2. QED
    BY <1>0, <2>1, ChargingAhead, PurchaseOneEach
<1>4. Voids(S, q.on, fees)
  BY DEF Voids, WithoutWrongFees, TypeOK, FeeState
<1>5. Accepted(S, q.on, TRUE, q.amount, charged \cup q.months, fees)
       /\ Settle(S, q.on, TRUE, q.amount, fees, r) /\ UNCHANGED <<terms, config>>
  BY DEF Resolve
<1>6. S # {} /\ S \subseteq Open(charged \cup New) /\ InOrder(S, charged \cup New)
       /\ ~FeeClash(S, q.on, fees)
  BY <1>2, <1>5 DEF Accepted, Choosable
<1>7. Sums(S, q.on, TRUE, q.amount, fees)
  BY <1>5, AcceptedSums
<1> HIDE DEF S, New, fees
<1>8. Settling(S, New, q.on, TRUE, q.amount, fees, r)
  BY <1>0, <1>1, <1>3, <1>4, <1>5, <1>6, <1>7 DEF Settling
<1>9. QED
  BY <1>8 DEF S, New, fees

-----------------------------------------------------------------------------
(* The kinds of steps.                                                     *)

Charging ==
  /\ \E New \in SUBSET (Debt \ charged) :
       charged' = charged \cup New /\ Free(New) /\ Account!OneEach(New)
  /\ UNCHANGED <<prepaid, terms, fee, pay, receipt, config>>

Capturing(S, months, d, amount) ==
  /\ S \subseteq charged /\ months \in Purchase /\ d \in Day /\ d <= today /\ amount \in Nat
  /\ Capture(S, months, d, amount)
  /\ UNCHANGED <<charged, prepaid, terms, fee, pay, config>>

Paying ==
  /\ \E S, New, d, foreign, amount, fees : Settling(S, New, d, foreign, amount, fees, 0)
  /\ UNCHANGED receipt

Step ==
  \/ Charging
  \/ Paying
  \/ \E r \in Receipt : Resolve(r) \/ Cancel(r)
  \/ \E S, months, d, amount : Capturing(S, months, d, amount)
  \/ AssessLateFees
  \/ \E p \in Payment : Reverse(p)
  \/ \E o \in Debt : Waive(o) \/ Reprice(o)
  \/ \E d \in Day, v \in Rate : EnterQuote(d, v)
  \/ \E h \in Horizon : SetHorizon(h)
  \/ DayPasses

LEMMA RecordIsStep ==
  ASSUME TypeOK, NEW S \in SUBSET Debt, NEW d \in Day, NEW foreign \in BOOLEAN,
         NEW amount \in Tender, RecordPayment(S, d, foreign, amount)
  PROVE  Step
<1>1. CASE Accepted(S, d, foreign, amount, charged, fee) /\ Settle(S, d, foreign, amount, fee, 0)
           /\ UNCHANGED receipt
  <2>1. AcceptsDate(d) /\ UNCHANGED <<charged, prepaid, terms, config>>
    BY DEF RecordPayment
  <2>2. Settling(S, {}, d, foreign, amount, fee, 0)
    BY <1>1, <2>1, RecordSettles
  <2>3. QED
    BY <1>1, <2>2 DEF Step, Paying
<1>2. CASE Choosable(S, d, charged, fee) /\ Capture(S, {}, d, amount) /\ UNCHANGED <<fee, pay>>
  <2>1. Capturing(S, {}, d, amount)
    BY <1>2, AmountsAndIds DEF Capturing, Choosable, Open, RecordPayment, AcceptsDate, Purchase
  <2>2. QED
    BY <2>1 DEF Step
<1>3. QED
  BY <1>1, <1>2 DEF RecordPayment

LEMMA AheadIsStep ==
  ASSUME TypeOK, NEW named \in SUBSET Debt, NEW new \in Purchase, NEW d \in Day,
         NEW foreign \in BOOLEAN, NEW amount \in Tender, AcceptsDate(d), named \subseteq charged,
         PayAhead(named, new, d, foreign, amount)
  PROVE  Step
<1> DEFINE S == named \cup new
<1>0. UNCHANGED <<terms, config>>
  BY DEF PayAhead
<1>1. CASE /\ Accepted(S, d, foreign, amount, charged \cup new, fee)
           /\ ChargeAhead(new) /\ Settle(S, d, foreign, amount, fee, 0) /\ UNCHANGED receipt
  <2>1. Settling(S, new \ charged, d, foreign, amount, fee, 0)
    BY <1>0, <1>1, AheadSettles
  <2>2. QED
    BY <1>1, <2>1 DEF Step, Paying
<1>2. CASE Capture(named, new, d, amount) /\ UNCHANGED <<charged, prepaid, fee, pay>>
  <2>1. Capturing(named, new, d, amount)
    BY <1>0, <1>2, AmountsAndIds DEF Capturing, AcceptsDate
  <2>2. QED
    BY <2>1 DEF Step
<1>3. QED
  BY <1>1, <1>2 DEF PayAhead

LEMMA PrepayIsStep ==
  ASSUME TypeOK, NEW named \in SUBSET Debt, NEW months \in SUBSET Monthly, NEW d \in Day,
         NEW foreign \in BOOLEAN, NEW amount \in Tender, Prepay(named, months, d, foreign, amount)
  PROVE  Step
<1>1. months \in Purchase /\ named \subseteq charged
  BY DEF Purchase, Prepay, Choosable, Open
<1>2. AcceptsDate(d) /\ PayAhead(named, months, d, foreign, amount)
  BY DEF Prepay
<1>3. QED
  BY <1>1, <1>2, AheadIsStep

LEMMA PurchaseIsStep ==
  ASSUME TypeOK, NEW k \in Package, NEW d \in Day, NEW foreign \in BOOLEAN,
         NEW amount \in Tender, PurchasePackage(k, d, foreign, amount)
  PROVE  Step
<1> DEFINE named == Open(charged)
<1>1. {k} \in Purchase /\ named \subseteq charged /\ named \in SUBSET Debt
  BY DEF Purchase, Open, TypeOK
<1>2. AcceptsDate(d) /\ PayAhead(named, {k}, d, foreign, amount)
  BY DEF PurchasePackage
<1> HIDE DEF named
<1>3. QED
  BY <1>1, <1>2, AheadIsStep

\* A SIGNUP covers no month, and the months of one enrollment are one.
LEMMA EnrollmentIsCharging ==
  ASSUME TypeOK, NEW o \in Debt, Enroll(o)
  PROVE  Charging
<1>1. charged = {} /\ o \in Debt \ Ahead
  BY DEF Enroll
<1>2. PICK withMonth \in BOOLEAN :
        charged' = {o} \cup {m \in Monthly : withMonth /\ Coverage[m] = CurrentMonth}
  BY DEF Enroll
<1> DEFINE Months == {m \in Monthly : withMonth /\ Coverage[m] = CurrentMonth}
<1>3. Covers[o] = {}
  BY <1>1 DEF Covers, Ahead
<1>4. Account!OneEach(Months)
  BY PurchaseOneEach DEF Purchase
<1>5. Account!OneEach({o} \cup Months)
  BY <1>3, <1>4 DEF Account!OneEach
<1>6. Free({o} \cup Months)
  BY <1>1 DEF Free, Covered
<1>7. {o} \cup Months \in SUBSET (Debt \ charged) /\ charged' = charged \cup ({o} \cup Months)
  BY <1>1, <1>2, DebtsAreOrdered
<1> HIDE DEF Months
<1>8. UNCHANGED <<prepaid, terms, fee, pay, receipt, config>>
  BY DEF Enroll
<1>9. QED
  BY <1>5, <1>6, <1>7, <1>8 DEF Charging

LEMMA NextIsStep ==
  ASSUME TypeOK, Next
  PROVE  Step
<1>1. ASSUME NEW o \in Debt, ChargeMonth(o) PROVE Step
  <2>1. {o} \in SUBSET (Debt \ charged) /\ charged' = charged \cup {o} /\ Free({o})
        /\ UNCHANGED <<prepaid, terms, fee, pay, receipt, config>>
    BY <1>1 DEF ChargeMonth
  <2>2. Account!OneEach({o})
    BY DEF Account!OneEach
  <2>3. QED
    BY <2>1, <2>2 DEF Step, Charging
<1>2. ASSUME NEW o \in Debt, Enroll(o) PROVE Step
  BY <1>2, EnrollmentIsCharging DEF Step
<1>3. ASSUME NEW o \in Monthly, NEW d \in Day, NEW foreign \in BOOLEAN, NEW amount \in Tender,
             CorrectLateFee(o, d, foreign, amount)
      PROVE Step
  <2>1. Settling({o}, {}, d, foreign, amount, [fee EXCEPT ![o] = "VOIDED"], 0)
    BY <1>3, CorrectionSettles
  <2>2. UNCHANGED receipt
    BY <1>3 DEF CorrectLateFee
  <2>3. QED
    BY <2>1, <2>2 DEF Step, Paying
<1>4. CASE Request
  <2>1. PICK d \in Day, foreign \in BOOLEAN, amount \in Tender :
          \/ \E S \in SUBSET charged : RecordPayment(S, d, foreign, amount)
          \/ \E named \in SUBSET charged, months \in SUBSET {o \in Monthly : Future(Coverage[o])} :
               Prepay(named, months, d, foreign, amount)
          \/ \E k \in Package : PurchasePackage(k, d, foreign, amount)
          \/ \E o \in Monthly : CorrectLateFee(o, d, foreign, amount)
    BY <1>4 DEF Request
  <2>2. charged \subseteq Debt
    BY DEF TypeOK
  <2>3. ASSUME NEW S \in SUBSET charged, RecordPayment(S, d, foreign, amount) PROVE Step
    BY <2>2, <2>3, RecordIsStep
  <2>4. ASSUME NEW named \in SUBSET charged, NEW months \in SUBSET {o \in Monthly : Future(Coverage[o])},
               Prepay(named, months, d, foreign, amount)
        PROVE Step
    <3>1. named \in SUBSET Debt /\ months \in SUBSET Monthly
      BY <2>2
    <3>2. QED
      BY <2>4, <3>1, PrepayIsStep
  <2>5. QED
    BY <1>3, <2>1, <2>3, <2>4, PurchaseIsStep
<1>5. CASE Outside
  BY <1>5 DEF Outside, Step
<1>6. QED
  BY <1>1, <1>2, <1>4, <1>5 DEF Next, Step

-----------------------------------------------------------------------------
(* Type correctness.                                                       *)

PayOK(q, debts, day) ==
  /\ q \in PayType /\ q.on <= day /\ q.fees \cup q.items \subseteq debts
  /\ q.state = "none" => q = NoPayment

ReceiptOK(q, debts, day) ==
  /\ q \in ReceiptType /\ q.on <= day /\ q.items \subseteq debts
  /\ q.status # "none" => q.on # 0

DebtsOK ==
  /\ charged \subseteq Debt /\ prepaid \subseteq charged \cap Ahead
  /\ terms \in [Debt -> Terms] /\ fee \in [Debt -> FeeState]
ConfigOK ==
  /\ quote \in [Day -> Rate \cup {0}] /\ horizon \in Horizon
  /\ today \in Day /\ env \in 0..MaxEnv
PayFunction     == DOMAIN pay = Payment /\ pay = [p \in Payment |-> pay[p]]
ReceiptFunction == DOMAIN receipt = Receipt /\ receipt = [r \in Receipt |-> receipt[r]]
PaymentsOK      == PayFunction /\ \A p \in Payment : PayOK(pay[p], charged, today)
ReceiptsOK      == ReceiptFunction /\ \A r \in Receipt : ReceiptOK(receipt[r], charged, today)

\* The type invariant, in parts.
LEMMA TypeParts == TypeOK <=> DebtsOK /\ ConfigOK /\ PaymentsOK /\ ReceiptsOK
<1> DEFINE PayFits ==
             \A p \in Payment :
               /\ pay[p].on <= today
               /\ pay[p].fees \cup pay[p].items \subseteq charged
               /\ pay[p].state = "none" => pay[p] = NoPayment
           ReceiptFits ==
             \A r \in Receipt :
               /\ receipt[r].on <= today /\ receipt[r].items \subseteq charged
               /\ receipt[r].status # "none" => receipt[r].on # 0
<1>1. PaymentsOK <=> pay \in [Payment -> PayType] /\ PayFits
  <2>1. PayFunction /\ (\A p \in Payment : pay[p] \in PayType) <=> pay \in [Payment -> PayType]
    BY DEF PayFunction
  <2>2. QED
    BY <2>1 DEF PayOK, PaymentsOK
<1>2. ReceiptsOK <=> receipt \in [Receipt -> ReceiptType] /\ ReceiptFits
  <2>1. ReceiptFunction /\ (\A r \in Receipt : receipt[r] \in ReceiptType)
          <=> receipt \in [Receipt -> ReceiptType]
    BY DEF ReceiptFunction
  <2>2. QED
    BY <2>1 DEF ReceiptOK, ReceiptsOK
<1>3. TypeOK <=>
        /\ DebtsOK /\ ConfigOK
        /\ pay \in [Payment -> PayType] /\ PayFits
        /\ receipt \in [Receipt -> ReceiptType] /\ ReceiptFits
  BY DEF TypeOK, DebtsOK, ConfigOK
<1> HIDE DEF PayFits, ReceiptFits
<1>4. QED
  BY <1>1, <1>2, <1>3

LEMMA TypePartsNext == TypeOK' <=> DebtsOK' /\ ConfigOK' /\ PaymentsOK' /\ ReceiptsOK'
BY TypeParts, PTL

LEMMA SettlingTypes ==
  ASSUME TypeOK, NEW S, NEW New, NEW d, NEW foreign, NEW amount, NEW fees, NEW r,
         Settling(S, New, d, foreign, amount, fees, r)
  PROVE  DebtsOK' /\ ConfigOK' /\ PaymentsOK' /\ charged \subseteq charged' /\ today' = today
<1>1. PICK p \in Payment, rate \in Nat :
           /\ pay[p] = NoPayment
           /\ fee' = [o \in Debt |-> IF o \in S THEN Assessed(o, d, fees) ELSE fees[o]]
           /\ pay' = [pay EXCEPT ![p] = MadePayment(S, d, foreign, amount, rate, r)]
  BY SettleEffect
<1>2. /\ S \in SUBSET Debt /\ d \in Day /\ d <= today /\ foreign \in BOOLEAN /\ amount \in Nat
      /\ r \in Receipt \cup {0} /\ Brings(S, New) /\ S \subseteq charged \cup New
      /\ Voids(S, d, fees) /\ UNCHANGED <<terms, config>>
  BY DEF Settling, Open
<1>3. DebtsOK /\ ConfigOK /\ PaymentsOK
  BY TypeParts
<1>4. charged' = charged \cup New /\ prepaid' = prepaid \cup New /\ New \subseteq Ahead /\ New \subseteq S
      /\ UNCHANGED <<terms, quote, horizon, today, env>>
  BY <1>2 DEF Brings, config
<1>5. fee' \in [Debt -> FeeState]
  <2>1. \A o \in Debt : fees[o] \in FeeState /\ Assessed(o, d, fees) \in FeeState
    BY <1>2 DEF Voids, Assessed, FeeState
  <2>2. QED
    BY <1>1, <2>1
<1>6. DebtsOK' /\ ConfigOK'
  BY <1>2, <1>3, <1>4, <1>5 DEF DebtsOK, ConfigOK
<1>7. PayOK(MadePayment(S, d, foreign, amount, rate, r), charged', today')
  <2>1. d \in Nat
    BY <1>2, DaysAreOrdered
  <2>2. MadePayment(S, d, foreign, amount, rate, r) \in PayType
    BY <1>1, <1>2, <2>1 DEF MadePayment, PayType
  <2>3. QED
    BY <1>2, <1>4, <2>2 DEF PayOK, MadePayment
<1>8. PaymentsOK'
  <2>1. ASSUME NEW q \in Payment \ {p} PROVE PayOK(pay'[q], charged', today')
    BY <1>1, <1>3, <1>4, <2>1 DEF PayOK, PaymentsOK, PayFunction
  <2>2. pay'[p] = MadePayment(S, d, foreign, amount, rate, r)
    BY <1>1, <1>3 DEF PaymentsOK, PayFunction
  <2>3. PayFunction'
    BY <1>1, <1>3 DEF PaymentsOK, PayFunction
  <2>4. PayOK(pay'[p], charged', today')
    BY <1>7, <2>2
  <2>5. QED
    BY <2>1, <2>3, <2>4 DEF PaymentsOK
<1>9. QED
  BY <1>4, <1>6, <1>8

\* Time goes forward: what was not after today is not after it later.
Later == today' = today \/ today' = today + 1

LEMMA TimePasses ==
  ASSUME ConfigOK, Later, NEW n \in Nat, n <= today
  PROVE  n <= today'
BY DaysAreOrdered DEF ConfigOK, Later

LEMMA ReceiptStays ==
  ASSUME ConfigOK, Later, charged \subseteq charged', NEW q, ReceiptOK(q, charged, today)
  PROVE  ReceiptOK(q, charged', today')
<1>1. q.on \in Nat
  <2>1. Day \cup {0} \subseteq Nat
    BY DaysAreOrdered
  <2>2. q.on \in Day \cup {0}
    BY DEF ReceiptOK, ReceiptType
  <2>3. QED
    BY <2>1, <2>2
<1>2. q.on <= today'
  BY <1>1, TimePasses DEF ReceiptOK
<1>3. QED
  BY <1>2 DEF ReceiptOK

\* Every receipt but the one a step writes keeps what it was.
LEMMA OtherReceipts ==
  ASSUME ReceiptsOK, charged \subseteq charged', Later, ConfigOK, NEW r \in Receipt, NEW q,
         receipt' = [receipt EXCEPT ![r] = q], ReceiptOK(q, charged', today')
  PROVE  ReceiptsOK'
<1>1. ASSUME NEW x \in Receipt PROVE ReceiptOK(receipt'[x], charged', today')
  <2>1. CASE x = r
    BY <2>1 DEF ReceiptsOK, ReceiptFunction
  <2>2. CASE x # r
    BY <2>2, ReceiptStays DEF ReceiptsOK, ReceiptFunction
  <2>3. QED
    BY <2>1, <2>2
<1>2. ReceiptFunction'
  BY DEF ReceiptsOK, ReceiptFunction
<1>3. QED
  BY <1>1, <1>2 DEF ReceiptsOK

LEMMA SameReceipts ==
  ASSUME ReceiptsOK, charged \subseteq charged', Later, ConfigOK, receipt' = receipt
  PROVE  ReceiptsOK'
BY ReceiptStays DEF ReceiptsOK, ReceiptFunction

LEMMA ReceiptStatusTypes ==
  ASSUME ReceiptsOK, ConfigOK, charged \subseteq charged', Later, NEW r \in Receipt,
         receipt[r].status # "none",
         NEW st \in {"RESOLVED", "CANCELLED"}, receipt' = [receipt EXCEPT ![r].status = st]
  PROVE  ReceiptsOK'
<1> DEFINE q == [receipt[r] EXCEPT !.status = st]
<1>1. ReceiptOK(receipt[r], charged', today')
  BY ReceiptStays DEF ReceiptsOK
<1>2. ReceiptOK(q, charged', today')
  BY <1>1 DEF ReceiptOK, ReceiptType
<1>3. receipt' = [receipt EXCEPT ![r] = q]
  OBVIOUS
<1> HIDE DEF q
<1>4. QED
  BY <1>2, <1>3, OtherReceipts

\* Steps that leave the payments alone.
LEMMA SamePayments ==
  ASSUME PaymentsOK, ConfigOK, charged \subseteq charged', Later, pay' = pay
  PROVE  PaymentsOK'
<1>1. ASSUME NEW p \in Payment PROVE PayOK(pay[p], charged', today')
  <2>1. pay[p].on \in Nat /\ pay[p].on <= today
    BY DEF PaymentsOK, PayOK, PayType
  <2>2. pay[p].on <= today'
    BY <2>1, TimePasses
  <2>3. QED
    BY <2>2 DEF PaymentsOK, PayOK
<1>2. QED
  BY <1>1 DEF PaymentsOK, PayFunction

LEMMA ReversalType ==
  ASSUME PaymentsOK, NEW p \in Payment, Reverse(p)
  PROVE  PaymentsOK'
<1>1. charged' = charged /\ today' = today /\ pay' = [pay EXCEPT ![p].state = "reversed"]
  BY DEF Reverse, config
<1>2. PayOK([pay[p] EXCEPT !.state = "reversed"], charged, today)
  BY DEF PaymentsOK, PayOK, PayType
<1>3. ASSUME NEW x \in Payment PROVE PayOK(pay'[x], charged', today')
  BY <1>1, <1>2 DEF PaymentsOK, PayFunction
<1>4. PayFunction'
  BY <1>1 DEF PaymentsOK, PayFunction
<1>5. QED
  BY <1>3, <1>4 DEF PaymentsOK

LEMMA StepTypes ==
  ASSUME TypeOK, Step
  PROVE  TypeOK'
<1>0. DebtsOK /\ ConfigOK /\ PaymentsOK /\ ReceiptsOK
  BY TypeParts
<1>1. CASE Charging
  <2>0. charged \subseteq charged' /\ charged' \subseteq Debt
    BY <1>0, <1>1 DEF Charging, DebtsOK
  <2>1. DebtsOK' /\ ConfigOK' /\ Later
    BY <1>0, <1>1, <2>0 DEF Charging, config, DebtsOK, ConfigOK, Later
  <2>2. PaymentsOK' /\ ReceiptsOK'
    BY <1>0, <1>1, <2>0, <2>1, SamePayments, SameReceipts DEF Charging
  <2>3. QED
    BY <2>1, <2>2, TypePartsNext
<1>2. CASE Paying
  <2>1. PICK S, New, d, foreign, amount, fees : Settling(S, New, d, foreign, amount, fees, 0)
    BY <1>2 DEF Paying
  <2>2. DebtsOK' /\ ConfigOK' /\ PaymentsOK' /\ charged \subseteq charged' /\ today' = today
    BY <2>1, SettlingTypes
  <2>3. ReceiptsOK'
    BY <1>0, <1>2, <2>2, SameReceipts DEF Paying, Later
  <2>4. QED
    BY <2>2, <2>3, TypePartsNext
<1>3. ASSUME NEW r \in Receipt, Resolve(r) PROVE TypeOK'
  <2>1. DebtsOK' /\ ConfigOK' /\ PaymentsOK' /\ charged \subseteq charged' /\ today' = today
    BY <1>3, ResolutionSettles, SettlingTypes
  <2>2. receipt[r].status # "none" /\ receipt' = [receipt EXCEPT ![r].status = "RESOLVED"]
    BY <1>3 DEF Resolve, Waiting
  <2>3. ReceiptsOK'
    BY <1>0, <2>1, <2>2, ReceiptStatusTypes DEF Later
  <2>4. QED
    BY <2>1, <2>3, TypePartsNext
<1>4. ASSUME NEW r \in Receipt, Cancel(r) PROVE TypeOK'
  <2>1. DebtsOK' /\ ConfigOK' /\ Later /\ charged \subseteq charged' /\ pay' = pay
    BY <1>0, <1>4 DEF Cancel, config, DebtsOK, ConfigOK, Later
  <2>2. receipt[r].status # "none" /\ receipt' = [receipt EXCEPT ![r].status = "CANCELLED"]
    BY <1>4 DEF Cancel
  <2>3. PaymentsOK' /\ ReceiptsOK'
    BY <1>0, <2>1, <2>2, SamePayments, ReceiptStatusTypes
  <2>4. QED
    BY <2>1, <2>3, TypePartsNext
<1>5. ASSUME NEW S, NEW months, NEW d, NEW amount, Capturing(S, months, d, amount) PROVE TypeOK'
  <2>1. DebtsOK' /\ ConfigOK' /\ Later /\ charged \subseteq charged' /\ pay' = pay
    BY <1>0, <1>5 DEF Capturing, config, DebtsOK, ConfigOK, Later
  <2> DEFINE q == [status |-> "PENDING", items |-> S, months |-> months,
                   snapshot |-> [o \in Ahead |-> IF o \in months THEN terms[o] ELSE Unshown],
                   on |-> d, amount |-> amount]
  <2>2. receipt' = [receipt EXCEPT ![FreeReceipt] = q]
    BY <1>5 DEF Capturing, Capture
  <2>3. FreeReceipt \in Receipt
    BY <1>5, FreeReceiptIsFree DEF Capturing, Capture
  <2>4. ReceiptOK(q, charged', today')
    <3>1. [o \in Ahead |-> IF o \in months THEN terms[o] ELSE Unshown] \in Snapshot
      <4>1. months \in SUBSET Ahead /\ \A o \in months : terms[o] \in Terms
        BY <1>0, <1>5, PurchaseOneEach DEF Capturing, DebtsOK
      <4>2. QED
        BY <4>1 DEF Snapshot
    <3>2. S \subseteq Debt /\ d # 0 /\ charged' = charged /\ today' = today
      BY <1>0, <1>5, DaysAreOrdered DEF Capturing, config, DebtsOK
    <3>3. QED
      BY <1>5, <3>1, <3>2 DEF ReceiptOK, ReceiptType, Capturing
  <2> HIDE DEF q
  <2>5. PaymentsOK' /\ ReceiptsOK'
    BY <1>0, <2>1, <2>2, <2>3, <2>4, SamePayments, OtherReceipts
  <2>6. QED
    BY <2>1, <2>5, TypePartsNext
<1>6. CASE AssessLateFees
  <2>1. \A o \in Debt : Assessed(o, today, fee) \in FeeState
    BY <1>0 DEF DebtsOK, Assessed, FeeState
  <2>2. DebtsOK' /\ ConfigOK' /\ Later /\ charged \subseteq charged' /\ pay' = pay /\ receipt' = receipt
    BY <1>0, <1>6, <2>1 DEF AssessLateFees, config, DebtsOK, ConfigOK, Later
  <2>3. PaymentsOK' /\ ReceiptsOK'
    BY <1>0, <2>2, SamePayments, SameReceipts
  <2>4. QED
    BY <2>2, <2>3, TypePartsNext
<1>7. ASSUME NEW p \in Payment, Reverse(p) PROVE TypeOK'
  <2>1. DebtsOK' /\ ConfigOK' /\ Later /\ charged \subseteq charged' /\ receipt' = receipt
    BY <1>0, <1>7 DEF Reverse, config, DebtsOK, ConfigOK, Later
  <2>2. PaymentsOK' /\ ReceiptsOK'
    BY <1>0, <1>7, <2>1, ReversalType, SameReceipts
  <2>3. QED
    BY <2>1, <2>2, TypePartsNext
<1>8. ASSUME NEW o \in Debt, Waive(o) PROVE TypeOK'
  <2>1. DebtsOK' /\ ConfigOK' /\ Later /\ charged \subseteq charged' /\ pay' = pay /\ receipt' = receipt
    BY <1>0, <1>8 DEF Waive, config, DebtsOK, ConfigOK, Later, FeeState
  <2>2. PaymentsOK' /\ ReceiptsOK'
    BY <1>0, <2>1, SamePayments, SameReceipts
  <2>3. QED
    BY <2>1, <2>2, TypePartsNext
<1>9. ASSUME NEW o \in Debt, Reprice(o) PROVE TypeOK'
  <2>1. PICK t \in Offer[o] : terms' = [terms EXCEPT ![o] = t]
    BY <1>9 DEF Reprice
  <2>2. t \in Terms
    BY <2>1, DebtsAreOrdered
  <2>3. DebtsOK' /\ Later /\ charged \subseteq charged' /\ pay' = pay /\ receipt' = receipt
    BY <1>0, <1>9, <2>1, <2>2 DEF Reprice, DebtsOK, Later
  <2>4. ConfigOK'
    BY <1>0, <1>9, AmountsAndIds DEF Reprice, ConfigOK
  <2>5. PaymentsOK' /\ ReceiptsOK'
    BY <1>0, <2>3, SamePayments, SameReceipts
  <2>6. QED
    BY <2>3, <2>4, <2>5, TypePartsNext
<1>10. ASSUME \/ \E d \in Day, v \in Rate : EnterQuote(d, v)
              \/ \E h \in Horizon : SetHorizon(h)
              \/ DayPasses
       PROVE TypeOK'
  <2>1. DebtsOK' /\ charged \subseteq charged' /\ pay' = pay /\ receipt' = receipt
    BY <1>0, <1>10 DEF EnterQuote, SetHorizon, DayPasses, DebtsOK
  <2>2. ConfigOK' /\ Later
    BY <1>0, <1>10, AmountsAndIds DEF EnterQuote, SetHorizon, DayPasses, ConfigOK, Later
  <2>3. PaymentsOK' /\ ReceiptsOK'
    BY <1>0, <2>1, <2>2, SamePayments, SameReceipts
  <2>4. QED
    BY <2>1, <2>2, <2>3, TypePartsNext
<1>11. QED
  BY <1>1, <1>2, <1>3, <1>4, <1>5, <1>6, <1>7, <1>8, <1>9, <1>10 DEF Step

LEMMA StutterTypes ==
  ASSUME TypeOK, UNCHANGED vars
  PROVE  TypeOK'
BY DEF TypeOK, vars, config

LEMMA InitType == Init => TypeOK
<1> SUFFICES ASSUME Init PROVE TypeOK
  OBVIOUS
<1>1. DebtsOK
  <2>1. \A o \in Debt : terms[o] \in Terms
    BY DebtsAreOrdered DEF Init
  <2>2. QED
    BY <2>1 DEF Init, DebtsOK, FeeState
<1>2. ConfigOK
  BY AmountsAndIds DEF Init, ConfigOK
<1>3. PaymentsOK
  <2>1. PayOK(NoPayment, charged, today)
    BY DaysAreOrdered DEF Init, PayOK, NoPayment, PayType
  <2>2. QED
    BY <2>1 DEF Init, PaymentsOK, PayFunction
<1>4. ReceiptsOK
  <2>1. ReceiptOK(NoReceipt, charged, today)
    <3>1. [o \in Ahead |-> Unshown] \in Snapshot /\ {} \in Purchase
      BY DEF Snapshot, Purchase
    <3>2. 0 <= today
      BY DaysAreOrdered DEF Init
    <3>3. QED
      BY <3>1, <3>2 DEF ReceiptOK, ReceiptType, NoReceipt
  <2>2. QED
    BY <2>1 DEF Init, ReceiptsOK, ReceiptFunction
<1>5. QED
  BY <1>1, <1>2, <1>3, <1>4, TypeParts

\* Every value the ledger keeps has its type, and no payment in it is dated after
\* today: the date checks of the writers (record-payment.ts, prepay-monthly.ts) hold
\* for the receipts that were captured earlier as well.
THEOREM TypesHold == Spec => []TypeOK
<1>1. TypeOK /\ [Next]_vars => TypeOK'
  BY NextIsStep, StepTypes, StutterTypes
<1>2. QED
  BY InitType, <1>1, PTL DEF Spec

-----------------------------------------------------------------------------
(* The invariant.  No part of it is inductive alone: a settlement keeps    *)
(* FeesAgree because what it settles is open and FeesAreLate tells which   *)
(* fees a late month may have, and Permanent because the fees it voids are *)
(* those of debts it settles on time.  MonthsOnce, for the contract of     *)
(* DebtAccount, is kept by the writers that look for free months.          *)

MonthsOnce == Account!OneEach(charged)

IInv ==
  /\ TypeOK /\ MonthsOnce
  /\ FeesAreLate /\ FeesAgree /\ Permanent /\ ReceiptOnce /\ PrepaidAsCaptured

LEMMA BringingKeepsOnce ==
  ASSUME MonthsOnce, NEW S, NEW New, Brings(S, New)
  PROVE  MonthsOnce'
<1>1. Free(New) /\ Account!OneEach(New) /\ charged' = charged \cup New
  BY DEF Brings
<1>2. Account!OneEach(charged \cup New)
  BY <1>1, FreeOneEach DEF MonthsOnce
<1>3. QED
  BY <1>1, <1>2 DEF MonthsOnce

LEMMA StepKeepsOnce ==
  ASSUME TypeOK, MonthsOnce, Step \/ UNCHANGED vars
  PROVE  MonthsOnce'
<1>1. CASE Charging
  <2>1. PICK New \in SUBSET (Debt \ charged) :
          charged' = charged \cup New /\ Free(New) /\ Account!OneEach(New)
    BY <1>1 DEF Charging
  <2>2. Account!OneEach(charged \cup New)
    BY <2>1, FreeOneEach DEF MonthsOnce
  <2>3. QED
    BY <2>1, <2>2 DEF MonthsOnce
<1>2. CASE Paying
  BY <1>2, BringingKeepsOnce DEF Paying, Settling
<1>3. ASSUME NEW r \in Receipt, Resolve(r) PROVE MonthsOnce'
  BY <1>3, ResolutionSettles, BringingKeepsOnce DEF Settling
<1>4. ASSUME charged' = charged PROVE MonthsOnce'
  BY <1>4 DEF MonthsOnce
<1>5. ASSUME \/ \E r \in Receipt : Cancel(r)
             \/ \E S, months, d, amount : Capturing(S, months, d, amount)
             \/ AssessLateFees
             \/ \E p \in Payment : Reverse(p)
             \/ \E o \in Debt : Waive(o) \/ Reprice(o)
             \/ \E d \in Day, v \in Rate : EnterQuote(d, v)
             \/ \E h \in Horizon : SetHorizon(h)
             \/ DayPasses
             \/ UNCHANGED vars
      PROVE charged' = charged
  BY <1>5 DEF Cancel, Capturing, AssessLateFees, Reverse, Waive, Reprice, EnterQuote, SetHorizon,
             DayPasses, vars
<1>6. QED
  BY <1>1, <1>2, <1>3, <1>4, <1>5 DEF Step

LEMMA TermsAreNumbers ==
  ASSUME TypeOK, NEW o \in Debt
  PROVE  terms[o].grace \in Nat /\ terms[o].lateFee \in Nat /\ terms[o].amount \in Nat \ {0}
BY DEF TypeOK, Terms

\* Once late, always late.
LEMMA LateStays ==
  ASSUME TypeOK, NEW o \in Debt, NEW d \in Nat, NEW e \in Nat, d <= e, Late(o, d)
  PROVE  Late(o, e)
BY TermsAreNumbers DEF Late

LEMMA PaymentTypes ==
  ASSUME TypeOK, NEW p \in Payment
  PROVE  /\ PayOK(pay[p], charged, today) /\ pay[p].on \in Nat
         /\ pay[p].items \subseteq charged /\ pay[p].fees \subseteq charged
BY TypeParts DEF PaymentsOK, PayOK, PayType

\* The facts about a settlement that the invariant's parts rest on.
LEMMA SettlingFacts ==
  ASSUME TypeOK, NEW S, NEW New, NEW d, NEW foreign, NEW amount, NEW fees, NEW r,
         Settling(S, New, d, foreign, amount, fees, r)
  PROVE  \E p \in Payment :
           /\ pay[p] = NoPayment
           /\ /\ pay'[p].state = "active" /\ pay'[p].items = S /\ pay'[p].on = d
              /\ pay'[p].fees = {o \in S : fee'[o] = "active"}
              /\ pay'[p].from = r /\ pay'[p].amount = amount
           /\ \A q \in Payment \ {p} : pay'[q] = pay[q]
           /\ \A o \in Debt \ S : fee'[o] = fee[o]
           /\ \A o \in S : fee'[o] = Assessed(o, d, fees) /\ ~Settled(o) /\ ~SettledOnTime(o)
<1>1. PICK p \in Payment, rate \in Nat :
           /\ pay[p] = NoPayment
           /\ fee' = [o \in Debt |-> IF o \in S THEN Assessed(o, d, fees) ELSE fees[o]]
           /\ pay' = [pay EXCEPT ![p] = MadePayment(S, d, foreign, amount, rate, r)]
  BY SettleEffect
<1>2. S \subseteq Debt /\ S \subseteq Open(charged \cup New) /\ Voids(S, d, fees)
  BY DEF Settling
<1>3. \A o \in S : ~Settled(o) /\ ~SettledOnTime(o)
  BY <1>2 DEF Open, Settled, SettledOnTime
<1>4. \A o \in Debt \ S : fee'[o] = fee[o]
  BY <1>1, <1>2 DEF Voids
<1>5. \A o \in S : fee'[o] = Assessed(o, d, fees)
  BY <1>1, <1>2
<1>6. pay'[p] = MadePayment(S, d, foreign, amount, rate, r)
       /\ \A q \in Payment \ {p} : pay'[q] = pay[q]
  BY <1>1, TypeParts DEF PaymentsOK, PayFunction
<1>7. QED
  BY <1>1, <1>3, <1>4, <1>5, <1>6 DEF MadePayment

LEMMA SettlingKeepsLate ==
  ASSUME TypeOK, FeesAreLate, NEW S, NEW New, NEW d, NEW foreign, NEW amount, NEW fees, NEW r,
         Settling(S, New, d, foreign, amount, fees, r)
  PROVE  FeesAreLate'
<1>1. PICK p \in Payment :
           /\ \A o \in Debt \ S : fee'[o] = fee[o]
           /\ \A o \in S : fee'[o] = Assessed(o, d, fees)
  BY SettlingFacts
<1>2. /\ S \subseteq charged' /\ charged \subseteq charged' /\ terms' = terms /\ today' = today
      /\ d \in Day /\ d <= today /\ Voids(S, d, fees)
  BY DEF Settling, Open, Brings, config
<1>3. d \in Nat /\ today \in Nat
  BY <1>2, DaysAreOrdered DEF TypeOK
<1>4. ASSUME NEW o \in Debt
      PROVE  /\ fee'[o] # "none" => o \in charged' \cap Monthly
             /\ fee'[o] = "active" => Late(o, today) /\ terms[o].lateFee > 0
  <2>1. /\ fee[o] # "none" => o \in charged' \cap Monthly
        /\ fee[o] = "active" => Late(o, today) /\ terms[o].lateFee > 0
    <3>1. /\ fee[o] # "none" => o \in charged \cap Monthly
          /\ fee[o] = "active" => Late(o, today) /\ terms[o].lateFee > 0
      BY Zenon DEF FeesAreLate
    <3>2. QED
      BY <1>2, <3>1
  <2>2. CASE o \notin S
    BY <1>1, <2>1, <2>2
  <2>3. CASE o \in S
    <3>1. fees[o] = fee[o] \/ (fee[o] = "active" /\ fees[o] = "VOIDED")
      BY <1>2 DEF Voids
    <3>2. CASE fees[o] # "none"
      BY <1>1, <2>1, <2>3, <3>1, <3>2 DEF Assessed
    <3>3. CASE fees[o] = "none" /\ Late(o, d) /\ terms[o].lateFee > 0
      <4>1. Late(o, today) /\ o \in Monthly
        BY <1>2, <1>3, <3>3, LateStays DEF Late
      <4>2. QED
        BY <1>2, <2>3, <3>3, <4>1
    <3>4. CASE fees[o] = "none" /\ ~(Late(o, d) /\ terms[o].lateFee > 0)
      BY <1>1, <2>3, <3>4 DEF Assessed
    <3>5. QED
      BY <3>2, <3>3, <3>4
  <2>4. QED
    BY <2>2, <2>3
<1>5. \A o \in Debt : Late(o, today)' <=> Late(o, today)
  BY <1>2 DEF Late
<1>6. QED
  BY <1>2, <1>4, <1>5 DEF FeesAreLate

LEMMA SettlingKeepsFees ==
  ASSUME TypeOK, FeesAreLate, FeesAgree, NEW S, NEW New, NEW d, NEW foreign, NEW amount,
         NEW fees, NEW r, Settling(S, New, d, foreign, amount, fees, r)
  PROVE  FeesAgree'
<1>1. PICK p \in Payment :
           /\ /\ pay'[p].state = "active" /\ pay'[p].items = S /\ pay'[p].on = d
              /\ pay'[p].fees = {o \in S : fee'[o] = "active"}
           /\ \A q \in Payment \ {p} : pay'[q] = pay[q]
           /\ \A o \in Debt \ S : fee'[o] = fee[o]
           /\ \A o \in S : fee'[o] = Assessed(o, d, fees) /\ ~Settled(o) /\ ~SettledOnTime(o)
  BY SettlingFacts
<1>2. S \subseteq Debt /\ ~FeeClash(S, d, fees) /\ terms' = terms
  BY DEF Settling
<1>3. \A o, e : Late(o, e)' <=> Late(o, e)
  BY <1>2 DEF Late
<1>4. ASSUME NEW o \in S \cap Monthly
      PROVE  /\ o \in pay'[p].fees <=> fee'[o] = "active"
             /\ Late(o, d) /\ terms[o].lateFee > 0 => fee'[o] # "none"
             /\ ~Late(o, d) => fee'[o] # "active"
  BY <1>1, <1>2 DEF Assessed, FeeClash
<1>5. ASSUME NEW q \in Payment \ {p}, pay'[q].state = "active", NEW o \in pay'[q].items \cap Monthly
      PROVE  /\ o \in pay'[q].fees <=> fee'[o] = "active"
             /\ Late(o, pay'[q].on) /\ terms[o].lateFee > 0 => fee'[o] # "none"
             /\ ~Late(o, pay'[q].on) => fee'[o] # "active"
  <2>1. pay'[q] = pay[q]
    BY <1>1
  <2>2. o \notin S
    BY <1>1, <1>5, <2>1 DEF Settled
  <2>3. fee'[o] = fee[o]
    BY <1>1, <2>2, DebtsAreOrdered
  <2>4. QED
    BY <1>5, <2>1, <2>3 DEF FeesAgree
<1>6. QED
  BY <1>1, <1>2, <1>3, <1>4, <1>5 DEF FeesAgree

LEMMA SettlingKeepsPermanent ==
  ASSUME TypeOK, Permanent, NEW S, NEW New, NEW d, NEW foreign, NEW amount, NEW fees, NEW r,
         Settling(S, New, d, foreign, amount, fees, r)
  PROVE  Permanent'
<1>1. PICK p \in Payment :
           /\ pay[p] = NoPayment
           /\ pay'[p].state = "active" /\ pay'[p].items = S /\ pay'[p].on = d
           /\ \A q \in Payment \ {p} : pay'[q] = pay[q]
           /\ \A o \in Debt \ S : fee'[o] = fee[o]
           /\ \A o \in S : fee'[o] = Assessed(o, d, fees) /\ ~Settled(o) /\ ~SettledOnTime(o)
  BY SettlingFacts
<1>2. S \subseteq Debt /\ Voids(S, d, fees) /\ terms' = terms
      /\ prepaid' = prepaid \cup New /\ New \subseteq S
  BY DEF Settling, Brings
<1>3. \A o, e : Late(o, e)' <=> Late(o, e)
  BY <1>2 DEF Late
<1>4. pay[p].state = "none"
  BY <1>1 DEF NoPayment
<1>5. ASSUME NEW o \in Debt, SettledOnTime(o) PROVE SettledOnTime(o)'
  <2>1. PICK q \in Payment : pay[q].state = "active" /\ o \in pay[q].items /\ ~Late(o, pay[q].on)
    BY <1>5 DEF SettledOnTime
  <2>2. pay'[q] = pay[q]
    BY <1>1, <1>4, <2>1
  <2>3. QED
    BY <1>2, <2>1, <2>2 DEF SettledOnTime, Late
<1>6. ASSUME NEW o \in Debt, Settled(o) PROVE Settled(o)'
  BY <1>1, <1>4, <1>6 DEF Settled
<1>7. ASSUME NEW o \in Debt, fee'[o] = "VOIDED" PROVE SettledOnTime(o)'
  <2>1. CASE o \notin S
    BY <1>1, <1>5, <1>7, <2>1 DEF Permanent
  <2>2. CASE o \in S
    <3>1. fees[o] = "VOIDED"
      BY <1>1, <1>7, <2>2 DEF Assessed
    <3>2. fee[o] # "VOIDED"
      BY <1>1, <2>2 DEF Permanent
    <3>3. ~Late(o, d)
      BY <1>2, <3>1, <3>2 DEF Voids
    <3>4. QED
      BY <1>1, <1>2, <2>2, <3>3 DEF SettledOnTime, Late
  <2>3. QED
    BY <2>1, <2>2
<1>8. ASSUME NEW o \in Debt, o \in prepaid' PROVE Settled(o)'
  <2>1. CASE o \in prepaid
    BY <1>6, <2>1 DEF Permanent
  <2>2. CASE o \in New
    BY <1>1, <1>2, <2>2 DEF Settled
  <2>3. QED
    BY <1>2, <1>8, <2>1, <2>2
<1>9. QED
  BY <1>7, <1>8 DEF Permanent

\* Only the receipt a settlement resolves has one payment more.
LEMMA SettlingMakes ==
  ASSUME TypeOK, NEW S, NEW New, NEW d, NEW foreign, NEW amount, NEW fees, NEW x,
         Settling(S, New, d, foreign, amount, fees, x)
  PROVE  \E p \in Payment :
           /\ pay'[p].on = d /\ pay'[p].amount = amount /\ pay'[p].items = S
           /\ \A q \in Payment \ {p} : pay'[q] = pay[q]
           /\ \A r \in Receipt : p \notin MadeFrom(r)
           /\ \A r \in Receipt : MadeFrom(r)' = IF r = x THEN MadeFrom(r) \cup {p} ELSE MadeFrom(r)
<1>1. PICK p \in Payment :
           /\ pay[p] = NoPayment
           /\ pay'[p].items = S /\ pay'[p].on = d /\ pay'[p].from = x /\ pay'[p].amount = amount
           /\ \A q \in Payment \ {p} : pay'[q] = pay[q]
  BY SettlingFacts
<1>2. \A r \in Receipt : p \notin MadeFrom(r)
  <2>1. pay[p].from = 0
    BY <1>1 DEF NoPayment
  <2>2. QED
    BY <2>1, AmountsAndIds DEF MadeFrom
<1>3. \A r \in Receipt : MadeFrom(r)' = IF r = x THEN MadeFrom(r) \cup {p} ELSE MadeFrom(r)
  BY <1>1, <1>2 DEF MadeFrom
<1>4. QED
  BY <1>1, <1>2, <1>3

LEMMA PayingKeepsReceipts ==
  ASSUME TypeOK, ReceiptOnce, PrepaidAsCaptured, Paying
  PROVE  ReceiptOnce' /\ PrepaidAsCaptured'
<1>1. PICK S, New, d, foreign, amount, fees : Settling(S, New, d, foreign, amount, fees, 0)
  BY DEF Paying
<1>2. receipt' = receipt
  BY DEF Paying
<1>3. PICK p \in Payment :
           /\ \A q \in Payment \ {p} : pay'[q] = pay[q]
           /\ \A r \in Receipt : p \notin MadeFrom(r)
           /\ \A r \in Receipt : MadeFrom(r)' = IF r = 0 THEN MadeFrom(r) \cup {p} ELSE MadeFrom(r)
  BY <1>1, SettlingMakes
<1>4. ASSUME NEW r \in Receipt PROVE MadeFrom(r)' = MadeFrom(r) /\ \A q \in MadeFrom(r) : pay'[q] = pay[q]
  BY <1>3, AmountsAndIds DEF MadeFrom
<1>5. ReceiptOnce'
  BY <1>2, <1>4 DEF ReceiptOnce
<1>6. prepaid \subseteq prepaid' /\ terms' = terms
  BY <1>1 DEF Settling, Brings
<1>7. PrepaidAsCaptured'
  BY <1>2, <1>6 DEF PrepaidAsCaptured
<1>8. QED
  BY <1>5, <1>7

LEMMA ResolvingKeepsReceipts ==
  ASSUME TypeOK, ReceiptOnce, PrepaidAsCaptured, NEW x \in Receipt, Resolve(x)
  PROVE  ReceiptOnce' /\ PrepaidAsCaptured'
<1> DEFINE q == receipt[x]
           S == q.items \cup q.months
           New == q.months \ charged
           d == q.on
           amount == q.amount
           fees == WithoutWrongFees(q.items, q.on)
           foreign == TRUE
<1>1. Settling(S, New, d, foreign, amount, fees, x)
  BY ResolutionSettles
<1>2. receipt' = [receipt EXCEPT ![x].status = "RESOLVED"] /\ q.status = "PENDING" /\ Undrifted(x)
      /\ terms' = terms /\ prepaid' = prepaid \cup (q.months \ charged)
  BY DEF Resolve, Waiting, ChargeAhead
<1>3. PICK p \in Payment :
           /\ pay'[p].on = d /\ pay'[p].amount = amount /\ pay'[p].items = S
           /\ \A y \in Payment \ {p} : pay'[y] = pay[y]
           /\ \A r \in Receipt : p \notin MadeFrom(r)
           /\ \A r \in Receipt : MadeFrom(r)' = IF r = x THEN MadeFrom(r) \cup {p} ELSE MadeFrom(r)
  <2> HIDE DEF q, S, New, d, amount, fees, foreign
  <2> QED BY <1>1, SettlingMakes
<1>4. DOMAIN receipt = Receipt
  BY DEF TypeOK
<1>5. q \in ReceiptType
  BY TypeParts DEF ReceiptsOK, ReceiptOK
<1>6. /\ receipt'[x].status = "RESOLVED" /\ receipt'[x].items = q.items /\ receipt'[x].months = q.months
      /\ receipt'[x].on = q.on /\ receipt'[x].amount = q.amount /\ receipt'[x].snapshot = q.snapshot
      /\ \A r \in Receipt \ {x} : receipt'[r] = receipt[r]
  <2>1. receipt'[x] = [q EXCEPT !.status = "RESOLVED"]
    BY <1>2, <1>4
  <2>2. QED
    BY <1>2, <1>4, <1>5, <2>1 DEF ReceiptType
<1>7. MadeFrom(x) = {}
  BY <1>2 DEF ReceiptOnce
<1>8. ReceiptOnce'
  <2> DEFINE Once(r) ==
               /\ receipt'[r].status = "RESOLVED" <=> MadeFrom(r)' # {}
               /\ \A a, b \in MadeFrom(r)' : a = b
               /\ \A y \in MadeFrom(r)' :
                    /\ pay'[y].on = receipt'[r].on /\ pay'[y].amount = receipt'[r].amount
                    /\ pay'[y].items = receipt'[r].items \cup receipt'[r].months
  <2>1. ASSUME NEW r \in Receipt \ {x} PROVE Once(r)
    <3>1. MadeFrom(r)' = MadeFrom(r) /\ \A y \in MadeFrom(r) : pay'[y] = pay[y]
      BY <1>3 DEF MadeFrom
    <3>2. QED
      BY <1>6, <3>1 DEF ReceiptOnce
  <2>2. Once(x)
    <3>1. MadeFrom(x)' = {p}
      BY <1>3, <1>7
    <3>2. QED
      BY <1>3, <1>6, <3>1
  <2>3. \A r \in Receipt : Once(r)
    <3> HIDE DEF Once
    <3> QED BY <2>1, <2>2
  <2>4. QED
    BY <2>3 DEF ReceiptOnce
<1>9. PrepaidAsCaptured'
  <2>1. ASSUME NEW o \in q.months PROVE o \in prepaid' /\ terms[o] = q.snapshot[o]
    <3>1. StillFits(q) /\ terms[o] = q.snapshot[o]
      BY <1>2 DEF Undrifted
    <3>2. o \in Ahead
      BY <1>5, PurchaseOneEach DEF ReceiptType
    <3>3. Free({o})
      BY <3>1, <3>2 DEF StillFits, Ahead, Purchasable
    <3>4. QED
      BY <1>2, <3>1, <3>2, <3>3, FreeIsNew
  <2>2. QED
    BY <1>2, <1>6, <2>1 DEF PrepaidAsCaptured
<1>10. QED
  BY <1>8, <1>9

\* Charges, prices, quotes, policies and the calendar change nothing that is settled.
Aside ==
  /\ fee' = fee /\ pay' = pay /\ receipt' = receipt /\ prepaid' = prepaid
  /\ charged \subseteq charged' /\ Later
  /\ \A o \in charged : terms'[o] = terms[o]

LEMMA AsideKeeps ==
  ASSUME IInv, TypeOK', Aside
  PROVE  FeesAreLate' /\ FeesAgree' /\ Permanent' /\ ReceiptOnce' /\ PrepaidAsCaptured'
<1>1. TypeOK /\ FeesAreLate /\ FeesAgree /\ Permanent /\ ReceiptOnce /\ PrepaidAsCaptured
  BY DEF IInv
<1>2. /\ fee' = fee /\ pay' = pay /\ receipt' = receipt /\ prepaid' = prepaid
      /\ charged \subseteq charged' /\ Later
      /\ \A o \in charged : terms'[o] = terms[o]
  BY DEF Aside
<1>3. \A p \in Payment : pay[p].items \subseteq charged
  BY <1>1, PaymentTypes
<1>4. FeesAreLate'
  <2>1. ASSUME NEW o \in Debt
        PROVE  /\ fee[o] # "none" => o \in charged' \cap Monthly
               /\ fee[o] = "active" => o \in Monthly /\ today' > terms'[o].grace /\ terms'[o].lateFee > 0
    <3>1. CASE fee[o] = "none"
      BY <3>1
    <3>2. CASE fee[o] # "none"
      <4>1. o \in charged \cap Monthly /\ terms'[o] = terms[o]
        BY <1>1, <1>2, <3>2 DEF FeesAreLate
      <4>2. today \in Nat /\ today' \in Nat /\ today <= today' /\ terms[o].grace \in Nat
        <5>1. today \in Day /\ terms[o].grace \in Nat
          BY <1>1, TermsAreNumbers DEF TypeOK
        <5>2. QED
          BY <1>2, <5>1, DaysAreOrdered DEF Later
      <4>3. fee[o] = "active" => today > terms[o].grace /\ terms[o].lateFee > 0
        BY <1>1 DEF FeesAreLate, Late
      <4>4. today > terms[o].grace => today' > terms[o].grace
        BY <4>2
      <4>5. QED
        BY <1>2, <4>1, <4>3, <4>4
    <3>3. QED
      BY <3>1, <3>2
  <2>2. QED
    BY <1>2, <2>1 DEF FeesAreLate, Late
<1>5. FeesAgree'
  <2>1. ASSUME NEW p \in Payment, pay[p].state = "active", NEW o \in pay[p].items \cap Monthly
        PROVE  /\ o \in pay[p].fees <=> fee[o] = "active"
               /\ Late(o, pay[p].on) /\ terms[o].lateFee > 0 => fee[o] # "none"
               /\ ~Late(o, pay[p].on) => fee[o] # "active"
               /\ terms'[o] = terms[o]
    BY <1>1, <1>2, <1>3, <2>1 DEF FeesAgree
  <2>2. QED
    BY <1>2, <2>1 DEF FeesAgree, Late
<1>6. Permanent'
  <2>1. ASSUME NEW o \in Debt, SettledOnTime(o) PROVE SettledOnTime(o)'
    <3>1. PICK p \in Payment : pay[p].state = "active" /\ o \in pay[p].items /\ ~Late(o, pay[p].on)
      BY <2>1 DEF SettledOnTime
    <3>2. terms'[o] = terms[o]
      BY <1>2, <1>3, <3>1
    <3>3. QED
      BY <1>2, <3>1, <3>2 DEF SettledOnTime, Late
  <2>2. ASSUME NEW o \in Debt, Settled(o) PROVE Settled(o)'
    BY <1>2, <2>2 DEF Settled
  <2>3. QED
    BY <1>1, <1>2, <2>1, <2>2 DEF Permanent
<1>7. ReceiptOnce'
  BY <1>1, <1>2 DEF ReceiptOnce, MadeFrom
<1>8. PrepaidAsCaptured'
  <2>1. prepaid \subseteq charged
    BY <1>1 DEF TypeOK
  <2>2. QED
    BY <1>1, <1>2, <2>1 DEF PrepaidAsCaptured
<1>9. QED
  BY <1>4, <1>5, <1>6, <1>7, <1>8

\* Fees are assessed as of today, and only of months no receipt settled on time.
LEMMA AssessingKeeps ==
  ASSUME IInv, AssessLateFees
  PROVE  FeesAreLate' /\ FeesAgree' /\ Permanent' /\ ReceiptOnce' /\ PrepaidAsCaptured'
<1>1. TypeOK /\ FeesAreLate /\ FeesAgree /\ Permanent /\ ReceiptOnce /\ PrepaidAsCaptured
  BY DEF IInv
<1>2. /\ pay' = pay /\ receipt' = receipt /\ prepaid' = prepaid /\ charged' = charged
      /\ terms' = terms /\ today' = today
      /\ \A o \in Debt : fee'[o] = IF o \in charged \cap Monthly THEN Assessed(o, today, fee) ELSE fee[o]
  BY DEF AssessLateFees, config
<1>3. FeesAreLate'
  <2>1. ASSUME NEW o \in Debt
        PROVE  /\ fee'[o] # "none" => o \in charged \cap Monthly
               /\ fee'[o] = "active" => Late(o, today) /\ terms[o].lateFee > 0
    BY <1>1, <1>2 DEF FeesAreLate, Assessed
  <2>2. QED
    BY <1>2, <2>1 DEF FeesAreLate, Late
<1>4. FeesAgree'
  <2>1. ASSUME NEW p \in Payment, pay[p].state = "active", NEW o \in pay[p].items \cap Monthly
        PROVE  fee'[o] = fee[o]
    <3>1. CASE fee[o] # "none"
      BY <1>2, <3>1, DebtsAreOrdered DEF Assessed
    <3>2. CASE fee[o] = "none"
      <4>1. Late(o, pay[p].on) => ~(terms[o].lateFee > 0)
        BY <1>1, <2>1, <3>2 DEF FeesAgree
      <4>2. ~Late(o, pay[p].on) => SettledOnTime(o)
        BY <2>1 DEF SettledOnTime
      <4>3. QED
        BY <1>2, <3>2, <4>1, <4>2, DebtsAreOrdered DEF Assessed
    <3>3. QED
      BY <3>1, <3>2
  <2>2. QED
    BY <1>1, <1>2, <2>1 DEF FeesAgree, Late
<1>5. Permanent'
  <2>1. \A o \in Debt : fee'[o] = "VOIDED" => fee[o] = "VOIDED"
    BY <1>2 DEF Assessed
  <2>2. \A o \in Debt : (SettledOnTime(o) => SettledOnTime(o)') /\ (Settled(o) => Settled(o)')
    BY <1>2 DEF SettledOnTime, Settled, Late
  <2>3. QED
    BY <1>1, <1>2, <2>1, <2>2 DEF Permanent
<1>6. ReceiptOnce' /\ PrepaidAsCaptured'
  BY <1>1, <1>2 DEF ReceiptOnce, MadeFrom, PrepaidAsCaptured
<1>7. QED
  BY <1>3, <1>4, <1>5, <1>6

\* A waived fee is not part of any settlement in force.
LEMMA WaivingKeeps ==
  ASSUME IInv, NEW x \in Debt, Waive(x)
  PROVE  FeesAreLate' /\ FeesAgree' /\ Permanent' /\ ReceiptOnce' /\ PrepaidAsCaptured'
<1>1. TypeOK /\ FeesAreLate /\ FeesAgree /\ Permanent /\ ReceiptOnce /\ PrepaidAsCaptured
  BY DEF IInv
<1>2. /\ pay' = pay /\ receipt' = receipt /\ prepaid' = prepaid /\ charged' = charged
      /\ terms' = terms /\ today' = today
      /\ fee[x] = "active" /\ fee'[x] = "WAIVED" /\ \A o \in Debt \ {x} : fee'[o] = fee[o]
      /\ \A p \in Payment : pay[p].state = "active" => x \notin pay[p].fees
  BY <1>1 DEF Waive, config, TypeOK
<1>3. FeesAreLate'
  <2>1. ASSUME NEW o \in Debt
        PROVE  /\ fee'[o] # "none" => o \in charged \cap Monthly
               /\ fee'[o] = "active" => Late(o, today) /\ terms[o].lateFee > 0
    BY <1>1, <1>2 DEF FeesAreLate
  <2>2. QED
    BY <1>2, <2>1 DEF FeesAreLate, Late
<1>4. FeesAgree'
  <2>1. ASSUME NEW p \in Payment, pay[p].state = "active", NEW o \in pay[p].items \cap Monthly
        PROVE  fee'[o] = fee[o]
    BY <1>1, <1>2, <2>1, DebtsAreOrdered DEF FeesAgree
  <2>2. QED
    BY <1>1, <1>2, <2>1 DEF FeesAgree, Late
<1>5. Permanent'
  <2>1. \A o \in Debt : fee'[o] = "VOIDED" => fee[o] = "VOIDED"
    BY <1>2
  <2>2. \A o \in Debt : (SettledOnTime(o) => SettledOnTime(o)') /\ (Settled(o) => Settled(o)')
    BY <1>2 DEF SettledOnTime, Settled, Late
  <2>3. QED
    BY <1>1, <1>2, <2>1, <2>2 DEF Permanent
<1>6. ReceiptOnce' /\ PrepaidAsCaptured'
  BY <1>1, <1>2 DEF ReceiptOnce, MadeFrom, PrepaidAsCaptured
<1>7. QED
  BY <1>3, <1>4, <1>5, <1>6

\* A reversal touches no payment that a voided fee or a prepaid month relies on.
LEMMA ReversingKeeps ==
  ASSUME IInv, NEW x \in Payment, Reverse(x)
  PROVE  FeesAreLate' /\ FeesAgree' /\ Permanent' /\ ReceiptOnce' /\ PrepaidAsCaptured'
<1>1. TypeOK /\ FeesAreLate /\ FeesAgree /\ Permanent /\ ReceiptOnce /\ PrepaidAsCaptured
  BY DEF IInv
<1>2. /\ fee' = fee /\ receipt' = receipt /\ prepaid' = prepaid /\ charged' = charged
      /\ terms' = terms /\ today' = today /\ Reversible(x)
      /\ pay' = [pay EXCEPT ![x].state = "reversed"]
  BY DEF Reverse, config
<1>3. /\ pay'[x].state = "reversed" /\ \A p \in Payment \ {x} : pay'[p] = pay[p]
      /\ \A p \in Payment : /\ pay'[p].items = pay[p].items /\ pay'[p].on = pay[p].on
                            /\ pay'[p].from = pay[p].from /\ pay'[p].amount = pay[p].amount
  <2>1. pay'[x] = [pay[x] EXCEPT !.state = "reversed"] /\ \A p \in Payment \ {x} : pay'[p] = pay[p]
    BY <1>1, <1>2 DEF TypeOK
  <2>2. pay[x] \in PayType
    BY <1>1 DEF TypeOK
  <2>3. QED
    BY <2>1, <2>2 DEF PayType
<1>4. FeesAreLate'
  BY <1>1, <1>2 DEF FeesAreLate, Late
<1>5. FeesAgree'
  BY <1>1, <1>2, <1>3 DEF FeesAgree, Late
<1>6. Permanent'
  <2>1. ASSUME NEW o \in Debt, SettledOnTime(o), fee[o] = "VOIDED" PROVE SettledOnTime(o)'
    BY <1>2, <1>3, <2>1 DEF SettledOnTime, Late, Reversible
  <2>2. ASSUME NEW o \in Debt, Settled(o), o \in prepaid PROVE Settled(o)'
    BY <1>2, <1>3, <2>2 DEF Settled, Reversible
  <2>3. QED
    BY <1>1, <1>2, <2>1, <2>2 DEF Permanent
<1>7. ReceiptOnce' /\ PrepaidAsCaptured'
  <2>1. \A r \in Receipt : MadeFrom(r)' = MadeFrom(r)
    BY <1>3 DEF MadeFrom
  <2>2. \A r \in Receipt : MadeFrom(r) \subseteq Payment
    BY DEF MadeFrom
  <2>3. QED
    BY <1>1, <1>2, <1>3, <2>1, <2>2 DEF ReceiptOnce, PrepaidAsCaptured
<1>8. QED
  BY <1>4, <1>5, <1>6, <1>7

\* The step writes receipt x alone, and leaves it waiting or cancelled.
WritesReceipt(x) ==
  /\ fee' = fee /\ pay' = pay /\ prepaid' = prepaid /\ charged' = charged
  /\ terms' = terms /\ today' = today
  /\ receipt[x].status \in {"none", "PENDING"} /\ receipt'[x].status \in {"PENDING", "CANCELLED"}
  /\ \A r \in Receipt \ {x} : receipt'[r] = receipt[r]

\* A receipt that is captured, or cancelled while it waits, has made no payment.
LEMMA ReceiptWriteKeeps ==
  ASSUME IInv, NEW x \in Receipt, WritesReceipt(x)
  PROVE  FeesAreLate' /\ FeesAgree' /\ Permanent' /\ ReceiptOnce' /\ PrepaidAsCaptured'
<1>1. TypeOK /\ FeesAreLate /\ FeesAgree /\ Permanent /\ ReceiptOnce /\ PrepaidAsCaptured
  BY DEF IInv
<1>2. fee' = fee /\ pay' = pay /\ prepaid' = prepaid /\ charged' = charged /\ terms' = terms /\ today' = today
  BY DEF WritesReceipt
<1>3. FeesAreLate' /\ FeesAgree' /\ Permanent'
  BY <1>1, <1>2 DEF FeesAreLate, FeesAgree, Permanent, Late, Settled, SettledOnTime
<1>4. MadeFrom(x) = {} /\ \A r \in Receipt : MadeFrom(r)' = MadeFrom(r)
  BY <1>1, <1>2 DEF ReceiptOnce, MadeFrom, WritesReceipt
<1>5. ReceiptOnce'
  BY <1>1, <1>2, <1>4 DEF ReceiptOnce, WritesReceipt
<1>6. PrepaidAsCaptured'
  BY <1>1, <1>2 DEF PrepaidAsCaptured, WritesReceipt
<1>7. QED
  BY <1>3, <1>5, <1>6

LEMMA CapturingKeeps ==
  ASSUME IInv, NEW S, NEW months, NEW d, NEW amount, Capturing(S, months, d, amount)
  PROVE  FeesAreLate' /\ FeesAgree' /\ Permanent' /\ ReceiptOnce' /\ PrepaidAsCaptured'
<1>1. FreeReceipt \in Receipt /\ receipt[FreeReceipt].status = "none"
  BY FreeReceiptIsFree DEF Capturing, Capture
<1>2. PICK x \in Receipt : x = FreeReceipt
  BY <1>1
<1>3. receipt \in [Receipt -> ReceiptType]
  BY DEF IInv, TypeOK
<1>4. WritesReceipt(x)
  BY <1>1, <1>2, <1>3 DEF WritesReceipt, Capturing, Capture, config
<1>5. QED
  BY <1>4, ReceiptWriteKeeps

LEMMA CancellingKeeps ==
  ASSUME IInv, NEW x \in Receipt, Cancel(x)
  PROVE  FeesAreLate' /\ FeesAgree' /\ Permanent' /\ ReceiptOnce' /\ PrepaidAsCaptured'
<1>1. receipt \in [Receipt -> ReceiptType]
  BY DEF IInv, TypeOK
<1>2. WritesReceipt(x)
  BY <1>1 DEF WritesReceipt, Cancel, config, ReceiptType
<1>3. QED
  BY <1>2, ReceiptWriteKeeps

LEMMA SettlingKeeps ==
  ASSUME IInv, NEW S, NEW New, NEW d, NEW foreign, NEW amount, NEW fees, NEW r,
         Settling(S, New, d, foreign, amount, fees, r)
  PROVE  FeesAreLate' /\ FeesAgree' /\ Permanent'
BY SettlingKeepsLate, SettlingKeepsFees, SettlingKeepsPermanent DEF IInv

LEMMA StepIsAside ==
  ASSUME IInv,
         \/ Charging \/ UNCHANGED vars
         \/ \E o \in Debt : Reprice(o)
         \/ \E d \in Day, v \in Rate : EnterQuote(d, v)
         \/ \E h \in Horizon : SetHorizon(h)
         \/ DayPasses
  PROVE  Aside
<1>1. terms \in [Debt -> Terms] /\ charged \subseteq Debt
  BY DEF IInv, TypeOK
<1>2. CASE Charging \/ UNCHANGED vars
  <2>1. charged \subseteq charged'
    BY <1>2 DEF Charging, vars
  <2>2. QED
    BY <1>2, <2>1 DEF Charging, Aside, Later, vars, config
<1>3. ASSUME NEW o \in Debt, Reprice(o) PROVE Aside
  BY <1>1, <1>3 DEF Reprice, Aside, Later
<1>4. ASSUME \/ \E d \in Day, v \in Rate : EnterQuote(d, v)
             \/ \E h \in Horizon : SetHorizon(h)
             \/ DayPasses
      PROVE Aside
  BY <1>4 DEF EnterQuote, SetHorizon, DayPasses, Aside, Later
<1>5. QED
  BY <1>2, <1>3, <1>4

LEMMA InvariantStep == IInv /\ [Next]_vars => IInv'
<1> SUFFICES ASSUME IInv, [Next]_vars PROVE IInv'
  OBVIOUS
<1>1. TypeOK /\ (Step \/ UNCHANGED vars)
  BY NextIsStep DEF IInv
<1>2. TypeOK' /\ MonthsOnce'
  BY <1>1, StepTypes, StutterTypes, StepKeepsOnce DEF IInv
<1>3. SUFFICES FeesAreLate' /\ FeesAgree' /\ Permanent' /\ ReceiptOnce' /\ PrepaidAsCaptured'
  BY <1>2 DEF IInv
<1>4. CASE Paying
  <2>1. ReceiptOnce' /\ PrepaidAsCaptured'
    BY <1>4, PayingKeepsReceipts DEF IInv
  <2>2. FeesAreLate' /\ FeesAgree' /\ Permanent'
    BY <1>4, SettlingKeeps DEF Paying
  <2>3. QED
    BY <2>1, <2>2
<1>5. ASSUME NEW r \in Receipt, Resolve(r)
      PROVE  FeesAreLate' /\ FeesAgree' /\ Permanent' /\ ReceiptOnce' /\ PrepaidAsCaptured'
  <2>1. ReceiptOnce' /\ PrepaidAsCaptured'
    BY <1>5, ResolvingKeepsReceipts DEF IInv
  <2>2. FeesAreLate' /\ FeesAgree' /\ Permanent'
    BY <1>1, <1>5, ResolutionSettles, SettlingKeeps
  <2>3. QED
    BY <2>1, <2>2
<1>6. ASSUME NEW r \in Receipt, Cancel(r)
      PROVE  FeesAreLate' /\ FeesAgree' /\ Permanent' /\ ReceiptOnce' /\ PrepaidAsCaptured'
  BY <1>6, CancellingKeeps
<1>7. ASSUME NEW S, NEW months, NEW d, NEW amount, Capturing(S, months, d, amount)
      PROVE  FeesAreLate' /\ FeesAgree' /\ Permanent' /\ ReceiptOnce' /\ PrepaidAsCaptured'
  <2>1. IInv /\ Capturing(S, months, d, amount)
    BY <1>7
  <2>2. QED
    BY <2>1, CapturingKeeps
<1>8. CASE AssessLateFees
  BY <1>8, AssessingKeeps
<1>9. ASSUME NEW p \in Payment, Reverse(p)
      PROVE  FeesAreLate' /\ FeesAgree' /\ Permanent' /\ ReceiptOnce' /\ PrepaidAsCaptured'
  BY <1>9, ReversingKeeps
<1>10. ASSUME NEW o \in Debt, Waive(o)
       PROVE  FeesAreLate' /\ FeesAgree' /\ Permanent' /\ ReceiptOnce' /\ PrepaidAsCaptured'
  BY <1>10, WaivingKeeps
<1>11. ASSUME Aside
       PROVE  FeesAreLate' /\ FeesAgree' /\ Permanent' /\ ReceiptOnce' /\ PrepaidAsCaptured'
  BY <1>2, <1>11, AsideKeeps
<1>12. QED
  <2> DEFINE Kept == FeesAreLate' /\ FeesAgree' /\ Permanent' /\ ReceiptOnce' /\ PrepaidAsCaptured'
  <2>1. ASSUME \/ Charging \/ UNCHANGED vars
               \/ \E o \in Debt : Reprice(o)
               \/ \E d \in Day, v \in Rate : EnterQuote(d, v)
               \/ \E h \in Horizon : SetHorizon(h)
               \/ DayPasses
        PROVE  Kept
    BY <1>11, <2>1, StepIsAside
  <2>2. (\E S, months, d, amount : Capturing(S, months, d, amount)) => Kept
    BY <1>7
  <2> HIDE DEF Kept
  <2>3. QED
    BY <1>1, <1>4, <1>5, <1>6, <1>8, <1>9, <1>10, <2>1, <2>2 DEF Step, Kept

LEMMA InitInvariant == Init => IInv
<1> SUFFICES ASSUME Init PROVE IInv
  OBVIOUS
<1>1. TypeOK
  BY InitType
<1>2. /\ \A o \in Debt : fee[o] = "none"
      /\ \A p \in Payment : pay[p].state = "none" /\ pay[p].from = 0
      /\ \A r \in Receipt : receipt[r].status = "none"
      /\ prepaid = {}
  BY DEF Init, NoPayment, NoReceipt
<1>3. FeesAreLate /\ FeesAgree /\ Permanent
  BY <1>2 DEF FeesAreLate, FeesAgree, Permanent
<1>4. ReceiptOnce /\ PrepaidAsCaptured
  <2>1. \A r \in Receipt : MadeFrom(r) = {}
    BY <1>2, AmountsAndIds DEF MadeFrom
  <2>2. QED
    BY <1>2, <2>1 DEF ReceiptOnce, PrepaidAsCaptured
<1>5. MonthsOnce
  BY DEF Init, MonthsOnce, Account!OneEach
<1>6. QED
  BY <1>1, <1>3, <1>4, <1>5 DEF IInv

LEMMA InvariantHolds == Spec => []IInv
BY InitInvariant, InvariantStep, PTL DEF Spec

-----------------------------------------------------------------------------
(* The safety properties.                                                  *)

\* A fee in force belongs to a month that is late under its own terms, whichever of
\* assessLateFeesForStudent and the settlement writers assessed it.
THEOREM LateFeesAreLate == Spec => []FeesAreLate
BY InvariantHolds, PTL DEF IInv

\* A settled month and its fee row agree for ever, though fees are assessed, waived and
\* voided by five writers before and after the payment.
THEOREM FeesAndSettlementsAgree == Spec => []FeesAgree
BY InvariantHolds, PTL DEF IInv

\* Prepaid months and months with a voided fee stay settled: the refusals of
\* reversePayment are enough.
THEOREM PermanentStaysSettled == Spec => []Permanent
BY InvariantHolds, PTL DEF IInv

\* resolveAwaitingRateReceipt makes at most one payment of a receipt, and cancel none.
THEOREM ReceiptsPayOnce == Spec => []ReceiptOnce
BY InvariantHolds, PTL DEF IInv

\* A resolved prepayment has charged its months on the captured terms.
THEOREM PrepaidTermsHold == Spec => []PrepaidAsCaptured
BY InvariantHolds, PTL DEF IInv

\* With the invariant, nothing but its amount stands between the oldest open debt and
\* a payment of it today.
LEMMA OldestCanBePaid ==
  ASSUME IInv
  PROVE  NeverStuck
<1> DEFINE o == First(Open(charged))
<1> SUFFICES ASSUME Open(charged) # {}, AmountDue(o, today, fee) <= MaxMinor
             PROVE  Accepted({o}, today, FALSE, Total({o}, today, fee), charged, fee)
  BY DEF NeverStuck
<1>1. TypeOK /\ FeesAreLate
  BY DEF IInv
<1>2. Open(charged) \subseteq Debt /\ Open(charged) \subseteq Nat
  BY <1>1, DebtsAreOrdered DEF Open, TypeOK
<1>3. o \in Open(charged) /\ \A y \in Open(charged) : o <= y
  BY <1>2, FirstIsMember
<1>4. Choosable({o}, today, charged, fee)
  <2>1. InOrder({o}, charged)
    BY <1>2, <1>3 DEF InOrder
  <2>2. ~FeeClash({o}, today, fee)
    BY <1>1, <1>2, <1>3 DEF FeeClash, FeesAreLate
  <2>3. QED
    BY <1>3, <2>1, <2>2 DEF Choosable
<1>5. TenderMatches({o}, today, FALSE, Total({o}, today, fee), charged, fee)
  BY DEF TenderMatches, Required
<1>6. FeesReread({o}, today, fee)
  <2>1. ~SettledOnTime(o)
    BY <1>3 DEF Open, Settled, SettledOnTime
  <2>2. terms[o].lateFee \in Nat /\ fee[o] \in FeeState
    BY <1>1, <1>2, <1>3, TermsAreNumbers DEF TypeOK
  <2>3. fee[o] = "active" => Late(o, today) /\ terms[o].lateFee > 0
    BY <1>1, <1>2, <1>3 DEF FeesAreLate
  <2>4. (FeeDue(o, today, fee) > 0) <=> (Assessed(o, today, fee) = "active")
    BY <2>1, <2>2, <2>3 DEF FeeDue, Assessed, FeeState
  <2>5. QED
    BY <2>4 DEF FeesReread
<1>7. Payable(today, charged, fee)
  BY DEF Payable
<1>8. QED
  BY <1>4, <1>5, <1>6, <1>7 DEF Accepted

\* No history leaves a student with an open debt that cannot be paid: the refusals of
\* settleObligationsInTx and the throw of writeSettlementInTx never meet the oldest one.
THEOREM DebtsCanBePaid == Spec => []NeverStuck
BY InvariantHolds, OldestCanBePaid, PTL

-----------------------------------------------------------------------------
(* The sum of a payment.  A debt keeps its terms once it is charged, so    *)
(* what the settlement of a payment cost when it was made it costs for     *)
(* ever; and when it is made, the fees that writeSettlementInTx reads      *)
(* again are those that the validated total contains.                      *)

\* The fee of a settled debt is part of the total exactly if its row is active.
LEMMA FeeIsInTotal ==
  ASSUME TypeOK, FeesAreLate, NEW S, NEW d, NEW fees,
         Voids(S, d, fees), FeesReread(S, d, fees), NEW o \in S \cap Debt
  PROVE  AmountDue(o, d, fees)
           = terms[o].amount + (IF Assessed(o, d, fees) = "active" THEN terms[o].lateFee ELSE 0)
<1>1. terms[o].lateFee \in Nat
  BY TermsAreNumbers
<1>2. CASE o \in Monthly
  <2>1. (FeeDue(o, d, fees) > 0) <=> (Assessed(o, d, fees) = "active")
    BY <1>2 DEF FeesReread
  <2>2. FeeDue(o, d, fees) = terms[o].lateFee \/ FeeDue(o, d, fees) = 0
    BY DEF FeeDue
  <2>3. FeeDue(o, d, fees) = IF Assessed(o, d, fees) = "active" THEN terms[o].lateFee ELSE 0
    BY <1>1, <2>1, <2>2
  <2>4. QED
    BY <2>3 DEF AmountDue
<1>3. CASE o \notin Monthly
  <2>1. fees[o] = "none" /\ ~Late(o, d)
    BY <1>3 DEF Voids, FeesAreLate, Late
  <2>2. Assessed(o, d, fees) = "none" /\ FeeDue(o, d, fees) = 0
    BY <2>1 DEF Assessed, FeeDue
  <2>3. QED
    BY <2>2 DEF AmountDue
<1>4. QED
  BY <1>2, <1>3

LEMMA SettlingSums ==
  ASSUME TypeOK, FeesAreLate, TenderIsTotal, NEW S, NEW New, NEW d, NEW foreign, NEW amount,
         NEW fees, NEW r, Settling(S, New, d, foreign, amount, fees, r)
  PROVE  TenderIsTotal'
<1>1. PICK p \in Payment, rate \in Nat :
           /\ rate = (IF foreign THEN Quote(d) ELSE 0)
           /\ fee' = [o \in Debt |-> IF o \in S THEN Assessed(o, d, fees) ELSE fees[o]]
           /\ pay' = [pay EXCEPT ![p] = MadePayment(S, d, foreign, amount, rate, r)]
  BY SettleEffect
<1>2. S \subseteq Debt /\ terms' = terms /\ Voids(S, d, fees) /\ Sums(S, d, foreign, amount, fees)
  BY DEF Settling
<1>3. pay'[p] = MadePayment(S, d, foreign, amount, rate, r)
       /\ \A q \in Payment \ {p} : pay'[q] = pay[q]
  BY <1>1, TypeParts DEF PaymentsOK, PayFunction
<1> DEFINE fs   == {o \in S : fee'[o] = "active"}
           cost == [o \in S |-> terms[o].amount + (IF o \in fs THEN terms[o].lateFee ELSE 0)]
<1>4. [o \in S |-> AmountDue(o, d, fees)] = cost
  <2>1. ASSUME NEW o \in S
        PROVE AmountDue(o, d, fees) = terms[o].amount + (IF o \in fs THEN terms[o].lateFee ELSE 0)
    <3>1. o \in fs <=> Assessed(o, d, fees) = "active"
      BY <1>1, <1>2
    <3>2. FeesReread(S, d, fees)
      BY <1>2 DEF Sums
    <3>3. AmountDue(o, d, fees)
           = terms[o].amount + (IF Assessed(o, d, fees) = "active" THEN terms[o].lateFee ELSE 0)
      BY <1>2, <3>2, FeeIsInTotal
    <3> HIDE DEF fs
    <3>4. QED
      BY <3>1, <3>3
  <2> HIDE DEF fs
  <2>2. QED
    BY <2>1
<1>5. amount = Required(SumFunction(cost), foreign, Quote(d))
  BY <1>2, <1>4, Zenon DEF Sums, Total
<1>6. /\ pay'[p].items = S /\ pay'[p].fees = fs /\ pay'[p].amount = amount
      /\ pay'[p].foreign = foreign /\ pay'[p].rate = rate
  BY <1>3 DEF MadePayment
<1> HIDE DEF fs
<1>7. Cost(pay[p])' = SumFunction(cost)
  BY <1>2, <1>6 DEF Cost
<1> HIDE DEF cost
<1>8. /\ pay'[p].fees \subseteq pay'[p].items
      /\ pay'[p].amount = Required(Cost(pay[p])', pay'[p].foreign, pay'[p].rate)
  <2>1. fs \subseteq S
    BY DEF fs
  <2>2. Required(SumFunction(cost), foreign, Quote(d)) = Required(SumFunction(cost), foreign, rate)
    BY <1>1 DEF Required
  <2>3. QED
    BY <1>5, <1>6, <1>7, <2>1, <2>2
<1>9. ASSUME NEW q \in Payment \ {p}, pay'[q].state = "active"
      PROVE  /\ pay'[q].fees \subseteq pay'[q].items
             /\ pay'[q].amount = Required(Cost(pay[q])', pay'[q].foreign, pay'[q].rate)
  <2>1. pay'[q] = pay[q]
    BY <1>3
  <2>2. Cost(pay[q])' = Cost(pay[q])
    BY <1>2, <2>1 DEF Cost
  <2>3. QED
    BY <1>9, <2>1, <2>2 DEF TenderIsTotal
<1>10. QED
  BY <1>8, <1>9 DEF TenderIsTotal

\* What other steps may do to payments: mark one reversed.  Charged debts keep their terms.
LEMMA PaymentsStand ==
  ASSUME IInv, Step \/ UNCHANGED vars, ~Paying, \A r \in Receipt : ~Resolve(r)
  PROVE  /\ \A p \in Payment : pay'[p].state = "active" => pay'[p] = pay[p]
         /\ \A o \in charged : terms'[o] = terms[o]
<1>1. CASE \/ Charging \/ UNCHANGED vars
           \/ \E o \in Debt : Reprice(o)
           \/ \E d \in Day, v \in Rate : EnterQuote(d, v)
           \/ \E h \in Horizon : SetHorizon(h)
           \/ DayPasses
  BY <1>1, StepIsAside DEF Aside
<1>2. CASE \/ \E r \in Receipt : Cancel(r)
           \/ \E S, months, d, amount : Capturing(S, months, d, amount)
           \/ AssessLateFees
           \/ \E o \in Debt : Waive(o)
  BY <1>2 DEF Cancel, Capturing, AssessLateFees, Waive
<1>3. ASSUME NEW x \in Payment, Reverse(x)
      PROVE  /\ \A p \in Payment : pay'[p].state = "active" => pay'[p] = pay[p]
             /\ \A o \in charged : terms'[o] = terms[o]
  <2>1. pay' = [pay EXCEPT ![x].state = "reversed"] /\ terms' = terms
    BY <1>3 DEF Reverse
  <2>2. pay \in [Payment -> PayType]
    BY DEF IInv, TypeOK
  <2>3. pay'[x].state = "reversed" /\ \A p \in Payment \ {x} : pay'[p] = pay[p]
    BY <2>1, <2>2 DEF PayType
  <2>4. QED
    BY <2>1, <2>3
<1>4. QED
  BY <1>1, <1>2, <1>3 DEF Step

LEMMA SumsStand ==
  ASSUME IInv, TenderIsTotal,
         \A p \in Payment : pay'[p].state = "active" => pay'[p] = pay[p],
         \A o \in charged : terms'[o] = terms[o]
  PROVE  TenderIsTotal'
<1>1. ASSUME NEW p \in Payment, pay'[p].state = "active"
      PROVE  /\ pay'[p].fees \subseteq pay'[p].items
             /\ pay'[p].amount = Required(Cost(pay[p])', pay'[p].foreign, pay'[p].rate)
  <2>1. pay'[p] = pay[p]
    BY <1>1
  <2>2. pay[p].items \subseteq charged
    BY PaymentTypes DEF IInv
  <2>3. Cost(pay[p])' = Cost(pay[p])
    <3>1. [o \in pay[p].items |-> terms'[o].amount + (IF o \in pay[p].fees THEN terms'[o].lateFee ELSE 0)]
            = [o \in pay[p].items |-> terms[o].amount + (IF o \in pay[p].fees THEN terms[o].lateFee ELSE 0)]
      BY <2>2
    <3>2. QED
      BY <2>1, <3>1 DEF Cost
  <2>4. QED
    BY <1>1, <2>1, <2>3 DEF TenderIsTotal
<1>2. QED
  BY <1>1 DEF TenderIsTotal

\* A payment in force is worth exactly what it settles, at the rate it keeps, whatever
\* happens after settleObligationsInTx accepted it.
THEOREM TendersAreTotals == Spec => []TenderIsTotal
<1>1. Init => TenderIsTotal
  BY DEF Init, NoPayment, TenderIsTotal
<1>2. IInv /\ TenderIsTotal /\ [Next]_vars => TenderIsTotal'
  <2> SUFFICES ASSUME IInv, TenderIsTotal, [Next]_vars PROVE TenderIsTotal'
    OBVIOUS
  <2>1. TypeOK /\ FeesAreLate /\ (Step \/ UNCHANGED vars)
    BY NextIsStep DEF IInv
  <2>2. CASE Paying
    BY <2>1, <2>2, SettlingSums DEF Paying
  <2>3. ASSUME NEW r \in Receipt, Resolve(r) PROVE TenderIsTotal'
    BY <2>1, <2>3, ResolutionSettles, SettlingSums
  <2>4. CASE ~Paying /\ \A r \in Receipt : ~Resolve(r)
    BY <2>1, <2>4, PaymentsStand, SumsStand
  <2>5. QED
    BY <2>2, <2>3, <2>4
<1>3. QED
  BY <1>1, <1>2, InvariantHolds, PTL DEF Spec

-----------------------------------------------------------------------------
(* The ledger is a record: what was written is corrected by writing more.  *)

\* A fee row is made active and ends waived or voided.
FeeMoves(old, new) ==
  \/ new = old
  \/ old = "none" /\ new = "active"
  \/ old = "active" /\ new \in {"WAIVED", "VOIDED"}

\* A payment that was made may once be marked reversed.
PaymentMoves(old, new) ==
  old.state # "none" =>
    \/ new = old
    \/ old.state = "active" /\ new = [old EXCEPT !.state = "reversed"]

\* A captured receipt may once be marked resolved or cancelled.
ReceiptMoves(old, new) ==
  old.status # "none" =>
    \/ new = old
    \/ old.status = "PENDING"
       /\ \E s \in {"RESOLVED", "CANCELLED"} : new = [old EXCEPT !.status = s]

\* No step of any writer removes a debt, rewrites the terms of one that was charged,
\* reopens a fee that was removed, or changes what a payment or a captured receipt says;
\* an undoing is a mark.
OnlyMarks ==
  /\ charged \subseteq charged' /\ prepaid \subseteq prepaid'
  /\ \A o \in charged : terms'[o] = terms[o]
  /\ \A o \in Debt : FeeMoves(fee[o], fee'[o])
  /\ \A p \in Payment : PaymentMoves(pay[p], pay'[p])
  /\ \A r \in Receipt : ReceiptMoves(receipt[r], receipt'[r])

\* What the steps that leave the receipts alone have to show.
LEMMA SameReceiptsMove ==
  ASSUME receipt' = receipt PROVE \A r \in Receipt : ReceiptMoves(receipt[r], receipt'[r])
BY DEF ReceiptMoves

LEMMA SettlingMarks ==
  ASSUME TypeOK, NEW S, NEW New, NEW d, NEW foreign, NEW amount, NEW fees, NEW r,
         Settling(S, New, d, foreign, amount, fees, r)
  PROVE  /\ charged \subseteq charged' /\ prepaid \subseteq prepaid' /\ terms' = terms
         /\ \A o \in Debt : FeeMoves(fee[o], fee'[o])
         /\ \A p \in Payment : PaymentMoves(pay[p], pay'[p])
<1>1. PICK p \in Payment :
           /\ pay[p] = NoPayment
           /\ \A q \in Payment \ {p} : pay'[q] = pay[q]
           /\ \A o \in Debt \ S : fee'[o] = fee[o]
           /\ \A o \in S : fee'[o] = Assessed(o, d, fees)
  BY SettlingFacts
<1>2. Voids(S, d, fees) /\ Brings(S, New) /\ terms' = terms
  BY DEF Settling
<1>3. ASSUME NEW o \in Debt PROVE FeeMoves(fee[o], fee'[o])
  BY <1>1, <1>2 DEF FeeMoves, Voids, Assessed
<1>4. \A q \in Payment : PaymentMoves(pay[q], pay'[q])
  BY <1>1 DEF PaymentMoves, NoPayment
<1>5. QED
  BY <1>2, <1>3, <1>4 DEF Brings

LEMMA StepMarks ==
  ASSUME IInv, Step \/ UNCHANGED vars PROVE OnlyMarks
<1>1. TypeOK /\ pay \in [Payment -> PayType] /\ receipt \in [Receipt -> ReceiptType]
      /\ fee \in [Debt -> FeeState]
  BY DEF IInv, TypeOK
<1>2. CASE Paying
  BY <1>1, <1>2, SettlingMarks, SameReceiptsMove DEF Paying, OnlyMarks
<1>3. ASSUME NEW r \in Receipt, Resolve(r) PROVE OnlyMarks
  <2>1. /\ charged \subseteq charged' /\ prepaid \subseteq prepaid' /\ terms' = terms
        /\ \A o \in Debt : FeeMoves(fee[o], fee'[o])
        /\ \A p \in Payment : PaymentMoves(pay[p], pay'[p])
    BY <1>1, <1>3, ResolutionSettles, SettlingMarks
  <2>2. receipt' = [receipt EXCEPT ![r].status = "RESOLVED"] /\ receipt[r].status = "PENDING"
    BY <1>3 DEF Resolve, Waiting
  <2>3. \A x \in Receipt : ReceiptMoves(receipt[x], receipt'[x])
    BY <1>1, <2>2 DEF ReceiptMoves
  <2>4. QED
    BY <2>1, <2>3 DEF OnlyMarks
<1>4. ASSUME NEW r \in Receipt, Cancel(r) PROVE OnlyMarks
  <2>1. receipt' = [receipt EXCEPT ![r].status = "CANCELLED"] /\ receipt[r].status = "PENDING"
    BY <1>4 DEF Cancel
  <2>2. \A x \in Receipt : ReceiptMoves(receipt[x], receipt'[x])
    BY <1>1, <2>1 DEF ReceiptMoves
  <2>3. QED
    BY <1>4, <2>2 DEF OnlyMarks, Cancel, FeeMoves, PaymentMoves
<1>5. ASSUME NEW S, NEW months, NEW d, NEW amount, Capturing(S, months, d, amount) PROVE OnlyMarks
  <2>1. PICK x \in Receipt : x = FreeReceipt /\ receipt[x].status = "none"
    BY <1>5, FreeReceiptIsFree DEF Capturing, Capture
  <2>2. \A r \in Receipt \ {x} : receipt'[r] = receipt[r]
    BY <1>1, <1>5, <2>1 DEF Capturing, Capture
  <2>3. \A r \in Receipt : ReceiptMoves(receipt[r], receipt'[r])
    BY <2>1, <2>2 DEF ReceiptMoves
  <2>4. QED
    BY <1>5, <2>3 DEF OnlyMarks, Capturing, FeeMoves, PaymentMoves
<1>6. CASE AssessLateFees
  BY <1>6, SameReceiptsMove DEF AssessLateFees, OnlyMarks, FeeMoves, PaymentMoves, Assessed
<1>7. ASSUME NEW x \in Payment, Reverse(x) PROVE OnlyMarks
  <2>1. pay' = [pay EXCEPT ![x].state = "reversed"] /\ pay[x].state = "active"
    BY <1>7 DEF Reverse
  <2>2. \A p \in Payment : PaymentMoves(pay[p], pay'[p])
    BY <1>1, <2>1 DEF PaymentMoves
  <2>3. QED
    BY <1>7, <2>2, SameReceiptsMove DEF OnlyMarks, Reverse, FeeMoves
<1>8. ASSUME NEW x \in Debt, Waive(x) PROVE OnlyMarks
  <2>1. \A o \in Debt : FeeMoves(fee[o], fee'[o])
    BY <1>1, <1>8 DEF Waive, FeeMoves
  <2>2. QED
    BY <1>8, <2>1, SameReceiptsMove DEF Waive, OnlyMarks, PaymentMoves
<1>9. ASSUME Aside PROVE OnlyMarks
  BY <1>9, SameReceiptsMove DEF Aside, OnlyMarks, FeeMoves, PaymentMoves
<1>10. QED
  <2>1. ASSUME \/ Charging \/ UNCHANGED vars
               \/ \E o \in Debt : Reprice(o)
               \/ \E d \in Day, v \in Rate : EnterQuote(d, v)
               \/ \E h \in Horizon : SetHorizon(h)
               \/ DayPasses
        PROVE  OnlyMarks
    BY <1>9, <2>1, StepIsAside
  <2>2. (\E S, months, d, amount : Capturing(S, months, d, amount)) => OnlyMarks
    BY <1>5
  <2>3. QED
    BY <1>2, <1>3, <1>4, <1>6, <1>7, <1>8, <2>1, <2>2 DEF Step

\* Corrections are marks and new rows: recordDuesPayment, waiveLateFee, reversePayment,
\* correctLateFeeAndSettle and the receipts' writers rewrite nothing, nor does a saved price.
THEOREM LedgerIsKept == Spec => [][OnlyMarks]_vars
<1>1. IInv /\ [Next]_vars => [OnlyMarks]_vars
  <2> SUFFICES ASSUME IInv, [Next]_vars PROVE OnlyMarks
    OBVIOUS
  <2>1. Step \/ UNCHANGED vars
    BY NextIsStep DEF IInv
  <2>2. QED
    BY <2>1, StepMarks
<1>2. QED
  BY <1>1, InvariantHolds, PTL DEF Spec

-----------------------------------------------------------------------------
(* The ledger implements DebtAccount.                                      *)

SettlesNow == [p \in Payment |-> IF pay[p].state = "active" THEN pay[p].items ELSE {}]
Used       == {p \in Payment : pay[p].state # "none"}

LEMMA SameOpen ==
  ASSUME NEW debts
  PROVE  Account!Open(debts) = Open(debts)
<1>1. Account!Paid = UNION {SettlesNow[p] : p \in Payment}
  BY DEF Account!Paid, SettlesNow
<1>2. \A o : o \in UNION {SettlesNow[p] : p \in Payment} <=> Settled(o)
  BY DEF SettlesNow, Settled
<1>3. QED
  BY <1>1, <1>2 DEF Account!Open, Open

LEMMA SettlingPays ==
  ASSUME TypeOK, MonthsOnce, NEW S, NEW New, NEW d, NEW foreign, NEW amount, NEW fees, NEW r,
         Settling(S, New, d, foreign, amount, fees, r)
  PROVE  Account!Next
<1>1. PICK p \in Payment :
           /\ pay[p] = NoPayment
           /\ pay'[p].state = "active" /\ pay'[p].items = S
           /\ \A q \in Payment \ {p} : pay'[q] = pay[q]
  BY SettlingFacts
<1>2. /\ S \in SUBSET Debt /\ S # {} /\ New \subseteq Ahead \ charged /\ New \subseteq S
      /\ charged' = charged \cup New
      /\ S \subseteq Open(charged \cup New) /\ InOrder(S, charged \cup New)
  BY DEF Settling, Brings
<1>3. pay[p].state = "none"
  BY <1>1 DEF NoPayment
<1>4. SettlesNow' = [SettlesNow EXCEPT ![p] = S]
  BY <1>1 DEF SettlesNow
<1>5. Used' = Used \cup {p} /\ p \notin Used
  BY <1>1, <1>3 DEF Used
<1>6. Account!Oldest(S, charged \cup New) /\ S \subseteq Account!Open(charged \cup New)
  BY <1>2, SameOpen DEF Account!Oldest, InOrder
<1>7. Account!Pay(p, New, S)
  <2>1. Account!OneEach(charged \cup New)
    BY <1>2, BringingKeepsOnce DEF Settling, MonthsOnce
  <2>2. QED
    BY <1>2, <1>4, <1>5, <1>6, <2>1 DEF Account!Pay, SettlesNow, Used
<1>8. New \in SUBSET Debt
  BY <1>2
<1>9. QED
  BY <1>2, <1>7, <1>8 DEF Account!Next

LEMMA ReversingUndoes ==
  ASSUME TypeOK, NEW p \in Payment, Reverse(p)
  PROVE  Account!Next \/ UNCHANGED Account!vars
<1>1. pay \in [Payment -> PayType] /\ pay' = [pay EXCEPT ![p].state = "reversed"]
      /\ pay[p].state = "active" /\ charged' = charged
  BY DEF TypeOK, Reverse
<1>2. pay'[p].state = "reversed" /\ pay'[p].items = pay[p].items
      /\ \A q \in Payment \ {p} : pay'[q] = pay[q]
  BY <1>1 DEF PayType
<1>3. SettlesNow' = [SettlesNow EXCEPT ![p] = {}] /\ Used' = Used
  BY <1>1, <1>2 DEF SettlesNow, Used
<1>4. CASE SettlesNow[p] = {}
  <2>1. SettlesNow' = SettlesNow
    BY <1>3, <1>4 DEF SettlesNow
  <2>2. QED
    BY <1>1, <1>3, <2>1 DEF Account!vars, SettlesNow, Used
<1>5. CASE SettlesNow[p] # {}
  BY <1>1, <1>3, <1>5 DEF Account!Next, Account!Undo, SettlesNow, Used
<1>6. QED
  BY <1>4, <1>5

LEMMA StepImplements ==
  ASSUME IInv, [Next]_vars
  PROVE  [Account!Next]_(Account!vars)
<1>0. TypeOK /\ MonthsOnce
  BY DEF IInv
<1>1. Step \/ UNCHANGED vars
  BY <1>0, NextIsStep
<1>2. CASE Charging
  <2>1. PICK New \in SUBSET (Debt \ charged) :
          charged' = charged \cup New /\ Free(New) /\ Account!OneEach(New)
    BY <1>2 DEF Charging
  <2>2. Account!Charge(New)
    <3>1. Account!OneEach(charged \cup New) /\ pay' = pay
      BY <1>0, <1>2, <2>1, FreeOneEach DEF MonthsOnce, Charging
    <3>2. QED
      BY <2>1, <3>1 DEF Account!Charge
  <2>3. QED
    BY <2>1, <2>2 DEF Account!Next
<1>3. CASE Paying
  BY <1>0, <1>3, SettlingPays DEF Paying
<1>4. ASSUME NEW r \in Receipt, Resolve(r) PROVE Account!Next
  BY <1>0, <1>4, ResolutionSettles, SettlingPays
<1>5. ASSUME charged' = charged, pay' = pay PROVE UNCHANGED Account!vars
  BY <1>5 DEF Account!vars
<1>6. ASSUME \/ \E r \in Receipt : Cancel(r)
             \/ \E S, months, d, amount : Capturing(S, months, d, amount)
             \/ AssessLateFees
             \/ \E o \in Debt : Waive(o) \/ Reprice(o)
             \/ \E d \in Day, v \in Rate : EnterQuote(d, v)
             \/ \E h \in Horizon : SetHorizon(h)
             \/ DayPasses
             \/ UNCHANGED vars
      PROVE charged' = charged /\ pay' = pay
  BY <1>6 DEF Cancel, Capturing, AssessLateFees, Waive, Reprice, EnterQuote, SetHorizon, DayPasses, vars
<1>7. QED
  BY <1>0, <1>1, <1>2, <1>3, <1>4, <1>5, <1>6, ReversingUndoes DEF Step

LEMMA InitImplements == Init => Account!Init
<1> SUFFICES ASSUME Init PROVE Account!Init
  OBVIOUS
<1>1. charged = {} /\ \A p \in Payment : pay[p].state = "none"
  BY DEF Init, NoPayment
<1>2. SettlesNow = [p \in Payment |-> {}] /\ Used = {}
  BY <1>1 DEF SettlesNow, Used
<1>3. QED
  BY <1>1, <1>2 DEF Account!Init, SettlesNow, Used

\* Every writer of the ledger does to a student's account what DebtAccount allows:
\* it charges, it pays the oldest open debts whole, it undoes a payment whole, or it
\* leaves the account alone; and no month is charged twice.
THEOREM ImplementsAccount == Spec => AccountContract
<1>1. Init => Account!Init
  BY InitImplements
<1>2. IInv /\ [Next]_vars => [Account!Next]_(Account!vars)
  BY StepImplements
<1>3. QED
  BY <1>1, <1>2, InvariantHolds, PTL DEF Spec, AccountContract, Account!Spec

=============================================================================
