SPECIFICATION Spec
CONSTANTS
  Debt = {1, 2, 3}
  Monthly = {1, 3}
  Package = {2}
  Span <- MCSpan
  Coverage <- MCAheadCoverage
  Offer <- MCAheadOffer
  Day = {1, 2, 3}
  MonthOf <- MCThreeDays
  BackDays = 0
  Horizon = {0, 2}
  Tender = {2, 4}
  MaxMinor = 8
  Rate = {1, 2}
  RateUnit = 1
  Colon = 8
  ToColones = FALSE
  Payment = {1, 2}
  Receipt = {1}
  MaxEnv = 2
INVARIANTS TypeOK TenderIsTotal Permanent ReceiptOnce PrepaidAsCaptured
PROPERTIES AccountContract
CHECK_DEADLOCK FALSE
