SPECIFICATION Spec
CONSTANTS
  Debt = {1, 2, 3}
  Monthly = {2, 3}
  Package = {}
  Span <- MCNoSpan
  Coverage <- MCCoverage
  Offer <- MCOffer
  Day = {1, 2, 3}
  MonthOf <- MCThreeDays
  BackDays = 2
  Horizon = {0}
  Tender = {3, 4, 8}
  MaxMinor = 8
  Rate = {1, 2}
  RateUnit = 1
  Colon = 8
  ToColones = TRUE
  Payment = {1, 2, 3}
  Receipt = {}
  MaxEnv = 1
INVARIANTS FeesAreLate FeesAgree NeverStuck
CHECK_DEADLOCK FALSE
