SPECIFICATION Spec
CONSTANTS
  Id = {i1, i2}
  desk = desk
  k1 = k1
  k2 = k2
  Card = {desk, k1, k2}
  Call = {c1, c2}
  OperationOf <- Prepayments
  NoId = NoId
  NoCard = NoCard
SYMMETRY Symmetry
INVARIANTS TypeOK OneOutcome AttemptsAreKept NothingOutstanding
PROPERTIES RegisterContract
