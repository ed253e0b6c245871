SPECIFICATION Spec
CONSTANTS
  Id = {i1, i2}
  desk = desk
  Card = {k1}
  Call = {c1, c2}
  OperationOf <- AllOrdinary
  NoId = NoId
  NoCard = NoCard
SYMMETRY Symmetry
INVARIANTS RefusalIsDefinitive
