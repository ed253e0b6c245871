\* Two overlapping runners over one month: student 1 kills every process that visits
\* it, student 2, in the middle of the id order, may appear after the pass began; one
\* fault and one outside change.
SPECIFICATION LiveWalkSpec
CONSTANTS
  Student = {1, 2, 3}
  FirstStudents = {1, 3}
  Month = {1}
  Start = 1
  Runner = {r1, r2}
  Poison = {1}
  PageSize = 2
  StudentsPerVisit = 2
  DiscoveryLimit = 1
  RolloverRows = 1
  MaxAttempts = 1
  MaxFaults = 1
  MaxEnv = 1
  r1 = r1
  r2 = r2
  None = None
INVARIANTS
  TypeOK
  Tally
  Contiguous
  CoveredIsCovered
  IInv
PROPERTIES
  EveryoneBilled
  PassesKeepEnding
  BilledUnderItsLease
  PassContract
