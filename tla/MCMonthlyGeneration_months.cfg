\* One runner, three months, the first one as much as two months behind: which row is visited next decides who is ever billed.
SPECIFICATION LiveCalendarSpec
CONSTANTS
  Student = {1}
  FirstStudents = {1}
  Month = {1, 2, 3}
  Start = 1
  Runner = {r1}
  Poison = {}
  PageSize = 2
  StudentsPerVisit = 2
  DiscoveryLimit = 1
  RolloverRows = 1
  MaxAttempts = 1
  MaxFaults = 1
  MaxEnv = 1
  r1 = r1
  None = None
INVARIANTS
  RowsWithoutGap
PROPERTIES
  EveryoneBilled
