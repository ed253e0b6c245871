\* One check-in, two pages of the tablet, two requests in flight, two coaches.
SPECIFICATION Spec
CONSTANTS
  early = early
  late = late
  night = night
  ana = ana
  t1 = t1
  r1 = r1
  r2 = r2
  w1 = w1
  w2 = w2
  p1 = p1
  p2 = p2
  None = None
  Student = {ana}
  Class = {early, late, night}
  Tap = {t1}
  StudentOf <- MCStudentOf
  Opens <- MCOpens
  Closes <- MCCloses
  DayOf <- MCDayOf
  Request = {r1, r2}
  Worker = {w1, w2}
  Page = {p1, p2}
  MaxNow = 2
  MaxAge = 1
  MaxMoves = 2
  MaxEnv = 1
  Skew = {0, 1}
  MaxFaults = 1
SYMMETRY Symmetric
INVARIANTS
  TypeOK
  SettledOnce
  OpenWhenTapped
  ToldTruly
PROPERTIES
  PromiseKept
CHECK_DEADLOCK FALSE
