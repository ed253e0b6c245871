\* Two check-ins in one queue, one page; no corrections.
SPECIFICATION LiveSpec
CONSTANTS
  early = early
  late = late
  night = night
  ana = ana
  t1 = t1
  t2 = t2
  r1 = r1
  r2 = r2
  w1 = w1
  p1 = p1
  None = None
  Student = {ana}
  Class = {early, late}
  Tap = {t1, t2}
  StudentOf <- MCStudentOf
  Opens <- MCOpens
  Closes <- MCCloses
  DayOf <- MCDayOf
  Request = {r1, r2}
  Worker = {w1}
  Page = {p1}
  MaxNow = 1
  MaxAge = 1
  MaxMoves = 0
  MaxEnv = 1
  Skew = {0, 1}
  MaxFaults = 1
PROPERTIES
  QueueDrains
CHECK_DEADLOCK FALSE
