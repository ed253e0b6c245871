SPECIFICATION Spec
CONSTANTS
  kids = kids
  adult = adult
  grey = grey
  brown = brown
  black = black
  None = None
  Track = {kids, adult}
  Legacy = {adult}
  Rank = {grey, brown, black}
  TrackOf <- MCTrackOf
  NextOf <- MCNextOf
  ModeOf <- MCModeOf
  MaxStripes <- MCMaxStripes
  PerStripe <- MCOne
  ForExam <- MCTwo
  Months <- MCOne
  Destination <- MCDestination
  Row = {1, 2}
  Staff = {w1, w2}
  InstantsPerDay = 1
  Late = 1
  MaxNow = 2
SYMMETRY Symmetric
INVARIANTS
  TypeOK
  HistoryIsAChain
  EvidenceOnce
PROPERTIES
  ProgressIsKept
CHECK_DEADLOCK FALSE
