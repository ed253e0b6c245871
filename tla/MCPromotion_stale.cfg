SPECIFICATION Spec
CONSTANTS
  kids = kids
  adult = adult
  grey = grey
  brown = brown
  black = black
  None = None
  Track = {kids, adult}
  Legacy = {adult}
  Rank = {grey, brown, black}
  TrackOf <- MCTrackOf
  NextOf <- MCNextOf
  ModeOf <- MCModeOf
  MaxStripes <- MCMaxStripes
  PerStripe <- MCOne
  ForExam <- MCOne
  Months <- MCOne
  Destination <- MCDestination
  Row = {1}
  Staff = {w1, w2}
  InstantsPerDay = 2
  Late = 0
  MaxNow = 1
SYMMETRY Symmetric
PROPERTIES
  EligibleAtWrite
CHECK_DEADLOCK FALSE
