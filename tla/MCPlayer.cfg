CONSTANTS
  kSlots = 2
  Images <- MCImages
  MaxCount = 1
  MaxPrepares = 0
  MaxSubmissions = 2
  frames = 4
  Span = 3
  Periods = 2
  MaxClock = 8
SPECIFICATION FairPlayer
INVARIANTS
  PlateKept
  PictureKept
  EveryFrameOnce
PROPERTIES
  OnTheClock
  RunEnds
CHECK_DEADLOCK FALSE
