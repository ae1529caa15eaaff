SPECIFICATION FairSpec
CONSTANTS
  Streams <- BothStreams
  Timeouts = TRUE
  MaxTexts = 2
  MaxClears = 2
INVARIANTS
    BargeInIsClean
PROPERTIES
    ClientIsAnswered
CHECK_DEADLOCK FALSE
