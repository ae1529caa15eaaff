SPECIFICATION FairSpec
CONSTANTS
  Dialects <- BothDialects
  Credit = 2
  Floor = 1
  MaxUp = 1
  MaxDown = 2
  MaxCheckpoints = 1
INVARIANTS
    BillAddsUp
PROPERTIES
    EndsWhenItMust
CHECK_DEADLOCK FALSE
