SPECIFICATION FairSpec
CONSTANTS
  Vendors <- Dialects
  Chunks = 2
  AckWindow = 1
  MaxSilence = 1
  Termination <- NoChunks
  Answers = TRUE
INVARIANTS
    WordsAreKept

    
CHECK_DEADLOCK FALSE
