SPECIFICATION FairSpec
CONSTANTS
    r1 = r1
    r2 = r2
    Readers <- MCReaders
    MaxSeconds = 2
    Opaque = TRUE
    WallCap = 2
    Durations <- Gaps
    MaxChunks = 5
INVARIANTS
    TypeOK
    RetainsExactlyTheWindow
    NoLostWakeup
    DrainedReaderMissesNothing
PROPERTIES
    SkipsOnlyExpired
    ClosedRingDrains
CHECK_DEADLOCK FALSE
