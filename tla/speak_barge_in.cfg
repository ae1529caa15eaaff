SPECIFICATION FairSpec
CONSTANTS
    PREFETCH = 1
    Faults = {"failed"}
    Trips = {}
    MaxDeltas = 2
    MaxClears = 2
    MaxAudio = 1
INVARIANTS
    PairsSurviveClear
    ClearedIsABarrier
PROPERTY FinalizedEnds
CHECK_DEADLOCK FALSE
