SPECIFICATION Spec
CONSTANTS
    N = 2
    Timed = {1, 2}
    RawSend = {}
    Endpointing = {}
    Faults = {"reset"}
    Trips = {}
    MaxSeconds = 1
    Opaque = FALSE
    WallCap = 1
    Durations = {1}
    MaxChunks = 3
INVARIANTS
    LabelsAreTrue
CHECK_DEADLOCK FALSE
