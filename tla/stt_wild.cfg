SPECIFICATION Spec
CONSTANTS
    N = 3
    Timed = {1, 3}
    RawSend = {2}
    Endpointing = {3}
    Faults <- AnyFault
    Trips = {}
    MaxSeconds = 1
    Opaque = FALSE
    WallCap = 1
    Durations = {1}
    MaxChunks = 2
INVARIANTS
    
    UsageExactlyOnce
    AtMostOneUpstream
PROPERTIES
    KeepsProtocol
CHECK_DEADLOCK FALSE
