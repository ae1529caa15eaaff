SPECIFICATION FairSpec
CONSTANTS
    N = 2
    Timed = {1, 2}
    RawSend = {1}
    Endpointing = {}
    Faults <- GatewayStaysUp
    Trips = {"audio_timeout"}
    MaxSeconds = 3
    Opaque = FALSE
    WallCap = 1
    Durations = {1}
    MaxChunks = 3
INVARIANTS
    TypeOK
    SuppressedWasDelivered
    DoneMeansAllHeard
    LabelsAreTrue
    ClientAndBillAgree
PROPERTIES
    
    FinalizedEnds
CHECK_DEADLOCK FALSE
