SPECIFICATION Spec
CONSTANTS
    PREFETCH = 1
    Faults = {"failed", "cancelled"}
    Trips = {"audio_timeout"}
    MaxDeltas = 3
    MaxClears = 1
    MaxAudio = 1
INVARIANTS
    TypeOK
    AudioInTextOrder
    DoneMeansAllVoiced
    EachRunIsCountedOnce
CHECK_DEADLOCK FALSE
