SPECIFICATION AllSpec
CONSTANTS
    c1 = c1
    c2 = c2
    c3 = c3
    c4 = c4
    c5 = c5
    org = org
    key = key
    Clients <- MCClients
    Scopes = {org, key}
    ScopeOf <- MCScopeOf
    SpeakClients <- MCSpeakClients
    Limit = 2
    ProbeFaults = TRUE
    Parts <- MCParts
    SinkPart = 2
    SinkChunks = 7
    SinkFaults = 3
    BatchPayloads <- MCPayloads
    BatchSeconds = 3
    BatchPolls = 2
    SpeechChunks = 3
    AskedRates = {0, 8000, 16000, 22050, 24000, 32000, 44100, 48000}
    ReportTokens = 1
INVARIANTS
    PartsTypeOK
    CapHolds
    NothingIsHeldForGood
    StoredAsReceived
    
    
    CutsLoseNothing
PROPERTIES
    EveryPartEnds
CHECK_DEADLOCK FALSE
