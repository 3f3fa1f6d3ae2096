SPECIFICATION PartsSpec
CONSTANTS
    MaxRuns = 2
    Requests <- MCRequests
    Process <- MCProcess
    MaxSets = 3
    MaxFailures = 1
    Ids <- MCIds
    FittingIds = {2}
    Capacity = 2
    MaxMessages = 5
    MaxEdits = 1
    Calls = {c1, c2}
    Texts = {t1}
    Prompts = {p1}
    Waiters = {}
    MaxSpeech = 1
    MaxInputs = 1
    MaxDrops = 1
    Parts <- MCParts
    Models <- MCModels
    Size <- MCSize
    MaxSteps = 3
    MaxAgain = 1
CHECK_DEADLOCK FALSE
INVARIANTS
    AllTypesOK
    NeverSpendsTwice
    ReplaysFreshSet
    WaitsForFlight
    HistoriesValid
    BatchesSound
    UsedWhileOpen
PROPERTIES
    CacheStable
    Released
