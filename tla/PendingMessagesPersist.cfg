SPECIFICATION PendingSpec
CONSTANTS
    a1 = a1
    i1 = i1
    Asap <- MCOneAsap
    WhenIdle <- MCIdle
    MaxResponses = 1
    MaxRuns = 1
CHECK_DEADLOCK FALSE
INVARIANT PersistFindsResponse
