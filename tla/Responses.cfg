SPECIFICATION PartsSpec
CONSTANTS
    Strategies <- MCAll
    Kinds <- MCAllKinds
    Streaming <- MCBoth
    Sizes <- MCSizes
    MaxRetries = 1
    ToolCallLimit = 2
    a1 = a1
    a2 = a2
    i1 = i1
    Asap <- MCAsap
    WhenIdle <- MCIdle
    MaxResponses = 2
    MaxRuns = 2
    c1 = c1
    c2 = c2
    Calls <- MCCalls
    Deferrers = {"none", "hook", "wrapper"}
    HandlerCount = 2
    MaxResumes = 2
SYMMETRY MCSymmetry
INVARIANTS
    TypesOK
    ResultJustified
    BarrierAlone
    AnswersEveryCall
    LimitHeld
    ResultDeliversAll
    OnceInOrder
    EachCallOnce
    DecisionsHonoured
PROPERTIES
    ConcludeKeepsQueue
