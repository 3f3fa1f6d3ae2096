SPECIFICATION PartsSpec
CONSTANTS
    o1 = o1
    o2 = o2
    o3 = o3
    o4 = o4
    Ops <- MCOps
    Streams <- MCStreams
    MaxRunning = 2
    MaxQueued = 1
    NoLimit = NoLimit
    Watched <- MCWatched
    Chain <- MCChain
    Background = {"gpt", "grok"}
    MaxGenerations = 1
    MaxPolls = 2
    UsageLimit = 4
    MaxRuns = 2
    Calls = {c1}
    Texts = {t1}
    Prompts = {p1}
    Users = {w1}
    MaxInputs = 1
    MaxSpeech = 1
    MaxDrops = 1
INVARIANTS
    CountsExact
    WorkConserving
    JobsAccountedFor
    UsageCountedOnce
PROPERTIES
    AcquireReturns
    RequestEnds
    WaitReturns
