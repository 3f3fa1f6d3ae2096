SPECIFICATION LoopSpec
CONSTANTS
    Runs <- MCRuns
    MaxTurns = 1
    MaxArrivals = 1
INVARIANT ResumesOnce
