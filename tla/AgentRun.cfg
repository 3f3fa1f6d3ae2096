SPECIFICATION FairSpec
CONSTANTS
    None = None
    c1 = c1
    c2 = c2
    c3 = c3
    Callers <- MCThree
    MaxEvents = 2
CHECK_DEADLOCK FALSE
INVARIANT LockStep
INVARIANT NoStandoff
INVARIANT ClosedIsCancelled
PROPERTY IsIterator
PROPERTY CloseReturns
PROPERTY NextReturns
