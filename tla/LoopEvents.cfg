SPECIFICATION PartsSpec
CONSTANTS
    Loop = loop
    None = None
    t1 = t1
    t2 = t2
    o1 = o1
    Tools <- MCTools
    Outside <- MCOutside
    MaxEvents = 2
    MaxQueued = 5
    Runs <- MCRuns
    MaxTurns = 1
    MaxArrivals = 1
SYMMETRY MCSymmetry
INVARIANTS
    SingleOwner
    NoStrand
    InOrder
    ListenersOnce
    UsageExact
    NewMessagesExact
    WithinLimits
PROPERTIES
    ReminderOnce
