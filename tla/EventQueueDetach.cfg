SPECIFICATION Spec
CONSTANTS
    Loop = loop
    None = None
    t1 = t1
    t2 = t2
    o1 = o1
    Tools <- MCTools
    Outside <- MCNobody
    MaxEvents = 1
    MaxQueued = 3
CHECK_DEADLOCK FALSE
INVARIANT DetachmentObserved
