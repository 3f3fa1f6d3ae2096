SPECIFICATION Spec
CONSTANTS
    None = None
    c1 = c1
    c2 = c2
    c3 = c3
    Callers <- MCTwo
    MaxEvents = 2
CHECK_DEADLOCK FALSE
INVARIANT ErrCoversNext
