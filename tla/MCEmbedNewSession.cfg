CONSTANTS
    a1 = a1
    a2 = a2
    s1 = s1
    Asks = {a1, a2}
    Stored = {s1}
    NoSession = NoSession
    MaxCalls = 1
    MaxRounds = 1
SPECIFICATION Spec
CHECK_DEADLOCK FALSE
INVARIANT EmptySessionStarts
