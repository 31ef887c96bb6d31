CONSTANTS
    s1 = s1
    t1 = t1
    t2 = t2
    x1 = x1
    x2 = x2
    Sessions = {s1}
    Turns = {t1, t2}
    Summaries = {}
    SessionOf <- OneSession
    Nobody = Nobody
SPECIFICATION Spec
CHECK_DEADLOCK FALSE
INVARIANTS
    OneTurnPerSession
