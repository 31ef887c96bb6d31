CONSTANTS
    s1 = s1
    t1 = t1
    t2 = t2
    x1 = x1
    x2 = x2
    Sessions = {s1}
    Turns = {t1, t2}
    Summaries = {x1, x2}
    SessionOf <- OneSession
    Nobody = Nobody
SPECIFICATION FairSpec
CHECK_DEADLOCK FALSE
INVARIANTS
    EntriesAreLive
    WorkIsCancellable
    HeardMeansFree
PROPERTIES
    TurnEndsForAll
