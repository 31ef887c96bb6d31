CONSTANTS
    Callers = {c1}
    Waiters = {w1, w2}
    MaxAsked = 1
    Names = {n1, n2}
    MaxPanics = 1
    Calls = {b1, b2}
    QueueSize = 1
    MaxShells = 2
    chat1 = chat1
    chat2 = chat2
    talkA = talkA
    talkB = talkB
    GuiChats = {chat1, chat2}
    Conversations = {talkA, talkB}
    Talks <- MCTalks
    Leavers = {chat1}
    GuiRoom = 1
    GuiBuffer = 1
    GuiMaxStarts = 0
    r1 = r1
    r2 = r2
    editA = editA
    bashB = bashB
    s1 = s1
    s2 = s2
    Requests = {r1, r2}
    Scopes = {editA, bashB}
    Sessions = {s1, s2}
    ScopeOf <- MCScopeOf
    SessionOf <- MCSessionOf
    Headless <- MCHeadless
    Answerers = {x1}
    PermQueueSize = 1
    NoJob = NoJob
    Offered <- MCOffered
    Asks = {a1}
    Stored = {t1}
    NoSession = NoSession
    LibMaxCalls = 1
    LibMaxRounds = 1
SPECIFICATION Spec
CHECK_DEADLOCK FALSE
INVARIANTS
    ClientsOutliveWatchers
    ExecAnswersOwn
PROPERTIES
    CallReturns
    ShutdownEnds
    ExecReturns
    ConnectionsAreServed
    NobodyWaitsForGood
    CallersAreTold
