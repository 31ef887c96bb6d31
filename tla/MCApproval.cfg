CONSTANTS
    r1 = r1
    r2 = r2
    r3 = r3
    editA = editA
    bashB = bashB
    s1 = s1
    s2 = s2
    Requests = {r1, r2, r3}
    Scopes = {editA, bashB}
    Sessions = {s1}
    ScopeOf <- MCScopeOf
    SessionOf <- MCOneSession
    Headless <- Nobody
    Answerers = {a1, a2}
    QueueSize = 2
    NoJob = NoJob
    Offered <- AnswersThatCount
    f = f
    g = g
    a = a
    b = b
    ToolSessions = {s1, s2}
    Paths = {f, g}
    Lines = {a, b}
    Gone = Gone
    None = None
    Starts <- MCStarts
    ToolRequests <- MCRequests
    MaxCalls = 2
    MaxOutside = 1
    MaxTime = 1
SPECIFICATION MCSpec
CHECK_DEADLOCK FALSE
INVARIANTS
    VerdictHasAuthority
    DeniedStaysDenied
    PendingIsLive
    DeniedPatchChangesNothing
    HistoryHasBoth
PROPERTIES
    ImplementsApproval
    OverwritesOnlyKnown
