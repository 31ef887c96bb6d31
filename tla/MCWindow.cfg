CONSTANTS
    TermRequests = {q1, q2}
    TermKeys = {"tab", "enter", "a", "front", "list", "help"}
    NoRequest = NoRequest
    TermBuffer = 1
    TermRoom = 1
    TermMaxKeys = 2
    ca = ca
    cb = cb
    call = call
    nested = nested
    u1 = u1
    u2 = u2
    a1 = a1
    t1 = t1
    d1 = d1
    d2 = d2
    ChatChats = {ca, cb}
    Script <- MCScript
    Nobody = Nobody
    ChatBuffer = 1
    MaxSelects = 3
    MaxSizes = 1
    MaxAttachments = 1
    MaxPrompts = 2
    MaxSessions = 2
    MaxAdded = 2
    MaxSwitches = 2
    MaxExtras = 2
    WinKeys = {"ctrl+c", "ctrl+s", "ctrl+k", "ctrl+o", "ctrl+t", "ctrl+f", "ctrl+l", "ctrl+h",
               "esc", "enter", "tab", "y", "i"}
    WinMaxKeys = 3
    WinMaxEvents = 1
    Fields = 2
    Paths = {p1, p2}
    Contents = {c1, c2}
    SideSessions = {s1, s2}
    Unchanged = Unchanged
    MaxRecords = 3
    SideMaxSelects = 2
    MaxSeconds = 2
SPECIFICATION Spec
SYMMETRY Symmetric
CHECK_DEADLOCK FALSE
INVARIANTS
    VerdictWasMeant
    WindowIsCurrent
    PromptsArrive
    WindowsTellTheTruth
    SidebarShowsChanges
