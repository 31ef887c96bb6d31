CONSTANTS
    r1 = r1
    r2 = r2
    editA = editA
    bashB = bashB
    s1 = s1
    Requests = {r1, r2}
    Scopes = {editA, bashB}
    Sessions = {s1}
    ScopeOf <- MCPair
    SessionOf <- MCSessionOf
    Headless <- Nobody
    Answerers = {a1}
    QueueSize = 2
    NoJob = NoJob
    Offered <- EmbedAnswers
SPECIFICATION Spec
CHECK_DEADLOCK FALSE
INVARIANTS
    AllowSessionIsScoped
