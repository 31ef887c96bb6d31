CONSTANTS
    MaxChanges = 3
    MaxEvents = 2
    MaxRegistrations = 1
    MaxTimers = 4
    MaxTurns = 2
    MaxRounds = 2
    MaxTasks = 1
    MaxSummaries = 1
    MaxRetries = 2
    MaxAttempts = 5
    MaxCalls = 2
    PatchFiles <- MCFiles
    Texts <- MCTexts
    chat1 = chat1
    chat2 = chat2
    talkA = talkA
    talkB = talkB
    GuiChats = {chat1, chat2}
    Conversations = {talkA, talkB}
    Talks <- MCTalks
    Leavers = {chat1}
    GuiRoom = 1
    GuiBuffer = 1
    GuiMaxStarts = 1
    ConfigWriters = {w1, w2}
    ConfigKeys = {"k1"}
    Urls = {"u1"}
    Themes = {"t1"}
    SettingTexts = {"", "k0", "k1", "u1", "t1"}
    Unset = Unset
    ConfigFiles <- MCConfigFiles
    MaxRequests = 2
    ConfigMaxStarts = 2
    f = f
    g = g
    a = a
    b = b
    x = x
    u = u
    Continued = {u}
    EditsPaths = {f, g}
    Gone = Gone
    Starts <- MCStarts
    EditsRequests <- MCRequests
    s1 = s1
    s2 = s2
    Deltas = {a, b}
    CallIDs = {f, g}
    Reasons = {s1, s2}
    PartsNone = PartsNone
    MaxSteps = 3
    Hidden = {1}
    Ignored = {2}
    LsIgnored = {2}
    Limit = 2
    Questions <- MCQuestions
    SayQuestions <- MCSayQuestions
    Callers = {a, b}
    SessionIds = {s1}
    RowIds = {f, g}
    Values = {chat1, chat2}
    Nothing = Nothing
    Enforced = {TRUE, FALSE}
    MaxOps = 4
SPECIFICATION Spec
CHECK_DEADLOCK FALSE
INVARIANTS
    NoChangeMissed
    SessionKeepsAll
    StreamEndsOnce
    ToolsAskFirst
    PatchDoesWhatItSays
    ClientsAreServedApart
    AcknowledgedIsKept
    EditsAreSimultaneous
    RowTellsAll
    SearchTellsAll
    ConversionsKeepAll
    OptionsReach
    StoreIsToldTruly
