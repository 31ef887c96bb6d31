CONSTANTS
    s1 = s1  s2 = s2  f = f  g = g  a = a  b = b
    ToolSessions = {s1, s2}
    Paths = {f, g}
    Lines = {a, b}
    Gone = Gone
    None = None
    Starts <- MCStarts
    ToolRequests <- MCRequests
    MaxCalls = 2
    MaxOutside = 1
    MaxTime = 1
SPECIFICATION ToolsSpec
INVARIANT PatchIsAtomic
