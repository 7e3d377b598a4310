SPECIFICATION ToolSpec
CONSTANTS
    d1 = d1
    d2 = d2
    p1 = p1
    a = a
    b = b
    hook = hook
    x = x
    y = y
    Digests = {d1, d2}
    Plans = {p1}
    Refs = {}
    Effects <- MCEffects
    Grants = {}
    Policies <- MCPolicies
    Tools <- MCTools
    Paths = {a, b, hook}
    Hidden = {hook}
    Contents = {x, y}
    Indexes = {"clean", "staged"}
    Starts <- MCStarts
    MaxTime = 0
    MaxCalls = 2
    MaxLives = 2
    MaxRuns = 2
    MaxUpsets = 1
VIEW MCView
INVARIANTS
    ToolTypeOK
    VerifiedTruthful
    FailedLeavesCheckpoint
CHECK_DEADLOCK FALSE
