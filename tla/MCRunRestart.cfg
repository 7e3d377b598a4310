SPECIFICATION Spec
CONSTANTS
    Runs = {r1}
    NoRun = NoRun
    Plans <- MCPlans
    StepIds <- MCIds
    MaxPlans = 1
    MaxCalls = 3
    MaxFaults = 1
INVARIANT
    RestartTransparent
CHECK_DEADLOCK FALSE
