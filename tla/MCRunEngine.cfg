SPECIFICATION FairSpec
CONSTANTS
    Runs = {r1, r2}
    NoRun = NoRun
    Plans <- MCPlans
    StepIds <- MCIds
    MaxPlans = 1
    MaxCalls = 3
    MaxFaults = 1
INVARIANTS
    TypeOK
    IndexIsProjection
    EffectsAtMostOnce
    EffectsApproved
    CardIsForNextStep
    SucceededSettled
PROPERTIES
    StartedRunsEnd
CHECK_DEADLOCK FALSE
