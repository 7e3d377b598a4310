SPECIFICATION Spec
CONSTANTS
    d1 = d1
    d2 = d2
    p1 = p1
    p2 = p2
    r1 = r1
    Digests = {d1, d2}
    Plans = {p1, p2}
    Refs = {r1}
    Effects <- MCEffects
    Grants <- MCGrants
    Policies <- MCPolicies
    MaxTime = 1
    MaxCalls = 2
    MaxLives = 2
INVARIANTS
    TypeOK
    AnswerTruthful
    RanAsGoverned
PROPERTIES
    ImplementsAuditedEffects
CHECK_DEADLOCK FALSE
