SPECIFICATION Spec
CONSTANTS
    Procs = {p1, p2}
    t1 = t1
    t2 = t2
    c1 = c1
    c2 = c2
    Tasks = {t1, t2}
    Cmds = {c1, c2}
    Options <- MCOptions
    Outcomes = {ok, ko}
    MaxRuns = 3
VIEW MCView
SYMMETRY MCSymmetry
INVARIANTS
    TypeOK
    ReportsTruthful
    EnforcementTruthful
PROPERTIES
    ImplementsAuditedEffects
CHECK_DEADLOCK FALSE
