SPECIFICATION Spec
CONSTANTS
    r1 = r1
    i1 = i1
    d1 = d1
    k1 = k1
    k2 = k2
    k3 = k3
    k4 = k4
    c1 = c1
    c2 = c2
    Conns = {c1, c2}
    Runs = {r1}
    Intents = {i1}
    Decisions = {d1}
    Keys = {k1, k2, k3, k4}
    Args <- MCArgs
    EventIds <- MCEventIds
    Commands <- MCCommands
    NoKey = NoKey
    NoEvent = NoEvent
    NoConn = NoConn
    NoCmd = NoCmd
INVARIANTS
    TypeOK
    ChainLinked
    ProjectionMatchesLog
    KeySpentOnce
    OutboxMatchesLog
    AckDurable
PROPERTY
    ImplementsLedger
SYMMETRY MCSymmetry
CONSTRAINT MCOneGroup
