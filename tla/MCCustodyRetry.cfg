SPECIFICATION Spec
CONSTANTS
    Procs = {p1}
    DrawnKeys = {k1, k2, k3, k4, k5}
    NoKey = NoKey
    KeyFile = FALSE
    Founders = {p1}
    Rotators = {p1}
    Reopens = FALSE
INVARIANT
    KeyRecoverable
