SPECIFICATION Spec
CONSTANTS
    Events = {e1}
    Sweepers = {s1, s2}
    Deliveries = {w1}
    Retention = TRUE
    MaxTries = 2
    MaxAttempts = 2
    NoOne = NoOne
CHECK_DEADLOCK FALSE
SYMMETRY SweepSymmetry
INVARIANTS
    SendableIsComplete
PROPERTIES
    LeaseIsRespected
    KeepsPromise
