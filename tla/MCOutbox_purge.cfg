SPECIFICATION Spec
CONSTANTS
    Events = {e1}
    Sweepers = {s1}
    Deliveries = {w1}
    Retention = TRUE
    MaxTries = 1
    MaxAttempts = 2
    NoOne = NoOne
CHECK_DEADLOCK FALSE
SYMMETRY SweepSymmetry
INVARIANTS
    NotifiedOnce
