SPECIFICATION FairSpec
CONSTANTS
    Events = {e1}
    Sweepers = {s1}
    Deliveries = {w1, w2}
    Retention = FALSE
    MaxTries = 2
    MaxAttempts = 3
    NoOne = NoOne
CHECK_DEADLOCK FALSE
INVARIANTS
    OutboxTypeOK
    NotifiedOnce
PROPERTIES
    PendingEnds
