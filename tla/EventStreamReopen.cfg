SPECIFICATION Spec
CONSTANTS
    Clients = {k1}
    MaxReplay = 2
    QueueCap = 2
    Attempts = 2
    NetCap = 2
    MaxEvents = 3
    MaxLosses = 1
    MaxSyncs = 0
    MaxReopens = 1
    MayStop = FALSE
    MayNotFit = FALSE
INVARIANTS ServedIsCanonical
CHECK_DEADLOCK FALSE
