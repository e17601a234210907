SPECIFICATION FairSpec
CONSTANTS
    Clients = {k1}
    MaxReplay = 1
    QueueCap = 1
    Attempts = 2
    NetCap = 2
    MaxEvents = 3
    MaxLosses = 1
    MaxSyncs = 1
    MaxReopens = 1
    MayStop = TRUE
    MayNotFit = TRUE
INVARIANTS TypeOK NeverTorn NothingLost
PROPERTIES CatchesUp LinksSettle
CHECK_DEADLOCK FALSE
