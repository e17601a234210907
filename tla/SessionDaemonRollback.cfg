SPECIFICATION Spec
CONSTANTS
    Clients = {c1, c2}
    Ids = {old, new}
    Stored = {old}
    MaxSessions = 1
    MaxClients = 2
    MaxEntries = 2
    MaxConnects = 3
    MaxTurns = 1
    MaxLate = 2
    Sweeper = Sweeper
    Shutdown = Shutdown
    Free = Free
    NoEntry = NoEntry
    NoRecord = NoRecord
PROPERTY FailedAttachIsLocal
CHECK_DEADLOCK FALSE
