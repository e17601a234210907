SPECIFICATION FairSpec
CONSTANTS
    Persisters = {t1, p1}
    Turns = {t1}
    Attempts = 2
    ErrorKinds = {"retryable", "other"}
    MaySupersede = TRUE
    MayDelete = TRUE
    MayDrop = TRUE
    NoOne = NoOne
INVARIANTS TypeOK 
 
CHECK_DEADLOCK FALSE
