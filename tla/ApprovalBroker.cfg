SPECIFICATION FairSpec
CONSTANTS
    Calls = {c1}
    Clients = {k1, k2}
    OnceClients = {k1}
    AlwaysClients = {k2}
    AllowAlways = TRUE
    Frontends = {"daemon", "acp"}
INVARIANTS TypeOK NoRepeatedEvent RunsAsAnnounced ResolvedIsAnnouncedToAcp
PROPERTIES DeadlineFreesCall AlwaysTakesEffect
CHECK_DEADLOCK FALSE
