SPECIFICATION FairSpec
CONSTANTS
    Prompts = {p1, p2}
    Cancellers = {c1}
    Clearers = {m1}
    Configurers = {k1}
    Waiters = {w1}
    NoOne = NoOne
    Unused = Unused
INVARIANTS TypeOK TurnIsAlone TerminalMatchesClaim
PROPERTIES CancelEndsTurn WaitIdleReturns
CHECK_DEADLOCK FALSE
