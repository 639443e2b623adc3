SPECIFICATION Spec
CONSTANTS
    ValueIds = {v}
    PeerIds = {p, q}
    Delegated = {q}
    MAX_AGE = 3
    RE_ANNOUNCE_INTERVAL = 1
    MaxDelay = 1
    MaxSeq = 1
    MaxTime = 4
    MaxCalls = 1
    MaxRows = 1
    MaxRaceTime = 0
CONSTRAINTS FewRows EarlyRaces
INVARIANTS PersistentAlive TransactionsEnd
PROPERTY RowsKept
CHECK_DEADLOCK FALSE
