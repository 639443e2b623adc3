CONSTANTS
    Conns = {c1, c2}
    maxConnections = 2
    MAX_RELAY_WRITE_QUEUE_SIZE = 1
    MaxData = 1
    MaxLost = 0
    UINT32 = 4
    MaxFails = 2
    ClockStep = 2000
    MaxWait = 2000
SPECIFICATION Spec
INVARIANT PoolExact
CHECK_DEADLOCK FALSE
