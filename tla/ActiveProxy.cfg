CONSTANTS
    Conns = {c1}
    maxConnections = 1
    MAX_RELAY_WRITE_QUEUE_SIZE = 4
    MaxData = 5
    MaxLost = 2
    UINT32 = 4
    MaxFails = 2
    ClockStep = 1000
    MaxWait = 2000
SPECIFICATION FairSpec
INVARIANT RefsExact
PROPERTIES PausedResumes ServiceResumes
CHECK_DEADLOCK FALSE
