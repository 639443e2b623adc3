SPECIFICATION SpecRequests
CONSTANTS
    None = None
    UINT16 = 65536
    Server = "s"
    Clients = {"a", "b"}
    Targets <- MCTargets
    TOKEN_TIMEOUT = 1
    Start = 2
    MaxTime = 6
    Workloads <- MCWorkloads
    Seqs <- MCSeqs
    Ports = {65535}
    Urls = {"u"}
    Neighbours <- MCNeighbours
    MAX_PEERS = 8
    VERSION = 1
    ProtocolError = 203
INVARIANTS RecentTokenAccepted WiresFaithful
PROPERTIES AckedIsFound StoredInTime
CHECK_DEADLOCK FALSE
