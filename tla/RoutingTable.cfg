CONSTANTS
    ID_BITS = 2
    Addrs = {2, 3}
    Peers <- MovingPeers
    LocalId <- Zeros
    BootstrapIds <- OneZero
    MAX_ENTRIES_PER_BUCKET = 1
    KBUCKET_MAX_TIMEOUTS = 0
    KBUCKET_OLD_AND_STALE_TIMEOUTS = 0
    KBUCKET_OLD_AND_STALE_TIME = 0
    ROUTING_TABLE_MAINTENANCE_INTERVAL = 1
    MaxTime = 2
    MaxFailures = 1
SPECIFICATION FairSpec
INVARIANTS TableSound
PROPERTIES NewcomersNeverEvictGood LoopsTerminate
