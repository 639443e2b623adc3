SPECIFICATION MCSpec
CONSTANTS
    ID_BYTES = 2
    BYTE_BITS = 2
    maxEntries = 2
    BootstrapNodes <- MCBootstrapNodes
    Self <- MCSelf
    Known <- MCKnown
    MaxBuckets = 5
    PACKET_HEADER_BYTES = 3
    MaxSize = 4
    MaxPackets = 3
    Ids = {i1, i2, i3}
    Addrs = {a1, a2, a3}
    MAX_ENTRIES_PER_BUCKET = 2
    KBUCKET_MAX_TIMEOUTS = 1
    KBUCKET_OLD_AND_STALE_TIMEOUTS = 0
    KBUCKET_OLD_AND_STALE_TIME = 0
    MaxTime = 3
    MaxFailures = 2
    Threads = {x, y}
    ttl = 2
    Octets = {0, 1, 57, 58, 255}
    Chars = {0, 1, 57, 58, 59}
    MaxBytes = 4
    MaxChars = 5
    Ports = {1, 256}
    MaxInserted = 3
SYMMETRY Symmetry
INVARIANTS
    AnswersClosest
    BucketsExact
    PacketsWhole
    ListImplementsSet
    SealsOpen
    TextsExact
    AddressesExact
CHECK_DEADLOCK FALSE
