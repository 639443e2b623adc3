CONSTANTS
    Ids <- SomeIds
    Addrs <- SomeIds
    AddrOf <- Address
    Dist <- Distance
    Start <- FromTable
    Suggestions <- Lists
    Impostors <- OneImpostor
    MAX_ENTRIES_PER_BUCKET = 1
    CANDIDATES = 2
    MAX_CONCURRENT_TASK_REQUESTS = 2
SPECIFICATION FairSpec
INVARIANT WaitsForAnswer
PROPERTIES AskedSparingly LookupEnds
CHECK_DEADLOCK FALSE
