CONSTANTS
    Nodes <- TwoNodes
    Addrs <- ThreeAddrs
    Owner <- Owners
    Address <- Addresses
    FirstTxid <- SameTxid
    STALL_TIME = 1
    RPC_CALL_TIMEOUT_MAX = 2
    STRAY_TIME = 1
    HasIPv6 = TRUE
    CanBlock = TRUE
    Targets <- OneCaller
    MaxCalls = 1
    MaxTime = 3
SPECIFICATION FairSpec
INVARIANT OutcomesJust
PROPERTY KeepsContract
CHECK_DEADLOCK FALSE
