SPECIFICATION MCSpec
CONSTANTS
    Fds = {1, 2, 3}
    NoFd = 0
    MaxServers = 2
    p = p
    q = q
    OneShot = {x}
    Periodic = {p, q}
    Delays = {1, 2}
    MaxLag = 2
    a = a
    b = b
    c = c
    d = d
    r = r
    Nodes = {a, b, c, d}
    Answer <- MCAnswer
    Bootstraps = {a, d}
    Live = {a, b, c}
    Questions = {q, r}
    CallTimeout = 2
    RequestInterval = 1
    Timeout = 5
    NodeLimits = {3, 9}
INVARIANTS OwnsItsSockets CrawlComplete
PROPERTIES StopReturns JobsInTime CrawlEnds
CHECK_DEADLOCK FALSE
