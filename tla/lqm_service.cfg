\* One neighbour, pruned and met again, on an interface or one that is not
\* supported; babeld may hang and the shutdown may come at any time.
SPECIFICATION FairSpec
CONSTANTS
    Mac = {n1}
    Device = {dtd, eth}
    Supported = {dtd}
    RefreshBase = 2
    RefreshRange = 0
    RefreshRetry = 2
    LastSeenTimeout = 1
    LastUpMargin = 0
    Full = 2
    Penalty = 2
    PingLimit = 1
    HttpLimit = 1
    MaxTime = 3
    Delivered = {0, 2}
    Metrics = {1}
    MaxRoutes = 1
    Hangs = TRUE
    Stops = TRUE
INVARIANTS
    RefreshesBounded
    RoutesAddUp
    NeighborsWritten
    StopIsFinal
PROPERTIES
    UpOnlyWithoutBabel
    StopReturns
CHECK_DEADLOCK FALSE
