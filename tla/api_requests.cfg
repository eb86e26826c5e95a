\* One request at a time, of every kind; every statement, peer operation and
\* reload may fail, and the addresses run out.
SPECIFICATION Spec
CONSTANTS
    Byte = 8
    PortSpace = 5
    StartAddress <- StartBeforeCarry
    StartPort = 3
    Handler = {h1}
    Host = {A, B}
    ClientHost = {C}
    NoHost = NoHost
    ClientAddress <- ClientCarries
    Requests = {"server", "client", "patch", "delete"}
    MaxID = 2
    Failures = TRUE
SYMMETRY HostSymmetry
INVARIANTS
    ServerBlocksDisjoint
    PeersMatchRows
    RoutersMatchRows
CHECK_DEADLOCK FALSE
