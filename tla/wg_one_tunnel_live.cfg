\* Two handlers and startup/shutdown on one tunnel: every call returns.
SPECIFICATION FairSpec
CONSTANTS
    t1 = t1
    t2 = t2
    a1 = a1
    a2 = a2
    Tunnel = {t1}
    NoTunnel = NoTunnel
    Caller = {a1, a2}
    Worker = {w1, w2}
    Stored = {}
    Calls <- AnyCalls
    ShortKey = {}
    Failures = FALSE
    Timeouts = FALSE
PROPERTIES EveryCallReturns
CHECK_DEADLOCK FALSE
