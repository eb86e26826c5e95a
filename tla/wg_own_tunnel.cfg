\* Two handlers, each with its own tunnel; no failure, no timeout.
SPECIFICATION Spec
CONSTANTS
    t1 = t1
    t2 = t2
    a1 = a1
    a2 = a2
    Tunnel = {t1, t2}
    NoTunnel = NoTunnel
    Caller = {a1, a2}
    Worker = {w1, w2, w3, w4}
    Stored = {t1, t2}
    Calls <- OwnTunnelCalls
    ShortKey = {}
    Failures = FALSE
    Timeouts = FALSE
SYMMETRY WorkerSymmetry
INVARIANTS
    ConfirmationsMatchWaiters
    NilMeansDone
CHECK_DEADLOCK FALSE
