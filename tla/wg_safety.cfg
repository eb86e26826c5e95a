\* Overlapping handlers, failures, timeouts and Stop.
SPECIFICATION Spec
CONSTANTS
    t1 = t1
    t2 = t2
    a1 = a1
    a2 = a2
    Tunnel = {t1, t2}
    NoTunnel = NoTunnel
    Caller = {a1}
    Worker = {w1, w2}
    Stored = {t2}
    Calls <- MixedCalls
    ShortKey = {t1}
    Failures = TRUE
    Timeouts = TRUE
SYMMETRY WorkerSymmetry
INVARIANTS
    TypeOK
    NoOrphanInterface
    ConfirmationsTruthful
    
CHECK_DEADLOCK FALSE
