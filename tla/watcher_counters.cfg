\* One tunnel: counters that overlap, OLSRWatcher, a DELETE, Stop, a database that fails.
SPECIFICATION Spec
CONSTANTS
    Tunnel = {t1}
    NoTunnel = NoTunnel
    Server = {t1}
    Legacy = {}
    Slot = {1, 2}
    MaxIndex = 3
    Olsr = TRUE
    Stale = {t1}
    Unstable = {t1}
    Deletes = {t1}
    Stops = TRUE
    Failures = TRUE
INVARIANTS
    TrackedHaveCounters
    StopsCounting
CHECK_DEADLOCK FALSE
