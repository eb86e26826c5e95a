\* A wireguard and two vtun interfaces that go away: the sweep over a slice that
\* shrinks under it skips some, meets others twice, and comes back to them.
SPECIFICATION FairSpec
CONSTANTS
    Tunnel = {t1, t2, t3}
    NoTunnel = NoTunnel
    Server = {t1}
    Legacy = {t2, t3}
    Slot = {1}
    MaxIndex = 1
    Olsr = FALSE
    Stale = {}
    Unstable = {t1, t2, t3}
    Deletes = {}
    Stops = FALSE
    Failures = FALSE
INVARIANT MarkedOnce
PROPERTY GoneIsUntracked
CHECK_DEADLOCK FALSE
