SPECIFICATION HubSpec
CONSTANTS
    Sender = {watcher}
    Conn = {c1, c2}
    NoConn = none
    Capacity = 1
CHECK_DEADLOCK FALSE
INVARIANTS
    CountMatches
    OwnForwarder

    
