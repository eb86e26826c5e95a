SPECIFICATION Spec
CONSTANTS
    Sender = {watcher}
    Conn = {}
    NoConn = none
    Capacity = 1
    MaxMisreads = 2
INVARIANTS
    TypeOK
    NoStaleMark
    SeededOnce
PROPERTIES
    ShutdownEnds
    OlsrdComesBack
