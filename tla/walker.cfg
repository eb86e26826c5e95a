\* Three nodes, of which the first has no position; fetches and file operations may fail.
SPECIFICATION FairSpec
CONSTANTS
    a = a
    b = b
    c = c
    lan = lan
    Node = {a, b, c}
    Start = a
    Main = Main
    Alias = {lan}
    Hosts <- MeshHosts
    Located = {b, c}
    Leftover <- Leftovers
    Failures = TRUE
INVARIANTS
    WaitGroupCounts
    PublishedComplete
PROPERTIES
    WalkImplementsCrawl
    WalkEnds
CHECK_DEADLOCK FALSE
