\* Two pages at once, files that change during or after the first parse, one failure.
SPECIFICATION PolledSpec
CONSTANTS
    Request = {g1, g2}
    Again = {k1}
    MaxChanges = 1
    MaxFailures = 1
INVARIANTS
    FlagHeld
    NoLostChange
PROPERTIES
    PagesCatchUp
CHECK_DEADLOCK FALSE
