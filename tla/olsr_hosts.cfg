\* Every hosts file of up to four lines with every services file of up to two.
SPECIFICATION Spec
CONSTANTS
    Name = {a, b}
    IP = {ip1, ip2}
    NoIP = nil
    MaxLines = 4
    MaxServices = 2
SYMMETRY Sym
CHECK_DEADLOCK FALSE
INVARIANTS
    ChildrenComplete
    TotalAddsUp
    ServicesOnce
    PagesCover
