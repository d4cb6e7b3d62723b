SPECIFICATION Spec
CONSTANTS
    a = a
    b = b
    x = x
    c = c
    NoFile = NoFile
    NoCall = NoCall
    Paths <- MCPaths
    Contents <- MCContents
    Calls = {c1, c2}
    Ops <- MCOps
    MaxAttempts = 2
    MaxOutside = 2
    MaxFaults = 1
INVARIANTS
    TypeOK
    OnlyOutsidersDefeat
PROPERTIES
    AtomicWrites
    EveryCallReturns
