SPECIFICATION Spec
CONSTANTS
    Names = {n1}
    None = None
    Sweeper = Sweeper
    TTL = 1
    StaleThreshold = 2
    SweepAttempts = 2
    MaxCreates = 2
    MaxWrites = 2
    MaxFaults = 1
INVARIANTS
    TypeOK
PROPERTIES
    NoEarlyCleanup
    NamespaceLastUnlessUpset
    AllCleanedUp
