SPECIFICATION Safety
CONSTANTS
    Names = {n1}
    None = None
    Sweeper = Sweeper
    TTL = 2
    StaleThreshold = 3
    SweepAttempts = 3
    MaxCreates = 1
    MaxWrites = 0
    MaxFaults = 1
PROPERTIES
    NamespaceLast
