SPECIFICATION Safety
CONSTANTS
    Names = {n1, n2}
    None = None
    Sweeper = Sweeper
    TTL = 1
    StaleThreshold = 3
    SweepAttempts = 3
    MaxCreates = 2
    MaxWrites = 0
    MaxFaults = 2
INVARIANTS
    SweepsApart
