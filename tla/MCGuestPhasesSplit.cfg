SPECIFICATION Safety
CONSTANTS
    Records = {r1, r2, r3}
    Names = {n1}
    None = None
    Mutexes = {m1, m2, m3}
    Keys = {k1}
    Reset = Reset
    Places = 4
    MaxWrites = 3
    MaxAsks = 4
    MaxLives = 1
    MaxFaults = 1
PROPERTIES
    TimesKept
