SPECIFICATION Spec
CONSTANTS
    Records = {r1, r2, r3}
    Names = {n1}
    None = None
    Mutexes = {m1, m2, m3}
    Keys = {k1}
    Reset = Reset
    Places = 2
    MaxWrites = 2
    MaxAsks = 3
    MaxLives = 2
    MaxFaults = 1
INVARIANTS
    TypeOK
    PlacesMatch
    LocksForgotten
PROPERTIES
    TimesKeptUnlessSplit
    PlacesComeBack
