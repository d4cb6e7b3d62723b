SPECIFICATION Spec
CONSTANTS
    Creators = {c1}
    Readers = {r1}
    NoOne = NoOne
    Names = {n1, n2}
    NoName = NoName
    Slots = {s1}
    NoSlot = NoSlot
    MaxCount = 1
    Troubles <- MCNoTroubles
    MaxAsks = 2
INVARIANTS
    CapHolds
