SPECIFICATION Spec
CONSTANTS
    Creators = {c1, c2}
    Readers = {r1}
    NoOne = NoOne
    Names = {n1, n2, n3}
    NoName = NoName
    Slots = {s1, s2}
    NoSlot = NoSlot
    MaxCount = 2
    Troubles <- MCAllTroubles
    MaxAsks = 3
INVARIANTS
    TypeOK
    SlotsUniqueUnlessUpset
    CapRespected
PROPERTIES
    NoTakeover
SYMMETRY Symmetric
CONSTRAINT OneTrouble
