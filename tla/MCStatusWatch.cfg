SPECIFICATION Spec
CONSTANTS
    xr = xr
    Xr = Xr
    Pod = Pod
    Objs = {xr, p1, p2}
    Kinds = {Xr, Pod}
    KindOf <- MCKindOf
    Clients = {c1}
    Capacity = 2
    MaxChanges = 4
    MaxFaults = 2
INVARIANTS
    TypeOK
    SettledClientsAgree
    PodsLeave
PROPERTIES
    NeverBack
    KeepsUp
