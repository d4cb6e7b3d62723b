SPECIFICATION Safety
CONSTANTS
    xr = xr
    Xr = Xr
    Pod = Pod
    Objs = {p1}
    Kinds = {Pod}
    KindOf <- MCKindOf
    Clients = {c1}
    Capacity = 2
    MaxChanges = 2
    MaxFaults = 1
INVARIANTS
    NoLingeringPods
