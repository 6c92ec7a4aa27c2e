SPECIFICATION WorkersSpec
CONSTANTS
    ProcessOnly = ProcessOnly
    ClusterOnly = ClusterOnly
    Proc = {s1, x}
    SharedProc = {s1}
    MaxSpawn = 2
    MaxKill = 2
    u1 = u1
    p1 = p1
    p2 = p2
    Users = {u1}
    Uid <- Uid1
    EndpointLists <- Lists
    Pods = {p1, p2}
    Slots = {1, 2}
    NoPod = NoPod
    MaxFaults = 1
CHECK_DEADLOCK FALSE
INVARIANTS OneServingChild EnginesAreKnown
PROPERTIES EveryKillSettles Served DeletedStops
