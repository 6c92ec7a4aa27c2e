SPECIFICATION ManagerSpec
CONSTANTS
    s1 = s1 u1 = u1 r1 = r1 r2 = r2 t1 = t1
    None = None
    SharedProc <- OneShared
    RoundRobin <- OneRobin
    User = {u1}
    Slot = {r1, r2}
    TimerSlot = {t1}
    Proc <- Procs
    Scenes <- SafetyScenes
    MaxSpawn = 2
    MaxKill = 1
INVARIANT KilledBeforeGoingOn
SYMMETRY Requests
CHECK_DEADLOCK FALSE
