SPECIFICATION ServicesSpec
CONSTANTS
    LockOnly = LockOnly
    PoolOnly = PoolOnly
    SyncOnly = SyncOnly
    VoiceOnly = VoiceOnly
    ChatOnly = ChatOnly
    TrainingOnly = TrainingOnly
    JobTypes <- Types
    Tasks <- Specs
    MaxJobs = 3
    MaxFaults = 1
    Client = {q1, q2, q3}
    NoClient = NoClient
    MaxAcquires = 5
    Calls = {q1, q2, q3, q4}
    Nesting = {q1}
    Limit = 2
    Keys = {k1}
    Values = {v1}
    NoValue = NoValue
    LocalKeys = {k1}
    Replicas = {r1}
    Clients = {c1}
    MaxTime = 2
    MaxPush = 1
    MaxPackets = 4
    Conversations = {t1, t2}
    NoConversation = NoConversation
    MaxSaid = 2
    MaxPings = 1
    MaxCloses = 2
CHECK_DEADLOCK FALSE
CONSTRAINT FirstIsPartial
INVARIANTS StartedIsRun
PROPERTIES ImplementsFifoMutex EveryCallReturns ReplicasConverge VoiceEnds PageCatchesUp QueueDrains
