SPECIFICATION FrontFairSpec
CONSTANTS
    u1 = u1 u2 = u2 w1 = w1 w2 = w2
    User = {u1, u2}
    Shard = {s1}
    MaxConn = 2
    MaxSever = 1
    None = None
    Ws = {w1, w2}
    UserOf <- OneOwner
    Kind <- Kinds
    MaxMsg <- ShortSync
CONSTRAINT OneThingAtATime
INVARIANTS CachedIsOpen LostEngineClosesWebsocket ConversationInOrder
PROPERTIES EveryMessageArrives
CHECK_DEADLOCK FALSE
