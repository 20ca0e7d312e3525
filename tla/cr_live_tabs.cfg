SPECIFICATION FairSpec
CONSTANTS
    a = a
    b = b
    a1 = a1
    a2 = a2
    a3 = a3
    b1 = b1
    Users = {a, b}
    Sockets = {a1, a2}
    UserOf <- TwoTabs
    NoSocket = NoSocket
    IdleTicks = 1
    Events = {"post", "hangup", "crash", "reap"}
PROPERTIES
    OneSocketStays
    IdleRoomEnds
CHECK_DEADLOCK FALSE
