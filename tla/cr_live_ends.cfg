SPECIFICATION FairSpec
CONSTANTS
    a = a
    b = b
    a1 = a1
    a2 = a2
    a3 = a3
    b1 = b1
    Users = {a, b}
    Sockets = {a1, b1}
    UserOf <- OneEach
    NoSocket = NoSocket
    IdleTicks = 1
    Events = {"skip", "end", "hangup"}
PROPERTIES
    DeadRoomEmpties
    AbandonedRoomEnds
CHECK_DEADLOCK FALSE
