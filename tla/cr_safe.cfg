SPECIFICATION Spec
CONSTANTS
    a = a
    b = b
    a1 = a1
    a2 = a2
    a3 = a3
    b1 = b1
    Users = {a, b}
    Sockets = {a1, a2, a3}
    UserOf <- Tabs
    NoSocket = NoSocket
    IdleTicks = 1
    Events = {"hangup", "slow", "reap"}
SYMMETRY TabSymmetry
INVARIANTS
    TypeOK
    SeatsLive
    NoticeNotLost
    ReplacedLeavesRoomAlone
    OneWatchdogEnds
CHECK_DEADLOCK FALSE
