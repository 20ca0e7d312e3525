SPECIFICATION FairSpec
CONSTANTS
    a = a
    b = b
    a1 = a1
    a2 = a2
    a3 = a3
    b1 = b1
    Users = {a, b}
    Sockets = {a1, a2, b1}
    UserOf <- Reloads
    NoSocket = NoSocket
    IdleTicks = 1
    Events = {}
PROPERTIES
    TimeoutReachesBoth
CHECK_DEADLOCK FALSE
