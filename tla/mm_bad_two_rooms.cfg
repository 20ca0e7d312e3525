SPECIFICATION Spec
CONSTANTS
    a = a
    b = b
    c = c
    ta = ta
    tb = tb
    tc = tc
    ta2 = ta2
    Users = {a, b, c}
    NoUser = NoUser
    Requests = {ta, tb, tc}
    Owner <- ThreeTabs
    Reaper = Reaper
    NoRequest = NoRequest
    MaxRooms = 2
    Events = {}
INVARIANTS
    OneRoomPerUser
