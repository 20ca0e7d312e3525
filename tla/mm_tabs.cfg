SPECIFICATION Spec
CONSTANTS
    a = a
    b = b
    c = c
    ta = ta
    tb = tb
    tc = tc
    ta2 = ta2
    Users = {a, b}
    NoUser = NoUser
    Requests = {ta, ta2, tb}
    Owner <- TabsOfA
    Reaper = Reaper
    NoRequest = NoRequest
    MaxRooms = 1
    Events = {"crash", "sockets", "idle"}
INVARIANTS
    ClaimsDisjoint
PROPERTIES
    PromiseKept
