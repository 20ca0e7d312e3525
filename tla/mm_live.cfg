SPECIFICATION FairSpec
CONSTANTS
    a = a
    b = b
    c = c
    ta = ta
    tb = tb
    tc = tc
    ta2 = ta2
    Users = {a, b}
    NoUser = NoUser
    Requests = {ta, tb}
    Owner <- TwoTabs
    Reaper = Reaper
    NoRequest = NoRequest
    MaxRooms = 1
    Events = {"idle", "delete", "vanish", "sockets"}
PROPERTIES
    SearchersMeet
    WaiterToldOfRoom
    OrphanReaped
CHECK_DEADLOCK FALSE
