SPECIFICATION FairSpec
CONSTANTS
    Calls = {"c1", "c2"}
    MaxSessions = 2
    MaxFails = 1
    Widths = {4, 8}
    Eps = 0
    MaxRows = 3
    MaxChanges = 2
    Events = {"network", "otherTab"}
    Lock = 1
    Clients = {"a", "b"}
    MaxClicks = 2
    MaxSends = 2
    MaxPartner = 1
    MaxReveals = 1
    Messages = {"m1"}
    Emoji = {"heart", "laugh"}
    MaxFrames = 2
INVARIANTS TypeOK NoGhost GameSafe RevealAgrees RoomSafe
PROPERTIES MatchFound GameComesBack LeavesWell ComesOut RoomSettles
CHECK_DEADLOCK FALSE
