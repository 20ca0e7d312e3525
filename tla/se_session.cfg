SPECIFICATION FairSpec
CONSTANTS
    t1 = t1
    t2 = t2
    q1 = q1
    q2 = q2
    Tabs = {t1, t2}
    Calls = {q1, q2}
    TabOf <- OneEach
    Kinds = {"boot", "login", "logout", "change", "user", "data"}
    Pages = {"presence", "speaking"}
    Events = {"ageing", "network", "reload", "drop"}
    MaxPair = 2
    MaxInputs = 3
INVARIANTS
    TypeOK
    NotStranded
PROPERTIES
    SessionLasts
    SessionSettles
    SpeakerGetsThrough
CHECK_DEADLOCK FALSE
