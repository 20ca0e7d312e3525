SPECIFICATION FairSpec
CONSTANTS
    Emails = {"e1", "e2"}
    MaxFormTaps = 6
    Files = {"f1", "f2", "f3"}
    SizeOf <- Sizes
    MaxPicks = 5
    MaxMessages = 2
    MaxSends = 2
    MaxEventDrops = 1
    MaxEventMoves = 2
    MaxHostTaps = 3
    MaxFaults = 1
    MaxHostMoves = 1
    MaxSpeakTaps = 2
    MaxPosts = 1
    MaxSpeakDrops = 1
    Accounts = {1, 2}
    MaxUserTaps = 2
    MaxUserMoves = 1
    ReportIds = {"r1"}
    MaxReportTaps = 3
    MaxEventTaps = 2
INVARIANTS TypeOK SpeakingSafe AccountSafe EventSafe DeskSafe
PROPERTIES PagesSettle
CHECK_DEADLOCK FALSE
