SPECIFICATION Spec
CONSTANTS
    MaxTaps = 2
    MaxPosts = 1
    MaxDrops = 1
INVARIANTS StaleTabLocks
CHECK_DEADLOCK FALSE
