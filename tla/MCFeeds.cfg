SPECIFICATION FeedSpec
CONSTANTS
    None = None
    Limit = 2
    MaxRows = 5
    MaxActs = 3
    MaxFaults = 1
INVARIANTS
    NothingIsSkipped
PROPERTIES
    BadgeCatchesUp
CHECK_DEADLOCK FALSE
