SPECIFICATION FairSpec
CONSTANTS
    MaxTurns = 3
    MaxSentences = 3
    StreamMayFail = TRUE
    MayExpire = TRUE
INVARIANTS
    SegmentsInv
PROPERTIES
    HeardInOrder
    ReturnsToIdle
CHECK_DEADLOCK FALSE
