SPECIFICATION FairSpec
CONSTANTS
    Docs = {1, 2, 3, 4, 5, 6}
    Size <- MCSize
    Limits = {0}
    defaultLimit = 2
    maxLimit = 3
    field = "key"
    Strays <- MCStrays
    maxPageBytes = 3
    Initial = {1, 3, 5}
    Keys = {1, 2, 3}
    KeyOf <- MCKeyOf
    NoKey = 0
    Stamp <- MCStamp
    MaxPurges = 1
    MaxFailures = 1
INVARIANTS
    TypeOK
    WalkIsCurrent
PROPERTIES
    RowsOnlyAdvance
    KeyServedOnce
    WalkEnds
CHECK_DEADLOCK FALSE
