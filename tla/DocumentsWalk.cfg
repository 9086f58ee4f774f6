SPECIFICATION FairSpec
CONSTANTS
    Docs = {2, 4, 6, 8, 10, 12}
    Size <- MCSize
    Limits = {0, 1, 4}
    defaultLimit = 2
    maxLimit = 3
    field = "$documents"
    Strays <- MCStrays
    maxPageBytes = 3
    Initial = {2, 4, 6, 10, 12}
    Foreign = {12}
    MaxFailures = 1
INVARIANTS
    TypeOK
    WalkIsComplete
    ServedOnce
    NotFoundOnlyIfAbsent
PROPERTIES
    WalkEnds
CHECK_DEADLOCK FALSE
