SPECIFICATION Spec
CONSTANTS
    Docs = {2, 4, 6, 8, 10}
    Size <- MCSize
    Limits = {0, 1, 4}
    defaultLimit = 2
    maxLimit = 3
    field = "$documents"
    Strays <- MCStrays
    maxPageBytes = 3
    Initial = {2, 4, 6, 10}
    Foreign = {2, 10}
    MaxFailures = 1
INVARIANTS
    EveryRevisionIsServed
CHECK_DEADLOCK FALSE
