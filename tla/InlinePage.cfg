SPECIFICATION FairSpec
CONSTANTS
    N = 4
    maxInlinePerPage = 3
    inlineConcurrency = 2
    maxAttempts = 3
INVARIANTS
    PayloadsWhole
    ErrorIsTheCause
    NoFetchOutlivesAnswer
PROPERTIES
    PageAnswered
CHECK_DEADLOCK FALSE
