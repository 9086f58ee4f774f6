SPECIFICATION Spec
CONSTANTS
    m1 = m1
    m2 = m2
    m3 = m3
    Msgs = {m1}
    Class <- ValidClass
    Oids = {o1, o2}
    Handlers = {h1}
    MaxCrashes = 0
    MaxTimeouts = 0
    NoMsg = NoMsg
    NoDoc = NoDoc
INVARIANTS
    OnlyPermanentErrorsAreDeadLettered
CHECK_DEADLOCK FALSE
