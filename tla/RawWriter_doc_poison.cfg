SPECIFICATION FairSpec
CONSTANTS
    m1 = m1
    m2 = m2
    m3 = m3
    Msgs = {m2, m3}
    Class <- PoisonClass
    Oids = {o1}
    Handlers = {h1, h2}
    MaxCrashes = 0
    MaxTimeouts = 0
    NoMsg = NoMsg
    NoDoc = NoDoc
PROPERTIES
    InvalidReachesDeadLetter
CHECK_DEADLOCK FALSE
