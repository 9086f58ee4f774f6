SPECIFICATION FairSpec
CONSTANTS
    m1 = m1
    m2 = m2
    m3 = m3
    Msgs = {m1, m2, m3}
    Class <- SettlingClass
    Oids = {o1, o2}
    Handlers = {h1, h2}
    MaxCrashes = 1
    MaxTimeouts = 1
    NoMsg = NoMsg
    NoDoc = NoDoc
PROPERTIES
    EveryMessageIsSettled
CHECK_DEADLOCK FALSE
