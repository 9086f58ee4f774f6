SPECIFICATION PipelineFairSpec
CONSTANTS
    m1 = m1
    k1 = k1
    Msgs = {m1}
    Class <- ValidClass
    Oids = {o1, o2}
    Handlers = {h1}
    MaxCrashes = 1
    MaxTimeouts = 0
    NoMsg = NoMsg
    NoDoc = NoDoc
    RouterHandlers = {g1}
    Keys = {k1}
    KeyOf <- OneKey
    Queues = {q1}
    Permanent = {}
    Unroutable = Unroutable
    MaxRouterFaults = 1
INVARIANTS
    NothingIsLost
    RoutedResolves
PROPERTIES
    AckedIsDelivered
CHECK_DEADLOCK FALSE
