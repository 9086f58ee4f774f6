SPECIFICATION Spec
CONSTANTS
    m1 = m1
    m2 = m2
    m3 = m3
    k1 = k1
    Msgs = {m1, m2, m3}
    Handlers = {h1, h2}
    NoMsg = NoMsg
    Class <- MixedClass
    Keys = {k1}
    KeyOf <- OneKey
    Queues = {q1, q2, q3}
    Permanent = {q1}
    Unroutable = Unroutable
    MaxFaults = 2
INVARIANTS
    AckedIsRouted
    BoundQueueMissesNothing
    DuplicateOnlyAfterRedelivery
    DeadIsUnrouted
CHECK_DEADLOCK FALSE
