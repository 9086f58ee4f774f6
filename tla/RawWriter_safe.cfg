SPECIFICATION Spec
CONSTANTS
    m1 = m1
    m2 = m2
    m3 = m3
    Msgs = {m1, m2, m3}
    Class <- SafeClass
    Oids = {o1, o2, o3}
    Handlers = {h1, h2}
    MaxCrashes = 1
    MaxTimeouts = 1
    NoMsg = NoMsg
    NoDoc = NoDoc
SYMMETRY SafeSymmetry
INVARIANTS
    AckedIsStoredAndAnnounced
    DanglingOnlyAfterLostConfirm
    OrphanHasCause
    StoredOnceUnlessRedelivered
    DeadIsUnannounced
PROPERTIES
    ImplementsContract
CHECK_DEADLOCK FALSE
