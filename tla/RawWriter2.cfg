SPECIFICATION Spec
CONSTANTS
    r1 = r1
    r2 = r2
    r3 = r3
    k1 = k1
    k2 = k2
    Reqs = {r1, r2, r3}
    Attr <- RetryAttr
    Keys = {k1, k2}
    a = a
    b = b
    c = c
    dev = dev
    Segs = {a, b, c, dev}
    BadSegs = {c}
    dbPrefix = dev
    NoPrefix = NoPrefix
    Docs = {d1, d2, d3}
    MaxCrashes = 1
    NoReq = NoReq
    Inline = Inline
SYMMETRY DocSymmetry
INVARIANTS
    ReferencesResolve
    AnnouncedIsReadable
    AnnouncedIsListed
    OkMeansDurable
PROPERTIES
    ImplementsContract
CHECK_DEADLOCK FALSE
