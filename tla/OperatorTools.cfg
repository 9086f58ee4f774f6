SPECIFICATION ToolsSpec
CONSTANTS
    Pods = {p1, p2, p3}
    NoPod = NoPod
    MaxChanges = 2
    MaxRuns = 2
    Rows = 4
    bufferSize = 2
SYMMETRY PodSymmetry
INVARIANTS
    ToolsTypeOK
    OneCompactAtATime
    EveryMemberIsCompacted
    DoneMeansPushed
    PushedInOrder
PROPERTIES
    PrimaryIsSpared
    ReplayEnds
CHECK_DEADLOCK FALSE
