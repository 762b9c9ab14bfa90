SPECIFICATION Spec
CONSTANTS
    p1 = p1  p2 = p2  d = d  a = a
    NoUid = NoUid
    Cells = {a}
    Pods = {p1}
    CellOf <- MCCellOf
    Reviews = {p1}
    PodOf <- MCPodOf
    CompactThreshold = 5
    Shards = {0}
    Trigger = d
    ShardOf <- MCOneShard
    NamedPods = {p1}
    InitPods = {}
    Algorithm = "status"
    Grace = 0
    MinReady = 1
    LagFree = FALSE
    Faults = {"relist","restart"}
    MaxTime = 3
    MaxWatch = 1
INVARIANTS CurrentAtRest
