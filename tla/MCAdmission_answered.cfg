SPECIFICATION FairSpec
CONSTANTS
    p1 = p1  p2 = p2  p3 = p3
    r1 = r1  r2 = r2  r3 = r3  r4 = r4
    a = a  b = b  i1 = i1  i2 = i2
    NoUid = NoUid
    Cells = {a, b}
    Pods = {p1, p2}
    CellOf <- MCCellOf
    Reviews = {r1, r3}
    PodOf <- MCPodOf
    CompactThreshold = 3
    Replicas = {i1, i2}
    InitAvailable = {p1}
    MinAvailables = {0, 1}
    InitMin = 1
    LagLimits = {1}
    InitLagLimit = 1
    MaxRevision = 3
PROPERTIES ReviewAnswered LagStaysLimited
