SPECIFICATION Spec
CONSTANTS
    own = own  old = old
    Own = own
    Leftovers = {old}
    Replicas = {0, 2}
    MaxUnavailable <- MCQuarter
    ProtectNonZero = TRUE
    PprLag = FALSE
    Changes = {"create","erase","pprdelete", "relabel", "scale", "delete", "release", "annotate", "addcell", "fail", "crash"}
    MaxChanges = 3
INVARIANTS  NoOrphan KeptHasSource
CHECK_DEADLOCK FALSE
