SPECIFICATION Spec
CONSTANTS
    own = own  old = old
    Own = own
    Leftovers = {}
    Replicas = {0, 2}
    MaxUnavailable <- MCQuarter
    ProtectNonZero = TRUE
    PprLag = TRUE
    Changes = {"create", "delete"}
    MaxChanges = 2
INVARIANTS NoOrphan
CHECK_DEADLOCK FALSE
