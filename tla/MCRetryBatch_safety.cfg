SPECIFICATION Spec
CONSTANTS
    s1 = s1  s2 = s2  s3 = s3
    Submitters = {s1, s2, s3}
    NoHandle = NoHandle
    MaxSpins = 1
SYMMETRY Symmetry
INVARIANTS OneGoroutine HandleServed NeverPanics RepliedOnce
PROPERTIES Refines
