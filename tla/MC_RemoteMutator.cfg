CONSTANTS
    Keys = {k1, k2}
    Values = {v1, v2}
    MaxOps = 2
SPECIFICATION Spec
INVARIANTS
    ApplyFollowsProtocol
CHECK_DEADLOCK FALSE
