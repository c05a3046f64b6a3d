SPECIFICATION Spec
CONSTANTS
    Click = {k1, k2}
    MaxVersion = 3
INVARIANT DisputedLeadsOut
CHECK_DEADLOCK FALSE
