CONSTANTS
    SliceCount = 4
    MaxNodes = 3
    MaxWeight = 3
    MaxReplicas = 3
SPECIFICATION Spec
INVARIANT TypeOK
INVARIANT ExactReplication

INVARIANT AllocProgress
CHECK_DEADLOCK FALSE
