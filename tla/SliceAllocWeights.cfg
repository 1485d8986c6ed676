CONSTANTS
    SliceCount = 4
    MaxNodes = 3
    MaxWeight = 3
    MaxReplicas = 1
SPECIFICATION Spec
INVARIANT WeightMonotone
CHECK_DEADLOCK FALSE
