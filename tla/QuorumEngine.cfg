CONSTANT N = 3
SPECIFICATION Spec
INVARIANT TypeOK
INVARIANT DecisionIsReference
PROPERTY AllVotesDecide
CHECK_DEADLOCK FALSE
