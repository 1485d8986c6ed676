\* Two nodes; the master m and another key holder x.
CONSTANTS
    n1 = n1  n2 = n2  m = m  x = x
    Nodes = {n1, n2}
    Signers = {m, x}
    MasterKey = m
    Specs <- SpecsMC
    MaxRev = 1
    SliceCountM = 1
SPECIFICATION Spec
INVARIANT MembersHoldMasterSpecs
CHECK_DEADLOCK FALSE
