\* Two nodes, one replica of two slices, weights 0..1, revisions 0..1.
CONSTANTS
    Nodes = {n1, n2}
    Replicas = 1
    SliceCountM = 2
    MaxWeight = 1
    MaxRev = 1
SPECIFICATION Spec
INVARIANT TypeOK
INVARIANT ApprovedFileAgreed
