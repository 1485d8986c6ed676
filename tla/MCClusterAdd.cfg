\* Two replicas of two slices; n3 joins as revision 1 and takes slice 0 from
\* n2.
CONSTANTS
    n1 = n1  n2 = n2  n3 = n3  k1 = k1  k2 = k2
    Nodes = {n1, n2, n3}
    Blobs = {k1}
    SliceCountMC = 2
    ReplicasMC = 2
    Entries <- AddNodeEntries
    SAT <- AddNodeSAT
    BlobSlice <- BlobInSlice0
SPECIFICATION Spec
VIEW ClusterView
INVARIANT TypeOK
INVARIANT SyncedSlicesHoldAckedBlobs
INVARIANT MarkersMatchApproved
CHECK_DEADLOCK FALSE
