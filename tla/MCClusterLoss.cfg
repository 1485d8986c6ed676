\* One replica of four slices; when n3 joins, slice 3 moves from n2 to n1,
\* a node already present in the approved SAT.
CONSTANTS
    n1 = n1  n2 = n2  n3 = n3  k1 = k1  k2 = k2
    Nodes = {n1, n2, n3}
    Blobs = {k1}
    SliceCountMC = 4
    ReplicasMC = 1
    Entries <- AddNodeEntries
    SAT <- LossSAT
    BlobSlice <- BlobInSlice3
SPECIFICATION Spec
INVARIANT AckedBlobReadable
CHECK_DEADLOCK FALSE
