\* Two replicas of one slice on n1 and n2 at revision 0; one blob; n2
\* never answers a replica write.
CONSTANTS
    n1 = n1  n2 = n2  n3 = n3  k1 = k1  k2 = k2
    Nodes = {n1, n2}
    Blobs = {k1}
    SliceCountMC = 1
    ReplicasMC = 2
    Entries <- HealEntries
    SAT <- HealSAT
    BlobSlice <- BlobInSlice0
SPECIFICATION HangSpec
PROPERTY PutReturns
CHECK_DEADLOCK FALSE
