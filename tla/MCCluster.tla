------------------------------ MODULE MCCluster ------------------------------
(***************************************************************************)
(* Cluster instantiated for TLC.  The slice allocation tables are the     *)
(* allocator's: each is written out, and an ASSUME checks it against the  *)
(* result of running the revision's draft (node order, weights, replicas) *)
(* through Allocate of SliceAlloc, as the master's propose command runs   *)
(* Draft.Alloc.  Slices are 0..SliceCountMC-1.                             *)
(***************************************************************************)
EXTENDS Cluster

CONSTANTS n1, n2, n3, k1, k2

CONSTANTS
    SliceCountMC,   \* slices of the key space (256 in the code)
    ReplicasMC      \* Draft.Replicas

\* Only Allocate of SliceAlloc is used; it reads no variable.
Alloc == INSTANCE SliceAlloc WITH
    SliceCount <- SliceCountMC, MaxNodes <- 3, MaxWeight <- 1, MaxReplicas <- ReplicasMC,
    draft <- 0, pool <- 0, held <- 0, status <- 0

\* Revision r is proposed from the draft listing the nodes drafts[r+1],
\* every one of weight 1.
EntriesOf(drafts) == [r \in 0..Len(drafts)-1 |-> drafts[r+1]]

SATOf(drafts) ==
    [r \in 0..Len(drafts)-1 |->
        LET ids == drafts[r+1]
            h == Alloc!Allocate([replicas |-> ReplicasMC, weights |-> [j \in DOMAIN ids |-> 1]])
        IN [n \in ToSet(ids) |-> h[CHOOSE j \in DOMAIN ids : ids[j] = n]]]

\* The operator bootstraps n1 and n2, then adds n3.
AddNodeDrafts == <<<<n1, n2>>, <<n1, n2, n3>>>>
AddNodeEntries == EntriesOf(AddNodeDrafts)
\* The allocator's table for these drafts over 2 slices, written out so
\* that TLC does not run the allocator again at every lookup; the ASSUME
\* checks it against SATOf.
AddNodeSAT ==
    (0 :> (n1 :> {0, 1} @@ n2 :> {0, 1})) @@
    (1 :> (n1 :> {0, 1} @@ n2 :> {1} @@ n3 :> {0}))
ASSUME SliceCountMC = 2 /\ ReplicasMC = 2 => AddNodeSAT = SATOf(AddNodeDrafts)

\* The same drafts with one replica of 4 slices: slice 3 moves from n2 to n1.
LossSAT ==
    (0 :> (n1 :> {0, 2} @@ n2 :> {1, 3})) @@
    (1 :> (n1 :> {0, 3} @@ n2 :> {1} @@ n3 :> {2}))
ASSUME SliceCountMC = 4 /\ ReplicasMC = 1 => LossSAT = SATOf(AddNodeDrafts)

\* One blob, in slice 0, 3 or 2.
BlobInSlice0 == [k \in {k1} |-> 0]
BlobInSlice3 == [k \in {k1} |-> 3]
BlobInSlice2 == [k \in {k1} |-> 2]

\* A two-node cluster at revision 0, both nodes holding the only slice.
HealDrafts == <<<<n1, n2>>>>
HealEntries == EntriesOf(HealDrafts)
\* The allocator's table for this draft over 1 slice.
HealSAT == 0 :> (n1 :> {0} @@ n2 :> {0})
ASSUME SliceCountMC = 1 /\ ReplicasMC = 2 => HealSAT = SATOf(HealDrafts)

\* lastSyncRequestRev is read only by RequestSync while the loop runs, and
\* set whenever the loop starts: while the loop is idle its value is dead,
\* and states differing only there are the same state of the program.
ClusterView ==
    <<member, revs, synced, approved, markers, stored, faults,
      [n \in Nodes |-> IF loop[n].st = "idle" THEN 0 ELSE lastReq[n]], loop, put, acked, masterVars>>

\* n2 accepts the broker's replica write and never answers.
HangSpec == Spec /\ PutFairness({n2})

=============================================================================
