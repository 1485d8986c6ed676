# TLA+ models of solidb

This directory holds TLA+ models of solidb, a distributed blob store. TLC
checks them. Every module is written from the Go code under `src/`. The
`map` of `PROJECT.json` gives the lines of code behind each definition.

## The system

solidb stores blobs under keys. The first byte of a key is its **slice**.
There are 256 slices.

- **Spec.** A versioned *spec* holds a *slice allocation table* (SAT). The
  SAT lists the node entries and the slices each entry holds.
- **Node** (`src/node`). Every node keeps these in its key-value store:
  - the specs it has committed (`specmgr`);
  - the tags `synced` and `approved`;
  - a marker for every slice it has pulled (`syncstate`);
  - its blobs;
  - fault marks for blobs its broker could not fully replicate.

  Two goroutines run beside the HTTP handlers:
  - the **sync loop** (`syncSlicesLoop`) pulls the slices of a newly
    proposed revision from their holders in the approved revision;
  - the **heal loop** (`healFaults`) re-sends fault-marked blobs.
- **Broker** (`src/broker`). Every node runs one. It serves client GET and
  PUT:
  - A GET asks every entry the approved SAT locates for the key. It then
    decides by quorum (`src/quorum`).
  - A PUT writes to the approved replicas. It needs a write quorum. It then
    writes to the *delta*, the entries of the newest SAT that are new.
    If any write failed, it marks the blob faulty.
- **Master CLI** (`src/cmd/master`). This is the operator's tool. A
  reconfiguration is a sequence of commands:
  - `add` invites a node (handing it the approved spec file) and adds it to
    the draft; `remove` and `alter` edit the draft;
  - `propose` runs `Draft.Alloc` and sends the new spec to every entry;
  - `sync` asks every entry's sync loop to pull;
  - `approve` checks every status, then tags the revision approved on every
    entry.

  The master keeps the draft and two spec files, `.proposed.conf` and
  `.approved.conf`.

The parts interact over signed HTTP RPCs. A reconfiguration runs while
clients keep reading and writing. The models are about the overlap of
propose, sync, approve, heal and client PUTs.

## Modules

| module | models | state | actions |
|---|---|---|---|
| `QuorumEngine` | `quorum.HandleRead` and `HandleWrite`, with the fan-out goroutines of `Broker.GetBlob`/`PutBlob` | replies, the buffered vote channel, counters, context | `ReplicaVote` (one goroutine's send), `CancelContext`, `ReceiveVote` (one `case v := <-c` iteration, including the `errUndetermined` fall-through), `ReceiveCancel` |
| `SliceAlloc` | `Draft.Alloc`, `slot.isFull`, `slot.pickOneFrom` | draft, token pool, slices per slot | `AllocIteration`: one iteration of the `for {}` loop, with the first pass and the fallback pass. `Allocate` is the whole allocator as a recursive operator. |
| `SpecManager` | `specmgr.SpecManager`, used by concurrent goroutines | revisions and tags in the store, `newestCache`, `taggedCache`, one call per goroutine | `Commit` (whose `store.Put` may fail), `GetNewest`, `Tag` and `GetByTag`, each split at every store or cache access |
| `KeyRange` | `kv/range.go` (`NewRangeWithBytesPrefix`, `NewRangeWithHexPrefix`), the half-open range of `levelDB.NewIterator`, `makeRevisionKey`, the key prefixes of `specmgr`, `syncstate`, `blobio` and `node`, `NewBlobIterator`'s range, `GetNewest`'s `iter.Last()` | none: operators over keys (byte sequences 0..255 in `bytes.Compare` order) and ranges `[from, to)`, `to = NoLimit` for a nil limit | none; `SpecManager` extends it |
| `Cluster` | nodes (`Invite`, `ProposeSpec`, `RequestSync`, `ApproveSpec`), sync loop, heal loop, `Broker.PutBlob`, the master's `add`/`propose`/`sync`/`approve` | per node: committed revisions, tags, markers, blobs, fault marks, `lastSyncRequestRev`, sync loop state. Per blob: the PUT in progress. For the master: its spec files, target revision, command and index. | one action per RPC handler step that the master drives, `SyncPull`/`SyncDone`, the PUT steps (`PutStart`, `PutReplica`, `PutQuorumFail`, `PutCancel`, `PutDrained`, `PutDeltaReplica`, `PutDeltaDone`), `HealFault`, and `Restart` (the node process restarting) |
| `MCCluster` | the model of `Cluster` that TLC checks | — | — |
| `ControlPlane` | `handleSignedRequest` and the signed handlers `handleInvite`, `handleProposeSpec`, `handleSpecAction` (`handler.go`); signing in `RPC.doRequest` | per node: the cluster ID, and `Master`'s node state (committed specs, tags, sync); the set of requests the master has signed | `MasterSign` (the master signs a request), `Deliver` (a request, the master's or another key holder's, reaches a node's handler), `SyncEnd` |
| `MCControlPlane` | the model of `ControlPlane` that TLC checks | — | — |
| `Master` | the master CLI (`master.go`, `mod.go`) and what its RPCs do on the nodes (`node.go`, `rpc.go`, `handler.go`) | the draft, the `.proposed.conf` and `.approved.conf` files, the command being run and its index; per node: committed specs, `synced`/`approved` tags, the revision its sync loop runs | `MasterAdd`, `MasterRemove`, `MasterAlter`, one `...Start` and one `...Step` (one RPC) per command of propose, sync and approve, and `SyncEnd` for the end of a node's sync |

### How the modules relate to the code

- **QuorumEngine.** Each replica's reply is fixed at Init. TLC then tries
  every order in which the replies reach the channel. It also tries every
  point at which the context can be cancelled.
  - The reference `RefDecision` is the decision table of spec §4.6. It is
    computed from all N replies.
- **SliceAlloc.**
  - The 256 slices become `SliceCount` slices.
  - Init picks any draft that `Validate` accepts, within the bounds.
  - `MCCluster` gives `Cluster` the SAT `SliceAlloc!Allocate` produces
    from the drafts the operator edits. Each table is written out as a
    function value, and an ASSUME checks it against `SATOf(drafts)`, which
    runs the allocator. The cluster therefore sees the tables the
    allocator really produces. A table given as `SATOf(...)` itself would
    be a lazy function, and TLC would run the allocator again at every
    lookup (ten times slower).
- **SpecManager.**
  - A spec stands for its revision.
  - Every Put of a tag gets a sequence number. The freshness properties use
    these numbers.
  - `Cluster` treats the caches as coherent. Their races are checked here
    instead.
- **KeyRange.**
  - A key is its bytes, and the prefixes are the bytes of the source's string
    constants. Only a blob key is cut, from 31 bytes to 2.
  - `PrefixLimit` is the loop of `NewRangeWithBytesPrefix`, written as a
    recursion from the last byte. `NewRangeWithHexPrefix` pads an odd prefix
    with `0` for the start and `f` for the end. A character that is not a
    hex digit is an error.
  - `makeRevisionKey` is `Itoa` and `ZeroPad`, which together are
    `fmt.Sprintf("%010d")`. `GetNewestRev` is `GetNewest` without its cache:
    the last key of the revision range over `StoreKeys(revs)`.
  - `ASSUME PrefixRangesAgreeWithReference` compares both range constructors
    with the reference "the key starts with the prefix". It covers every
    prefix of up to 2 bytes over {0, 1, 0xfe, 0xff} against every key of up
    to 3 bytes, and every hex prefix of up to 3 digits over {0, 1, e, f} and
    a non-hex character against every key of up to 2 bytes. TLC checks it
    whenever it loads `SpecManager`.
- **Master.**
  - The draft is a sequence of `[id, weight]`. `AddNode`, `RemoveNode`,
    `AlterNode` and `Validate` are the `mod.Model` and `Draft` methods.
  - `BuildSpec` runs the allocator of `SliceAlloc` on the draft. Like
    `mod.go:211-224`, it takes the revision from the proposed file: 0 with no
    file, the same revision for an equal SAT, the next one otherwise.
  - `Rpc` is `doRequest`. Every RPC has three outcomes:
    - it fails with no effect (no connection, or the handler's error);
    - it takes effect on the node but the response is lost, so the master
      sees an error;
    - it succeeds.

    Any error ends the command, as the CLI returns on the first error.
  - At revision 0, `propose` writes the proposed file and then the approved
    file. The second write may fail.
  - A node's sync loop is abstract. `RequestSync` starts it, and `SyncEnd`
    tags the revision synced or fails. `Cluster` models the pulls.
  - `remove` with an out-of-range index panics before `Save`, so only valid
    indices are modelled. The address of a node is its ID.
- **ControlPlane.**
  - A signed request is a record: kind, target-id header, signer, and the
    spec or revision it carries. The signature covers the target, the URI
    and the body, so a request cannot be changed; but anyone who has seen
    it can send it again, to any node, at any time. `msgs` is the set of
    every request the master has signed, and `Deliver` takes any of them,
    or any request signed by another key (`Forged`).
  - `Verified` is `handleSignedRequest`: the target must be empty or the
    node, and a non-empty starting `signerID` must equal the signer.
    `handleInvite` starts from "" and records the signer; the other two
    start from the node's `clusterID`.
  - The node operations are `Master`'s, by `INSTANCE Master` on this
    module's node state, with `joined` mapped to the nodes whose cluster ID
    is set. `Node.Invite`'s "already in cluster" check is added here.
  - The master signs `add`'s Invite with an empty target-id and every other
    request with the entry's node ID (`master.go:222`, `:308`, `:337`,
    `:378`). Which requests the master sends is left open: any of them may
    already be on the network.
- **Cluster.**
  - Every RPC is one atomic step of the callee's handler. The RPC may fail
    before it has any effect.
  - A node handler (`ProposeSpec`, `RequestSync`, `ApproveSpec`, `Invite`)
    is a predicate. Its `...Err` twin states when the handler returns an
    error. The master action calls the handler on one entry and moves its
    index. On an error, the master stops the command; the operator reruns
    it.
  - The blob RPCs are operators over the callee's store. `PutBlobRPC` is
    `RPC.PutBlob` with `handlePutBlob`. `GetBlobRPC` is `RPC.GetBlob`, which
    gets 204 No Content for a missing blob. `GetBlobSliceRPC` is the stream
    of `handleGetBlobSlice`: the blobs whose keys fall in the slice's hex
    prefix range, the range `KeyRange` checks. A failed write or stream
    has no effect.
  - `ApproveSpec` writes the `approved` tag and then resets the markers.
    `ApproveSpecTagOnly` is the handler failing between the two writes (a
    store error, or the process stopping there): the tag has moved, the
    markers are kept, and the master sees an error.
  - `Restart` is a node process stopping and starting again (`node.New`,
    `Node.Start`). The store survives. `lastSyncRequestRev` is back to 0,
    the sync loop is idle, and the PUTs the node was brokering fail. Replica
    writes already sent may still land.
  - A status query of `approve` may fail. The code then returns the nil
    outer error (`master.go:369`), so the operator sees success with
    nothing approved and goes on to the next revision (`MasterApproveCheck`).
  - `RequestSync` models the unbuffered `syncRequest` channel:
    - the send succeeds only when the loop is idle;
    - while the loop is busy, the request returns `nil` if it is for
      `lastSyncRequestRev`, and "pending" otherwise.
  - `SyncPull` handles one unsynced slice (`GetUnsyncedSlices`,
    `importRemoteBlobSlice`, `SetSlicesSynced`):
    - it imports the slice from a holder in the approved SAT that the loop
      read at its start, or it fails;
    - `SyncDone` writes the `synced` tag only if no slice failed;
    - the batches of `importRemoteBlobSlice` are one atomic step.
  - `PutBlob`:
    - it reads the approved and newest specs once, at the start;
    - replica goroutines outlive the handler;
    - `HandleWrite` may fail on too many errors, or on cancellation
      until it has counted a write quorum (`QuorumReached`): it is the
      only code that watches the request context;
    - the drain waits for every replica, on RPCs bound to the broker's
      lifetime context with no timeout;
    - the delta is computed the code's way (`FindEntry` on the approved
      SAT);
    - a failure puts a fault mark in the broker's own store.
  - `HealFault`:
    - it skips a blob the node does not hold;
    - it puts the blob to `locateBlob`'s entries one after another
      (`broadcastBlob`);
    - the first failure keeps the mark.
  - GET is the operator `Readable`. With no failing replica, `HandleRead`
    returns the blob exactly when the holders among the located entries
    reach `readQuorum`. `QuorumEngine` checks that this holds in every vote
    order.

## Runs

| run | cfg | expect | what it shows |
|---|---|---|---|
| quorum | `QuorumEngine.cfg` (N=3) | pass | In every vote order and at every cancellation point, the decision is the one in spec §4.6's table (`DecisionIsReference`). Once every replica has voted, the handler returns (`AllVotesDecide`, under weak fairness of the handler's select). |
| alloc | `SliceAlloc.cfg` | pass | Every draft has up to 3 nodes, weights 0..3 and 1..3 replicas, over 4 slices. For each one, `Alloc` places every slice in exactly `replicas` entries (`ExactReplication`). Every iteration takes a token, so the loop ends (`AllocProgress`). |
| alloc_weights | `SliceAllocWeights.cfg` | violation | The fallback pass gives a weight-3 node fewer slices than a weight-2 node, against spec §4.1. |
| specmgr | `SpecManager.cfg` | pass | Two goroutines interleave every call at every store or cache access, and no cache is ever ahead of the store it fronts (`CacheNeverAhead`). The tag cache can only be stale, never hold a value not yet stored. Revisions 9 and 10 are committed in any order. In every state, `GetNewest`'s last key of the revision range is the largest committed revision (`NewestIsLastKey`). Every prefix iterator on the store yields exactly the keys that start with its prefix (`IteratorsSelectTheirKeys`). These iterators are `GetNewest`, `GetSyncedSlices`, the fault marks, and `NewBlobIterator` for odd and even slices up to `fff`. |
| specmgr_stale | `SpecManagerStale.cfg` | violation | A `GetNewest` cache fill that races a `Commit` leaves an older newest spec cached (`ReadsAreFresh`). A `GetByTag` fill that races a `Tag` does the same to the tag cache. |
| cluster_add | `MCClusterAdd.cfg` | pass | Setup: 2 replicas of 2 slices; n3 joins and takes slice 0 from n2; `ApproveSpec` may fail between its two writes, a failed status query makes `approve` report success with nothing approved, and any node may restart. Once the master's approved file has caught up with its proposed one, every entry's synced-slice markers are exactly its slices (`MarkersMatchApproved`): rerunning `approve` repairs the markers a failed `ApproveSpec` left behind. A node with a synced-slice marker for a blob's slice holds the blob, for every unmarked blob whose PUT ran while the cluster was quiet (`SyncedSlicesHoldAckedBlobs`). A later sync skips a marked slice, so a marker without the blob is a copy nothing will pull. This holds through replica failures, failed pulls, partial heal passes, restarts, and commands that fail and are rerun. It breaks if a failed import still marks the slice, if a failed replica write or a partial heal pass leaves no fault mark, if `ApproveSpec` keeps the markers of slices given away, if the sync pulls from the new spec's entries, or if heal skips `locateBlob`'s new entries. |
| cluster_loss | `MCClusterLoss.cfg` | violation | Setup: 1 replica of 4 slices; n3's arrival moves slice 3 from n2 to n1, a node already in the cluster. A PUT during the reconfiguration never writes to n1 and marks nothing. Once the reconfiguration is done, the acknowledged blob is unreadable and unmarked (`AckedBlobReadable`). |
| cluster_heal | `MCClusterHeal.cfg` | violation | Even under strong fairness of a successful heal pass, a fault mark is not always cleared (`FaultEventuallyHealed`). The broker's own replica write fails, so it marks a blob it does not hold, and `healFaults` skips that blob on every tick. |
| control_plane | `MCControlPlane.cfg` | violation | A member of the master's cluster holds only specs the master signed (`MembersHoldMasterSpecs`, spec §4.7). This fails after three steps. The master signs `add`'s Invite. Key holder x sends a revision-0 spec to the fresh n1; n1's `clusterID` is still "", so `handleSignedRequest` takes any signer. n1 commits the spec and tags it approved. The master's Invite then makes n1 a member. |
| cluster_hang | `MCClusterHang.cfg` | violation | Setup: 2 replicas (n1, n2) of 1 slice; n2 never answers a replica write. Every other replica answers, the broker's steps are taken and the client eventually gives up (`PutFairness`). Still, a PUT is not sure to return (`PutReturns`): n1 acknowledges, `HandleWrite` returns nil, and the drain at `broker.go:168` waits for n2 for ever. Spec §4.6 says the client returns on quorum. |
| master | `MCMaster.cfg` | pass | Setup: 2 nodes, any draft edit, every RPC failing or losing its response, and the second spec-file write failing. `.approved.conf` always holds a spec that every one of its entries committed and approved (`ApprovedFileAgreed`). `add` hands this file to new nodes. |
| master_revision | `MCMasterRevision.cfg` | violation | A propose reaches n1, then fails, so no proposed file is written. The operator removes n1 and proposes again, and `BuildSpec` gives the new SAT the same revision 0. n1 and n2 now hold different specs under one revision (`SpecRevisionUnique`). n1 rejects every later propose of that revision. |

The findings are listed in `PROJECT.json`. Four code bugs were found:

- the two cache races in `specmgr`;
- the delta rule of `PutBlob`, which loses acknowledged writes when a slice
  moves to a node that is already in the cluster;
- the revision reuse of `BuildSpec` after a failed propose.

There are also three places where the code and spec.md disagree:

- a node that has not been invited yet accepts a spec signed by any key;
- weight monotonicity of the allocator;
- a PUT that waits on every replica (with no timeout) where the
  spec returns on quorum.

A fourth divergence has no run of its own: for an even number of replicas
the code's quorum `(N+1)/2` is one vote below the spec's ⌈(N+1)/2⌉.
`QuorumEngine` with N=2 violates `DecisionIsReference` (see the hazard at
`quorum.go:21`). Finally, there is one gap in spec.md itself: the spec says heal
re-drives every fault mark, but it also skips blobs the node does not hold.

For every property of a passing run, `PROJECT.json` lists a mutant: a
plausible slip in the modelled code that TLC catches with that run. Some of
them:

- a vote sent twice;
- an off-by-one in the error threshold;
- a missing fault mark;
- a master loop that runs one entry too far;
- `AddNode` without `Validate`;
- `propose` writing the approved file for every revision.

## Bounds

- **3 replicas** in `QuorumEngine`. This is the smallest odd count that
  gives a non-trivial quorum. With 2 the code and the spec disagree (see
  above).
- **ControlPlane.** There are 2 nodes, the master and one other signer,
  revisions 0 and 1, and 2 SATs. The violation needs a single node and one
  spec; the second node makes the target check matter.
- **4 slices, up to 3 nodes, weights up to 3** in `SliceAlloc`. These
  bounds are enough to reach the fallback pass with two or more replicas.
  They also reach weight-0 nodes and drafts with too few nodes.
- **2 goroutines, 2 revisions, 2 tag writes** in `SpecManager`. A cache race
  needs two goroutines and one write. The revisions are 9 and 10, where the
  number of digits changes. Unpadded keys would sort "10" before "9".
- **Cluster.** There are 3 nodes and 2 revisions: n1 and n2 bootstrap, then
  n3 joins. There is one blob. Its slice is chosen in each cfg so that it
  moves from an old node to the new one (`add`) or to an existing node
  (`loss`). The heal run uses 2 nodes, 1 slice and revision 0 only: the
  stuck mark needs nothing more.
  The hang run uses the same instance: one acknowledging replica is a
  write quorum of two, and the other one hangs.
  - Every RPC may fail.
  - A failed command is rerun. The master's index bounds the reruns.
  - Any node may be the broker of a PUT, and the PUT may be retried after
    it fails.
  - `cluster_add` uses `VIEW ClusterView`. The view treats `lastReq` as 0
    while the loop is idle. `RequestSync` reads `lastSyncRequestRev` only
    while the loop runs, and sets it whenever the loop starts. So the value
    is dead while the loop is idle, and the view merges states that the
    program cannot tell apart. This halves the state space: 588,065
    distinct states, about 70 seconds.
- **Master.** There are 2 nodes, 1 replica of 2 slices, weights 0..1 and
  revisions 0..1 (`MaxRev`; `propose` is not enabled past it). This covers
  these cases:
  - adding a node twice;
  - weight-0 entries and drafts with too few working nodes;
  - an unchanged SAT that keeps its revision;
  - approve at revision 1.

  With `MaxRev = 2` the run does not finish in minutes.

## Fairness

- **QuorumEngine.** Go's scheduler runs a goroutine that is ready, so the
  handler's select loop gets weak fairness.
- **Heal (`cluster_heal`).** `healFaultsLoop` runs `healFaults` every
  10 seconds for as long as the node runs. spec.md's scenario 5 assumes the
  targets become reachable again. So a pass that would clear the mark, if
  enabled again and again, is eventually taken: strong fairness of
  `HealClears`. Nothing else is assumed to make progress. The violation
  does not rely on a missing fairness assumption: heal is disabled for that
  blob forever.
- **PUT (`cluster_hang`).** `PutFairness(hung)` gives weak fairness to the
  broker's own steps (`PutQuorumFail`, `PutDrained`, `PutDeltaDone`), to
  the replica RPCs of every node not in `hung`, and to `PutCancel`: a client
  that waits long enough gives up and the server cancels the request's
  context. A replica in `hung` may answer late or never. The HTTP client
  has no timeout and the RPCs run on the broker's lifetime context, so
  nothing in the code bounds that wait.
- **Replica RPCs** get no fairness in the other runs.
- **Where the system may stop.** The operator need not run any command, and
  a node may never answer. So the cluster cfgs set `CHECK_DEADLOCK FALSE`:
  the reconfiguration may be finished, or a PUT may wait on a replica that
  never answers.
- **Master.** `MCMaster.cfg` checks for deadlock, because the operator can
  always run another command.

## Not modelled

- **The LevelDB engine and single store operations.** `KeyRange` models
  the ranges the code builds and the order the iterator follows. `Get`,
  `Put`, `Delete` and a batch `Write` are atomic steps of the actions that
  call them, in `SpecManager` and `Cluster`. An iterator over a range is one
  step of the action that uses it. Revisions above ten digits would break
  the key order, but a revision grows by one per propose and never gets
  there.
- **Blob encoding, hashing, signature cryptography, HTTP routing.**
  These are pure I/O or pure functions. A signature is abstracted to its
  signer and what it covers; it cannot be forged for another key. Blob
  contents and keys are model values. `list` and `status` only print.
- **Node restarts outside `Cluster`.** `Cluster` models a restart at any
  point (`Restart`), and the crash inside `ApproveSpec` between its two
  writes (`ApproveSpecTagOnly`). `Master`'s and `ControlPlane`'s nodes do
  not restart: the only in-memory state they have is the abstract running
  sync, and `Cluster` covers losing it.
- **Panics.** The broker's goroutines, the sync loop and the heal loop
  recover panics; the effects (a vote missing from `qch`, a loop that ends
  for good) are listed as hazards.
- **Removing a node from the cluster.** `Master` models `remove` on the
  draft. `Cluster` still models additions only.
- **The node process (`cmd/node`).** The process shuts down in this
  order: `server.Shutdown` (which gives up after 10 seconds), then the
  deferred `brk.Shutdown`, `n.Shutdown` and `store.Close`. `Broker.run`
  calls `wg.Add` inside the new goroutine, so `brk.Shutdown` can return
  before that goroutine starts its writes. In both cases writes of a PUT
  may come after the store is closed. The blob ends up as if the process had
  died mid-PUT, and `Cluster`'s `Restart` models that. Both are listed as
  hazards.
- **Re-inviting a node.** A node that holds the cluster ID re-enters
  `Invite` only with its approved revision. Once a later revision is
  approved, a node removed from the draft is "rejected" for good. So is a
  node whose `add` failed after the Invite took effect. TLC reaches this
  in `Master`, but `spec.md` calls the semantics under-specified, so no
  run holds the code to one. It is listed as a hazard.
- **`RemoveNode`'s guard.** The guard is always true, so an out-of-range
  index panics before `Save`, and nothing persisted changes. It is listed as
  a hazard.

## Open work

1. A stalled source in the sync loop and a stalled target in heal, the
   `cluster_hang` construction applied to `SyncPull` and `HealFault`.
2. A removal scenario in `Cluster`, where a node leaves the SAT. This
   covers heal towards `locateBlob`'s old entries and the broker of a
   removed node.
3. `GetBlob` with failing replicas, composed from `QuorumEngine`, instead of
   the error-free `Readable`.
4. A refinement of the node side onto an abstract lifecycle that is not
   written from the same handler guards, so that checking it says more
   than the guards themselves.
5. Runs for the hazards that have no property yet. Each needs a violation
   run of its own, and all twelve run slots are in use. The hazards are:
   - the sync and heal loops ending for good after a panic;
   - the replayed Invite;
   - re-inviting a node into a fresher cluster.
