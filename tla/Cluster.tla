------------------------------- MODULE Cluster -------------------------------
(***************************************************************************)
(* A solidb cluster: the nodes (node/), their brokers (broker/), and the   *)
(* master CLI (cmd/master/) that drives a reconfiguration through the      *)
(* commands add, propose, sync and approve.                                *)
(*                                                                         *)
(* Each node keeps, in its key-value store, the specs it has committed,    *)
(* the tags "synced" and "approved", the synced-slice markers, its blobs   *)
(* and the fault marks written by its broker.  The spec manager's caches   *)
(* are taken as coherent here (their races are the subject of             *)
(* SpecManager); a spec is named by its revision, and its slice            *)
(* allocation table is the constant SAT[r], with entries in the order      *)
(* Entries[r] (the draft order the allocator keeps).                       *)
(*                                                                         *)
(* A blob key is abstracted to its first byte, the slice BlobSlice[k].     *)
(* Every RPC is one atomic step of the handler on the callee; an RPC may  *)
(* fail (node down, connection lost) before it has any effect.            *)
(***************************************************************************)
EXTENDS Naturals, Sequences, SequencesExt, FiniteSetsExt

CONSTANTS
    Nodes,          \* node IDs
    Blobs,          \* blob keys a client may put
    BlobSlice,      \* BlobSlice[k]: the slice (first key byte) of blob k
    Entries,        \* Entries[r]: the nodes of the SAT of revision r, in order
    SAT             \* SAT[r][n]: the slices of n's entry in revision r

Revs == DOMAIN Entries
NoRev == -1
MaxRev == Max(Revs)

ASSUME /\ Revs = 0..MaxRev
       /\ \A r \in Revs : DOMAIN SAT[r] = ToSet(Entries[r]) /\ ToSet(Entries[r]) \subseteq Nodes

EntryNodes(r) == ToSet(Entries[r])
Slices == UNION {UNION Range(SAT[r]) : r \in Revs}

\* SAT.Locate(key): the entries whose slices contain the key's slice.
Locate(r, k) == {n \in EntryNodes(r) : BlobSlice[k] \in SAT[r][n]}

\* SAT.FindEntry(id) # nil
HasEntry(r, n) == n \in EntryNodes(r)

\* quorum.go writeQuorum / readQuorum
writeQuorum(total) == (total + 1) \div 2
readQuorum(total)  == (total + 1) \div 2

VARIABLES
    member,         \* nodes whose clusterID is set (Invite)
    revs,           \* revs[n]: revisions committed by n's spec manager
    synced,         \* synced[n]: revision tagged "synced", or NoRev
    approved,       \* approved[n]: revision tagged "approved", or NoRev
    markers,        \* markers[n]: slices with a synced-slice marker
    stored,         \* stored[n]: blobs in n's store
    faults,         \* faults[n]: blobs with a fault mark in n's store
    lastReq,        \* lastReq[n]: Node.lastSyncRequestRev
    loop,           \* loop[n]: state of n's sync loop goroutine
    put,            \* put[k]: the client PUT of blob k being handled
    acked,          \* blobs whose PUT returned success (history)
    mProposed,      \* revision of the master's proposed spec file, or NoRev
    mApproved,      \* revision of the master's approved spec file, or NoRev
    mTarget,        \* revision the operator is working towards
    mCmd,           \* master command being run by the operator
    mIdx            \* index of the entry the running command is at

nodeVars   == <<member, revs, synced, approved, markers, stored, faults, lastReq, loop>>
masterVars == <<mProposed, mApproved, mTarget, mCmd, mIdx>>
vars == <<nodeVars, put, acked, masterVars>>

RevOrNo == Revs \cup {NoRev}
Newest(n) == IF revs[n] = {} THEN NoRev ELSE Max(revs[n])

LoopStates ==
    [st : {"idle"}] \cup
    [st : {"pull"}, rev : Revs, app : Revs, todo : SUBSET Slices, failed : BOOLEAN]

PutStates ==
    [st : {"idle"}] \cup
    [st : {"fanout", "delta", "acked", "failed"}, b : Nodes, app : Revs, new : Revs,
     ok : SUBSET Nodes, err : SUBSET Nodes, dok : SUBSET Nodes, derr : SUBSET Nodes,
     q : RevOrNo]

TypeOK ==
    /\ member \subseteq Nodes
    /\ revs \in [Nodes -> SUBSET Revs]
    /\ synced \in [Nodes -> RevOrNo] /\ approved \in [Nodes -> RevOrNo]
    /\ markers \in [Nodes -> SUBSET Slices]
    /\ stored \in [Nodes -> SUBSET Blobs] /\ faults \in [Nodes -> SUBSET Blobs]
    /\ lastReq \in [Nodes -> Revs]
    /\ loop \in [Nodes -> LoopStates]
    /\ put \in [Blobs -> PutStates]
    /\ acked \subseteq Blobs
    /\ mProposed \in RevOrNo /\ mApproved \in RevOrNo
    /\ mTarget \in 0..MaxRev+1
    /\ mCmd \in {"add", "propose", "sync", "approve", "approving", "done"}
    /\ mIdx \in 1..Len(Entries[Min({mTarget, MaxRev})])     \* an index of the entries

Init ==
    /\ member = {}
    /\ revs = [n \in Nodes |-> {}]
    /\ synced = [n \in Nodes |-> NoRev] /\ approved = [n \in Nodes |-> NoRev]
    /\ markers = [n \in Nodes |-> {}]
    /\ stored = [n \in Nodes |-> {}] /\ faults = [n \in Nodes |-> {}]
    /\ lastReq = [n \in Nodes |-> 0]       \* int zero value
    /\ loop = [n \in Nodes |-> [st |-> "idle"]]
    /\ put = [k \in Blobs |-> [st |-> "idle"]]
    /\ acked = {}
    /\ mProposed = NoRev /\ mApproved = NoRev
    /\ mTarget = 0 /\ mCmd = "add" /\ mIdx = 1

-----------------------------------------------------------------------------
(***************************************************************************)
(* Node RPC handlers.  Each is the action of a call that returns nil; the  *)
(* matching ...Err predicate is the condition under which the handler     *)
(* returns an error before changing anything.                             *)
(***************************************************************************)

\* syncstate.GetUnsyncedSlices (over GetSyncedSlices): the slices of an
\* entry that have no synced-slice marker.
GetUnsyncedSlices(n, slices) == slices \ markers[n]

\* syncstate.SetSlicesSynced: marks the slices synced; exclusive also
\* deletes every other marker, in the same batch.
SetSlicesSynced(n, exclusive, slices) ==
    markers' = [markers EXCEPT ![n] = IF exclusive THEN slices ELSE @ \cup slices]

\* RPC.GetBlobSlice to m, answered by handleGetBlobSlice: NewBlobIterator
\* over the slice's hex prefix streams the blobs of m's store in the slice
\* (KeyRange checks that the range holds exactly those keys).
GetBlobSliceRPC(m, s) == {k \in stored[m] : BlobSlice[k] = s}

\* importRemoteBlobSlice: reads the stream from m and writes its blobs.
importRemoteBlobSlice(n, m, s) ==
    stored' = [stored EXCEPT ![n] = @ \cup GetBlobSliceRPC(m, s)]

\* Node.Invite(clusterID, initSpec): the master passes its approved spec,
\* or nil before revision 0 has been proposed.
Invite(n, init) ==
    /\ member' = member \cup {n}
    /\ IF init = NoRev
       THEN UNCHANGED <<revs, approved>>
       ELSE /\ revs' = [revs EXCEPT ![n] = @ \cup {init}]
            /\ approved' = [approved EXCEPT ![n] = init]

ProposeErr(n, r) == Newest(n) # NoRev /\ r < Newest(n)     \* "revision too low"

\* Node.ProposeSpec(s): reject a revision below the newest, commit, and for
\* revision 0 mark the entry's slices synced and tag it synced and approved.
ProposeSpec(n, r) ==
    /\ ~ProposeErr(n, r)
    /\ revs' = [revs EXCEPT ![n] = @ \cup {r}]
    /\ IF r = 0
       THEN /\ HasEntry(0, n)
            /\ SetSlicesSynced(n, FALSE, SAT[0][n])
            /\ synced' = [synced EXCEPT ![n] = 0]
            /\ approved' = [approved EXCEPT ![n] = 0]
       ELSE UNCHANGED <<markers, synced, approved>>

RequestSyncErr(n, r) ==
    \/ synced[n] # NoRev /\ r < synced[n]            \* "revision too low"
    \/ r \notin revs[n]                              \* "spec not found"
    \/ loop[n].st # "idle" /\ lastReq[n] # r         \* "pending"

\* Mutant: the loop is started with the requested and the approved
\* revisions swapped.
RequestSyncSwapped(n, r) ==
    /\ ~RequestSyncErr(n, r)
    /\ \/ /\ loop[n].st = "idle"
          /\ lastReq' = [lastReq EXCEPT ![n] = r]
          /\ loop' = [loop EXCEPT ![n] =
                IF HasEntry(r, n) /\ approved[n] # NoRev
                THEN [st |-> "pull", rev |-> approved[n], app |-> r,
                      todo |-> GetUnsyncedSlices(n, SAT[r][n]), failed |-> FALSE]
                ELSE [st |-> "idle"]]
       \/ /\ loop[n].st # "idle"
          /\ UNCHANGED <<lastReq, loop>>

\* Node.RequestSync(revision): the send on the unbuffered syncRequest
\* channel succeeds only when the sync loop is waiting in its select.
RequestSync(n, r) ==
    /\ ~RequestSyncErr(n, r)
    /\ \/ /\ loop[n].st = "idle"
          /\ lastReq' = [lastReq EXCEPT ![n] = r]
          \* syncSlices' prologue: satEntry, GetByTag(approved), unsynced slices
          /\ loop' = [loop EXCEPT ![n] =
                IF HasEntry(r, n) /\ approved[n] # NoRev
                THEN [st |-> "pull", rev |-> r, app |-> approved[n],
                      todo |-> GetUnsyncedSlices(n, SAT[r][n]), failed |-> FALSE]
                ELSE [st |-> "idle"]]
       \/ /\ loop[n].st # "idle"
          /\ UNCHANGED <<lastReq, loop>>

ApproveErr(n, r) == synced[n] = NoRev \/ synced[n] # r   \* "spec not synced"

\* Mutant: the markers are not reset, the entry's slices only added.
ApproveSpecKeepMarkers(n, r) ==
    /\ ~ApproveErr(n, r)
    /\ approved' = [approved EXCEPT ![n] = r]
    /\ IF HasEntry(r, n)
       THEN SetSlicesSynced(n, FALSE, SAT[r][n])
       ELSE UNCHANGED markers

\* Node.ApproveSpec(revision): only the synced revision can be approved; the
\* approved tag is written, then the markers are reset to the entry's slices.
ApproveSpec(n, r) ==
    /\ ~ApproveErr(n, r)
    /\ approved' = [approved EXCEPT ![n] = r]
    /\ IF HasEntry(r, n)
       THEN SetSlicesSynced(n, TRUE, SAT[r][n])
       ELSE UNCHANGED markers

\* ApproveSpec whose SetSlicesSynced fails after the approved tag was
\* written (a store error, or the node stopping between the two writes):
\* the handler returns an error with the tag moved and the markers kept.
ApproveSpecTagOnly(n, r) ==
    /\ ~ApproveErr(n, r)
    /\ approved' = [approved EXCEPT ![n] = r]

-----------------------------------------------------------------------------
(***************************************************************************)
(* The sync loop (syncSlicesLoop / syncSlices): one step per unsynced      *)
(* slice, in the entry's order.  The slice is imported from one of the     *)
(* entries holding it in the approved spec read at the start; every        *)
(* source may fail, and the loop then moves to the next slice.             *)
(***************************************************************************)
\* Mutant: a failed import falls through to SetSlicesSynced (the continue
\* dropped), marking the slice synced without its blobs.
SyncPullMarkFailed(n) ==
    /\ loop[n].st = "pull"
    /\ loop[n].todo # {}
    /\ LET s == Min(loop[n].todo)
           sources == {m \in EntryNodes(loop[n].app) : s \in SAT[loop[n].app][m]}
       IN \/ \E m \in sources :
                /\ importRemoteBlobSlice(n, m, s)
                /\ SetSlicesSynced(n, FALSE, {s})
                /\ loop' = [loop EXCEPT ![n].todo = @ \ {s}]
          \/ /\ SetSlicesSynced(n, FALSE, {s})
             /\ loop' = [loop EXCEPT ![n].todo = @ \ {s}, ![n].failed = TRUE]
             /\ UNCHANGED stored
    /\ UNCHANGED <<member, revs, synced, approved, faults, lastReq, put, acked, masterVars>>

SyncPull(n) ==
    /\ loop[n].st = "pull"
    /\ loop[n].todo # {}
    /\ LET s == Min(loop[n].todo)
           sources == {m \in EntryNodes(loop[n].app) : s \in SAT[loop[n].app][m]}
       IN \/ \E m \in sources :        \* importRemoteBlobSlice from m succeeds
                /\ importRemoteBlobSlice(n, m, s)
                /\ SetSlicesSynced(n, FALSE, {s})
                /\ loop' = [loop EXCEPT ![n].todo = @ \ {s}]
          \/ /\ loop' = [loop EXCEPT ![n].todo = @ \ {s}, ![n].failed = TRUE]
             /\ UNCHANGED <<stored, markers>>
    /\ UNCHANGED <<member, revs, synced, approved, faults, lastReq, put, acked, masterVars>>

\* All slices tried: tag "synced" only if every one of them was imported.
SyncDone(n) ==
    /\ loop[n].st = "pull"
    /\ loop[n].todo = {}
    /\ synced' = IF loop[n].failed THEN synced ELSE [synced EXCEPT ![n] = loop[n].rev]
    /\ loop' = [loop EXCEPT ![n] = [st |-> "idle"]]
    /\ UNCHANGED <<member, revs, approved, markers, stored, faults, lastReq, put, acked, masterVars>>

-----------------------------------------------------------------------------
(***************************************************************************)
(* Broker.PutBlob at node b.  The approved and newest specs are read once, *)
(* at the start.  One goroutine per approved replica performs the RPC;     *)
(* HandleWrite returns an error as soon as too many replicas failed (or   *)
(* the client's context is cancelled), otherwise PutBlob drains every     *)
(* result.  With no fault, the blob is also written to the "new entries" *)
(* of the newest spec: the code keeps newest.SAT.Locate(key) entries whose *)
(* ID has no entry at all in the approved SAT.  A failure marks the blob  *)
(* as faulty in b's own store, and only then does PUT return success.    *)
(***************************************************************************)
Targets(k)      == Locate(put[k].app, k)
NewEntries(k)   == {m \in Locate(put[k].new, k) : ~HasEntry(put[k].app, m)}
DeltaLaunched(k) == put[k].st \in {"delta", "acked"} /\ put[k].err = {}

\* The revision every member node has as both newest and approved, if any:
\* no reconfiguration is in progress.
QuietRev ==
    IF \E r \in Revs : \A n \in member : Newest(n) = r /\ approved[n] = r
    THEN CHOOSE r \in Revs : \A n \in member : Newest(n) = r /\ approved[n] = r
    ELSE NoRev

MarkFault(b, k) == faults' = [faults EXCEPT ![b] = @ \cup {k}]

\* PutBlob returns nil.  The put stays "quiet" only if the cluster is still
\* at the revision it was quiet at when the put started.
Ack(k) ==
    /\ put' = [put EXCEPT ![k].st = "acked", ![k].q = IF @ = QuietRev THEN @ ELSE NoRev]
    /\ acked' = acked \cup {k}

PutStart(b, k) ==
    /\ put[k].st \in {"idle", "failed"}
    /\ approved[b] # NoRev              \* else "no approved spec"
    /\ put' = [put EXCEPT ![k] = [st |-> "fanout", b |-> b, app |-> approved[b],
                                  new |-> Newest(b), ok |-> {}, err |-> {},
                                  dok |-> {}, derr |-> {}, q |-> QuietRev]]
    /\ UNCHANGED <<nodeVars, acked, masterVars>>

\* RPC.PutBlob to m, answered by handlePutBlob: blobio.PutBlob writes the
\* blob to m's store and the returned key matches (the broker built it).
PutBlobRPC(m, k) == stored' = [stored EXCEPT ![m] = @ \cup {k}]

\* The goroutine for approved replica m returns (it outlives the handler).
PutReplica(k, m) ==
    /\ put[k].st # "idle"
    /\ m \in Targets(k) \ (put[k].ok \cup put[k].err)
    /\ \/ /\ PutBlobRPC(m, k)
          /\ put' = [put EXCEPT ![k].ok = @ \cup {m}]
       \/ /\ put' = [put EXCEPT ![k].err = @ \cup {m}]
          /\ UNCHANGED stored
    /\ UNCHANGED <<member, revs, synced, approved, markers, faults, lastReq, loop, acked, masterVars>>

TooManyErrors(k) ==
    Cardinality(put[k].err) > Cardinality(Targets(k)) - writeQuorum(Cardinality(Targets(k)))

\* HandleWrite returns errTooManyErrors: PUT fails, nothing is marked.
PutQuorumFail(k) ==
    /\ put[k].st = "fanout"
    /\ TooManyErrors(k)
    /\ put' = [put EXCEPT ![k].st = "failed"]
    /\ UNCHANGED <<nodeVars, acked, masterVars>>

\* HandleWrite has counted a write quorum of successes and returned nil.
QuorumReached(k) ==
    Cardinality(put[k].ok) >= writeQuorum(Cardinality(Targets(k)))

\* HandleWrite returns ctx.Err(): the client went away; nothing is marked.
\* Only HandleWrite watches the request context: once it has returned nil
\* the drain below waits on every replica whatever the client does.  (A
\* cancel that wins the select over votes already queued ends in the state
\* of a cancel before they arrived, the goroutines outliving the handler.)
PutCancel(k) ==
    /\ put[k].st = "fanout"
    /\ ~QuorumReached(k)
    /\ put' = [put EXCEPT ![k].st = "failed"]
    /\ UNCHANGED <<nodeVars, acked, masterVars>>

\* Mutant: no fault mark for a failed replica.
PutDrainedNoMark(k) ==
    /\ put[k].st = "fanout"
    /\ put[k].ok \cup put[k].err = Targets(k)
    /\ ~TooManyErrors(k)
    /\ IF put[k].err = {}
       THEN /\ put' = [put EXCEPT ![k].st = "delta"]
            /\ UNCHANGED acked
       ELSE Ack(k)
    /\ UNCHANGED <<nodeVars, masterVars>>

\* HandleWrite returned nil and every result has been drained.
PutDrained(k) ==
    /\ put[k].st = "fanout"
    /\ put[k].ok \cup put[k].err = Targets(k)
    /\ ~TooManyErrors(k)
    /\ IF put[k].err = {}
       THEN /\ put' = [put EXCEPT ![k].st = "delta"]
            /\ UNCHANGED <<faults, acked>>
       ELSE MarkFault(put[k].b, k) /\ Ack(k)
    /\ UNCHANGED <<member, revs, synced, approved, markers, stored, lastReq, loop, masterVars>>

PutDeltaReplica(k, m) ==
    /\ DeltaLaunched(k)
    /\ m \in NewEntries(k) \ (put[k].dok \cup put[k].derr)
    /\ \/ /\ PutBlobRPC(m, k)
          /\ put' = [put EXCEPT ![k].dok = @ \cup {m}]
       \/ /\ put' = [put EXCEPT ![k].derr = @ \cup {m}]
          /\ UNCHANGED stored
    /\ UNCHANGED <<member, revs, synced, approved, markers, faults, lastReq, loop, acked, masterVars>>

\* The loop over the delta results stops at the first false.
PutDeltaDone(k) ==
    /\ put[k].st = "delta"
    /\ put[k].dok \cup put[k].derr = NewEntries(k) \/ put[k].derr # {}
    /\ IF put[k].derr # {} THEN MarkFault(put[k].b, k) ELSE UNCHANGED faults
    /\ Ack(k)
    /\ UNCHANGED <<member, revs, synced, approved, markers, stored, lastReq, loop, masterVars>>

-----------------------------------------------------------------------------
(***************************************************************************)
(* healFaults at node n, for one fault-marked blob: a blob n does not hold *)
(* is skipped (and stays marked); otherwise it is put, one entry after    *)
(* another, to every entry of the approved SAT and to the newest SAT's    *)
(* entries missing from it (locateBlob), n itself skipped.  The first     *)
(* failing put ends the pass with the mark kept.                          *)
(***************************************************************************)
locateBlob(n) ==
    LET a == approved[n] IN
    IF Newest(n) = a THEN Entries[a]
    ELSE Entries[a] \o SelectSeq(Entries[Newest(n)], LAMBDA m : ~HasEntry(a, m))

\* The entries broadcastBlob puts to: all of them but the local node.
RemoteEntries(n, es) == SelectSeq(es, LAMBDA m : m # n)

\* broadcastBlob: puts k to the entries t in order; the puts to t[1..j]
\* succeed and, if j < Len(t), the next one fails and ends the loop.
broadcastBlob(k, t, j) ==
    stored' = [m \in Nodes |-> IF m \in ToSet(SubSeq(t, 1, j)) THEN stored[m] \cup {k} ELSE stored[m]]

\* blobio.UnmarkBlob(key, FaultBlobMark)
UnmarkFault(n, k) == faults' = [faults EXCEPT ![n] = @ \ {k}]

HealFault(n, k) ==
    /\ k \in faults[n]
    /\ k \in stored[n]
    /\ approved[n] # NoRev
    /\ LET t == RemoteEntries(n, locateBlob(n)) IN
       \E j \in 0..Len(t) :
          /\ broadcastBlob(k, t, j)
          /\ IF j = Len(t) THEN UnmarkFault(n, k) ELSE UNCHANGED faults
    /\ UNCHANGED <<member, revs, synced, approved, markers, lastReq, loop, put, acked, masterVars>>

-----------------------------------------------------------------------------
(***************************************************************************)
(* The master CLI, run by an operator towards revision mTarget: "add"     *)
(* invites the target SAT's new nodes, "propose" sends the spec to every  *)
(* entry in order, "sync" asks every entry to sync, "approve" queries all *)
(* statuses and then approves every entry in order.  A command stops at   *)
(* the first error; the operator runs it again.                           *)
(***************************************************************************)
AfterTarget(t) ==
    /\ mTarget' = t + 1
    /\ mCmd' = IF t + 1 > MaxRev THEN "done" ELSE "add"
    /\ mIdx' = 1

\* add: Invite with the master's approved spec, then AddNode.
MasterAdd(n) ==
    /\ mCmd = "add"
    /\ n \in EntryNodes(mTarget) \ member
    /\ Invite(n, mApproved)
    /\ UNCHANGED <<synced, markers, stored, faults, lastReq, loop, put, acked, masterVars>>

\* propose: ProposeSpec on each entry; then save the proposed spec (and,
\* for revision 0, the approved one).
\* Mutant: the entry loop runs one index too far.
MasterProposeOffByOne ==
    /\ mCmd \in {"add", "propose"}
    /\ EntryNodes(mTarget) \subseteq member
    /\ LET t == mTarget
           i == IF mCmd = "add" THEN 1 ELSE mIdx
           n == Entries[t][i]
       IN /\ ~ProposeErr(n, t)
          /\ ProposeSpec(n, t)
          /\ IF i <= Len(Entries[t])
             THEN /\ mCmd' = "propose" /\ mIdx' = i + 1
                  /\ UNCHANGED <<mProposed, mApproved, mTarget>>
             ELSE /\ mProposed' = t
                  /\ IF t = 0
                     THEN mApproved' = 0 /\ AfterTarget(0)
                     ELSE mCmd' = "sync" /\ mIdx' = 1 /\ UNCHANGED <<mApproved, mTarget>>
    /\ UNCHANGED <<member, stored, faults, lastReq, loop, put, acked>>

MasterPropose ==
    /\ mCmd \in {"add", "propose"}
    /\ EntryNodes(mTarget) \subseteq member
    /\ LET t == mTarget
           i == IF mCmd = "add" THEN 1 ELSE mIdx
           n == Entries[t][i]
       IN /\ ~ProposeErr(n, t)
          /\ ProposeSpec(n, t)
          /\ IF i < Len(Entries[t])
             THEN /\ mCmd' = "propose" /\ mIdx' = i + 1
                  /\ UNCHANGED <<mProposed, mApproved, mTarget>>
             ELSE /\ mProposed' = t
                  /\ IF t = 0
                     THEN mApproved' = 0 /\ AfterTarget(0)
                     ELSE mCmd' = "sync" /\ mIdx' = 1 /\ UNCHANGED <<mApproved, mTarget>>
    /\ UNCHANGED <<member, stored, faults, lastReq, loop, put, acked>>

\* sync: RequestSync on each entry of the proposed spec.
MasterSync ==
    /\ mCmd = "sync"
    /\ LET n == Entries[mTarget][mIdx] IN
       IF RequestSyncErr(n, mTarget)
       THEN mIdx' = 1 /\ UNCHANGED <<nodeVars, mCmd>>
       ELSE /\ RequestSync(n, mTarget)
            /\ IF mIdx < Len(Entries[mTarget])
               THEN mIdx' = mIdx + 1 /\ UNCHANGED mCmd
               ELSE mCmd' = "approve" /\ mIdx' = 1
            /\ UNCHANGED <<member, revs, synced, approved, markers, stored, faults>>
    /\ UNCHANGED <<put, acked, mProposed, mApproved, mTarget>>

\* approve, first part: the status queries.  A node that has not synced
\* the proposed revision makes it fail (the operator syncs again).  A
\* failed query returns errors.Wrap(err, ...) of the outer err, which is
\* nil: approve reports success having approved nothing, and the operator
\* goes on to the next revision.
MasterApproveCheck ==
    /\ mCmd = "approve"
    /\ \/ /\ \E n \in EntryNodes(mTarget) : synced[n] # mTarget
          /\ mCmd' = "sync" /\ mIdx' = 1
          /\ UNCHANGED mTarget
       \/ /\ \A n \in EntryNodes(mTarget) : synced[n] = mTarget
          /\ mCmd' = "approving" /\ mIdx' = 1
          /\ UNCHANGED mTarget
       \/ AfterTarget(mTarget)
    /\ UNCHANGED <<nodeVars, put, acked, mProposed, mApproved>>

\* approve, second part: ApproveSpec on each entry, then save approved.
MasterApprove ==
    /\ mCmd = "approving"
    /\ LET t == mTarget
           n == Entries[t][mIdx]
       IN IF ApproveErr(n, t)
          THEN mCmd' = "approve" /\ mIdx' = 1
               /\ UNCHANGED <<nodeVars, mApproved, mTarget>>
          ELSE \/ /\ ApproveSpec(n, t)
                  /\ IF mIdx < Len(Entries[t])
                     THEN mIdx' = mIdx + 1 /\ UNCHANGED <<mCmd, mApproved, mTarget>>
                     ELSE mApproved' = t /\ AfterTarget(t)
                  /\ UNCHANGED <<member, revs, synced, stored, faults, lastReq, loop>>
               \/ /\ ApproveSpecTagOnly(n, t)
                  /\ mCmd' = "approve" /\ mIdx' = 1
                  /\ UNCHANGED <<member, revs, synced, markers, stored, faults, lastReq, loop,
                                 mApproved, mTarget>>
    /\ UNCHANGED <<put, acked, mProposed>>

-----------------------------------------------------------------------------
\* The node process stops and starts again (node.New, Node.Start): the
\* store survives, lastSyncRequestRev is back to its zero value and the
\* sync loop waits idle; a PUT n was brokering ends with an error to its
\* client, and replica writes it had sent may still land.
Restart(n) ==
    /\ lastReq' = [lastReq EXCEPT ![n] = 0]
    /\ loop' = [loop EXCEPT ![n] = [st |-> "idle"]]
    /\ put' = [k \in Blobs |->
                IF put[k].st \in {"fanout", "delta"} /\ put[k].b = n
                THEN [put[k] EXCEPT !.st = "failed"] ELSE put[k]]
    /\ UNCHANGED <<member, revs, synced, approved, markers, stored, faults, acked, masterVars>>

-----------------------------------------------------------------------------
Next ==
    \/ \E n \in Nodes : MasterAdd(n)
    \/ MasterPropose \/ MasterSync \/ MasterApproveCheck \/ MasterApprove
    \/ \E n \in Nodes : SyncPull(n) \/ SyncDone(n)
    \/ \E b \in Nodes, k \in Blobs : PutStart(b, k)
    \/ \E k \in Blobs, m \in Nodes : PutReplica(k, m) \/ PutDeltaReplica(k, m)
    \/ \E k \in Blobs : PutQuorumFail(k) \/ PutCancel(k) \/ PutDrained(k) \/ PutDeltaDone(k)
    \/ \E n \in Nodes, k \in Blobs : HealFault(n, k)
    \/ \E n \in Nodes : Restart(n)

Spec == Init /\ [][Next]_vars

-----------------------------------------------------------------------------
\* A blob still owes replication: some node has a fault mark for it.
Marked(k) == \E n \in Nodes : k \in faults[n]

\* RPC.GetBlob to m, answered by handleGetBlob: the blob, or 204 No Content
\* (an empty vote) when m's store does not hold it.
GetBlobRPC(m, k) == k \in stored[m]

\* Broker.GetBlob at node b finds k: of the entries located in b's approved
\* SAT, a read quorum answer with the blob (with no failing replica, the
\* answer is "data" exactly when nOK reaches readQuorum, in any vote order).
Readable(b, k) ==
    LET E == Locate(approved[b], k) IN
    Cardinality({m \in E : GetBlobRPC(m, k)}) >= readQuorum(Cardinality(E))

(***************************************************************************)
(* SyncedSlicesHoldAckedBlobs (spec 4.4: a slice is marked synced once its *)
(* blobs have been pulled; 4.6: an acknowledged blob reaches its replicas  *)
(* or is fault-marked): a node with a synced-slice marker for a blob's    *)
(* slice holds the blob, for every blob that has no fault mark and whose  *)
(* PUT started and returned while no reconfiguration was in progress.     *)
(* GetUnsyncedSlices skips a marked slice in every later sync, so a       *)
(* marker without the blob is a copy nothing will ever pull.  It rests on *)
(* the import preceding SetSlicesSynced in syncSlices, on ApproveSpec     *)
(* resetting the markers to the entry's slices, on a failed replica       *)
(* write (or a partial heal pass) keeping the blob marked, across         *)
(* restarts, reruns and the partial failures of ApproveSpec.              *)
(***************************************************************************)
SyncedSlicesHoldAckedBlobs ==
    \A k \in Blobs, n \in Nodes :
        /\ put[k].st = "acked" /\ put[k].q # NoRev /\ ~Marked(k)
        /\ BlobSlice[k] \in markers[n]
        => k \in stored[n]

(***************************************************************************)
(* AckedBlobReadable (spec section 4.6, "the system guarantees eventual    *)
(* replica coverage"): whenever no reconfiguration is in progress (every  *)
(* member's newest spec is its approved one, and they all agree), every   *)
(* blob whose PUT returned success is readable through the broker of      *)
(* every node, or is still fault-marked so that the heal loop re-drives   *)
(* it, whatever reconfiguration ran concurrently with the PUT.  (While   *)
(* the approve command is half-way, brokers at different revisions may   *)
(* disagree; that window is not covered.)                                 *)
(***************************************************************************)
AckedBlobReadable ==
    QuietRev # NoRev =>
        \A k \in acked :
            \/ Marked(k)
            \/ \A b \in Nodes : approved[b] # NoRev => Readable(b, k)

(***************************************************************************)
(* MarkersMatchApproved (spec 4.3 ApproveSpec: "the set of synced-slice  *)
(* keys is exactly this entry's slice set"): while the master has no      *)
(* proposal beyond its approved spec, every entry of that spec has synced- *)
(* slice markers for exactly its slices.  ApproveSpec writes the approved *)
(* tag and then the markers in two writes; if the second fails, a marker  *)
(* of a slice the node gave away survives, and a later revision handing   *)
(* the slice back would skip pulling the blobs written meanwhile.  Only   *)
(* the operator re-running approve, which approves every entry again,    *)
(* repairs it before the master's approved file moves.                    *)
(***************************************************************************)
MarkersMatchApproved ==
    mApproved # NoRev /\ mProposed = mApproved =>
        \A n \in EntryNodes(mApproved) : markers[n] = SAT[mApproved][n]

(***************************************************************************)
(* The heal loop (healFaultsLoop) runs healFaults every 10 seconds for as  *)
(* long as the node runs; a pass to targets that are reachable clears the *)
(* mark.  Assuming the targets are eventually reachable whenever the loop *)
(* retries (spec 4.5 and scenario 5), a successful pass that is enabled   *)
(* infinitely often is eventually taken: strong fairness of the           *)
(* mark-clearing HealFault.  Nothing else is assumed to make progress.    *)
(***************************************************************************)
HealClears(n, k) == HealFault(n, k) /\ k \notin faults'[n]

LiveSpec == Spec /\ \A n \in Nodes, k \in Blobs : SF_vars(HealClears(n, k))

(***************************************************************************)
(* FaultEventuallyHealed (spec 4.6: "fault marking is persistent so the   *)
(* heal loop re-drives replication"; scenario 5: on a later heal tick the *)
(* marker is cleared): every fault mark a broker writes in its own store  *)
(* is eventually removed by the heal loop of that node.                   *)
(***************************************************************************)
FaultEventuallyHealed ==
    \A n \in Nodes, k \in Blobs : k \in faults[n] ~> k \notin faults[n]

(***************************************************************************)
(* The broker's replica RPCs run on node.NewRPC().WithContext(ctx) of the  *)
(* broker's lifetime context, over an http.Client with no timeout: a       *)
(* replica that accepted the request and never answers (its process or    *)
(* disk stalled) keeps its goroutine waiting.  PutFairness(hung) assumes  *)
(* every other replica RPC eventually returns, the broker's own steps are *)
(* eventually taken, and a client that has not been answered eventually  *)
(* gives up (its request context is cancelled); the replicas in `hung`   *)
(* may answer late or never.                                              *)
(***************************************************************************)
PutFairness(hung) ==
    \A k \in Blobs :
        /\ WF_vars(PutQuorumFail(k)) /\ WF_vars(PutCancel(k))
        /\ WF_vars(PutDrained(k)) /\ WF_vars(PutDeltaDone(k))
        /\ \A m \in Nodes \ hung : WF_vars(PutReplica(k, m)) /\ WF_vars(PutDeltaReplica(k, m))

(***************************************************************************)
(* PutReturns (spec 4.6: "when write-quorum of successes is reached,       *)
(* return success to the client", then drain "separately"; spec 5: "the  *)
(* quorum engine returns immediately on cancellation"): every PUT the     *)
(* broker starts handling eventually returns, success or error.           *)
(***************************************************************************)
PutReturns ==
    \A k \in Blobs : put[k].st \in {"fanout", "delta"} ~> put[k].st \in {"acked", "failed"}

=============================================================================
