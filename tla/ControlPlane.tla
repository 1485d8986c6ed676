---------------------------- MODULE ControlPlane ----------------------------
(***************************************************************************)
(* The signed control plane (node/handler.go, node/rpc.go): how a node     *)
(* decides whether to run a master's Invite, ProposeSpec or spec action.  *)
(*                                                                         *)
(* Every request names a target node ("" for none) and is signed by a key *)
(* holder; the signature covers the target, the URI and the body, so a    *)
(* request cannot be altered, but anyone who sees it can deliver it again, *)
(* to any node, at any later time.  The network is the set msgs of every  *)
(* request the master has signed.  Signers other than the master sign     *)
(* requests of their own: they are operators of other clusters, or anyone *)
(* who generated a key.  The node operations are Master's, instantiated   *)
(* on this module's node state; what is added here is handleSignedRequest  *)
(* and the node's cluster ID.                                              *)
(***************************************************************************)
EXTENDS Integers

CONSTANTS
    Nodes,          \* node IDs
    Signers,        \* key holders: the master and others
    MasterKey,      \* the master's identity
    Specs,          \* the specs a signer may send: records [rev, sat]
    MaxRev,         \* largest revision of Specs
    SliceCountM     \* slices of the key space (256 in the code)

ASSUME MasterKey \in Signers

\* "" in the code: no cluster ID yet, or no target-id header.
NoID == ""

VARIABLES
    clusterID,      \* clusterID[n]: the signer n records as its master, or NoID
    committed,      \* as in Master
    synced,
    approved,
    syncing,
    msgs            \* every request the master has signed

vars == <<clusterID, committed, synced, approved, syncing, msgs>>

Joined == {n \in Nodes : clusterID[n] # NoID}

\* The node operations of Master, on this node state; the master's own
\* files and command play no part here.
Nd == INSTANCE Master WITH
    Replicas <- 1, MaxWeight <- 1,
    draft <- <<>>, proposedF <- [rev |-> -1, sat |-> <<>>],
    approvedF <- [rev |-> -1, sat |-> <<>>], joined <- Joined,
    cmd <- "idle", cur <- [rev |-> -1, sat |-> <<>>], idx <- 1

NoRev == Nd!NoRev
NoSpec == Nd!NoSpec

\* A signed request: kind, target-id header, signer, and the spec (Invite's
\* init spec, ProposeSpec's spec) or revision (spec actions) it carries.
Req(kind, target, signer, spec, rev) ==
    [kind |-> kind, target |-> target, signer |-> signer, spec |-> spec, rev |-> rev]

\* Every request signer s can make (RPC.Invite, RPC.ProposeSpec,
\* RPC.performSpecAction), to any target.
Requests(s) ==
    LET T == Nodes \cup {NoID} IN
    {Req("invite", t, s, p, NoRev) : t \in T, p \in Specs \cup {NoSpec}}
    \cup {Req("propose", t, s, p, NoRev) : t \in T, p \in Specs}
    \cup {Req(a, t, s, NoSpec, r) : a \in {"approve", "sync"}, t \in T, r \in 0..MaxRev}

\* The master signs add's Invite with an empty target-id, and propose's,
\* sync's and approve's requests with the entry's node ID.
MasterRequests ==
    {q \in Requests(MasterKey) : (q.kind = "invite") = (q.target = NoID)}

\* What a signer other than the master can deliver.
Forged == UNION {Requests(s) : s \in Signers \ {MasterKey}}

Init ==
    /\ clusterID = [n \in Nodes |-> NoID]
    /\ committed = [n \in Nodes |-> {}]
    /\ synced = [n \in Nodes |-> NoRev] /\ approved = [n \in Nodes |-> NoRev]
    /\ syncing = [n \in Nodes |-> NoRev]
    /\ msgs = {}

-----------------------------------------------------------------------------
\* handleSignedRequest(req, &signerID): reject a request for another
\* target; recover the signer; an empty signerID takes it, any other must
\* equal it.  start is the signerID the handler passes in.
Verified(n, q, start) ==
    /\ q.target = NoID \/ q.target = n
    /\ start = NoID \/ start = q.signer

\* Node.Invite(clusterID, initSpec): "already in cluster" for another
\* master, then Master's checks; the init spec is committed and approved,
\* and the signer recorded as the cluster ID.
InviteErr(n, c, init) ==
    \/ clusterID[n] # NoID /\ clusterID[n] # c
    \/ Nd!InviteErr(n, init)

\* handleInvite: signerID starts empty, so the first signer is taken.
HandleInvite(n, q) ==
    /\ q.kind = "invite"
    /\ Verified(n, q, NoID)
    /\ ~InviteErr(n, q.signer, q.spec)
    /\ clusterID' = [clusterID EXCEPT ![n] = q.signer]
    /\ IF q.spec = NoSpec THEN UNCHANGED <<committed, approved>>
       ELSE /\ committed' = [committed EXCEPT ![n] = @ \cup {q.spec}]
            /\ approved' = [approved EXCEPT ![n] = q.spec.rev]
    /\ UNCHANGED <<synced, syncing>>

\* handleProposeSpec: signerID starts as the node's cluster ID.
HandleProposeSpec(n, q) ==
    /\ q.kind = "propose"
    /\ Verified(n, q, clusterID[n])
    /\ ~Nd!ProposeErr(n, q.spec)
    /\ Nd!ProposeSpec(n, q.spec)
    /\ UNCHANGED <<clusterID, syncing>>

\* handleSpecAction: likewise; the action selects ApproveSpec or RequestSync.
HandleSpecAction(n, q) ==
    /\ q.kind \in {"approve", "sync"}
    /\ Verified(n, q, clusterID[n])
    /\ ~Nd!SpecActionErr(n, q.rev, q.kind)
    /\ Nd!SpecAction(n, q.rev, q.kind)
    /\ UNCHANGED <<clusterID, committed, synced>>

-----------------------------------------------------------------------------
\* RPC.doRequest with an identity: the master signs the request; it is on
\* the network from then on.
MasterSign(q) ==
    /\ msgs' = msgs \cup {q}
    /\ UNCHANGED <<clusterID, committed, synced, approved, syncing>>

\* A request reaches node n's handler; a rejected one changes nothing.
Deliver(n, q) ==
    /\ HandleInvite(n, q) \/ HandleProposeSpec(n, q) \/ HandleSpecAction(n, q)
    /\ UNCHANGED msgs

\* The node's sync loop ends a requested sync.
SyncEnd(n) ==
    /\ UNCHANGED <<clusterID, msgs>>
    /\ Nd!SyncEnd(n)

Next ==
    \/ \E q \in MasterRequests : MasterSign(q)
    \/ \E n \in Nodes, q \in msgs \cup Forged : Deliver(n, q)
    \/ \E n \in Nodes : SyncEnd(n)

Spec == Init /\ [][Next]_vars

-----------------------------------------------------------------------------
\* Spec 4.7: a handler accepts a control request only when its signer is
\* the node's recorded cluster ID (Invite: becomes it on first use).  So a
\* node in the master's cluster holds only specs the master signed.  The
\* code's handleProposeSpec passes signerID = n.clusterID, which is "" until
\* the node is invited, and handleSignedRequest then takes any signer.
MembersHoldMasterSpecs ==
    \A n \in Nodes :
        clusterID[n] = MasterKey =>
            committed[n] \subseteq {q.spec : q \in msgs}
=============================================================================
