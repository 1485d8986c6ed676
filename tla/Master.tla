------------------------------- MODULE Master -------------------------------
(***************************************************************************)
(* The master CLI (cmd/master/master.go, cmd/master/mod/mod.go) driving    *)
(* the nodes' spec lifecycle (node/node.go) over signed RPCs              *)
(* (node/rpc.go, node/handler.go).                                         *)
(*                                                                         *)
(* The operator edits a draft (add, remove, alter) and runs propose, sync  *)
(* and approve, one command at a time.  The master keeps the draft and    *)
(* two spec files, ".proposed.conf" and ".approved.conf"; propose builds  *)
(* the next spec from the draft (BuildSpec: Draft.Alloc, and a revision   *)
(* derived from the proposed file).  A node keeps its committed specs and *)
(* its synced and approved tags; its sync loop is abstracted to a request *)
(* that later completes or fails (Cluster models the loop itself).        *)
(*                                                                         *)
(* Each RPC of a command is one step.  doRequest returns an error either  *)
(* before the handler ran (no effect), or when the handler returned one,  *)
(* or after the handler ran, when the response is lost: the node changed  *)
(* but the master sees a failure.  A command stops at its first error.    *)
(* A node ID also stands for its address.                                  *)
(***************************************************************************)
EXTENDS Naturals, Sequences, SequencesExt, FiniteSetsExt

CONSTANTS
    Nodes,          \* node IDs
    Replicas,       \* draft.Replicas, set by `new --replicas`
    SliceCountM,    \* slices of the key space (256 in the code)
    MaxWeight,      \* largest --weight given to add or alter
    MaxRev          \* bound on the revisions BuildSpec may produce

ASSUME /\ Replicas \in Nat \ {0} /\ MaxWeight \in Nat \ {0} /\ MaxRev \in Nat

\* Only Allocate of SliceAlloc is used; it reads no variable.
Alloc == INSTANCE SliceAlloc WITH
    SliceCount <- SliceCountM, MaxNodes <- Cardinality(Nodes), MaxWeight <- MaxWeight,
    MaxReplicas <- Replicas, draft <- 0, pool <- 0, held <- 0, status <- 0

NoRev == -1
RevOrNo == 0..MaxRev \cup {NoRev}

\* spec.Spec: a revision and a SAT, the entries in draft order.
Entries == Seq([id : Nodes, slices : SUBSET (0..SliceCountM-1)])
NoSpec == [rev |-> NoRev, sat |-> <<>>]

VARIABLES
    draft,          \* draft.Nodes: <<[id, w]>> in order
    proposedF,      \* the spec in .proposed.conf, or NoSpec
    approvedF,      \* the spec in .approved.conf, or NoSpec
    joined,         \* nodes whose clusterID is set
    committed,      \* committed[n]: the specs n's spec manager holds
    synced,         \* synced[n]: revision tagged "synced", or NoRev
    approved,       \* approved[n]: revision tagged "approved", or NoRev
    syncing,        \* syncing[n]: revision n's sync loop is running, or NoRev
    cmd,            \* command the operator is running, "idle" between them
    cur,            \* the spec the running command works on
    idx             \* entry of cur the running command is at

nodeVars == <<joined, committed, synced, approved, syncing>>
vars == <<draft, proposedF, approvedF, nodeVars, cmd, cur, idx>>

Revs(n)      == {s.rev : s \in committed[n]}
Newest(n)    == IF committed[n] = {} THEN NoRev ELSE Max(Revs(n))
EntryIDs(s)  == {s.sat[i].id : i \in DOMAIN s.sat}

TypeOK ==
    /\ draft \in Seq([id : Nodes, w : 0..MaxWeight]) /\ Len(draft) <= Cardinality(Nodes)
    /\ {proposedF, approvedF, cur} \subseteq [rev : RevOrNo, sat : Entries]
    /\ joined \subseteq Nodes
    /\ committed \in [Nodes -> SUBSET [rev : 0..MaxRev, sat : Entries]]
    /\ synced \in [Nodes -> RevOrNo] /\ approved \in [Nodes -> RevOrNo]
    /\ syncing \in [Nodes -> RevOrNo]
    /\ cmd \in {"idle", "propose", "sync", "approve"}
    /\ idx \in 1..Cardinality(Nodes)

\* New (node.go): no cluster ID, no spec, no tag, the loop waiting.
NodeInit ==
    /\ joined = {} /\ committed = [n \in Nodes |-> {}]
    /\ synced = [n \in Nodes |-> NoRev] /\ approved = [n \in Nodes |-> NoRev]
    /\ syncing = [n \in Nodes |-> NoRev]

\* `master new`: an empty draft, no spec files; nodes not yet invited.
Init ==
    /\ draft = <<>> /\ proposedF = NoSpec /\ approvedF = NoSpec
    /\ NodeInit
    /\ cmd = "idle" /\ cur = NoSpec /\ idx = 1

-----------------------------------------------------------------------------
(***************************************************************************)
(* Node handlers.  X is the effect of a call that returns nil, XErr the    *)
(* condition under which the handler returns an error before any effect.  *)
(***************************************************************************)
\* SpecManager.Commit: "commit: inconsistent spec"
CommitErr(n, s) == \E c \in committed[n] : c.rev = s.rev /\ c # s

\* Node.Invite: a re-entering node rejects an init spec other than its
\* approved one; the init spec is committed and tagged approved.
InviteErr(n, init) ==
    \/ n \in joined /\ approved[n] # NoRev /\ init # NoSpec /\ init.rev # approved[n]
    \/ init # NoSpec /\ CommitErr(n, init)

Invite(n, init) ==
    /\ joined' = joined \cup {n}
    /\ IF init = NoSpec THEN UNCHANGED <<committed, approved>>
       ELSE /\ committed' = [committed EXCEPT ![n] = @ \cup {init}]
            /\ approved' = [approved EXCEPT ![n] = init.rev]

\* Node.ProposeSpec: "revision too low", then Commit; revision 0 is tagged
\* synced and approved at once.
ProposeErr(n, s) == (Newest(n) # NoRev /\ s.rev < Newest(n)) \/ CommitErr(n, s)

ProposeSpec(n, s) ==
    /\ committed' = [committed EXCEPT ![n] = @ \cup {s}]
    /\ IF s.rev = 0
       THEN synced' = [synced EXCEPT ![n] = 0] /\ approved' = [approved EXCEPT ![n] = 0]
       ELSE UNCHANGED <<synced, approved>>

\* Node.RequestSync: the unbuffered send succeeds when the loop is idle; a
\* busy loop accepts only a repeat of lastSyncRequestRev (the revision it runs).
RequestSyncErr(n, r) ==
    \/ synced[n] # NoRev /\ r < synced[n]
    \/ r \notin Revs(n)
    \/ syncing[n] # NoRev /\ syncing[n] # r

RequestSync(n, r) == syncing' = [syncing EXCEPT ![n] = IF @ = NoRev THEN r ELSE @]

\* Node.ApproveSpec: "no synced spec" / "spec not synced", then the tag.
ApproveErr(n, r) == synced[n] # r

ApproveSpec(n, r) == approved' = [approved EXCEPT ![n] = r]

\* syncSlices returns: it tags the revision synced only when the node has
\* an entry in that spec, an approved spec to pull from, and every pull
\* succeeded; otherwise it fails and the tag is left alone.
SyncEnd(n) ==
    /\ syncing[n] # NoRev
    /\ \/ /\ approved[n] # NoRev
          /\ \E c \in committed[n] : c.rev = syncing[n] /\ n \in EntryIDs(c)
          /\ synced' = [synced EXCEPT ![n] = syncing[n]]
       \/ UNCHANGED synced
    /\ syncing' = [syncing EXCEPT ![n] = NoRev]
    /\ UNCHANGED <<joined, committed, approved>>

-----------------------------------------------------------------------------
(***************************************************************************)
(* One RPC of the master (RPC.doRequest): the request fails before the     *)
(* handler runs (connection refused, bad signature) or the handler returns *)
(* an error (err): no effect; or the handler ran (eff) and its response is *)
(* lost; or the response arrives and the command goes on (done).  Either *)
(* error ends the command; `keep` holds the master's files.                *)
(***************************************************************************)
Stop == cmd' = "idle" /\ UNCHANGED <<cur, idx>>
Next1 == idx' = idx + 1 /\ UNCHANGED <<cmd, cur>>
AtLast == idx = Len(cur.sat)

Rpc(err, eff, noEff, done, keep) ==
    \/ ~err /\ eff /\ done
    \/ ~err /\ eff /\ Stop /\ keep
    \/ noEff /\ Stop /\ keep

-----------------------------------------------------------------------------
(***************************************************************************)
(* Draft editing: add, remove, alter (mod.Model AddNode/RemoveNode/        *)
(* AlterNode, then Save).                                                  *)
(***************************************************************************)
\* RPC.Invite, RPC.ProposeSpec: one signed request each.
InviteCall(n, init, done, keep) ==
    Rpc(InviteErr(n, init), Invite(n, init), UNCHANGED <<joined, committed, approved>>, done, keep)

ProposeCall(n, s, done, keep) ==
    Rpc(ProposeErr(n, s), ProposeSpec(n, s), UNCHANGED <<committed, synced, approved>>, done, keep)

\* handleSpecAction: the action of the URL selects ApproveSpec or RequestSync.
SpecActionErr(n, r, action) ==
    IF action = "approve" THEN ApproveErr(n, r) ELSE RequestSyncErr(n, r)

SpecAction(n, r, action) ==
    IF action = "approve" THEN ApproveSpec(n, r) /\ UNCHANGED syncing
                          ELSE RequestSync(n, r) /\ UNCHANGED approved

\* RPC.performSpecAction, used by RPC.ApproveSpec and RPC.SyncToSpec.
performSpecAction(n, r, action, done, keep) ==
    Rpc(SpecActionErr(n, r, action), SpecAction(n, r, action),
        UNCHANGED <<syncing, approved>>, done, keep)

\* Node.GetStatus: newest, synced and approved revisions (-1 for none).
GetStatus(n) == [newest |-> Newest(n), synced |-> synced[n], approved |-> approved[n]]

\* queryNodeStatus: the status of every entry, in entry order.
queryNodeStatus(s) == [i \in DOMAIN s.sat |-> GetStatus(s.sat[i].id)]

-----------------------------------------------------------------------------
\* Draft.Validate: "duplicated node" when two nodes share an ID.
Validate(d) == \A i, j \in DOMAIN d : d[i].id = d[j].id => i = j

\* AddNode without Validate's check.
AddNodeNoValidate(n, w) == Append(draft, [id |-> n, w |-> w])

\* Model.AddNode appends and returns Validate's error; add then returns
\* before Save, so the draft file keeps the old draft.
AddNode(n, w) ==
    LET d == Append(draft, [id |-> n, w |-> w]) IN IF Validate(d) THEN d ELSE draft

\* Model.RemoveNode, Model.AlterNode (weight; the address is not modelled).
RemoveNode(i) == RemoveAt(draft, i)
AlterNode(i, w) == [draft EXCEPT ![i].w = w]

\* add: Invite with the approved spec file, then AddNode and Save.
MasterAdd(n, w) ==
    /\ cmd = "idle"
    /\ InviteCall(n, approvedF,
           Stop /\ draft' = AddNode(n, w),
           UNCHANGED draft)
    /\ UNCHANGED <<proposedF, approvedF, synced, syncing>>

\* remove: a valid index (an invalid one panics before Save: no effect).
MasterRemove(i) ==
    /\ cmd = "idle"
    /\ draft' = RemoveNode(i)
    /\ UNCHANGED <<proposedF, approvedF, nodeVars, cmd, cur, idx>>

\* alter --weight at an index GetNode accepts.
MasterAlter(i, w) ==
    /\ cmd = "idle"
    /\ draft' = AlterNode(i, w)
    /\ UNCHANGED <<proposedF, approvedF, nodeVars, cmd, cur, idx>>

-----------------------------------------------------------------------------
(***************************************************************************)
(* BuildSpec: Draft.Alloc ("not enough nodes" when fewer working nodes     *)
(* than replicas); revision 0 with no proposed file, else the proposed     *)
(* revision if the SAT is unchanged and the next one if it changed.       *)
(***************************************************************************)
CanAlloc(d) == Cardinality({j \in DOMAIN d : d[j].w > 0}) >= Replicas

SatOf(d) ==
    LET h == Alloc!Allocate([replicas |-> Replicas, weights |-> [j \in DOMAIN d |-> d[j].w]])
    IN [j \in DOMAIN d |-> [id |-> d[j].id, slices |-> h[j]]]

BuildSpec ==
    LET sat == SatOf(draft) IN
    [rev |-> CASE proposedF = NoSpec     -> 0
               [] proposedF.sat = sat    -> proposedF.rev
               [] OTHER                  -> proposedF.rev + 1,
     sat |-> sat]

MasterProposeStart ==
    /\ cmd = "idle"
    /\ CanAlloc(draft)
    /\ BuildSpec.rev <= MaxRev
    /\ cmd' = "propose" /\ cur' = BuildSpec /\ idx' = 1
    /\ UNCHANGED <<draft, proposedF, approvedF, nodeVars>>

\* propose saving the approved file for every revision, not only 0.
MasterProposeStepApprovesAll ==
    /\ cmd = "propose"
    /\ LET n == cur.sat[idx].id IN
       ProposeCall(n, cur,
           IF AtLast THEN proposedF' = cur /\ approvedF' = cur /\ Stop
                     ELSE Next1 /\ UNCHANGED <<proposedF, approvedF>>,
           UNCHANGED <<proposedF, approvedF>>)
    /\ UNCHANGED <<draft, joined, syncing>>

\* ProposeSpec on entry idx; after the last one, save the proposed spec,
\* and for revision 0 the approved spec too.  Either SaveSpec may fail
\* (or the process stop); a failure of the first is the Stop of Rpc, one of
\* the second leaves only the proposed file written.
MasterProposeStep ==
    /\ cmd = "propose"
    /\ LET n == cur.sat[idx].id IN
       ProposeCall(n, cur,
           IF AtLast
           THEN /\ proposedF' = cur
                /\ approvedF' \in IF cur.rev = 0 THEN {cur, approvedF} ELSE {approvedF}
                /\ Stop
           ELSE Next1 /\ UNCHANGED <<proposedF, approvedF>>,
           UNCHANGED <<proposedF, approvedF>>)
    /\ UNCHANGED <<draft, joined, syncing>>

MasterSyncStart ==
    /\ cmd = "idle"
    /\ proposedF # NoSpec                   \* else "no proposed spec"
    /\ cmd' = "sync" /\ cur' = proposedF /\ idx' = 1
    /\ UNCHANGED <<draft, proposedF, approvedF, nodeVars>>

\* SyncToSpec on entry idx.
MasterSyncStep ==
    /\ cmd = "sync"
    /\ LET n == cur.sat[idx].id IN
       performSpecAction(n, cur.rev, "sync", IF AtLast THEN Stop ELSE Next1, TRUE)
    /\ UNCHANGED <<draft, proposedF, approvedF, joined, committed, synced>>

\* approve, first part: the status of every entry must report the proposed
\* revision synced.  (A query error returns the nil outer err: success with
\* no effect, a stuttering step here; see Cluster.)
MasterApproveStart ==
    /\ cmd = "idle"
    /\ proposedF # NoSpec
    /\ \A i \in DOMAIN proposedF.sat : queryNodeStatus(proposedF)[i].synced = proposedF.rev
    /\ cmd' = "approve" /\ cur' = proposedF /\ idx' = 1
    /\ UNCHANGED <<draft, proposedF, approvedF, nodeVars>>

\* ApproveSpec on entry idx; after the last one, save the approved spec.
MasterApproveStep ==
    /\ cmd = "approve"
    /\ LET n == cur.sat[idx].id IN
       performSpecAction(n, cur.rev, "approve",
           IF AtLast THEN approvedF' = cur /\ Stop ELSE Next1 /\ UNCHANGED approvedF,
           UNCHANGED approvedF)
    /\ UNCHANGED <<draft, proposedF, joined, committed, synced>>

-----------------------------------------------------------------------------
Next ==
    \/ \E n \in Nodes, w \in 0..MaxWeight : MasterAdd(n, w)
    \/ \E i \in DOMAIN draft : MasterRemove(i)
    \/ \E i \in DOMAIN draft, w \in 0..MaxWeight : MasterAlter(i, w)
    \/ MasterProposeStart \/ MasterProposeStep
    \/ MasterSyncStart \/ MasterSyncStep
    \/ MasterApproveStart \/ MasterApproveStep
    \/ \E n \in Nodes : SyncEnd(n) /\ UNCHANGED <<draft, proposedF, approvedF, cmd, cur, idx>>

Spec == Init /\ [][Next]_vars

-----------------------------------------------------------------------------
(***************************************************************************)
(* ApprovedFileAgreed: whenever .approved.conf holds a spec, every entry   *)
(* of it has committed that very spec and tagged its revision (or a later *)
(* one) approved.  `add` hands this file to new nodes as their init spec, *)
(* so a file written after a partial propose or approve would make them   *)
(* commit a spec the cluster never agreed on.  Only the last step of      *)
(* propose (revision 0) and of approve may save it.                       *)
(***************************************************************************)
ApprovedFileAgreed ==
    approvedF # NoSpec =>
        \A n \in EntryIDs(approvedF) :
            /\ approvedF \in committed[n]
            /\ approved[n] # NoRev /\ approved[n] >= approvedF.rev

(***************************************************************************)
(* SpecRevisionUnique (spec: "specs are append-only by revision"): no two  *)
(* nodes ever hold different specs under the same revision.  BuildSpec    *)
(* derives the revision from .proposed.conf, which propose saves only     *)
(* after every ProposeSpec succeeded.                                      *)
(***************************************************************************)
SpecRevisionUnique ==
    \A n, m \in Nodes : \A s \in committed[n], t \in committed[m] :
        s.rev = t.rev => s = t

=============================================================================
