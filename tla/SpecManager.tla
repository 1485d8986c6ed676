----------------------------- MODULE SpecManager -----------------------------
(***************************************************************************)
(* The spec manager, specmgr/spec_mgr.go, shared by a node's HTTP handler  *)
(* goroutines, its sync and heal loops and its broker.                     *)
(*                                                                         *)
(* Revisions and tags live in the key-value store; two caches sit in      *)
(* front of them: newestCache (a plain field, no lock) and taggedCache (a *)
(* map guarded by a mutex that is held only inside getCached/setCached).  *)
(* Every operation is split at its store accesses, since another          *)
(* goroutine can run between any two of them:                             *)
(*   Commit:    Get(revKey) | Put(revKey) | newestCache = nil             *)
(*   GetNewest: read newestCache | iter.Last() | newestCache = &s         *)
(*   Tag:       Has(revKey) | Put(tagKey) | setCached(tag, nil)           *)
(*   GetByTag:  getCached | Get(tagKey) + GetByRevision | setCached(tag,s)*)
(* A spec's content is a function of its revision (the master builds one  *)
(* spec per revision), so a revision stands for the spec.                 *)
(***************************************************************************)
EXTENDS Naturals, FiniteSetsExt, KeyRange

CONSTANTS
    Procs,          \* goroutines calling the manager
    Revisions,      \* revisions that can be committed
    Tags,           \* tag names ("synced", "approved")
    MaxTagWrites    \* bound on completed Tag calls

ASSUME Revisions \subseteq Nat /\ MaxTagWrites \in Nat

NoRev == -1

\* A tag value in the store: the revision and the number of the Put that
\* wrote it (a history field that lets properties tell old from new).
TagVals == [rev : Revisions, seq : 0..MaxTagWrites]
None == [rev |-> NoRev, seq |-> 0]

VARIABLES
    revs,           \* revisions stored under .spec/rev/
    tagStore,       \* tagStore[t]: value under .spec/tags/t, or None
    newestCache,    \* SpecManager.newestCache, NoRev for nil
    tagCache,       \* taggedCache.cache[t], None for nil
    tagSeq,         \* number of tag Puts so far (history)
    commitsDone,    \* revisions whose Commit has returned (history)
    tagsDone,       \* tagsDone[t]: seq of the last Tag(t) that returned
    pc              \* pc[p]: the call goroutine p is in, with its locals

vars == <<revs, tagStore, newestCache, tagCache, tagSeq, commitsDone, tagsDone, pc>>

Ops == {"Commit", "GetNewest", "Tag", "GetByTag"}

\* A call in progress, or the last call returned (step "ret") with its
\* result `val` and the freshness floor taken when it started.
Calls == [op : Ops, step : 1..3, rev : Revisions \cup {NoRev}, tag : Tags,
          val : TagVals \cup {None}, floor : Nat]
Idle == [op |-> "GetNewest", step |-> 1, rev |-> NoRev, tag |-> CHOOSE t \in Tags : TRUE,
         val |-> None, floor |-> 0]

\* The variables have their types, and a Commit that returned nil has its
\* spec in the store (Commit returns the store's error on a failed Put).
TypeOK ==
    /\ revs \subseteq Revisions
    /\ tagStore \in [Tags -> TagVals \cup {None}]
    /\ newestCache \in Revisions \cup {NoRev}
    /\ tagCache \in [Tags -> TagVals \cup {None}]
    /\ tagSeq \in 0..MaxTagWrites
    /\ commitsDone \subseteq revs
    /\ tagsDone \in [Tags -> 0..MaxTagWrites]
    /\ pc \in [Procs -> [status : {"idle", "busy", "ret"}, call : Calls]]

Init ==
    /\ revs = {}
    /\ tagStore = [t \in Tags |-> None]
    /\ newestCache = NoRev
    /\ tagCache = [t \in Tags |-> None]
    /\ tagSeq = 0
    /\ commitsDone = {}
    /\ tagsDone = [t \in Tags |-> 0]
    /\ pc = [p \in Procs |-> [status |-> "idle", call |-> Idle]]

Free(p) == pc[p].status # "busy"
Busy(p, op, step) == pc[p].status = "busy" /\ pc[p].call.op = op /\ pc[p].call.step = step
Goto(p, step) == pc' = [pc EXCEPT ![p].call.step = step]
Return(p, v) == pc' = [pc EXCEPT ![p].status = "ret", ![p].call.val = v]
Start(p, c) == pc' = [pc EXCEPT ![p] = [status |-> "busy", call |-> c]]

\* What iter.Last() over the revision range reads: the largest committed
\* revision, since makeRevisionKey pads to ten digits (KeyRange's
\* NewestIsLastKey checks this against the byte order of the keys).
NewestRev == IF revs = {} THEN NoRev ELSE Max(revs)

-----------------------------------------------------------------------------
(* Commit(s): the existence check, then Put, then newestCache = nil.       *)
CommitStart(p, r) ==
    /\ Free(p)
    /\ IF r \in revs     \* od.V != nil: same bytes, return nil
       THEN pc' = [pc EXCEPT ![p] = [status |-> "idle", call |-> Idle]]
       ELSE Start(p, [Idle EXCEPT !.op = "Commit", !.step = 2, !.rev = r])
    /\ UNCHANGED <<revs, tagStore, newestCache, tagCache, tagSeq, commitsDone, tagsDone>>

\* Mutant: the Put's error is logged and not returned, so Commit goes on
\* to reset the cache and return nil.
CommitPutIgnoreErr(p) ==
    /\ Busy(p, "Commit", 2)
    /\ revs' \in {revs, revs \cup {pc[p].call.rev}}
    /\ Goto(p, 3)
    /\ UNCHANGED <<tagStore, newestCache, tagCache, tagSeq, commitsDone, tagsDone>>

\* store.Put(revKey, data): the spec is written, or the store fails and
\* Commit returns the error with nothing changed.
CommitPut(p) ==
    /\ Busy(p, "Commit", 2)
    /\ \/ /\ revs' = revs \cup {pc[p].call.rev}
          /\ Goto(p, 3)
       \/ /\ pc' = [pc EXCEPT ![p].status = "ret"]
          /\ UNCHANGED revs
    /\ UNCHANGED <<tagStore, newestCache, tagCache, tagSeq, commitsDone, tagsDone>>

CommitInvalidate(p) ==
    /\ Busy(p, "Commit", 3)
    /\ newestCache' = NoRev
    /\ commitsDone' = commitsDone \cup {pc[p].call.rev}
    /\ Return(p, None)
    /\ UNCHANGED <<revs, tagStore, tagCache, tagSeq, tagsDone>>

(* GetNewest: a cache hit returns at once; a miss reads iter.Last() and    *)
(* then stores what it read in newestCache.                                *)
GetNewestStart(p) ==
    /\ Free(p)
    /\ LET c == [Idle EXCEPT !.op = "GetNewest",
                             !.floor = IF commitsDone = {} THEN 0 ELSE Max(commitsDone) + 1]
       IN IF newestCache # NoRev
          THEN pc' = [pc EXCEPT ![p] = [status |-> "ret",
                                        call |-> [c EXCEPT !.rev = newestCache]]]
          ELSE Start(p, [c EXCEPT !.step = 2])
    /\ UNCHANGED <<revs, tagStore, newestCache, tagCache, tagSeq, commitsDone, tagsDone>>

GetNewestRead(p) ==
    /\ Busy(p, "GetNewest", 2)
    /\ pc' = IF revs = {}     \* iter.Last() false: empty result, cache untouched
             THEN [pc EXCEPT ![p].status = "ret", ![p].call.rev = NoRev]
             ELSE [pc EXCEPT ![p].call.step = 3, ![p].call.rev = NewestRev]
    /\ UNCHANGED <<revs, tagStore, newestCache, tagCache, tagSeq, commitsDone, tagsDone>>

GetNewestFill(p) ==
    /\ Busy(p, "GetNewest", 3)
    /\ newestCache' = pc[p].call.rev
    /\ pc' = [pc EXCEPT ![p].status = "ret"]
    /\ UNCHANGED <<revs, tagStore, tagCache, tagSeq, commitsDone, tagsDone>>

(* Tag(revision, tag): Has(revKey), Put(tagKey), setCached(tag, nil).      *)
TagStart(p, r, t) ==
    /\ Free(p)
    /\ tagSeq < MaxTagWrites
    /\ IF r \notin revs   \* "tag: revision not found"
       THEN pc' = [pc EXCEPT ![p] = [status |-> "idle", call |-> Idle]]
       ELSE Start(p, [Idle EXCEPT !.op = "Tag", !.step = 2, !.rev = r, !.tag = t])
    /\ UNCHANGED <<revs, tagStore, newestCache, tagCache, tagSeq, commitsDone, tagsDone>>

\* Mutant: the new value is also cached before it is stored (write-through).
TagPutCacheFirst(p) ==
    /\ Busy(p, "Tag", 2)
    /\ tagSeq < MaxTagWrites
    /\ tagCache' = [tagCache EXCEPT ![pc[p].call.tag] = [rev |-> pc[p].call.rev, seq |-> tagSeq + 1]]
    /\ pc' = [pc EXCEPT ![p].call.step = 3, ![p].call.val = [rev |-> pc[p].call.rev, seq |-> tagSeq + 1]]
    /\ UNCHANGED <<revs, tagStore, newestCache, tagSeq, commitsDone, tagsDone>>

TagPut(p) ==
    /\ Busy(p, "Tag", 2)
    /\ tagSeq < MaxTagWrites
    /\ tagSeq' = tagSeq + 1
    /\ tagStore' = [tagStore EXCEPT ![pc[p].call.tag] = [rev |-> pc[p].call.rev, seq |-> tagSeq + 1]]
    /\ pc' = [pc EXCEPT ![p].call.step = 3, ![p].call.val = [rev |-> pc[p].call.rev, seq |-> tagSeq + 1]]
    /\ UNCHANGED <<revs, newestCache, tagCache, commitsDone, tagsDone>>

TagInvalidate(p) ==
    /\ Busy(p, "Tag", 3)
    /\ tagCache' = [tagCache EXCEPT ![pc[p].call.tag] = None]
    /\ tagsDone' = [tagsDone EXCEPT ![pc[p].call.tag] = pc[p].call.val.seq]
    /\ pc' = [pc EXCEPT ![p].status = "ret"]
    /\ UNCHANGED <<revs, tagStore, newestCache, tagSeq, commitsDone>>

(* GetByTag(tag): getCached, then Get(tagKey) and GetByRevision, then      *)
(* setCached(tag, spec).                                                   *)
GetByTagStart(p, t) ==
    /\ Free(p)
    /\ LET c == [Idle EXCEPT !.op = "GetByTag", !.tag = t, !.floor = tagsDone[t]] IN
       IF tagCache[t] # None
       THEN pc' = [pc EXCEPT ![p] = [status |-> "ret", call |-> [c EXCEPT !.val = tagCache[t]]]]
       ELSE Start(p, [c EXCEPT !.step = 2])
    /\ UNCHANGED <<revs, tagStore, newestCache, tagCache, tagSeq, commitsDone, tagsDone>>

GetByTagRead(p) ==
    /\ Busy(p, "GetByTag", 2)
    /\ LET v == tagStore[pc[p].call.tag] IN
       pc' = IF v = None      \* revStr.V == nil: empty result, cache untouched
             THEN [pc EXCEPT ![p].status = "ret", ![p].call.val = None]
             ELSE [pc EXCEPT ![p].call.step = 3, ![p].call.val = v]
    /\ UNCHANGED <<revs, tagStore, newestCache, tagCache, tagSeq, commitsDone, tagsDone>>

GetByTagFill(p) ==
    /\ Busy(p, "GetByTag", 3)
    /\ tagCache' = [tagCache EXCEPT ![pc[p].call.tag] = pc[p].call.val]
    /\ pc' = [pc EXCEPT ![p].status = "ret"]
    /\ UNCHANGED <<revs, tagStore, newestCache, tagSeq, commitsDone, tagsDone>>

Next ==
    \E p \in Procs :
        \/ \E r \in Revisions : CommitStart(p, r)
        \/ CommitPut(p) \/ CommitInvalidate(p)
        \/ GetNewestStart(p) \/ GetNewestRead(p) \/ GetNewestFill(p)
        \/ \E r \in Revisions, t \in Tags : TagStart(p, r, t)
        \/ TagPut(p) \/ TagInvalidate(p)
        \/ \E t \in Tags : GetByTagStart(p, t)
        \/ GetByTagRead(p) \/ GetByTagFill(p)

Spec == Init /\ [][Next]_vars

-----------------------------------------------------------------------------
(***************************************************************************)
(* NewestIsFresh (spec sections 4.2 and 5: reads are sequentially          *)
(* consistent with writes on one manager, the newest cache is invalidated  *)
(* on every commit): a GetNewest returns a revision at least as high as    *)
(* every revision whose Commit returned before the GetNewest was called.  *)
(***************************************************************************)
NewestIsFresh ==
    \A p \in Procs :
        pc[p].status = "ret" /\ pc[p].call.op = "GetNewest"
            => pc[p].call.rev + 1 >= pc[p].call.floor

(***************************************************************************)
(* TagIsFresh (spec section 4.2: a tag cache MUST be invalidated on        *)
(* write): a GetByTag returns the value of the last Tag that returned      *)
(* before it was called, or of a later one.                                *)
(***************************************************************************)
TagIsFresh ==
    \A p \in Procs :
        pc[p].status = "ret" /\ pc[p].call.op = "GetByTag"
            => pc[p].call.val.seq >= pc[p].call.floor


(***************************************************************************)
(* CacheNeverAhead: the tag cache (setCached in GetByTag, reset by Tag)    *)
(* never holds a value newer than the store under that tag, and the        *)
(* newest cache only ever holds a committed revision.  Whatever the        *)
(* interleaving of Tag, GetByTag, Commit and GetNewest, a cache may be     *)
(* stale but never ahead of the store it fronts.                           *)
(***************************************************************************)
CacheNeverAhead ==
    /\ \A t \in Tags : tagCache[t] = None \/ tagCache[t].seq <= tagStore[t].seq
    /\ newestCache = NoRev \/ newestCache \in revs


(***************************************************************************)
(* ReadsAreFresh (spec section 4.2, "reads are sequentially consistent    *)
(* with writes" on one manager; section 5, operations are linearizable):  *)
(* every GetNewest and GetByTag reflects every Commit and Tag that had    *)
(* returned before it was called.  Both cache fills (GetNewest's          *)
(* newestCache = &s, GetByTag's setCached) must not undo an invalidation. *)
(***************************************************************************)
ReadsAreFresh == NewestIsFresh /\ TagIsFresh


\* GetNewest reads the newest spec as the last key of the revision prefix
\* range (iter.Last()), never as a number: in every state the store can
\* reach, that key is the largest committed revision's.  It breaks when a
\* revision's digit count grows unless makeRevisionKey pads the number, or
\* when a key of another kind falls into the range.
NewestIsLastKey == GetNewestRev(revs) = NewestRev

\* Every iterator opened on a node's store (GetNewest, GetSyncedSlices, the
\* fault mark iterator, NewBlobIterator for an odd or even slice prefix)
\* yields exactly the stored keys that start with its prefix, whatever
\* revisions the store holds: no blob of the slice is skipped and no key of
\* another kind is read as one of its own.
IteratorsSelectTheirKeys ==
    \A it \in Iterators, k \in StoreKeys(revs) :
        InRange(it.range, k) <=> KeyHasHexPrefix(it.hex, k)

=============================================================================
