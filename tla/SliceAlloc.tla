----------------------------- MODULE SliceAlloc -----------------------------
(***************************************************************************)
(* The master's slice allocator, cmd/master/draft/draft.go Draft.Alloc.    *)
(*                                                                         *)
(* A pool holds Replicas copies of every slice.  Each outer iteration of   *)
(* Alloc's loop visits the slots in draft order; a slot that is not full   *)
(* takes the first pool token whose slice it does not hold yet.  When a    *)
(* whole pass takes nothing, a second pass lets every working slot take    *)
(* one more token regardless of its target.  The 256 one-byte slices are   *)
(* abstracted to SliceCount slices; the draft (replicas and node weights)  *)
(* is chosen at Init from every valid draft within the bounds.             *)
(*                                                                         *)
(* One step of the model is one iteration of `for { ... }`.                *)
(***************************************************************************)
EXTENDS Naturals, Sequences, SequencesExt, FiniteSetsExt

CONSTANTS
    SliceCount,     \* number of slices (256 in the code)
    MaxNodes,       \* most nodes in a draft
    MaxWeight,      \* largest node weight
    MaxReplicas     \* largest replication factor

ASSUME /\ SliceCount \in Nat \ {0}
       /\ {MaxNodes, MaxWeight, MaxReplicas} \subseteq Nat \ {0}

SliceSet == 0..SliceCount-1

\* Every draft that passes Draft.Validate: replicas >= 1; IDs are the
\* positions 1..n and therefore unique; weights are >= 0 (AddNode/AlterNode).
Drafts ==
    UNION { [replicas : 1..MaxReplicas, weights : [1..n -> 0..MaxWeight]]
            : n \in 1..MaxNodes }

VARIABLES
    draft,      \* the draft being allocated
    pool,       \* allSlices: tokens not yet taken, in order
    held,       \* held[j]: slots[j].slices
    status      \* "running", "done" or "notEnoughNodes"

vars == <<draft, pool, held, status>>

Nodes(d) == DOMAIN d.weights
Working(d) == {j \in Nodes(d) : d.weights[j] > 0}
weightSum(d) == MapThenSumSet(LAMBDA j : d.weights[j], Working(d))
TotalSlices(d) == SliceCount * d.replicas

\* slot.isFull
isFull(d, h, j) ==
    \/ d.weights[j] <= 0
    \/ Cardinality(h[j]) >= (d.weights[j] * TotalSlices(d)) \div weightSum(d)

\* slot.pickOneFrom: take the first token whose slice the slot lacks.
\* Mutant: takes the first token, held or not.
pickFirst(p, h, j) ==
    IF p = <<>> THEN <<p, h>>
    ELSE <<Tail(p), [h EXCEPT ![j] = @ \cup {Head(p)}]>>

pickOneFrom(p, h, j) ==
    LET free == {k \in DOMAIN p : p[k] \notin h[j]} IN
    IF free = {} THEN <<p, h>>
    ELSE LET k == Min(free) IN
         <<RemoveAt(p, k), [h EXCEPT ![j] = @ \cup {p[k]}]>>

\* Whether slot j takes part in a pass: a slot that is not full in the
\* first pass, any working slot in the fallback pass.
Visits(d, h, j, fallback) ==
    IF fallback THEN d.weights[j] > 0 ELSE ~isFull(d, h, j)

\* One pass over the slots in draft order, from slot j on.
RECURSIVE Pass(_, _, _, _, _)
Pass(d, p, h, j, fallback) ==
    IF j > Len(d.weights) THEN <<p, h>>
    ELSE LET st == IF Visits(d, h, j, fallback) THEN pickOneFrom(p, h, j) ELSE <<p, h>>
         IN Pass(d, st[1], st[2], j + 1, fallback)

TypeOK ==
    /\ draft \in Drafts
    /\ pool \in Seq(SliceSet)
    /\ held \in [Nodes(draft) -> SUBSET SliceSet]
    /\ status \in {"running", "done", "notEnoughNodes"}

\* Mutant: slices numbered from 1.
InitialPoolFrom1(d) == FlattenSeq([r \in 1..d.replicas |-> [k \in 1..SliceCount |-> k]])

InitialPool(d) == FlattenSeq([r \in 1..d.replicas |-> [k \in 1..SliceCount |-> k - 1]])

\* Alloc's prologue: the working-node check and the initial pool.
Init ==
    /\ draft \in Drafts
    /\ held = [j \in Nodes(draft) |-> {}]
    /\ IF Cardinality(Working(draft)) < draft.replicas
       THEN pool = <<>> /\ status = "notEnoughNodes"
       ELSE /\ pool = InitialPool(draft)
            /\ status = "running"

(***************************************************************************)
(* One iteration of Alloc's loop on a non-empty pool: the pass over        *)
(* not-full slots, then the fallback pass over working slots when the      *)
(* first pass took nothing.                                                *)
(***************************************************************************)
\* Mutant: no fallback pass.
IterationNoFallback(d, p, h) == Pass(d, p, h, 1, FALSE)

Iteration(d, p, h) ==
    LET first == Pass(d, p, h, 1, FALSE) IN
    IF Len(first[1]) = Len(p) THEN Pass(d, first[1], first[2], 1, TRUE) ELSE first

AllocIteration ==
    /\ status = "running"
    /\ IF pool = <<>>
       THEN status' = "done" /\ UNCHANGED <<pool, held>>
       ELSE LET st == Iteration(draft, pool, held)
            IN /\ pool' = st[1]
               /\ held' = st[2]
               /\ status' = "running"
    /\ UNCHANGED draft

\* The whole of Alloc for a draft with enough working nodes: the slices of
\* each slot when the pool is empty (used to build the SATs of a cluster).
Allocate(d) ==
    LET RECURSIVE Loop(_, _)
        Loop(p, h) == IF p = <<>> THEN h ELSE LET st == Iteration(d, p, h) IN Loop(st[1], st[2])
    IN Loop(InitialPool(d), [j \in Nodes(d) |-> {}])

Next == AllocIteration

Spec == Init /\ [][Next]_vars

-----------------------------------------------------------------------------
\* Number of entries holding slice s.
Holders(s) == Quantify(Nodes(draft), LAMBDA j : s \in held[j])

(***************************************************************************)
(* ExactReplication (spec section 8): when Alloc returns a SAT, every      *)
(* slice is in exactly `replicas` entries.  Each token must be taken by a  *)
(* slot not yet holding its slice, and the loop must not stop early.       *)
(***************************************************************************)
ExactReplication ==
    status = "done" => \A s \in SliceSet : Holders(s) = draft.replicas

(***************************************************************************)
(* AllocProgress: from every state Alloc's loop reaches with tokens left, *)
(* the next iteration takes at least one of them, so Alloc returns for    *)
(* every valid draft.  An iteration taking nothing would repeat forever   *)
(* (the loop's state would not change): the fallback pass must always    *)
(* find a working slot able to take a token.                             *)
(***************************************************************************)
AllocProgress ==
    status = "running" /\ pool # <<>> =>
        Len(Iteration(draft, pool, held)[1]) < Len(pool)

(***************************************************************************)
(* WeightMonotone (spec section 4.1): a node of higher weight receives at  *)
(* least as many slices as a node of lower weight in the same draft.       *)
(***************************************************************************)
WeightMonotone ==
    status = "done" =>
        \A j, k \in Nodes(draft) :
            draft.weights[j] > draft.weights[k] =>
                Cardinality(held[j]) >= Cardinality(held[k])

=============================================================================
