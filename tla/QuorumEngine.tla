--------------------------- MODULE QuorumEngine ---------------------------
(***************************************************************************)
(* The broker's quorum engine (quorum/quorum.go) together with the fan-out *)
(* that feeds it (broker/broker.go GetBlob and PutBlob).                   *)
(*                                                                         *)
(* The broker starts one goroutine per located replica; each performs its  *)
(* RPC and sends one vote into a channel buffered to the number of         *)
(* replicas.  HandleRead / HandleWrite loop cap(c) times over a select of  *)
(* ctx.Done() and a receive, counting votes and returning as soon as a     *)
(* threshold is crossed.  Votes therefore arrive in any order, and the     *)
(* request context can be cancelled at any moment.                         *)
(*                                                                         *)
(* A replica's answer is fixed at Init (it is what that node would reply); *)
(* the model explores every order in which answers reach the channel and   *)
(* every point at which the context is cancelled.                          *)
(***************************************************************************)
EXTENDS Naturals, Sequences, FiniteSetsExt

CONSTANT N            \* number of located entries, len(entries)

ASSUME N \in Nat \ {0}

Replicas == 1..N

\* A vote is Errored(), or carries Data() that is nil or a blob.  A write
\* vote is never "nil": a PUT either succeeds or errors.
ReadOutcomes  == {"data", "nil", "err"}
WriteOutcomes == {"data", "err"}

Results == {"none", "data", "nil", "tooManyErrors", "undetermined", "canceled"}

VARIABLES
    mode,       \* "read" (HandleRead) or "write" (HandleWrite)
    outcome,    \* outcome[r]: the vote replica r's goroutine will send
    voted,      \* replicas whose goroutine has sent its vote
    chan,       \* votes buffered in the channel, oldest first
    i,          \* loop index of HandleRead / HandleWrite
    nOK, nNil, nErr,
    cancelled,  \* ctx.Done() is closed
    result      \* value returned by the handler, "none" while it loops

vars == <<mode, outcome, voted, chan, i, nOK, nNil, nErr, cancelled, result>>

\* quorum.go readQuorum / writeQuorum: (totalVotes + 1) / 2
readQuorum(total)  == (total + 1) \div 2
writeQuorum(total) == (total + 1) \div 2

TypeOK ==
    /\ mode \in {"read", "write"}
    /\ outcome \in [Replicas -> ReadOutcomes]
    /\ voted \subseteq Replicas
    /\ chan \in Seq(ReadOutcomes) /\ Len(chan) <= N     \* make(chan, len(entries))
    /\ i \in 0..N
    /\ {nOK, nNil, nErr} \subseteq 0..N
    /\ cancelled \in BOOLEAN
    /\ result \in Results

Init ==
    /\ mode \in {"read", "write"}
    /\ outcome \in [Replicas -> IF mode = "read" THEN ReadOutcomes ELSE WriteOutcomes]
    /\ voted = {}
    /\ chan = <<>>
    /\ i = 0
    /\ nOK = 0 /\ nNil = 0 /\ nErr = 0
    /\ cancelled = FALSE
    /\ result = "none"

(***************************************************************************)
(* The goroutine of replica r finishes its RPC and sends its vote.  The    *)
(* channel has capacity N and each goroutine sends once, so the send never *)
(* blocks, even after the handler has returned.                            *)
(***************************************************************************)
\* Mutant: a goroutine that can send a second vote.
ReplicaVoteTwice(r) ==
    /\ voted' = voted \cup {r}
    /\ chan' = Append(chan, outcome[r])
    /\ UNCHANGED <<mode, outcome, i, nOK, nNil, nErr, cancelled, result>>

ReplicaVote(r) ==
    /\ r \notin voted
    /\ voted' = voted \cup {r}
    /\ chan' = Append(chan, outcome[r])
    /\ UNCHANGED <<mode, outcome, i, nOK, nNil, nErr, cancelled, result>>

\* The request context is cancelled (client gone or deadline passed).
CancelContext ==
    /\ ~cancelled
    /\ cancelled' = TRUE
    /\ UNCHANGED <<mode, outcome, voted, chan, i, nOK, nNil, nErr, result>>

(***************************************************************************)
(* One loop iteration that takes the `case v := <-c` branch.  Counting and *)
(* the early returns follow HandleRead (read mode) and HandleWrite (write  *)
(* mode); when the last of the cap(c) iterations decides nothing, the loop *)
(* falls through to errUndetermined.                                       *)
(***************************************************************************)
\* Mutant: an off-by-one in the errors threshold.
DecideErrGeq(v, ok, nl, er) ==
    LET q == IF mode = "read" THEN readQuorum(N) ELSE writeQuorum(N) IN
    CASE v = "err"  -> IF er >= N - q THEN "tooManyErrors" ELSE "none"
      [] v = "data" -> IF ok >= q THEN "data" ELSE "none"
      [] OTHER      -> IF nl > N - q THEN "nil" ELSE "none"

Decide(v, ok, nl, er) ==
    LET q == IF mode = "read" THEN readQuorum(N) ELSE writeQuorum(N) IN
    CASE v = "err"                        -> IF er > N - q THEN "tooManyErrors" ELSE "none"
      [] v = "data"                       -> IF ok >= q THEN "data" ELSE "none"
      [] OTHER                            -> IF nl > N - q THEN "nil" ELSE "none"

\* Mutant: the loop without the errUndetermined fall-through.
ReceiveVoteNoFallthrough ==
    /\ result = "none"
    /\ i < N
    /\ chan # <<>>
    /\ LET v == Head(chan)
           ok == nOK + (IF v = "data" THEN 1 ELSE 0)
           nl == nNil + (IF v = "nil" THEN 1 ELSE 0)
           er == nErr + (IF v = "err" THEN 1 ELSE 0)
       IN /\ chan' = Tail(chan)
          /\ nOK' = ok /\ nNil' = nl /\ nErr' = er
          /\ i' = i + 1
          /\ result' = Decide(v, ok, nl, er)
    /\ UNCHANGED <<mode, outcome, voted, cancelled>>

ReceiveVote ==
    /\ result = "none"
    /\ i < N
    /\ chan # <<>>
    /\ LET v   == Head(chan)
           ok  == nOK + (IF v = "data" THEN 1 ELSE 0)
           nl  == nNil + (IF v = "nil" THEN 1 ELSE 0)
           er  == nErr + (IF v = "err" THEN 1 ELSE 0)
           d   == Decide(v, ok, nl, er)
       IN /\ chan' = Tail(chan)
          /\ nOK' = ok /\ nNil' = nl /\ nErr' = er
          /\ i' = i + 1
          /\ result' = IF d = "none" /\ i + 1 = N THEN "undetermined" ELSE d
    /\ UNCHANGED <<mode, outcome, voted, cancelled>>

\* One loop iteration that takes the `case <-ctx.Done()` branch.
ReceiveCancel ==
    /\ result = "none"
    /\ i < N
    /\ cancelled
    /\ result' = "canceled"
    /\ UNCHANGED <<mode, outcome, voted, chan, i, nOK, nNil, nErr, cancelled>>

Next ==
    \/ \E r \in Replicas : ReplicaVote(r)
    \/ CancelContext
    \/ ReceiveVote
    \/ ReceiveCancel

(***************************************************************************)
(* Go's scheduler runs every runnable goroutine: the handler's select is   *)
(* weakly fair.  Nothing makes a replica's RPC return (the HTTP client has *)
(* no timeout), so the replica goroutines get no fairness.                 *)
(***************************************************************************)
Spec == Init /\ [][Next]_vars /\ WF_vars(ReceiveVote \/ ReceiveCancel)

-----------------------------------------------------------------------------
(***************************************************************************)
(* Reference: the decision table of the specification (section 4.6),      *)
(* computed from the counts of all N answers with quorum = ceil((N+1)/2).  *)
(***************************************************************************)
SpecQuorum == (N + 2) \div 2

Count(v) == Quantify(Replicas, LAMBDA r : outcome[r] = v)

RefDecision ==
    IF mode = "read"
    THEN CASE Count("data") >= SpecQuorum    -> "data"
           [] Count("nil")  >  N - SpecQuorum -> "nil"
           [] Count("err")  >  N - SpecQuorum -> "tooManyErrors"
           [] OTHER                          -> "undetermined"
    ELSE CASE Count("data") >= SpecQuorum    -> "data"
           [] Count("err")  >  N - SpecQuorum -> "tooManyErrors"
           [] OTHER                          -> "undetermined"

(***************************************************************************)
(* DecisionIsReference: whatever order the replica goroutines' votes reach *)
(* the channel, a HandleRead / HandleWrite that returns without being      *)
(* cancelled returns exactly what the specification's decision table      *)
(* gives for the full set of answers.  The early returns of the loop must  *)
(* never let the first few votes decide against the rest.                 *)
(***************************************************************************)
DecisionIsReference ==
    result \notin {"none", "canceled"} => result = RefDecision

(***************************************************************************)
(* AllVotesDecide: once every replica has voted, the handler returns;     *)
(* the loop over cap(c) iterations cannot wait forever on a full channel. *)
(***************************************************************************)
AllVotesDecide == (voted = Replicas) ~> (result # "none")

=============================================================================
