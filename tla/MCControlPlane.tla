--------------------------- MODULE MCControlPlane ---------------------------
(***************************************************************************)
(* ControlPlane for TLC: two nodes, the master and one other signer, one   *)
(* slice, revisions 0 and 1, and two SATs (both nodes hold the slice, or   *)
(* n1 alone).                                                              *)
(***************************************************************************)
EXTENDS ControlPlane

CONSTANTS n1, n2

BothNodes == <<[id |-> n1, slices |-> {0}], [id |-> n2, slices |-> {0}]>>
OnlyN1 == <<[id |-> n1, slices |-> {0}]>>

SpecsMC == [rev : 0..MaxRev, sat : {BothNodes, OnlyN1}]
=============================================================================
