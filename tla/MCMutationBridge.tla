-------------------------- MODULE MCMutationBridge --------------------------
(***************************************************************************)
(* Instances of MutationBridge for TLC: two requests that want to move one *)
(* document out of the same state, or one of them and an insert.           *)
(***************************************************************************)
EXTENDS MutationBridge, TLC

CONSTANTS r1, r2

MCRequests == {r1, r2}
MCOneGuarded == {r1}
MCKey == [r \in Requests |-> "document"]
MCSymmetry == Permutations(Requests)
=============================================================================
