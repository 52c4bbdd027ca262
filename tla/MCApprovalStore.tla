-------------------------- MODULE MCApprovalStore --------------------------
(***************************************************************************)
(* ApprovalStore for TLC: symmetry over the goroutines, objects and ids,   *)
(* none of which any definition tells apart.                               *)
(***************************************************************************)
EXTENDS ApprovalStore, TLC

Symmetry == Permutations(Threads) \cup Permutations(Refs)
            \cup Permutations(Ids) \cup Permutations(Approvers)
=============================================================================
