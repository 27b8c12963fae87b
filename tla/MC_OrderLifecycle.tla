-------------------------- MODULE MC_OrderLifecycle --------------------------
(* Symmetry for the model-checking runs of OrderLifecycle that check no    *)
(* liveness.                                                               *)
EXTENDS OrderLifecycle, TLC

Symmetry == Permutations(Tasks) \cup Permutations(ClientIds)

=============================================================================
