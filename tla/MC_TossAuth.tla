---------------------------- MODULE MC_TossAuth ----------------------------
(* Symmetry for the runs of TossAuth that check no liveness.               *)
EXTENDS TossAuth, TLC

Symmetry == Permutations(Requests)

=============================================================================
