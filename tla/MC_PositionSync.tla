-------------------------- MODULE MC_PositionSync --------------------------
(* Symmetry for the runs of PositionSync that check no liveness.           *)
EXTENDS PositionSync, TLC

Symmetry == Permutations(Symbols)

=============================================================================
