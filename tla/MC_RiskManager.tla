-------------------------- MODULE MC_RiskManager ---------------------------
(* A cheap and a dear symbol.                                              *)
EXTENDS RiskManager

CONSTANTS Cheap, Dear

Prices == [s \in Symbols |-> IF s = Dear THEN 2 ELSE 1]

=============================================================================
