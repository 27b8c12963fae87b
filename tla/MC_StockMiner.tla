--------------------------- MODULE MC_StockMiner ---------------------------
(* The Stock Miner on two stocks of two markets.                           *)
EXTENDS StockMiner

CONSTANTS t1, t2, kospi, kosdaq

Listed == (t1 :> kospi) @@ (t2 :> kosdaq)
Classified == [t \in {t1, t2} |-> "IT"]

=============================================================================
