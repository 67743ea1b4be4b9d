------------------------------ MODULE MCMarketClient ------------------------------
(* Instances of MarketClient for TLC.                                      *)
EXTENDS MarketClient

Symmetry == Permutations(Devices) \cup Permutations(Prices)

================================================================================
