------------------------------ MODULE MCPriceHistory ------------------------------
(* Instances of PriceHistory for TLC: phones, prices and dates are model   *)
(* values, interchangeable within their set.                               *)
EXTENDS PriceHistory, TLC

Symmetry == Permutations(Writers) \cup Permutations(Prices) \cup Permutations(Dates)

================================================================================
