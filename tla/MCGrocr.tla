--------------------------------- MODULE MCGrocr ---------------------------------
(* Instances of Grocr for TLC. What the closures capture follows from the  *)
(* other constants; the counts are written out because the bounds are.     *)
EXTENDS Grocr

MCOwners ==
    {[kind |-> "list", view |-> v] : v \in 1 .. MaxViews}
    \cup {[kind |-> "modify", row |-> r, key |-> k, price |-> p, date |-> t] :
            r \in 1 .. Cardinality(Keys), k \in Keys, p \in Prices, t \in Dates}

MCCompletions ==
    {[kind |-> "deleted", view |-> v, row |-> r] :
        v \in 1 .. MaxViews, r \in 1 .. Cardinality(Keys)}
    \cup {[kind |-> "saved", popup |-> n] : n \in 1 .. MaxPopups}

(* Prices are told apart, never compared otherwise.                        *)
Symmetry == Permutations(Prices)

================================================================================
