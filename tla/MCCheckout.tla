----------------------------- MODULE MCCheckout -----------------------------
(***************************************************************************)
(* Instance of Checkout for TLC: two customers who buy the same two        *)
(* variants in opposite orders.                                            *)
(***************************************************************************)
EXTENDS Checkout

CONSTANTS v1, v2, c1, c2, p1, p2

MCLinesOf == [c \in Customers |-> IF c = c1 THEN <<v1, v2>> ELSE <<v2, v1>>]

Symmetry == Permutations({p1, p2})

\* The warehouse writes a unit off; the import sets a stock, up or down.
MCDeltas == {-1}

=============================================================================
