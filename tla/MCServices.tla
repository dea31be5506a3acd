----------------------------- MODULE MCServices -----------------------------
(***************************************************************************)
(* Instance of Services for TLC: two of nearly everything that can meet.   *)
(***************************************************************************)
EXTENDS Services, TLC

CONSTANTS a1, a2, b1, b2, u1, o1, o2, c1, c2, pa, pb, l1, l2, d1, d2, w1, w2,
          k1, k2, v1, v2, e1, e2

\* Marked as refunded by hand, with no money moved.
MCTyped == {[status |-> "resolved", resolution |-> "refund", refund |-> 1]}

Row(p, s) == [who |-> p, spelling |-> s]
Bare == [plus |-> FALSE, prefix |-> ""]

\* A bad row between two good ones; a number spelt bare; nothing to report on.
MCFiles ==
    {<<Row(pa, Full), Row(pa, Bad), Row(pa, Full)>>, <<Row(pa, Bare), Row(pb, Full)>>}

\* One order of two products on cash, one of a single product.
MCLines ==
    [o \in {e1, e2} |-> IF o = e1
        THEN <<[product |-> 1, qty |-> 1], [product |-> 2, qty |-> 2]>>
        ELSE <<[product |-> 1, qty |-> 1]>>]

\* Prices that straddle the thresholds of the default store configuration.
MCPrice == [v \in {v1, v2} |-> IF v = v1 THEN 2999 ELSE 10001]
MCMrp == [v \in {v1, v2} |-> IF v = v1 THEN 3500 ELSE 10001]
MCStore ==
    [freeDelivery |-> 19900, deliveryFee |-> 2500, smallCart |-> 9900,
     smallCartFee |-> 1500, taxPercent |-> 525]

\* More than the cheapest cart is worth; 12.5 %, capped, of at least two units.
MCCoupons ==
    {[kind |-> "flat", value |-> 5000, cap |-> NoCap, minOrder |-> 0],
     [kind |-> "percent", value |-> 1250, cap |-> 1500, minOrder |-> 5998]}

MCGrid == (0..6) \X (0..6)

\* A town with slanted and re-entrant sides, its halves on either side of x = 3
\* and of a slanted border, and a block with a hole over both, which comes first.
MCTown == <<<<0, 1>>, <<3, 0>>, <<6, 2>>, <<5, 6>>, <<3, 4>>, <<1, 6>>>>
MCWest == <<<<0, 1>>, <<3, 0>>, <<3, 4>>, <<1, 6>>>>
MCEast == <<<<3, 0>>, <<6, 2>>, <<5, 6>>, <<3, 4>>>>
MCNorth == <<<<0, 1>>, <<6, 2>>, <<5, 6>>, <<3, 4>>, <<1, 6>>>>
MCSouth == <<<<0, 1>>, <<3, 0>>, <<6, 2>>>>
MCHoled == <<<<<<0, 0>>, <<4, 0>>, <<4, 4>>, <<0, 4>>>>, <<<<1, 1>>, <<3, 1>>, <<2, 3>>>>>>
MCBlock == <<<<1, 2>>, <<4, 2>>, <<4, 5>>, <<1, 5>>>>

MCPolygon == <<<<MCTown>>, <<MCWest>>, <<MCEast>>, MCHoled, <<MCBlock>>,
               <<MCNorth>>, <<MCSouth>>>>
MCPriority == <<0, 1, 0, 2, 0, 0, 0>>
MCBorders == {<<1, 2, 3>>, <<1, 6, 7>>}
MCRectangle == [z \in {5} |-> <<<<1, 2>>, <<4, 5>>>>]
MCCircle == [a \in {"p1", "p2"} |-> IF a = "p1" THEN NoFence ELSE {<<5, 5>>, <<6, 6>>, <<5, 6>>}]

\* Requests of one kind are alike. Since one component moves in a behaviour, it
\* is enough to let those of all components change places together.
Swap(x, y) == (x :> y) @@ (y :> x)
Swapped == Swap(a1, a2) @@ Swap(b1, b2) @@ Swap(c1, c2) @@ Swap(l1, l2) @@ Swap(w1, w2) @@ Swap(k1, k2)
Symmetry == {[x \in DOMAIN Swapped |-> IF both THEN Swapped[x] ELSE x] : both \in BOOLEAN}

=============================================================================
