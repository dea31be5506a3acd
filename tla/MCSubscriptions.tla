-------------------------- MODULE MCSubscriptions --------------------------
(***************************************************************************)
(* Instance of Subscriptions for TLC: a wallet and a cash subscription of  *)
(* one variant that does not suffice for everything they can ask for.      *)
(***************************************************************************)
EXTENDS Subscriptions

CONSTANTS s1, s2, c1, c2, p1, p2

MCNewest == <<s2, s1>>

Symmetry == Permutations({p1, p2})

MCOwnerOf == [s \in Subs |-> IF s = s1 THEN c1 ELSE c2]

\* Two units a day from the wallet; one in cash, on weekdays.
MCPlans ==
    {[NoPlan EXCEPT !.quantity = 2],
     [NoPlan EXCEPT !.frequency = "weekdays", !.pays = "cod"]}

MCEnrolled == [s \in {s1} |-> [NoPlan EXCEPT !.quantity = 2]]

\* Day 2 alone: first and last day of the vacation.
MCRanges == {<<2, 2>>}

=============================================================================
