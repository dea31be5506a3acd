---------------------------- MODULE MCOrderLife ----------------------------
(***************************************************************************)
(* Instances of OrderLife for TLC: its handlers one at a time, and two at  *)
(* a time.                                                                 *)
(***************************************************************************)
EXTENDS OrderLife, TLC

CONSTANTS p1, p2, l1, l2

Symmetry == Permutations({p1, p2})

=============================================================================
