-------------------------------- MODULE Sums --------------------------------
(***************************************************************************)
(* What the database adds up with SUM: the values of a function with a     *)
(* finite domain.  A sequence is such a function.                          *)
(***************************************************************************)
EXTENDS Integers, Functions

Plus(a, b) == a + b

SumOf(f) == FoldFunction(Plus, 0, f)

=============================================================================
