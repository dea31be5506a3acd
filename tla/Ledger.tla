------------------------------- MODULE Ledger -------------------------------
(***************************************************************************)
(* What an account promises, whether it holds rupees (a wallet) or units   *)
(* (the stock of a variant): a number that never goes below zero and only  *)
(* changes together with an appended entry that records the change and the *)
(* number it leads to.                                                     *)
(***************************************************************************)
EXTENDS Integers, Sequences

CONSTANTS
    Opening,    \* the amount the account is created with, a natural number
    Deltas      \* the signed changes that may be posted, integers

VARIABLES
    balance,
    entries     \* every posting, oldest first: [delta, after]

vars == <<balance, entries>>

Init ==
    /\ balance = Opening
    /\ entries = <<>>

Post(d) ==
    /\ balance + d >= 0
    /\ balance' = balance + d
    /\ entries' = Append(entries, [delta |-> d, after |-> balance + d])

Next == \E d \in Deltas : Post(d)

Spec == Init /\ [][Next]_vars

=============================================================================
