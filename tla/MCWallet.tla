------------------------------ MODULE MCWallet ------------------------------
(***************************************************************************)
(* Instance of Wallet for TLC: one wallet, so that everything contends for *)
(* its row.                                                                *)
(***************************************************************************)
EXTENDS Wallet, TLC

CONSTANTS w1, t1, p1, p2

MCOwnerOf == [t \in Topups |-> w1]

=============================================================================
