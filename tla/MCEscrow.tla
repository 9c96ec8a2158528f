------------------------------ MODULE MCEscrow ------------------------------
(* Instances of EscrowTx for TLC. *)
EXTENDS EscrowTx, TLC
CONSTANTS m, k, c1, c2, e1, e2, t1, t2

\* m is the merchant of every escrow, every price is 1.
OneMerchant == [e \in Escrow |-> m]
UnitWorth == [c \in Coin |-> 1]
OneDearToken == [c \in Coin |-> IF c = c2 THEN 2 ELSE 1]
UnitPrice == [e \in Escrow |-> 1]

\* Tokens and escrows may be swapped only while they are worth the same.
Connections == Permutations(Tx)
Interchangeable == Permutations(Tx) \cup Permutations(Coin) \cup Permutations(Escrow)
=============================================================================
