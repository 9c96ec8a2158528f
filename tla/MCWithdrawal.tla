---------------------------- MODULE MCWithdrawal ----------------------------
(* Instances of WithdrawalTx for TLC. *)
EXTENDS WithdrawalTx, TLC
CONSTANTS u1, u2, s1, s2, s3, t1, t2, t3, j1, j2

TwoOfOne == (s1 :> u1 @@ s2 :> u1)
TwoAndOne == (s1 :> u1 @@ s2 :> u1 @@ s3 :> u2)
Units == [s \in Session |-> 1]

\* s1 and s2 have the same owner and amount in TwoOfOne and TwoAndOne, and nothing orders
\* connections or indices.
Interchangeable == Permutations(Tx) \cup Permutations(Index) \cup Permutations({s1, s2})
=============================================================================
