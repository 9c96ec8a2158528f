------------------------------- MODULE MCKeys -------------------------------
(* Instances of BankKeys for TLC. *)
EXTENDS BankKeys, TLC
CONSTANTS p1, p2, t1, t2

Interchangeable == Permutations(Tx) \cup Permutations(Process)
=============================================================================
