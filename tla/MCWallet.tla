------------------------------ MODULE MCWallet ------------------------------
(* Instances of WalletPages for TLC. *)
EXTENDS WalletPages, TLC
CONSTANTS ann, bob, tab1, c1, h1, h2

Interchangeable ==
    Permutations(User) \cup Permutations(Slot)
=============================================================================
