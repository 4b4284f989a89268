--------------------------- MODULE MCWalletStore ---------------------------
(* WalletStore on small instances.                                         *)
EXTENDS WalletStore, TLC

Symmetric == Permutations(Clients)
=============================================================================
