---------------------------- MODULE MCWalletKeys ----------------------------
(* An instance of WalletKeys for TLC. *)
EXTENDS WalletKeys, TLC

Symmetry == Permutations(Handler) \union Permutations(Key)
=============================================================================
