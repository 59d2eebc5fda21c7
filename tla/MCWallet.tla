------------------------------ MODULE MCWallet ------------------------------
EXTENDS Wallet, TLC

Symmetry == Permutations(Federations) \cup Permutations(Setters)
=============================================================================
