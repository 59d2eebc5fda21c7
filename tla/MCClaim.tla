------------------------------ MODULE MCClaim ------------------------------
(* Symmetry for the safety runs of Claim. *)
EXTENDS Claim, TLC
Symmetry == Permutations(Managers) \cup Permutations(Conns)
=============================================================================
