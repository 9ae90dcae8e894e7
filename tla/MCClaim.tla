------------------------------ MODULE MCClaim ------------------------------
(* Small instances of Claim. *)
EXTENDS ClaimInv, TLC

Symmetry == Permutations(Address) \cup Permutations(Hash)
=============================================================================
