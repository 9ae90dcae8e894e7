------------------------------ MODULE MCQuery ------------------------------
(* Small instances of Query. *)
EXTENDS Query, TLC

Symmetry == Permutations(Hash)
=============================================================================
