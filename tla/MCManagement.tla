--------------------------- MODULE MCManagement ---------------------------
(* Small instances of Management: one P-Rep list a term, recorded with the  *)
(* block before it.                                                         *)
EXTENDS Management, TLC
CONSTANTS a1, a2

MCSymmetry == Permutations(GVValue) \cup Permutations(PRepValue)

MCRegistered == (a1 :> 2) @@ (a2 :> 5)
MCUnregistered == (a1 :> 5) @@ (a2 :> 0)
\* the last block of every term
MCPRepBlocks == {h \in Height : h % Term = 0}
=============================================================================
