------------------------------- MODULE MCRLP -------------------------------
(* Small instances of RLP. *)
EXTENDS RLP
CONSTANT Lengths

\* one byte below and above 0x80, and strings of the given lengths
MCStrings ==
    {<<Top - 1>>, <<Top>>} \cup {[i \in 1 .. n |-> i % Radix] : n \in Lengths}
\* around the bounds of one and two bytes, and of a word
MCInts ==
    {0, 127, 128, 256, 32768, 65535, -1, -128, -129, -32768, MinInt(Width), -MinInt(Width) - 1}
MCFewInts == {0, 127}
=============================================================================
