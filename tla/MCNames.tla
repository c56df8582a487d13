------------------------------- MODULE MCNames -------------------------------
(* Names for TLC: threads and the names of entries are model values.        *)
EXTENDS Names, TLC

Sym == Permutations(Threads) \cup Permutations(Labels)
=============================================================================
