--------------------------- MODULE MCTruncateList ---------------------------
(* TruncateList for TLC: inode numbers are model values.                    *)
EXTENDS TruncateList, TLC

Sym == Permutations(Inos)
=============================================================================
