--------------------------- MODULE MCWearLeveling ---------------------------
(* WearLeveling for TLC: pages, files and threads are model values.         *)
EXTENDS WearLeveling, TLC

Sym == Permutations(Pages) \cup Permutations(Threads)
=============================================================================
