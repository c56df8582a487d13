------------------------------ MODULE MCJournal ------------------------------
(* Journal for TLC: threads and words are model values or small sets.       *)
EXTENDS Journal, TLC

Sym == Permutations(Procs) \cup Permutations(Addrs)
=============================================================================
