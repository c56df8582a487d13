----------------------------- MODULE MCDirectory -----------------------------
(* Directory for TLC: three names, one of them twice as long as the others. *)
EXTENDS Directory, TLC

CONSTANTS n1, n2, n3
LabelsAll == {n1, n2, n3}
SizeOf == [n \in LabelsAll \cup {Dots} |-> IF n = n3 THEN 2 ELSE 1]
Sym == Permutations({n1, n2}) \cup Permutations(Targets)
=============================================================================
