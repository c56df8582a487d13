----------------------------- MODULE MCBlockTree -----------------------------
(* BlockTree for TLC: files are model values.                               *)
EXTENDS BlockTree, TLC

Sym == Permutations(Files)
RangesAll == {<<0, 0>>, <<1, 2>>, <<3, 3>>}
=============================================================================
