------------------------------- MODULE FileMap -------------------------------
(***************************************************************************)
(* What the block trees of inode.c promise: a file is a sparse array of    *)
(* blocks. It grows by blocks that no file has, and a truncation takes     *)
(* effect at once, when its item is on the truncate list; from then on     *)
(* until it is off the list the file has exactly the blocks below the new  *)
(* size, whether or not the power fails meanwhile.                         *)
(***************************************************************************)
EXTENDS Naturals

CONSTANTS Files, Blocks, MaxIndex

VARIABLES map,      \* map[f]: the pairs of an index and the block there
          cutting   \* the files with a truncation or removal under way

vars == <<map, cutting>>

Mapped == UNION {{e[2] : e \in map[f]} : f \in Files}

Init == /\ map = [f \in Files |-> {}]
        /\ cutting = {}

Others(f) == \A g \in Files \ {f} : map'[g] = map[g]

\* __pmfs_alloc_blocks inside a transaction.
Grow(f) ==
  LET new == map'[f] \ map[f]
  IN  /\ f \notin cutting
      /\ map[f] \subseteq map'[f]
      /\ \A e \in new : e[2] \in Blocks \ Mapped
      /\ \A d, e \in map'[f] : (d[1] = e[1]) <=> (d[2] = e[2])
      /\ Others(f)
      /\ UNCHANGED cutting

\* pmfs_truncate_add of a truncation to n blocks, or of an unlink (n = 0).
Shrink(f, n) ==
  /\ f \notin cutting
  /\ map'[f] = {e \in map[f] : e[1] < n}
  /\ Others(f)
  /\ cutting' = cutting \cup {f}

\* pmfs_truncate_del, or the end of pmfs_recover_truncate_list: the blocks have
\* gone already, nothing that was cut off comes back.
Done(S) ==
  /\ S /= {} /\ S \subseteq cutting
  /\ cutting' = cutting \ S
  /\ UNCHANGED map

Next == \/ \E f \in Files : Grow(f)
        \/ \E f \in Files, n \in 0..MaxIndex : Shrink(f, n)
        \/ \E S \in SUBSET Files : Done(S)

Spec == Init /\ [][Next]_vars
==============================================================================
