-------------------------------- MODULE DirMap --------------------------------
(***************************************************************************)
(* What the records of a directory promise: a map from names to inodes     *)
(* that calls change entry by entry. A call that has not committed when    *)
(* the power fails has not happened.                                       *)
(***************************************************************************)
CONSTANTS Labels, Targets

VARIABLES map,      \* the entries, pairs of a name and an inode
          stable    \* the entries when the last call committed

vars == <<map, stable>>

Names == {e[1] : e \in map}

Init == map = {} /\ stable = {}

\* pmfs_create, pmfs_mkdir, pmfs_link.
Add(n, i) == n \notin Names /\ map' = map \cup {<<n, i>>}

\* pmfs_unlink, pmfs_rmdir.
Remove(e) == map' = map \ {e}

\* pmfs_rename; what had the new name loses it.
Move(e, n) ==
  n /= e[1] /\ map' = {x \in map \ {e} : x[1] /= n} \cup {<<n, e[2]>>}

Call ==
  /\ map = stable
  /\ \/ \E n \in Labels, i \in Targets : Add(n, i)
     \/ \E e \in map : Remove(e) \/ \E n \in Labels : Move(e, n)
  /\ UNCHANGED stable

Commit == stable' = map /\ UNCHANGED map

PowerFails == map' = stable /\ UNCHANGED stable

Next == Call \/ Commit \/ PowerFails

Spec == Init /\ [][Next]_vars
===============================================================================
