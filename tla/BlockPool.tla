----------------------------- MODULE BlockPool -----------------------------
(***************************************************************************)
(* What a block allocator of WPMFS promises the rest of the file system:   *)
(* a block is handed out only while nobody owns it, a released block can   *)
(* be handed out again or is retired, and a mount reclaims only blocks     *)
(* that no file, directory or table refers to.                             *)
(***************************************************************************)

CONSTANT Blocks

VARIABLES
  avail,      \* blocks that may be handed out
  retired,    \* free blocks that are worn out
  owned       \* blocks in use

poolVars == <<avail, retired, owned>>

Init == avail \cup owned \subseteq Blocks /\ avail \cap owned = {} /\ retired = {}

Alloc == \E b \in avail :
  /\ avail' = avail \ {b}
  /\ owned' = owned \cup {b}
  /\ UNCHANGED retired

\* A block becomes free, worn out or not.
Shelve(b) ==
  \/ avail' = avail \cup {b} /\ UNCHANGED retired
  \/ retired' = retired \cup {b} /\ UNCHANGED avail

Release == \E b \in owned :
  /\ owned' = owned \ {b}
  /\ Shelve(b)

\* Power failure or unmount: the free lists are gone, and so are the owners
\* that had not become persistent.
Restart ==
  /\ avail' = {} /\ retired' = {}
  /\ owned' \subseteq owned

\* Mount finds a block that nobody refers to.
Reclaim == \E b \in Blocks \ (owned \cup avail \cup retired) :
  /\ Shelve(b)
  /\ UNCHANGED owned

Next == Alloc \/ Release \/ Restart \/ Reclaim

Spec == Init /\ [][Next]_poolVars
=============================================================================
