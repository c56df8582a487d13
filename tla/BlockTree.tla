------------------------------ MODULE BlockTree ------------------------------
(***************************************************************************)
(* The block trees of inode.c. A tree of height 0 is its data block, one   *)
(* of height h has a node of pointers at level h above trees of height     *)
(* h - 1. Blocks are added inside a journal transaction, which is atomic   *)
(* and durable here (module Journal). A truncation works in place: blocks  *)
(* are freed, pointers to them are cleared, the inode is updated, and only *)
(* then comes a fence; a crash in between is repaired by truncating again  *)
(* (module TruncateList). The free list keeps its links in the blocks.     *)
(***************************************************************************)
EXTENDS Naturals, FiniteSets, Sequences

CONSTANTS
  Files,
  NBlocks,           \* blocks of the volume that files can have
  None, Junk,        \* a null pointer; what is no pointer (list links, data)
  Fan,               \* pointers in a node: 1 << META_BLK_SHIFT
  MaxHeight,
  Ranges,            \* the ranges <<first, last>> that writes and fallocate ask for
  Sizes,             \* the sizes that files are truncated to
  MaxCalls, MaxBoot  \* bounds on system calls and crashes

Blocks == 1..NBlocks
Cells == 0..Fan - 1
Value == Blocks \cup {None, Junk}
MaxIndex == Fan^MaxHeight

ASSUME TreeAssumption ==
  /\ Fan \in Nat /\ Fan >= 2
  /\ MaxHeight \in Nat
  /\ NBlocks \in Nat
  /\ None \notin Blocks /\ Junk \notin Blocks /\ None /= Junk
  /\ Ranges \subseteq {r \in (0..MaxIndex - 1) \X (0..MaxIndex - 1) : r[1] <= r[2]}
  /\ Sizes \subseteq 0..MaxIndex

VARIABLES
  free,              \* the blocks on the lists of the allocator
  node, media,       \* cells of the blocks: as cached, and what the media may hold
  pi, pimedia,       \* struct pmfs_inode: as cached, and what the media may hold
  size,              \* inode->i_size
  tsize,             \* li->i_truncatesize of the files on the truncate list
  op,                \* the truncation or eviction of each file
  mode,              \* "mounted", or "recover" (pmfs_recover_truncate_list)
  todo,              \* the files recovery has not dealt with yet
  calls, boots,      \* how many there were
  oops,              \* a BUG_ON or a null pointer
  tainted            \* one of the lost cases below has happened

vars == <<free, node, media, pi, pimedia, size, tsize, op, mode, todo, calls,
          boots, oops, tainted>>

NotListed == MaxIndex + 1

Inode == [root : Blocks \cup {None}, height : 0..MaxHeight, blocks : 0..MaxIndex,
          size : 0..MaxIndex, eof : BOOLEAN, nlink : {0, 1}]

Idle == [at |-> "idle", end |-> 0, gone |-> {}, taken |-> {}, cells |-> {},
         pi |-> [root |-> None, height |-> 0, blocks |-> 0, size |-> 0,
                 eof |-> FALSE, nlink |-> 0]]

-----------------------------------------------------------------------------
(* Trees, as sets of entries <<l, i, x>>: block x is the i-th at level l.   *)
(* Data is at level 0. <<l, i>> is a place.                                 *)

Places(h) == UNION {{<<l, i>> : i \in 0..Fan^(h - l) - 1} : l \in 0..h}

\* The tree below a root in blocks with the given content; the cells in cut are taken to
\* be null.
TreeIn(content, root, height, cut) ==
  LET level[l \in 0..height] ==
        IF l = height THEN {<<height, 0, root>>} \ {<<height, 0, None>>}
        ELSE UNION {{<<l, e[2] * Fan + c, content[e[3]][c]>> :
                       c \in {c \in Cells : /\ <<e[3], c>> \notin cut
                                            /\ content[e[3]][c] /= None}} :
                      e \in {e \in level[l + 1] : e[3] \in Blocks}}
  IN  UNION {level[l] : l \in 0..height}

TreeOf(f) == TreeIn(node, pi[f].root, pi[f].height, {})

BlocksOf(t) == {e[3] : e \in t} \cap Blocks
Data(t) == {e \in t : e[1] = 0}
Has(t) == {<<e[1], e[2]>> : e \in t}
At(t, p) == IF p \in Has(t) THEN (CHOOSE e \in t : e[1] = p[1] /\ e[2] = p[2])[3] ELSE None

First(p) == p[2] * Fan^p[1]                    \* the first index below p
Under(q, p) == q[1] <= p[1] /\ q[2] \div Fan^(p[1] - q[1]) = p[2]
Meets(p, a, b) == First(p) <= b /\ First(p) + Fan^p[1] > a

\* The least height, but not less than h, with room for index i
\* (the loops of __pmfs_alloc_blocks and pmfs_decrease_btree_height).
HeightFrom(h, i) == CHOOSE k \in h..MaxHeight : i < Fan^k /\ (k = h \/ i >= Fan^(k - 1))

Minimum(a, b) == IF a < b THEN a ELSE b
Maximum(a, b) == IF a > b THEN a ELSE b

\* The file as its user sees it: while a truncation has freed blocks and not yet
\* cleared the pointers to them, the tree it is about to leave.
View(f) == IF op[f].at = "freed"
           THEN TreeIn(node, op[f].pi.root, op[f].pi.height, op[f].cells)
           ELSE TreeOf(f)

-----------------------------------------------------------------------------
(* Allocation. *)

\* A system call on f, under the lock of its inode.
Call(f) ==
  /\ mode = "mounted" /\ op[f].at = "idle" /\ pi[f].nlink = 1 /\ ~tainted /\ ~oops
  /\ calls < MaxCalls
  /\ calls' = calls + 1

\* The places that __pmfs_alloc_blocks fills, and its order: first the nodes on top that
\* increase the height, from below, then what is missing in the range, depth first.
Top(f, b) == {<<l, 0>> : l \in pi[f].height + 1..HeightFrom(pi[f].height, b)}

Wanted(f, a, b) ==
  LET h == HeightFrom(pi[f].height, b)
  IN  IF pi[f].root /= None /\ h = 0 THEN {}
      ELSE Top(f, b) \cup ({p \in Places(h) : Meets(p, a, b)} \ Has(TreeOf(f)))

Turn(f, b, p) == IF p \in Top(f, b) THEN p[1]
                 ELSE (MaxHeight + 1) * (1 + First(p)) + MaxHeight - p[1]

\* Blocks that were freed while pointers to them may survive on the media.
Pending == UNION {op[f].gone : f \in Files}

\* Free blocks differ only in being pending or not; either kind may be the first that
\* the allocator hands out, and within a kind the order is that of their numbers.
Orders == {[x \in free |-> IF x \in first THEN x ELSE x + Cardinality(Blocks)] :
             first \in {free \cap Pending, free \ Pending}}

\* What an allocation of a..b comes to: the free blocks are used up in order, and what
\* was done until they end is committed, also after -ENOMEM or -ENOSPC. If data could not
\* be had in a tree with nodes, the flag is set for the truncation to come
\* (inode.c:583-588).
Plans(f, a, b) ==
  LET wanted == {<<p, Turn(f, b, p)>> : p \in Wanted(f, a, b)}
      ranked == {<<w[1], Cardinality({v \in wanted : v[2] < w[2]})>> : w \in wanted}
      got    == {w \in ranked : w[2] < Cardinality(free)}
      old    == TreeOf(f)
      Block(order, k) ==
        CHOOSE x \in free : Cardinality({y \in free : order[y] < order[x]}) = k
  IN  {[tree   |-> old \cup {<<w[1][1], w[1][2], Block(order, w[2])>> : w \in got},
        height |-> pi[f].height + Cardinality({w \in got : w[1] \in Top(f, b)}),
        data   |-> Cardinality({w \in got : w[1][1] = 0}),
        failed |-> got /= ranked,
        eof    |-> /\ HeightFrom(pi[f].height, b) > 0
                   /\ \E w \in ranked : w[2] = Cardinality(free) /\ w[1][1] = 0] :
         order \in Orders}

\* The content of block x in tree t, where data is just Junk.
Content(t, x) ==
  LET e == CHOOSE e \in t : e[3] = x
  IN  [c \in Cells |-> IF e[1] = 0 THEN Junk ELSE At(t, <<e[1] - 1, e[2] * Fan + c>>)]

Durable(content) == [c \in Cells |-> {content[c]}]

\* pmfs_alloc_blocks under a transaction that also stores the size and the flag.
Allocate(f, plan, newsize, flag) ==
  LET new == [root |-> At(plan.tree, <<plan.height, 0>>), height |-> plan.height,
              blocks |-> pi[f].blocks + plan.data, size |-> newsize, nlink |-> 1,
              eof |-> pi[f].eof \/ flag \/ plan.eof]
      mine == BlocksOf(plan.tree)
  IN  /\ free' = free \ mine
      /\ node' = [x \in Blocks |-> IF x \in mine THEN Content(plan.tree, x) ELSE node[x]]
      /\ media' = [x \in Blocks |-> IF x \in mine THEN Durable(node'[x]) ELSE media[x]]
      /\ pi' = [pi EXCEPT ![f] = new]
      /\ pimedia' = [pimedia EXCEPT ![f] = {new}]
      /\ size' = [size EXCEPT ![f] = newsize]
      /\ op' = [g \in Files |-> [op[g] EXCEPT !.taken = @ \cup (op[g].gone \cap mine)]]
      /\ UNCHANGED <<tsize, mode, todo, boots, oops>>

\* Lost: the copy from user space faults in the middle of a write; blocks behind the new
\* size stay allocated without the flag (xip.c:185-226).
Unflagged(f) == ~pi[f].eof /\ \E e \in Data(TreeOf(f)) : e[2] >= size[f]

\* pmfs_xip_file_write: the copy ends at the first hole it cannot fill, or earlier when
\* copied /= bytes; the size follows pos even if nothing was copied.
Write(f, r) ==
  /\ Call(f)
  /\ \E plan \in Plans(f, r[1], r[2]), stop \in r[1]..r[2] + 1 :
       /\ \A i \in r[1]..stop - 1 : <<0, i>> \in Has(plan.tree)
       /\ Allocate(f, plan, Maximum(size[f], stop), FALSE)
  /\ tainted' = Unflagged(f)'

\* pmfs_fallocate, with and without FALLOC_FL_KEEP_SIZE.
Fallocate(f, r, keep) ==
  /\ Call(f)
  /\ \E plan \in Plans(f, r[1], r[2]) :
       Allocate(f, plan, IF keep THEN size[f] ELSE Maximum(size[f], r[2] + 1),
                plan.failed \/ keep)
  /\ UNCHANGED tainted

\* A fault on a hole of a mapped file (pmfs_find_and_alloc_blocks).
Fault(f, i) ==
  /\ Call(f)
  /\ i < size[f]
  /\ <<0, i>> \notin Has(TreeOf(f))
  /\ \E plan \in Plans(f, i, i) : Allocate(f, plan, size[f], FALSE)
  /\ UNCHANGED tainted

-----------------------------------------------------------------------------
(* Truncation of a live file (pmfs_notify_change, or recovery). *)

\* The links of a free list are written to the first 16 bytes of a free block
\* (wpmfs_balloc.c:54-57), without a flush.
Linked(content) == [c \in Cells |-> IF c < 2 THEN Junk ELSE content[c]]
OrLinked(held) == [c \in Cells |-> IF c < 2 THEN held[c] \cup {Junk} ELSE held[c]]

\* recursive_truncate_blocks frees what it meets, but no node with something left below.
Freed(t, a, b) ==
  {e \in t : \A d \in t : Under(d, e) => Meets(d, a, b)}

\* pmfs_truncate_add and the start of pmfs_setsize. A size that stays is truncated to
\* when there are blocks behind it.
Truncate(f, n) ==
  /\ Call(f)
  /\ n /= size[f] \/ pi[f].eof
  /\ tsize' = [tsize EXCEPT ![f] = n]
  /\ size' = [size EXCEPT ![f] = n]
  /\ op' = [op EXCEPT ![f] = [Idle EXCEPT !.at = "cut", !.end = size[f]]]
  /\ UNCHANGED <<free, node, media, pi, pimedia, mode, todo, boots, oops, tainted>>

\* Mutant: the flag for blocks behind the size is ignored.
LastIndexOfSize(f, end) == Minimum(end - 1, Fan^pi[f].height - 1)

\* __pmfs_truncate_blocks: the last index it looks at, given the size until now.
LastIndex(f, end) ==
  LET cap == Fan^pi[f].height - 1
  IN  IF pi[f].eof THEN cap ELSE Minimum(end - 1, cap)

NothingToCut(f) ==
  \/ pi[f].root = None
  \/ ~pi[f].eof /\ op[f].end = 0
  \/ size[f] > LastIndex(f, op[f].end)

\* Mutants: i_blocks is not counted again after a crash; nodes are counted too.
BlocksLeftByDifference(f, freed) == pi[f].blocks - Cardinality(Data(freed))
BlocksLeftWithNodes(f, freed) == pi[f].blocks - Cardinality(freed)

\* What the truncation leaves: the root without the decrease of the height, i_blocks
\* (counted again after a crash), and the height the new size needs.
RootLeft(f, freed) ==
  IF <<pi[f].height, 0>> \in Has(freed) THEN None ELSE pi[f].root
BlocksLeft(f, freed) ==
  IF mode = "recover" THEN Cardinality(Data(TreeOf(f)) \ freed)
  ELSE pi[f].blocks - Cardinality(Data(freed))

HeightLeft(f, freed) ==
  IF BlocksLeft(f, freed) = 0 \/ size[f] = 0 THEN 0 ELSE HeightFrom(0, size[f] - 1)

\* The nodes that pmfs_decrease_btree_height takes off the top.
Chain(f, freed) ==
  IF BlocksLeft(f, freed) = 0 \/ size[f] = 0 THEN {}
  ELSE {<<l, 0>> : l \in HeightLeft(f, freed) + 1..pi[f].height}

\* check_eof_blocks.
EofLeft(f, freed) == pi[f].eof /\ size[f] < BlocksLeft(f, freed)

InodeLeft(f, freed) ==
  LET h == HeightLeft(f, freed)
  IN  [pi[f] EXCEPT !.blocks = BlocksLeft(f, freed), !.height = h,
                    !.eof = EofLeft(f, freed),
                    !.root = IF Chain(f, freed) /= {} THEN At(TreeOf(f), <<h, 0>>)
                             ELSE RootLeft(f, freed)]

\* Lost: nothing is left but empty nodes, BUG_ON(newroot != 0) (inode.c:356). A write
\* far into an empty file leaves an empty node in front (inode.c:514-546).
EmptySubtree(f, freed) ==
  (BlocksLeft(f, freed) = 0 \/ size[f] = 0) /\ RootLeft(f, freed) /= None

\* Mutant: only pointers to data are cleared.
CutCellsOfData(f, freed) ==
  {<<d[3], e[2] % Fan>> : <<d, e>> \in
     {x \in (TreeOf(f) \ freed) \X Data(freed) : x[1][1] = 1 /\ Under(x[2], x[1])}}

\* The cells of nodes that stay, with pointers to what was freed.
CutCells(f, freed) ==
  {<<d[3], e[2] % Fan>> : <<d, e>> \in
     {x \in (TreeOf(f) \ freed) \X freed : x[1][1] = x[2][1] + 1 /\ Under(x[2], x[1])}}

\* All that is freed is freed before a pointer to it is cleared. The nodes off the top
\* were cleared before they are freed.
CutFree(f) ==
  LET t     == TreeOf(f)
      freed == Freed(t, size[f], LastIndex(f, op[f].end))
      chain == Chain(f, freed)
      top   == {At(t, p) : p \in chain}
      gone  == (top \ {None}) \cup BlocksOf(freed)
      cells == CutCells(f, freed)
      cut(x) == [c \in Cells |-> IF <<x, c>> \in cells THEN None ELSE node[x][c]]
      held(x) == [c \in Cells |-> media[x][c] \cup {cut(x)[c]}]
  IN  /\ op[f].at = "cut" /\ ~tainted /\ ~oops
      /\ ~NothingToCut(f)
      /\ oops' = (EmptySubtree(f, freed) \/ ~(chain \subseteq Has(t) \ Has(freed)))
      /\ tainted' = EmptySubtree(f, freed)
      /\ op' = [op EXCEPT ![f].at = "freed", ![f].gone = gone,
                          ![f].cells = {x \in cells : x[1] \notin top},
                          ![f].pi = InodeLeft(f, freed)]
      /\ free' = free \cup gone
      /\ node' = [x \in Blocks |-> IF x \in gone THEN Linked(cut(x)) ELSE node[x]]
      /\ media' = [x \in Blocks |-> IF x \in gone THEN OrLinked(held(x)) ELSE media[x]]
      /\ UNCHANGED <<pi, pimedia, size, tsize, mode, todo, calls, boots>>

CutNothing(f) ==
  /\ op[f].at = "cut" /\ ~tainted /\ ~oops
  /\ NothingToCut(f)
  /\ op' = [op EXCEPT ![f].at = "cleared"]
  /\ UNCHANGED <<free, node, media, pi, pimedia, size, tsize, mode, todo, calls, boots, oops,
                 tainted>>

\* The stores to the inode are in one cache line: i_blocks, root with height, the flag.
Images(old, new) ==
  LET b == [old EXCEPT !.blocks = new.blocks]
      r == [b EXCEPT !.root = new.root, !.height = new.height]
  IN  {old, b, r, new}

\* Pointers cleared and inode updated, flushed but not fenced.
CutClear(f) ==
  LET cells == op[f].cells
  IN  /\ op[f].at = "freed" /\ ~tainted /\ ~oops
      /\ node' = [x \in Blocks |->
                    [c \in Cells |-> IF <<x, c>> \in cells THEN None ELSE node[x][c]]]
      /\ media' = [x \in Blocks |->
                     [c \in Cells |-> media[x][c] \cup
                                      IF <<x, c>> \in cells THEN {None} ELSE {}]]
      /\ pi' = [pi EXCEPT ![f] = op[f].pi]
      /\ pimedia' = [pimedia EXCEPT ![f] = @ \cup Images(pi[f], op[f].pi)]
      /\ op' = [op EXCEPT ![f].at = "cleared"]
      /\ UNCHANGED <<free, size, tsize, mode, todo, calls, boots, oops, tainted>>

\* Nothing on the media leads to these blocks any more.
Forgotten(f) ==
  {x \in op[f].gone \cap free : \A g \in Files \ {f} : x \notin op[g].gone}

\* The barrier of pmfs_setsize, then pmfs_update_isize.
CutFence(f) ==
  /\ op[f].at = "cleared" /\ ~tainted /\ ~oops
  /\ media' = [x \in Blocks |->
                 IF x \in Forgotten(f) THEN [c \in Cells |-> {Junk}]
                 ELSE [c \in Cells |-> IF <<x, c>> \in op[f].cells THEN {node[x][c]}
                                       ELSE media[x][c]]]
  /\ node' = [x \in Blocks |-> IF x \in Forgotten(f) THEN [c \in Cells |-> Junk]
                               ELSE node[x]]
  /\ pi' = [pi EXCEPT ![f].size = size[f]]
  /\ pimedia' = [pimedia EXCEPT ![f] = {pi[f], pi'[f]}]
  /\ op' = [op EXCEPT ![f] = [Idle EXCEPT !.at = "fenced"]]
  /\ UNCHANGED <<free, size, tsize, mode, todo, calls, boots, oops, tainted>>

\* pmfs_truncate_del, whose barrier makes the size durable.
CutDone(f) ==
  /\ mode = "mounted" /\ op[f].at = "fenced"
  /\ pimedia' = [pimedia EXCEPT ![f] = {pi[f]}]
  /\ tsize' = [tsize EXCEPT ![f] = NotListed]
  /\ op' = [op EXCEPT ![f] = Idle]
  /\ UNCHANGED <<free, node, media, pi, size, mode, todo, calls, boots, oops, tainted>>

-----------------------------------------------------------------------------
(* Eviction of a file without links. *)

\* pmfs_unlink: the link count and the truncate item are one transaction.
Unlink(f) ==
  /\ Call(f)
  /\ pi' = [pi EXCEPT ![f].nlink = 0]
  /\ pimedia' = [pimedia EXCEPT ![f] = {pi'[f]}]
  /\ tsize' = [tsize EXCEPT ![f] = 0]
  /\ op' = [op EXCEPT ![f].at = "doomed"]
  /\ UNCHANGED <<free, node, media, size, mode, todo, boots, oops, tainted>>

\* pmfs_evict_inode up to the commit of pmfs_free_inode; the blocks are remembered.
FreeInode(f) ==
  LET t    == TreeOf(f)
      last == IF pi[f].eof THEN Fan^pi[f].height - 1
              ELSE Minimum(Maximum(size[f], 1) - 1, Fan^pi[f].height - 1)
      none == [Idle.pi EXCEPT !.nlink = 0]
  IN  /\ op[f].at = "doomed" /\ ~tainted /\ ~oops
      /\ pi' = [pi EXCEPT ![f] = none]
      /\ pimedia' = [pimedia EXCEPT ![f] = {none}]
      /\ op' = [op EXCEPT ![f] = [Idle EXCEPT !.at = "orphan",
                                             !.gone = BlocksOf(Freed(t, 0, last))]]
      /\ oops' = (pi[f].root /= None /\ <<pi[f].height, 0>> \notin Has(Freed(t, 0, last)))
      /\ UNCHANGED <<free, node, media, size, tsize, mode, todo, calls, boots, tainted>>

\* pmfs_free_inode_subtree and pmfs_truncate_del. Nothing leads to the blocks any more.
FreeSubtree(f) ==
  /\ op[f].at = "orphan" /\ ~tainted /\ ~oops
  /\ free' = free \cup op[f].gone
  /\ node' = [x \in Blocks |-> IF x \in op[f].gone THEN [c \in Cells |-> Junk] ELSE node[x]]
  /\ media' = [x \in Blocks |-> IF x \in op[f].gone THEN Durable(node'[x]) ELSE media[x]]
  /\ size' = [size EXCEPT ![f] = 0]
  /\ op' = [op EXCEPT ![f] = [Idle EXCEPT !.at = IF mode = "mounted" THEN "idle" ELSE "fenced"]]
  /\ tsize' = IF mode = "mounted" THEN [tsize EXCEPT ![f] = NotListed] ELSE tsize
  /\ UNCHANGED <<pi, pimedia, mode, todo, calls, boots, oops, tainted>>

-----------------------------------------------------------------------------
(* Power failures and recovery. *)

Listed == {f \in Files : tsize[f] /= NotListed}

\* What the media may hold of a block, and of the blocks 1..n together.
Held(x) == {content \in [Cells -> UNION {media[x][c] : c \in Cells}] :
              \A c \in Cells : content[c] \in media[x][c]}

AllHeld ==
  LET upto[n \in 0..NBlocks] ==
        IF n = 0 THEN {<<>>}
        ELSE {Append(s, content) : s \in upto[n - 1], content \in Held(n)}
  IN  upto[NBlocks]

\* Lost: the crash leaves a tree with a node that the free list has overwritten, or with a
\* block that was allocated again since it was freed.
Overwritten == \E f \in Files : \E e \in TreeOf(f) : e[3] = Junk
Taken == \E f \in Files : BlocksOf(TreeOf(f)') \cap op[f].taken /= {}

\* Lost: on the media the flag is cleared, but not the pointers behind the old size, and
\* the repeated truncation does not look for them.
FlagFirst == \E f \in Files : /\ op[f].at = "cleared"
                              /\ ~pi'[f].eof /\ \E inode \in pimedia[f] : inode.eof
                              /\ \E x \in op[f].cells : node'[x[1]][x[2]] \in Blocks

\* Lost: recovery of the list ends at an inode that was freed already (module TruncateList).
StaleStop == \E f \in Files : op[f].at = "orphan" /\ Listed /= {f}

Crash ==
  /\ ~tainted /\ ~oops
  /\ boots < MaxBoot
  /\ pi' \in {inode \in [Files -> UNION {pimedia[f] : f \in Files}] :
                \A f \in Files : inode[f] \in pimedia[f]}
  /\ \E image \in AllHeld :
       LET reached == UNION {BlocksOf(TreeIn(image, pi'[f].root, pi'[f].height, {})) : f \in Files}
       IN  node' = [x \in Blocks |-> IF x \in reached THEN image[x] ELSE [c \in Cells |-> Junk]]
  /\ media' = [x \in Blocks |-> Durable(node'[x])]
  /\ pimedia' = [f \in Files |-> {pi'[f]}]
  /\ size' = [f \in Files |-> pi'[f].size]
  /\ op' = [f \in Files |-> Idle]
  /\ free' = {}
  /\ mode' = "recover"
  /\ todo' = Listed
  /\ boots' = boots + 1
  /\ tainted' = (Overwritten' \/ Taken \/ FlagFirst \/ StaleStop)
  /\ UNCHANGED <<tsize, calls, oops>>

\* pmfs_recover_truncate_list takes up one inode after the other.
RecoverNext(f) ==
  /\ mode = "recover" /\ ~tainted /\ ~oops
  /\ f \in todo
  /\ \A g \in Files : op[g].at = "idle"
  /\ IF pi[f].nlink = 1
     THEN /\ op' = [op EXCEPT ![f] = [Idle EXCEPT !.at = "cut", !.end = size[f]]]
          /\ size' = [size EXCEPT ![f] = tsize[f]]
     ELSE /\ op' = [op EXCEPT ![f] = [Idle EXCEPT !.at = "doomed"]]
          /\ UNCHANGED size
  /\ UNCHANGED <<free, node, media, pi, pimedia, tsize, mode, todo, calls, boots, oops, tainted>>

Recovered(f) ==
  /\ mode = "recover" /\ op[f].at = "fenced"
  /\ todo' = todo \ {f}
  /\ op' = [op EXCEPT ![f] = Idle]
  /\ UNCHANGED <<free, node, media, pi, pimedia, size, tsize, mode, calls, boots, oops, tainted>>

\* The list is reset, then pmfs_setup_blocknode_map frees what no tree leads to and
\* recovery has not freed itself.
Reached == UNION {BlocksOf(TreeOf(f)) : f \in Files}

RecoverEnd ==
  /\ mode = "recover" /\ todo = {} /\ ~tainted /\ ~oops
  /\ pimedia' = [f \in Files |-> {pi[f]}]
  /\ tsize' = [f \in Files |-> NotListed]
  /\ free' = free \cup (Blocks \ Reached)
  /\ node' = [x \in Blocks |-> IF x \in free' THEN [c \in Cells |-> Junk] ELSE node[x]]
  /\ media' = [x \in Blocks |-> IF x \in free' THEN Durable(node'[x]) ELSE media[x]]
  /\ mode' = "mounted"
  /\ UNCHANGED <<pi, size, op, todo, calls, boots, oops, tainted>>

-----------------------------------------------------------------------------
NoFile == [Idle.pi EXCEPT !.nlink = 1]

Init ==
  /\ free = Blocks
  /\ node = [x \in Blocks |-> [c \in Cells |-> Junk]]
  /\ media = [x \in Blocks |-> Durable(node[x])]
  /\ pi = [f \in Files |-> NoFile]
  /\ pimedia = [f \in Files |-> {NoFile}]
  /\ size = [f \in Files |-> 0]
  /\ tsize = [f \in Files |-> NotListed]
  /\ op = [f \in Files |-> Idle]
  /\ mode = "mounted" /\ todo = {} /\ calls = 0 /\ boots = 0
  /\ oops = FALSE /\ tainted = FALSE

Next ==
  \/ \E f \in Files, r \in Ranges : Write(f, r)
  \/ \E f \in Files, r \in Ranges, keep \in BOOLEAN : Fallocate(f, r, keep)
  \/ \E f \in Files, r \in Ranges : Fault(f, r[1])
  \/ \E f \in Files, n \in Sizes : Truncate(f, n)
  \/ \E f \in Files : \/ CutFree(f) \/ CutNothing(f) \/ CutClear(f)
                       \/ CutFence(f) \/ CutDone(f)
                       \/ Unlink(f) \/ FreeInode(f) \/ FreeSubtree(f)
                       \/ RecoverNext(f) \/ Recovered(f)
  \/ Crash
  \/ RecoverEnd

Spec == Init /\ [][Next]_vars

-----------------------------------------------------------------------------
(* Types; i_blocks, an unsigned difference in __pmfs_truncate_blocks, never  *)
(* wraps, and what is cached is among what the media may hold.              *)
TypeOK ==
  /\ free \subseteq Blocks
  /\ node \in [Blocks -> [Cells -> Value]]
  /\ media \in [Blocks -> [Cells -> (SUBSET Value) \ {{}}]]
  /\ \A x \in Blocks, c \in Cells : node[x][c] \in media[x][c]
  /\ pi \in [Files -> Inode]
  /\ \A f \in Files : pimedia[f] \subseteq Inode /\ pi[f] \in pimedia[f]
  /\ size \in [Files -> 0..MaxIndex]
  /\ tsize \in [Files -> 0..MaxIndex \cup {NotListed}]
  /\ mode \in {"mounted", "recover"}
  /\ todo \subseteq Files /\ calls \in 0..MaxCalls /\ boots \in 0..MaxBoot
  /\ oops \in BOOLEAN /\ tainted \in BOOLEAN

OneOwner ==
  \A f \in Files :
    /\ \A d, e \in View(f) : d[3] = e[3] => d = e
    /\ BlocksOf(View(f)) \cap free = {}
    /\ \A g \in Files \ {f} : BlocksOf(View(f)) \cap BlocksOf(View(g)) = {}

NothingLost ==
  mode = "mounted" =>
    Blocks \subseteq free \cup UNION {BlocksOf(View(f)) : f \in Files}
                          \cup UNION {op[f].gone : f \in {g \in Files : op[g].at = "orphan"}}

\* A block is in one place of one file, or free, or remembered by the eviction that is about
\* to free it: neither the truncation, which frees before it clears pointers, nor a write, nor
\* the recovery after a crash between the two makes a tree lead to a block that is free or
\* that another file has, and blocks that a crash kept from being freed are found by the mount.
Accounted == ~tainted => OneOwner /\ NothingLost

CountExact ==
  \A f \in Files : op[f].at \in {"idle", "cut", "fenced"} =>
                     pi[f].blocks = Cardinality(Data(TreeOf(f)))

EofFlagged ==
  \A f \in Files : op[f].at = "idle" /\ ~pi[f].eof => \A e \in Data(TreeOf(f)) : e[2] < size[f]

\* i_blocks is the number of the data blocks of the tree, whatever a truncation has freed and
\* wherever a crash has cut it short (inode.c:485-489); check_eof_blocks relies on it. A file
\* with blocks behind its size has PMFS_EOFBLOCKS_FL, by which the truncation knows where to
\* look (inode.c:461): else they would survive the truncation and the file. So eviction meets
\* no BUG_ON(!mpty) (inode.c:338), and the decrease of the height no node that is missing or
\* was freed (inode.c:369-376); BUG_ON(newroot != 0) is met, see EmptySubtree.
InodeExact ==
  /\ mode = "mounted" /\ ~tainted => CountExact /\ EofFlagged
  /\ oops => tainted

\* The part of a file that counts: what is below the size a truncation is about to set.
Below(f) == {<<e[2], e[3]>> : e \in {e \in Data(View(f)) : e[2] < tsize[f]}}
AsMap == INSTANCE FileMap WITH map <- [f \in Files |-> Below(f)], cutting <- Listed
\* The trees implement the sparse array of module FileMap: no step but a call changes what
\* is mapped, least of all a crash and the truncation that is repeated after it.
ImplementsMap == AsMap!Init /\ [][tainted' \/ AsMap!Next]_(AsMap!vars)
=============================================================================
