----------------------------- MODULE PmfsAlloc -----------------------------
(***************************************************************************)
(* The default block allocator of WPMFS, allocator 1, taken over from PMFS *)
(* (wpmfs_balloc.c), and the rebuilding of its list at mount               *)
(* (wpmfs_bbuild.c), without the vmap mount option.                        *)
(*                                                                         *)
(* block_inuse_head is a volatile list of the ranges of blocks in use, in  *)
(* ascending order; the free blocks are the gaps behind its nodes. Only    *)
(* blocks of 4 KB are allocated (WPMFS), so that a new block never needs a *)
(* node. Every function runs under s_lock and is one step, except the      *)
(* truncation of a leaf, which frees a batch of blocks under one lock and  *)
(* remembers in start_hint where it was.                                   *)
(***************************************************************************)
EXTENDS Integers, SequencesExt

CONSTANTS
  BlockEnd,      \* block_end
  UsedBlocks,    \* blocks up to the end of the journal
  MaxRestart,    \* bound: power failures and unmounts
  MaxOom         \* bound: failures to allocate memory

\* Super block and journal take at least one block.
ASSUME SizesAssumption == BlockEnd \in Nat /\ UsedBlocks \in 1 .. BlockEnd
ASSUME LimitAssumption == MaxRestart \in Nat /\ MaxOom \in Nat

VARIABLES
  nodes,         \* block_inuse_head: ranges [low, high]
  numFree,       \* num_free_blocks
  numNodes,      \* num_blocknode_allocated
  hint,          \* start_hint of a batch: index of a node, 0 for NULL
  batch,         \* a truncation holds s_lock
  inuse,         \* blocks in use: reserved, or handed out and not freed
  refs,          \* those of them that persistent metadata refers to
  leaked,        \* blocks that could not be freed
  phase,         \* "up", "recover", "scan", "bug" or "broken"
  next,          \* next bit of the scan
  restarts, ooms

pmfsVars == <<nodes, numFree, numNodes, hint, batch, inuse, refs, leaked, phase, next,
              restarts, ooms>>
mapVars == <<nodes, numFree, numNodes>>
hintVars == <<hint, batch>>
mountVars == <<phase, next, restarts>>

-----------------------------------------------------------------------------
Blocks == 0 .. BlockEnd - 1
Taken  == 0 .. UsedBlocks - 1
Node(lo, hi) == [low |-> lo, high |-> hi]

\* The blocks of a list of ranges.
CoveredBy(list) == UNION {list[i].low .. list[i].high : i \in 1 .. Len(list)}
Covered == CoveredBy(nodes)

\* pmfs_init_blockmap: one node, for the blocks that mkfs uses.
FirstNode == <<Node(0, UsedBlocks - 1)>>

\* pmfs_init, with mkfs.
PInit ==
  /\ nodes = FirstNode /\ numFree = BlockEnd - UsedBlocks /\ numNodes = 1
  /\ hint = 0 /\ batch = FALSE
  /\ inuse = Taken /\ refs = Taken /\ leaked = {}
  /\ phase = "up" /\ next = 0 /\ restarts = 0 /\ ooms = 0

-----------------------------------------------------------------------------
(* Blocks lo to hi come into use in the gap behind node i; the same code   *)
(* stands in pmfs_new_block and pmfs_alloc_insert_blocknode_map.           *)

\* The first block that is in use again behind node i.
GapEnd(i) == IF i = Len(nodes) THEN BlockEnd ELSE nodes[i + 1].low

\* Mutant: the node behind a filled gap goes, its blocks are forgotten.
FillGap_lost(i, hi) ==
  IF i = Len(nodes) THEN [nodes EXCEPT ![i].high = hi]
  ELSE RemoveAt([nodes EXCEPT ![i].high = hi], i + 1)

\* The whole gap: the nodes on its sides become one.
FillGap(i, hi) ==
  IF i = Len(nodes) THEN [nodes EXCEPT ![i].high = hi]
  ELSE RemoveAt([nodes EXCEPT ![i].high = nodes[i + 1].high], i + 1)

\* A range at the left end of the gap extends node i, one at the right end the
\* next node; any other gets a node of its own.
Occupy(i, lo, hi) ==
  LET left  == lo = nodes[i].high + 1
      right == hi = GapEnd(i) - 1
  IN CASE left /\ right -> FillGap(i, hi)
       [] left /\ ~right -> [nodes EXCEPT ![i].high = hi]
       [] ~left /\ right /\ i < Len(nodes) -> [nodes EXCEPT ![i + 1].low = lo]
       [] OTHER -> InsertAt(nodes, i + 1, Node(lo, hi))

Occupied(i, lo, hi) ==
  /\ nodes' = Occupy(i, lo, hi)
  /\ numFree' = numFree - (hi - lo + 1)
  /\ numNodes' = numNodes + Len(nodes') - Len(nodes)

\* The first gap that holds a block, and the first that holds blocks up to hi.
FirstGap(i) ==
  /\ i \in 1 .. Len(nodes) /\ nodes[i].high + 1 < GapEnd(i)
  /\ \A j \in 1 .. i - 1 : nodes[j].high + 1 >= GapEnd(j)
GapFor(i, hi) ==
  /\ i \in 1 .. Len(nodes) /\ hi < GapEnd(i)
  /\ \A j \in 1 .. i - 1 : hi >= GapEnd(j)

\* pmfs_new_block. Without a gap it returns -ENOSPC.
NewBlock == \E i \in 1 .. Len(nodes) :
  /\ phase = "up" /\ ~batch
  /\ FirstGap(i)
  /\ LET b == nodes[i].high + 1 IN Occupied(i, b, b) /\ inuse' = inuse \cup {b}
  /\ UNCHANGED <<hintVars, refs, leaked, mountVars, ooms>>

-----------------------------------------------------------------------------
(* __pmfs_free_block.                                                      *)

\* Mutant: the hint is used for a block in front of it too.
StartNode_hint(b) == IF hint # 0 THEN hint ELSE 1

\* The search starts at the hint, unless the block lies in front of it.
StartNode(b) == IF hint # 0 /\ b >= nodes[hint].low THEN hint ELSE 1

\* The node of the block, if the search finds it.
Holder(b) == {i \in StartNode(b) .. Len(nodes) : b \in nodes[i].low .. nodes[i].high}

AfterNode(i) == IF i < Len(nodes) THEN i + 1 ELSE 0

\* Block b leaves node i: the node goes, shrinks or is split. h is the hint.
Split(i, b) ==
  InsertAt([nodes EXCEPT ![i].high = b - 1], i + 1, Node(b + 1, nodes[i].high))

Vacate(i, b) ==
  LET n == nodes[i] IN
  CASE n.low = b /\ n.high = b -> [list |-> RemoveAt(nodes, i), at |-> IF i < Len(nodes) THEN i ELSE 0]
    [] n.low = b /\ n.high > b -> [list |-> [nodes EXCEPT ![i].low = b + 1], at |-> i]
    [] n.low < b /\ n.high = b -> [list |-> [nodes EXCEPT ![i].high = b - 1], at |-> AfterNode(i)]
    [] n.low < b /\ n.high > b -> [list |-> Split(i, b), at |-> i + 1]

FreeFound(b) == \E i \in Holder(b) :
  LET v == Vacate(i, b) IN
  /\ nodes' = v.list
  /\ hint' = IF batch THEN v.at ELSE 0
  /\ numFree' = numFree + 1
  /\ numNodes' = numNodes + Len(nodes') - Len(nodes)
  /\ UNCHANGED <<leaked, ooms>>

\* No memory for the second half of a split node, or no node with this block:
\* the call returns without freeing the block.
FreeSkipped(b) ==
  /\ \/ /\ ooms < MaxOom /\ ooms' = ooms + 1
        /\ \E i \in Holder(b) : nodes[i].low < b /\ b < nodes[i].high
     \/ Holder(b) = {} /\ UNCHANGED ooms
  /\ leaked' = leaked \cup {b}
  /\ UNCHANGED <<mapVars, hint>>

\* A block that no persistent pointer leads to any more is freed, alone or as one
\* of a batch.
PmfsFreeBlock(b) ==
  /\ phase = "up" /\ nodes # <<>>
  /\ b \in inuse \ refs
  /\ FreeFound(b) \/ FreeSkipped(b)
  /\ inuse' = inuse \ {b}
  /\ UNCHANGED <<batch, refs, mountVars>>

\* recursive_truncate_blocks, of a leaf: lock, and unlock.
BatchBegin ==
  /\ phase = "up" /\ ~batch /\ batch' = TRUE /\ hint' = 0
  /\ UNCHANGED <<mapVars, inuse, refs, leaked, mountVars, ooms>>

BatchEnd ==
  /\ phase = "up" /\ batch /\ batch' = FALSE /\ hint' = 0
  /\ UNCHANGED <<mapVars, inuse, refs, leaked, mountVars, ooms>>

\* BUG_ON(list_empty(head)): a truncation is finished before the list is built, or
\* a block is freed although it was never built.
FreeBug(b) ==
  /\ nodes = <<>>
  /\ \/ phase = "recover" /\ b \in refs \ Taken
     \/ phase = "up" /\ b \in inuse \ refs
  /\ phase' = "bug"
  /\ UNCHANGED <<mapVars, hintVars, inuse, refs, leaked, next, restarts, ooms>>

-----------------------------------------------------------------------------
(* The owners of blocks.                                                   *)

\* A reference to the block becomes persistent.
Refer(b) ==
  /\ phase = "up" /\ b \in inuse \ refs
  /\ refs' = refs \cup {b}
  /\ UNCHANGED <<mapVars, hintVars, inuse, leaked, mountVars, ooms>>

\* The reference is removed, persistently.
Unrefer(b) ==
  /\ phase = "up" /\ b \in refs \ Taken
  /\ refs' = refs \ {b}
  /\ UNCHANGED <<mapVars, hintVars, inuse, leaked, mountVars, ooms>>

-----------------------------------------------------------------------------
(* Unmount, power failure, mount.                                          *)

\* Power failure at any time, or unmount (pmfs_put_super frees the nodes): a new
\* sbi, with an empty list.
Reset ==
  /\ phase # "broken"
  /\ restarts < MaxRestart /\ restarts' = restarts + 1
  /\ nodes' = <<>> /\ numFree' = 0 /\ numNodes' = 0
  /\ hint' = 0 /\ batch' = FALSE
  /\ inuse' = refs /\ leaked' = {}
  /\ phase' = "recover" /\ next' = 0
  /\ UNCHANGED <<refs, ooms>>

\* pmfs_setup_blocknode_map without memory for the bitmaps: the mount goes on.
SkipScan ==
  /\ phase = "recover" /\ phase' = "up"
  /\ ooms < MaxOom /\ ooms' = ooms + 1
  /\ UNCHANGED <<mapVars, hintVars, inuse, refs, leaked, next, restarts>>

\* The blocks up to the end of the journal are in use; the bits of the others say
\* which. The scan starts at bit 1.
BeginScan ==
  /\ phase = "recover" /\ phase' = "scan" /\ next' = 1
  /\ nodes' = FirstNode /\ numFree' = BlockEnd - UsedBlocks /\ numNodes' = 1
  /\ UNCHANGED <<hintVars, inuse, refs, leaked, restarts, ooms>>

\* No memory for that node: a null pointer dereference.
BeginOops ==
  /\ phase = "recover" /\ phase' = "bug"
  /\ ooms < MaxOom /\ ooms' = ooms + 1
  /\ UNCHANGED <<mapVars, hintVars, inuse, refs, leaked, next, restarts>>

\* Bits that the crawl of the inode trees has set. The bitmap is at least one bit
\* longer than the volume, and that bit is clear.
Bits == 0 .. BlockEnd
SetBits == refs \ Taken

\* find_next_bit passes a clear bit.
ScanClear ==
  /\ phase = "scan" /\ next \in Bits \ SetBits
  /\ next' = next + 1
  /\ UNCHANGED <<mapVars, hintVars, inuse, refs, leaked, phase, restarts, ooms>>

\* find_next_zero_bit: a run of set bits begins here and ends before bit e.
RunEnd(e) ==
  /\ phase = "scan" /\ next < e
  /\ next .. e - 1 \subseteq SetBits /\ e \notin SetBits

\* The run is inserted.
ScanRun == \E e \in Bits, i \in 1 .. Len(nodes) :
  /\ RunEnd(e)
  /\ GapFor(i, e - 1)
  /\ Occupied(i, next, e - 1)
  /\ next' = e
  /\ UNCHANGED <<hintVars, inuse, refs, leaked, phase, restarts, ooms>>

\* It cannot be, for want of a node or of a gap: the mount only prints an error. The
\* blocks of the run, in use, will be handed out, and nothing is promised any more:
\* the model ends here.
RunDropped == \E e \in Bits :
  /\ RunEnd(e)
  /\ \/ /\ ooms < MaxOom /\ ooms' = ooms + 1
        /\ \E i \in 1 .. Len(nodes) :
             GapFor(i, e - 1) /\ Len(Occupy(i, next, e - 1)) > Len(nodes)
     \/ /\ \A i \in 1 .. Len(nodes) : ~GapFor(i, e - 1)
        /\ UNCHANGED ooms
  /\ phase' = "broken"
  /\ UNCHANGED <<mapVars, hintVars, inuse, refs, leaked, next, restarts>>

EndScan ==
  /\ phase = "scan" /\ next > BlockEnd
  /\ phase' = "up"
  /\ UNCHANGED <<mapVars, hintVars, inuse, refs, leaked, next, restarts, ooms>>

-----------------------------------------------------------------------------
PNext ==
  \/ NewBlock \/ BatchBegin \/ BatchEnd
  \/ \E b \in Blocks : PmfsFreeBlock(b) \/ FreeBug(b) \/ Refer(b) \/ Unrefer(b)
  \/ Reset \/ SkipScan \/ BeginOops \/ BeginScan
  \/ ScanClear \/ ScanRun \/ RunDropped \/ EndScan

PSpec == PInit /\ [][PNext]_pmfsVars

-----------------------------------------------------------------------------
(* Properties.                                                             *)

\* What the scan has to have inserted so far.
Known == IF phase = "scan" THEN Taken \cup {b \in refs : b < next} ELSE inuse \cup leaked

\* The nodes are in ascending order, with a gap between any two, and begin with the
\* blocks of the super block, which no gap precedes.
Ascending(list) ==
  /\ \A i \in 1 .. Len(list) : list[i].low <= list[i].high /\ list[i].high < BlockEnd
  /\ \A i, j \in 1 .. Len(list) : i < j => list[i].high + 1 < list[j].low
  /\ list # <<>> => list[1].low = 0

\* pmfs_new_block has passed all nodes.
Enospc == \A i \in 1 .. Len(nodes) : nodes[i].high + 1 >= GapEnd(i)

\* The list is exactly the blocks in use, and the counters are exact: whatever frees,
\* merges, splits, rebuilds and restarts have done, and with whatever hint, the nodes
\* cover the blocks in use and the ones that could not be freed and nothing else; they are
\* counted; the gaps are what num_free_blocks says, so that -ENOSPC means that it
\* is 0. Only blocks whose node could not be split are not freed.
RangesExact ==
  phase \in {"up", "scan"} /\ nodes # <<>> =>
    /\ Ascending(nodes) /\ Covered = Known
    /\ numNodes = Len(nodes) /\ numFree = Cardinality(Blocks \ Covered)
    /\ Enospc => numFree = 0
    /\ hint \in 0 .. Len(nodes)
    /\ Cardinality(leaked) <= ooms

\* Blocks that can be handed out, and free blocks that cannot before the next mount.
Gaps ==
  IF nodes = <<>> THEN {}
  ELSE CASE phase = "up" -> Blocks \ Covered
         [] phase = "scan" -> {b \in Blocks \ Covered : b < next}
         [] OTHER -> {}

PmfsPool == INSTANCE BlockPool WITH avail <- Gaps, retired <- leaked, owned <- inuse

\* The allocator keeps the promise of struct allocator_factory: no block is handed out
\* twice, none that is in use is reclaimed, across restarts and rebuilds.
PmfsImplementsPool == PmfsPool!Spec
=============================================================================
