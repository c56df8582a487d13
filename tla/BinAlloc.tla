------------------------------ MODULE BinAlloc ------------------------------
(***************************************************************************)
(* The wear-aware block allocator of WPMFS (wpmfs_balloc.c, allocator 0)   *)
(* and the rebuilding of its free lists at mount (wpmfs_bbuild.c).         *)
(*                                                                         *)
(* Free blocks are the never used range [low, high) and NumBins lists, one *)
(* per interval of Thres writes of the per-page write counters; the last   *)
(* list holds worn out blocks.  A list node lives in the free block itself *)
(* so linking and unlinking write to blocks, and count as their wear.      *)
(* Every function runs under s_lock and is one step.                       *)
(*                                                                         *)
(* The lists are volatile.  A mount frees every block that is neither in   *)
(* the bitmap of reachable blocks nor marked WPMFS_PAGE_USING.  It frees   *)
(* pages behind the volume too, which hold the write counters: what is     *)
(* written to them as blocks spoils counters.                              *)
(***************************************************************************)
EXTENDS Integers, Sequences, FiniteSets

CONSTANTS
  NumBlocks,     \* block_end
  NumReserved,   \* blocks below the first unused one after mkfs
  MapPages,      \* those among them that hold the static mapping table
  StraySlot,     \* what the media holds behind the table, read as a block number
  ByteBits,      \* bits in a byte of the bitmap, 8 in the code
  NumBins,       \* sbi->num_bins
  Thres,         \* get_int_thres_size(), in pointers of 8 bytes, as all sizes
  PageSize,      \* size of a block
  CountersPerPage,  \* counters in a page, 512 in the code
  CounterPages,  \* size of the counter file, in pages
  WriteSizes,    \* sizes of the writes of a block's owner
  MaxWear,       \* bound: no operation starts once a counter has reached it
  MaxBoot        \* bound: power failures and unmounts

ASSUME BlocksAssumption ==
  /\ NumBlocks \in Nat /\ NumReserved \in 2 .. NumBlocks
  /\ MapPages \in 0 .. NumReserved - 1 /\ StraySlot \in Nat
ASSUME ByteBitsAssumption == ByteBits \in Nat \ {0}
ASSUME CountersAssumption == CountersPerPage \in Nat \ {0} /\ CounterPages \in Nat
ASSUME BinsAssumption == NumBins \in Nat /\ NumBins >= 2 /\ Thres \in Nat \ {0}
ASSUME WriteSizesAssumption == WriteSizes \subseteq Nat /\ PageSize \in Nat
ASSUME BoundAssumption == MaxWear \in Nat /\ MaxBoot \in Nat

VARIABLES
  low, high,     \* unused_block_low, unused_block_high
  bins,          \* block_bins, each list oldest entry first
  nfree,         \* num_free_blocks
  wear,          \* writes to every page; its counter as well, unless it is spoilt
  spoilt,        \* pages whose counter was overwritten, or never was a counter
  using,         \* pages marked WPMFS_PAGE_USING
  owned,         \* blocks in use: reserved, or handed out and not freed
  linked,        \* those of them that persistent metadata refers to
  mode,          \* up, with or without (bare) its lists rebuilt; replaying the
                 \* truncate list; scanning the bitmap; or corrupt
  scan,          \* next bit of the scan
  boots

vars == <<low, high, bins, nfree, wear, spoilt, using, owned, linked, mode, scan, boots>>
listVars == <<low, high, bins, nfree>>
wearVars == <<wear, spoilt>>
bootVars == <<mode, scan, boots>>

-----------------------------------------------------------------------------
\* bitmap_4k_size * 8: the bitmap is always at least one bit too long.
BitmapBits == ByteBits * (NumBlocks \div ByteBits + 1)

Pages    == 0 .. BitmapBits - 1
Reserved == 0 .. NumReserved - 1
Bins     == 0 .. NumBins - 1
WornBin  == NumBins - 1

Unused    == low .. high - 1
InBin(i)  == {bins[i][k] : k \in 1 .. Len(bins[i])}
Available == Unused \cup UNION {InBin(i) : i \in Bins \ {WornBin}}
Free      == Available \cup InBin(WornBin)

\* The oldest and the newest entry of a list.
Oldest(q) == {q[k] : k \in 1 .. Len(q) \cap {1}}
Newest(q) == {q[k] : k \in 1 .. Len(q) \cap {Len(q)}}

NodeSize == 2    \* a struct list_head holds two pointers

\* wt_cnter_track_addr: n pointers are written to block b, and one to each of S.
Touch(b, n, S) ==
  [p \in Pages |-> wear[p] + (IF p = b THEN n ELSE 0) + (IF p \in S THEN 1 ELSE 0)]

\* The pages whose counters page p holds: the counter file begins behind the
\* last block (pmfs_get_block_info).
CountersIn(p) == {q \in Pages : p >= NumBlocks /\ q \div CountersPerPage = p - NumBlocks}

\* Those that a list node in page p lies upon.
NodeCounters(p) == {q \in CountersIn(p) : q % CountersPerPage < NodeSize}

\* Pages whose counters would lie behind the end of the counter file.
Uncounted == {q \in Pages : q \div CountersPerPage >= CounterPages}

\* The volume is mounted.
Running == mode \in {"up", "bare"}

\* The bound on the counters.
Fresh == \A p \in Pages : wear[p] < MaxWear

-----------------------------------------------------------------------------
(* pmfs_init: mkfs zeroes the counters, marks the reserved pages and calls *)
(* wpmfs_init_blockmap, which leaves all other blocks unused.              *)
Init ==
  /\ low = NumReserved /\ high = NumBlocks
  /\ bins = [i \in Bins |-> <<>>]
  /\ nfree = NumBlocks - NumReserved
  /\ wear = [p \in Pages |-> 0] /\ spoilt = Uncounted
  /\ using = MapPages .. NumReserved - 1
  /\ owned = Reserved /\ linked = Reserved
  /\ mode = "up" /\ scan = 0 /\ boots = 0

-----------------------------------------------------------------------------
(* The allocator.                                                          *)

\* Mutant: worn out blocks go to the last but one list.
wpmfs_get_bin_lower(b) ==
  LET t == wear[b] \div Thres IN IF t < WornBin THEN t ELSE WornBin - 1

\* The list of a block with this counter; the last one takes all the rest.
wpmfs_get_bin(b) ==
  LET t == wear[b] \div Thres IN IF t < NumBins THEN t ELSE WornBin

\* What it returns for an overwritten counter is anybody's guess.
BinsOf(b) == IF b \in spoilt THEN Bins ELSE {wpmfs_get_bin(b)}

\* __wpmfs_free_block: list_add puts the block at the front of its list and
\* writes to it and to the former front.
free_block(b) ==
  /\ \E i \in BinsOf(b) :
       /\ bins' = [bins EXCEPT ![i] = Append(@, b)]
       /\ wear' = Touch(b, NodeSize, Newest(bins[i]))
  /\ spoilt' = spoilt \cup NodeCounters(b)
  /\ nfree' = nfree + 1
  /\ using' = using \cup {b}

\* wpmfs_free_block, of a block that no persistent pointer leads to any more,
\* as when the inode that held it has been freed.  (The truncation of a live
\* file calls it before its pointers are cleared, inode.c:265-274.)
FreeBlock(b) ==
  /\ Running /\ Fresh
  /\ b \in owned \ linked
  /\ free_block(b)
  /\ owned' = owned \ {b}
  /\ UNCHANGED <<low, high, linked, bootVars>>

\* __wpmfs_new_block, never used blocks first.  The block is zeroed on request:
\* z is the size of that write.
NewUnused(z) ==
  /\ Running /\ Fresh
  /\ low # high
  /\ low' = low + 1
  /\ nfree' = nfree - 1
  /\ using' = using \cup {low}
  /\ owned' = owned \cup {low}
  /\ wear' = Touch(low, z, {})
  /\ UNCHANGED <<high, bins, spoilt, linked, bootVars>>

\* Mutant: the search goes from the most to the least worn blocks.
FromBin_worst(i) ==
  /\ low = high /\ nfree # 0
  /\ i < WornBin /\ bins[i] # <<>>
  /\ \A j \in i + 1 .. WornBin - 1 : bins[j] = <<>>

\* Mutant: one list too many is left out.
FromBin_short(i) ==
  /\ low = high /\ nfree # 0
  /\ i < WornBin - 1 /\ bins[i] # <<>>
  /\ \A j \in 0 .. i - 1 : bins[j] = <<>>

\* The search finds its block in list i: the first list that is not empty.
FromBin(i) ==
  /\ low = high /\ nfree # 0
  /\ i < WornBin /\ bins[i] # <<>>
  /\ \A j \in 0 .. i - 1 : bins[j] = <<>>

\* -ENOMEM.
Enomem == low = high /\ \A i \in Bins : ~FromBin(i)

\* A page of counters is zeroed with the block that it was taken for.
Zeroed(b, z) == IF z = 0 THEN spoilt ELSE spoilt \cup CountersIn(b)

\* Mutant: the newest entry is taken.
NewFromBin_newest(i, z) ==
  /\ Running /\ Fresh
  /\ FromBin(i)
  /\ LET b    == bins[i][Len(bins[i])]
         rest == SubSeq(bins[i], 1, Len(bins[i]) - 1)
     IN /\ bins' = [bins EXCEPT ![i] = rest]
        /\ wear' = Touch(b, z, Newest(rest))
        /\ spoilt' = Zeroed(b, z)
        /\ using' = using \cup {b}
        /\ owned' = owned \cup {b}
  /\ nfree' = nfree - 1
  /\ UNCHANGED <<low, high, linked, bootVars>>

\* Mutant: list_del is missing.
NewFromBin_kept(i, z) ==
  /\ Running /\ Fresh
  /\ FromBin(i)
  /\ LET b == Head(bins[i])
     IN /\ wear' = Touch(b, z, {})
        /\ spoilt' = Zeroed(b, z)
        /\ using' = using \cup {b}
        /\ owned' = owned \cup {b}
  /\ nfree' = nfree - 1
  /\ UNCHANGED <<low, high, bins, linked, bootVars>>

\* Mutant: the block is not counted.
NewFromBin_uncounted(i, z) ==
  /\ Running /\ Fresh
  /\ FromBin(i)
  /\ LET b == Head(bins[i])
     IN /\ bins' = [bins EXCEPT ![i] = Tail(@)]
        /\ wear' = Touch(b, z, Oldest(Tail(bins[i])))
        /\ spoilt' = Zeroed(b, z)
        /\ using' = using \cup {b}
        /\ owned' = owned \cup {b}
  /\ UNCHANGED <<low, high, nfree, linked, bootVars>>

\* __wpmfs_new_block from a list: its oldest entry, lcur->prev; unlinking
\* writes a pointer to the next oldest.
NewFromBin(i, z) ==
  /\ Running /\ Fresh
  /\ FromBin(i)
  /\ LET b == Head(bins[i])
     IN /\ bins' = [bins EXCEPT ![i] = Tail(@)]
        /\ wear' = Touch(b, z, Oldest(Tail(bins[i])))
        /\ spoilt' = Zeroed(b, z)
        /\ using' = using \cup {b}
        /\ owned' = owned \cup {b}
  /\ nfree' = nfree - 1
  /\ UNCHANGED <<low, high, linked, bootVars>>

-----------------------------------------------------------------------------
(* The owners of blocks: inode trees, mapping tables, the journal.         *)

\* A write to a block in use is counted, and overwrites the counters in it.  The
\* writes to reserved blocks, which are never freed, are not followed.
Write(b, n) ==
  /\ Running /\ Fresh
  /\ b \in owned \ Reserved
  /\ wear' = Touch(b, n, {})
  /\ spoilt' = spoilt \cup CountersIn(b)
  /\ UNCHANGED <<listVars, using, owned, linked, bootVars>>

\* A reference to the block becomes persistent.
Link(b) ==
  /\ Running /\ b \in owned \ linked
  /\ linked' = linked \cup {b}
  /\ UNCHANGED <<listVars, wearVars, using, owned, bootVars>>

\* The reference is removed, persistently: pmfs_free_inode clears the root
\* before pmfs_evict_inode frees the tree.
Unlink(b) ==
  /\ Running /\ b \in linked \ Reserved
  /\ linked' = linked \ {b}
  /\ UNCHANGED <<listVars, wearVars, using, owned, bootVars>>

-----------------------------------------------------------------------------
(* Unmount, power failure, mount.                                          *)

\* The lists are in memory; what persistent metadata does not refer to has no owner.
Forget ==
  /\ low' = 0 /\ high' = 0 /\ nfree' = 0
  /\ bins' = [i \in Bins |-> <<>>]
  /\ owned' = linked

\* A new sbi: no lists.  The pages of the reserved blocks are marked again by
\* wpmfs_recv_memory, those of the table itself and one behind them included.
\* recv_vmap_static reads one slot more than the table has, which nobody has
\* written in this format, and marks that block too.  marks is what was left of
\* the others.
Restart(marks) ==
  /\ mode # "corrupt"
  /\ boots < MaxBoot /\ boots' = boots + 1
  /\ Forget
  /\ using' = marks \cup Reserved \cup ({StraySlot} \cap Pages)
  /\ mode' = "recover" /\ scan' = 0
  /\ UNCHANGED <<wearVars, linked>>

\* Power failure at any time; the page structures are new after the boot.
Crash == Restart({})

\* Mutant: the marks of the previous mount are not cleared.
Remount_marked ==
  /\ Running /\ owned = linked
  /\ Restart(using)

\* Unmount and mount: pmfs_get_block_info clears the marks of the blocks, but
\* not those of the pages behind the last one.
Remount ==
  /\ Running /\ owned = linked
  /\ Restart(using \ (0 .. NumBlocks - 1))

\* pmfs_recover_truncate_list frees a block before the lists are rebuilt.
RecoverFree(b) ==
  /\ mode = "recover"
  /\ b \in linked \ Reserved
  /\ free_block(b)
  /\ linked' = linked \ {b}
  /\ owned' = owned \ {b}
  /\ UNCHANGED <<low, high, bootVars>>

\* Mutant: num_free_blocks is not raised by the size of the volume first.
StartScan_uncounted ==
  /\ mode = "recover"
  /\ low' = NumBlocks /\ high' = NumBlocks
  /\ nfree' = nfree - NumBlocks
  /\ mode' = "scan" /\ scan' = 1
  /\ UNCHANGED <<bins, wearVars, using, owned, linked, boots>>

\* wpmfs_setup_blocknode_map: wpmfs_init_blockmap with the size of the volume
\* leaves no unused block; the scan begins at bit 1.  That bit is always clear,
\* so the case of a bitmap without a clear bit does not arise.
StartScan ==
  /\ mode = "recover"
  /\ low' = NumBlocks /\ high' = NumBlocks
  /\ nfree' = nfree + NumBlocks - NumBlocks
  /\ mode' = "scan" /\ scan' = 1
  /\ UNCHANGED <<bins, wearVars, using, owned, linked, boots>>

\* No memory for the bitmap: nothing is rebuilt and the mount goes on.  What the
\* truncate list gave back is all there is to hand out, until the next mount.
SkipRebuild ==
  /\ mode = "recover" /\ mode' = "bare"
  /\ UNCHANGED <<listVars, wearVars, using, owned, linked, scan, boots>>

\* wpmfs_inode_table_crawl_recursive sets the bits of the blocks of all inode
\* trees; the reserved blocks are known by their marks only.
Bitmap == linked \ Reserved

\* Mutant: the marks are not looked at.
ScanBit_unmarked ==
  /\ mode = "scan" /\ scan < BitmapBits
  /\ scan' = scan + 1
  /\ IF scan \notin Bitmap
     THEN free_block(scan)
     ELSE UNCHANGED <<bins, nfree, wearVars, using>>
  /\ UNCHANGED <<low, high, owned, linked, mode, boots>>

\* wpmfs_try_free_blocks on one bit of the bitmap.
ScanBit ==
  /\ mode = "scan" /\ scan < BitmapBits
  /\ scan' = scan + 1
  /\ IF scan \notin Bitmap \cup using
     THEN free_block(scan)
     ELSE UNCHANGED <<bins, nfree, wearVars, using>>
  /\ UNCHANGED <<low, high, owned, linked, mode, boots>>

ScanDone ==
  /\ mode = "scan" /\ scan >= BitmapBits
  /\ mode' = "up"
  /\ UNCHANGED <<listVars, wearVars, using, owned, linked, scan, boots>>

-----------------------------------------------------------------------------
\* The end of the model.  Where counters are spoilt, a list node lies upon counters,
\* or a number that is none is read as a counter.  In the first case the next
\* counted write changes a pointer of the list, in the others the index of a list
\* may come out negative: memory is overwritten anywhere and the kernel goes down.
Corrupt ==
  /\ spoilt # {} /\ mode # "corrupt"
  /\ Forget
  /\ mode' = "corrupt" /\ scan' = 0
  /\ UNCHANGED <<wearVars, using, linked, boots>>

Use == \/ \E z \in {0, PageSize} : NewUnused(z) \/ \E i \in Bins : NewFromBin(i, z)
       \/ \E b \in Pages : FreeBlock(b) \/ Link(b) \/ Unlink(b)
       \/ \E b \in Pages, n \in WriteSizes : Write(b, n)

Mount == \/ \E b \in Pages : RecoverFree(b)
         \/ StartScan \/ SkipRebuild \/ ScanBit \/ ScanDone

Next == Use \/ Crash \/ Remount \/ Mount \/ Corrupt

Spec == Init /\ [][Next]_vars

-----------------------------------------------------------------------------
(* Properties.                                                             *)

\* The shape of the state.
TypeOK ==
  /\ low \in 0 .. NumBlocks /\ high \in 0 .. NumBlocks
  /\ bins \in [Bins -> Seq(Pages)]
  /\ nfree \in Nat
  /\ wear \in [Pages -> Nat] /\ spoilt \subseteq Pages
  /\ using \subseteq Pages /\ owned \subseteq Pages /\ linked \subseteq Pages
  /\ mode \in {"up", "bare", "recover", "scan", "corrupt"}
  /\ scan \in 0 .. BitmapBits /\ boots \in 0 .. MaxBoot

\* No block is at two places: twice on the lists, on a list and unused, or
\* free while a file, a table or the journal uses it.
OneOwner ==
  /\ \A i, j \in Bins : \A k \in 1 .. Len(bins[i]), l \in 1 .. Len(bins[j]) :
       bins[i][k] = bins[j][l] => i = j /\ k = l
  /\ \A i \in Bins : InBin(i) \cap Unused = {}
  /\ Free \cap owned = {}

\* num_free_blocks, which statfs reports and the search relies on, is the
\* number of unused and listed blocks, through crashes and rebuilds.
FreeCount == nfree = Cardinality(Free)

\* The block that a mount takes for a reserved one.
Stray == IF boots = 0 THEN {} ELSE {StraySlot}

\* A mount that has rebuilt the lists loses no block, whatever crashes and mounts
\* without a rebuild preceded it, but for the one that the slot behind the mapping
\* table names: what is not in use can be found.
NothingLost == mode = "up" => 0 .. NumBlocks - 1 \subseteq Free \cup owned \cup Stray

\* What the lists write to a block from the time it is freed: its own node, a
\* pointer when the next block is put in front of it, and a pointer when the one
\* behind it is taken.
ListWrites == NodeSize + 2

\* The list of a free block tells its wear, although lists are only chosen when
\* a block is freed and list operations go on writing to it, as long as its counter
\* is not overwritten.
BinAccuracy ==
  \A i \in Bins : \A b \in InBin(i) \ spoilt :
    /\ i * Thres + NodeSize <= wear[b]
    /\ i # WornBin => wear[b] < (i + 1) * Thres + ListWrites

\* "to retrieve the least worn free block": of the blocks whose counters are
\* counters, what is handed out is at most one interval and two pointers, written
\* by the lists, more worn than any other free block.
LeastWorn ==
  [][\A b \in (owned' \ owned) \ spoilt : \A c \in Free \ spoilt :
       wear[b] < wear[c] + Thres + 2]_vars

\* "the last bin helds worn out pages": a block that has used up its endurance,
\* but for the writes of the lists, is never handed out again, unless its counter
\* is overwritten.
WornOutRetired ==
  [][\A b \in (owned' \ owned) \ spoilt : wear[b] < WornBin * Thres + ListWrites]_vars

\* -ENOMEM means that all free blocks, if any, are on the list of worn out ones.
EnomemOnlyWorn == Running /\ Enomem => Available = {}

\* The allocator is a block pool.
Pool == INSTANCE BlockPool WITH Blocks <- Pages, avail <- Available, retired <- InBin(WornBin)

ImplementsPool == Pool!Spec

\* "part of the memory is reserved as the address space of the counters": the
\* pages behind the last block, which hold the write counters, are never given
\* to the allocator's users.
CountersReserved == Free \cup owned \subseteq 0 .. NumBlocks - 1
=============================================================================
