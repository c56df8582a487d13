# WPMFS in TLA+

WPMFS is a file system for byte-addressable persistent memory (PMEM), a Linux
kernel module that extends PMFS with wear-aware allocation and page migration.
This directory models it: TLA+ modules translated from the C source, TLC
configurations that check them on small instances, and theorems whose proofs
TLAPS checks. All source references are to `src/`.

## 1. The system

### Parts, state and operations

| Part | Source | State | Operations |
|---|---|---|---|
| Journal | `journal.c`, `journal.h` | ring of log entries and `{head, tail, gen_id}` on PMEM; `journal_mutex`, `next_transaction_id` | `pmfs_new_transaction`, `pmfs_add_logentry`, `pmfs_commit_transaction`, `pmfs_abort_transaction` |
| Log cleaner | `journal.c` | a kernel thread, woken when the ring fills | `pmfs_clean_journal`, also called by `pmfs_new_transaction` when there is no room and by the unmount |
| Journal recovery | `journal.c`, `super.c` | scan position, generation | `pmfs_recover_journal` |
| Bin allocator (allocator 0) | `wpmfs_balloc.c` | `block_bins[]`, `[unused_block_low, unused_block_high)`, `num_free_blocks`; list nodes inside the free blocks | `wpmfs_new_block`, `wpmfs_free_block`, `wpmfs_init_blockmap` |
| Blocknode allocator (allocator 1, the default) | `wpmfs_balloc.c` | `block_inuse_head`, a list of ranges in use; `start_hint` of a truncation; counters | `pmfs_new_block`, `__pmfs_free_block`, `pmfs_alloc_insert_blocknode_map`, `pmfs_init_blockmap` |
| Block map rebuild | `wpmfs_bbuild.c` | bitmap of reachable blocks, page marks | `pmfs_setup_blocknode_map` and the crawl of the inode trees |
| Truncate list | `inode.c`, `super.c` | list of inodes on PMEM, `s_truncate`, `s_truncate_lock` | `pmfs_truncate_add`, `pmfs_truncate_del`, `pmfs_recover_truncate_list` |
| Inodes | `inode.c` | inode table, block trees (B-trees of height 0-3) | `pmfs_new_inode`, `pmfs_evict_inode`, `pmfs_setsize`, `__pmfs_alloc_blocks`, ... |
| Mapping tables | `wpmfs_balloc.c`, `wpmfs_bbuild.c` | static and dynamic mptables, vmap areas | `wpmfs_get_block`, `wpmfs_reget_blocknr`, `wpmfs_map_dynamic_page` |
| Wear leveling | `wpmfs_wl.c` | kfifo of requests, page types | interrupt top half, bottom half, migration of rmap, vmap and stranded pages |
| Write tracking | `wpmfs_wt.c`, `wpmfs_wt.h` | a write counter per page | `wt_cnter_track_*` |
| Names | `namei.c`, `dir.c`, `symlink.c` | directory blocks | create, link, unlink, rmdir, rename |
| File data | `xip.c`, `file.c` | - | read, write, page fault, fallocate |
| Mount | `super.c` | super block (checksummed, redundant) | format, mount, unmount, options |
| Periphery | `ioctl.c`, `wpmfs_proc.c`, `pmfs_stats.c`, `pmfs_test.c`, `wprotect.c`, `pm_instr.h` | - | flags, formatting, statistics, tracing |

### How the parts interact

Every metadata operation opens a journal transaction, logs old values, changes
words in place and commits. Blocks come from and go to the allocator through
`struct allocator_factory` (`pmfs.h:236-247`), under `s_lock`. Unlink and
truncation first put the inode on the truncate list, so that a crash leaves a
note of the blocks to free. At mount (`pmfs_fill_super`) the order is: start of the
cleaner thread (`pmfs_journal_soft_init`, `super.c:793`, `journal.c:450`), which sleeps until
a transaction wakes it, journal recovery, recovery of the truncate list, rebuild of the
block map. The allocator's lists are volatile and rebuilt from the trees;
pages that something else holds are kept from the lists by
`WPMFS_PAGE_USING` marks. List operations write to free blocks, and so count as
wear, which later decides the list of the block.

### What is hard

- Any store may or may not have reached the media when power fails, until the
  flush and fence that cover it. Recovery itself may be interrupted.
- Threads write log entries without the mutex while the cleaner walks over them.
- `gen_id` has 16 bits and wraps; the ring wraps; the ring can be full.
- The truncate list exists twice, on PMEM and as VFS inodes, and inode numbers
  are used again.
- The list of a free block was chosen for a counter that has changed since.
- Migration races with release and truncation of the page being migrated.

`PROJECT.json` lists these hazards line by line, with the properties that would
catch each.

## 2. Modules

| Module | Models | Written for |
|---|---|---|
| `Journal` | `journal.c` | TLC (`MCJournal`), TLAPS |
| `JournalProofs`, `JournalRecoveryProofs` | theorems about the journal: the mounted volume; crashes and recovery | TLAPS |
| `BinAlloc` | allocator 0 and the bitmap scan at mount | TLC (`MCAllocators`), TLAPS |
| `PmfsAlloc` | allocator 1 and the scan that rebuilds its list | TLC (`MCAllocators`), TLAPS |
| `Allocators` | the choice between the two, by the mount option `alloc` | TLC (`MCAllocators`) |
| `BlockPool` | the promise of `struct allocator_factory`, abstract | refined by `BinAlloc` and `PmfsAlloc` |
| `BinAllocProofs`, `PmfsAllocProofs` | theorems about the two allocators | TLAPS |
| `TruncateListProofs`, `WearLevelingProofs` | theorems about the truncate list and about wear leveling | TLAPS |
| `TruncateList` | truncate list, with the life of inodes as the list sees it | TLC (`MCTruncateList`) |
| `BlockTree` | block trees: allocation, truncation, eviction, recovery | TLC (`MCBlockTree`) |
| `FileMap` | the sparse array that a file is, abstract | refined by `BlockTree` |
| `Names` | names, link counts and inode numbers between threads | TLC (`MCNames`), TLAPS |
| `NamesProofs` | theorems about names, link counts and inode numbers | TLAPS |
| `Directory` | the records of a directory, and readdir | TLC (`MCDirectory`) |
| `DirMap` | the map from names to inodes, abstract | refined by `Directory` |
| `DirectoryProofs` | theorems about directories | TLAPS |
| `WearLeveling` | wear-leveling interrupt and page migration, against the threads that use the pages | TLC (`MCWearLeveling`) |

Definitions whose comment begins with "Mutant:" are variants of the definition
after them, each with one plausible mistake. They are not part of the
specifications; `PROJECT.json` lists the property that rejects each of them.

### Persistent memory

In `Journal`, `TruncateList` and `BlockTree` every persistent item that can be lost has a
cached value and a set of values that the media may hold. A store adds to the
set, a flush followed by a fence makes it the singleton of the cached value, and
`Crash` picks any member. Nothing is assumed about the order in which
cache lines are written back. `Journal` shows that a transaction is atomic and
durable at its commit, before its lost cases. The other modules build on that:
in `TruncateList` and `BlockTree` a transaction is one step, in `Names` and
`Directory` it changes the state at once, remembers what it has logged, and an
abort or a crash before `Commit` puts that back, no more and no less.

### Journal

One step per loop iteration where other threads can interfere. `NewTransaction`,
`FreeLogentries`, `WrapJournal`, `ReserveEntries` and `JournalFull` are
`pmfs_new_transaction`, `nt` its local copies of head and tail, which are stale
after a cleaning pass, as in the code. `AddLogentry`, `LogFence`, `Update`,
`CommitFlush`, `CommitEntry`, `AbortUndo`, `AbortEntry` are a running
transaction. `CleanSkip`, `CleanEnter`, `CleanWalk`, `CleanFinish` are a pass of
the cleaner for any of its three callers. `RecoverStart` to `RecoverDone` are
`pmfs_recover_journal`. Offsets count entries instead of bytes. The pieces of a
multi-entry record are single entries of one word. Redo logging is left out:
`redo_logging` is never set.

Assumed of the callers: they stay within the number of entries they asked for,
requests are less than half the ring (`RequestsAssumption`), and the VFS locks
give a word to one transaction at a time.

The code has several ways to lose entries it needs, or to keep some it should
have invalidated. The history variable `tainted` records the first time one
happens, and the safety properties speak of behaviours before that.
`AtomicUpdates` is what the log promises without that restriction.

1. `Passed`: the cleaner passes reserved entries that are not written yet
   (`journal.c:364-371`). TLC finds `AtomicUpdates` violated with two threads, two
   words, a ring of 5, `MaxTid = 2`, `MaxWake = 1` and one crash. `Leap` is a case of
   it with a cause of its own: the walk over an unfinished transaction goes over the end
   of the ring and takes an entry of the lap before for the end.
2. `Overrun`: a cleaning pass reports entries as freed although head did not move
   (`journal.c:317`, `359-362`, `551-563`), and tail passes head. Checking
   `AtomicUpdates` with the constants of `JournalThreads` and `MaxWake = 0` finds
   the overrun.
3. `PartialLastLap`: recovery raises `gen_id` to `MAX_GEN_ID` while tail is in the middle
   of the ring (`journal.c:806`). The lap of that generation does not pass the entries
   before tail, which survive the wraparound and become valid again. Without this
   disjunct of `Mark`, run `JournalLaps` violates `LogIntact`.
4. `HalfInvalidated`: power fails while recovery invalidates entries of the last
   generation (`journal.c:138-163`). The start of a transaction that has ended is
   gone, its commit record survives, and the next recovery takes that record for the end
   of the unfinished transaction in front of it, which is not undone. Without this
   disjunct TLC finds `RecoveredAtomic` violated with two threads, two words, a ring of 5,
   `MaxGen = 2`, `MaxTid = 4`, `MaxBoot = 2`, `MaxWake = 0`.
5. `RestHalf`: power fails while `pmfs_forward_journal` invalidates the rest of the ring
   (`journal.c:797-803`). The rest holds entries of the lap before that recovery has
   undone without a fence; some are lost, the header is still the old one, and
   the next recovery undoes only a part. Without this disjunct, run `JournalLaps` violates
   `RecoveredAtomic`.

The theorems of section 4 say that there is no other way.

`pmfs_invalidate_logentries` fences after every entry that is just a start. The
model makes an invalidation one step: what it writes before its last fence (`Fenced`) is
durable after it, the rest may reach the media in any order.

The end of a pass and the going to sleep of the cleaner thread are one step. In the code
`log_cleaner_try_sleeping` (`journal.c:395-400`) tests nothing between `prepare_to_wait` and
`schedule`: a wake-up that comes before them is lost and the pass with it, which the bound
`MaxWake` allows too; a `kthread_stop` that comes there is lost as well, and the unmount
waits for ever. The model leaves out the latter.

### BinAlloc and BlockPool

Each function runs under `s_lock` and is one action. `bins` are the lists,
`wear` the write counters; `Touch` is what linking and unlinking write to the
block and its neighbour. `owned` and `linked` stand for the callers:
a block is owned from `new_block` to `free_block`, and linked while persistent
metadata refers to it; a crash loses the ownership of what is not linked.
`StartScan`, `ScanBit`, `ScanDone` are the rebuild, with the bitmap replaced by
`linked`. `SkipRebuild` is a mount without memory for the bitmap
(`wpmfs_bbuild.c:167`): it goes on with mode `bare`, in which only what the truncate list
gave back is free, until the next mount finds the rest. `StraySlot` is what
`recv_vmap_static` reads one slot behind the static table (`wpmfs_bbuild.c:705`, `717`): the
block it names is marked at every mount and not found by the scan. `FreeBlock` takes only blocks that are not linked, as when an inode is
evicted; the truncation of a live file frees blocks before its pointers are
cleared (`inode.c:265-274`, `472-481`), which is the subject of `BlockTree`.

This is allocator 0, chosen by the mount option `alloc=0`. The model has the option
`vmap` on too: it is not the default (`super.c:562-571`), but without it nothing marks
the reserved pages, and the rebuild would free the journal.

`CountersReserved` states what the comment in `pmfs_get_block_info` says (`super.c:141`),
that the pages behind the volume are reserved for the write counters. It does not hold:
`wpmfs_setup_blocknode_map` rounds the bitmap down to whole bytes and adds one
byte (`wpmfs_bbuild.c:162`), and `wpmfs_try_free_blocks` frees every clear bit, so that
counter pages get on the free lists and are handed out as blocks: TLC finds
`CountersReserved` violated with the constants of run `Allocators`. The
model follows what comes of that. `Pages` is the range of the bitmap, `CountersIn(p)` the
pages whose counters page `p` holds. A list node in such a page (`NodeCounters`), its zeroing
(`Zeroed`) and the writes of its owner make counters `spoilt`; so are those that would
lie behind the end of the counter file (`Uncounted`). A block with a spoilt
counter may be put on any list (`BinsOf`), and `BinAccuracy`, `LeastWorn` and
`WornOutRetired` speak of the blocks whose counters are counters: a worn-out block whose
counter is overwritten is handed out again. Once a counter is spoilt, a counted write may hit
a list pointer and an index may come out negative (`wpmfs_wt.h:98`); what happens then is
undefined, and the model ends there with `Corrupt`. Placement and counting (`OneOwner`,
`FreeCount`, `NothingLost`, `ImplementsPool`) hold with spoilt counters too.

Assumed: the interval of the lists, set by the mount option `int_thres` (`super.c:357`), is the
same for all mounts and not changed by a remount.

`BlockPool` promises: a block is handed out only while nobody owns it and it is
not retired, a released block can be handed out again or is retired, a restart
forgets the free lists and gives nobody a new block, and a mount reclaims only
blocks that nobody owns. `BinAlloc` implements it with `avail <- Available`
and `retired <- InBin(WornBin)`.

### PmfsAlloc and Allocators

| Variables | Code |
|---|---|
| `nodes`, `numFree`, `numNodes` | `block_inuse_head`, `num_free_blocks`, `num_blocknode_allocated` |
| `hint`, `batch` | `start_hint` of `recursive_truncate_blocks`, which frees the blocks of a leaf under one `s_lock` |
| `inuse`, `refs` | blocks the callers hold; those that persistent metadata refers to |
| `leaked` | blocks that a free gave up on |
| `phase`, `next` | the stage of a mount, the next bit of the bitmap |

`NewBlock` is `pmfs_new_block`, `PmfsFreeBlock` is `__pmfs_free_block` with its four ways
to take a block out of a node (`Vacate`), `Refer` and `Unrefer` are the callers.
`Reset`, `BeginScan`, `ScanClear`, `ScanRun`, `EndScan` are a new mount:
`pmfs_setup_blocknode_map` with the bitmap replaced by `refs`. `Occupy` is the merging
of a range with its neighbours, which the code has twice. Only blocks of 4 KB are
allocated, since `WPMFS` is defined (`inode.c:777`, `file.c:46`). The option `vmap` is
off: with it on, the crawl would take virtual offsets for block numbers.

`PmfsAlloc` implements `BlockPool` with the gaps of the list as `avail` and `leaked` as
`retired`. `RangesExact` says that no merge, split, hint or rebuild ever loses or
invents a block in the list. What the code does when it fails is part of the model:

- `FreeBug`: `pmfs_recover_truncate_list` (`super.c:848`) runs before
  `pmfs_setup_blocknode_map` (`super.c:852`). The first block it frees meets
  `BUG_ON(list_empty(head))` (`wpmfs_balloc.c:186`), in the default configuration,
  and at every later mount again. The same if the list was never built.
- `BeginOops`: `pmfs_init_blockmap` dereferences a null pointer if there is no
  memory for the first node (`wpmfs_balloc.c:154-156`).
- `SkipScan`: no memory for the bitmaps. The mount goes on with an empty list.
- `FreeSkipped`: no memory to split a node. The block stays in use until the next
  mount.
- `RunDropped`: no memory to insert a run. The mount prints an error and goes on, and
  would hand out blocks in use. The model ends there (`phase = "broken"`).

`Allocators` has both allocators and the variable `alloc`, which
`wpmfs_select_allocator` sets once. It is assumed that the option stays the same while the
volume is mounted: nothing refuses `alloc` at a remount (`super.c:351`), which would let an
allocator take over that never built its lists.

### TruncateList

`next` and `tsize` are the items, `heads` the values of the head that the media
may hold, `list` the VFS inodes. `AddItem` and `AddHead` are the two halves of
`pmfs_truncate_add` on either side of its barrier, `TruncateDel` with `ListDel`
is `pmfs_truncate_del`; `Truncate`, `Cut`, `SetSize` are `pmfs_notify_change`;
`Unlink`, `UnlinkCommit`, `Evict`, `EvictFails` unlink and evict an inode. Rmdir
and a rename over a file use the list as unlink does. `RecoverTruncate` to
`RecoverEnd` are `pmfs_recover_truncate_list`. Sizes count blocks, and the blocks
of a file are a prefix. Journal transactions are atomic and durable at their
commit: that is what `Journal` is about.

An inode number has two VFS inodes at a time when a file under eviction has
given its number back: `insert_inode_locked` of the kernel passes over inodes
that are being freed, while `iget_locked` waits for them.

An eviction that does not free its inode (`EvictFails`) found the journal full, or the
inode has become append-only or immutable since its unlink (`inode.c:1026`).

Five behaviours of the code break what the comments promise; `tainted` records
them:

- `OrphanDropped`: an inode leaves the list unfreed, because an open unlinked
  file was truncated (`inode.c:1531`) or because `pmfs_free_inode` found the
  journal full (`inode.c:1048`). After a crash nothing frees the inode: TLC finds
  `OrphansFreed` violated with the constants of `TruncateRecover` and a single inode. The
  comment at `inode.c:1375-1376` says that the next mount frees it.
- `StaleStop`: recovery ends at an inode that was freed before the crash but was
  still on the list (`super.c:665`); those behind it are forgotten.
- `GivenUp`: recovery gets no transaction for an orphan and passes over it
  (`inode.c:943`), or no memory for an inode and ends (`super.c:664-666`, `inode.c:989`). The
  list is emptied all the same (`super.c:684-693`).
- `Reused`: an inode number is used again before the old inode has left the
  list (`inode.c:1050-1059`). A crash then makes recovery truncate the new file
  to the old size, or, if the new file is unlinked as well, the persistent list
  becomes circular and recovery does not end.
- `StaleHead`: the head stored by an unlink is not fenced (`inode.c:1411-1416`)
  when another thread removes the inode behind it; the head on the media still
  names the inode that was removed.

Removing a disjunct from `Mark` makes TLC produce the behaviour as a
counterexample: `OrphanDropped` to `ListedOrDone`, `StaleHead` to
`TruncatesAsAsked`, `StaleStop` and `GivenUp` to `Recovered` in `TruncateRecover`, `Reused` to
`ListsAgree` in `TruncateAll`.

`RecoveryEnds` promises an end to every recovery that begins with `~tainted`. A step that
fails goes on in the list or ends the loop, and run `TruncateAll`, which checks it, leaves such
failures out. It says no more because of `Reused`: the run lets
numbers be used again, and there a recovery that begins after it goes round in a
circle (TLC finds it without that condition). What goes wrong later in the same recovery
does not matter.

### BlockTree and FileMap

| Variables | Code |
|---|---|
| `node`, `media` | the cells of blocks, as cached and what the media may hold; `Junk` is data or a link of a free list |
| `pi`, `pimedia`, `size` | root, height, `i_blocks`, size, `PMFS_EOFBLOCKS_FL` and link count of the inode; `i_size` of the VFS |
| `tsize` | `li->i_truncatesize`, or `NotListed` |
| `free` | the blocks of the allocator |
| `op` | how far the truncation or eviction of a file is, with what it has freed, the cells it must clear and the inode it will leave |

`Write`, `Fallocate` and `Fault` allocate a range (`Plans`): first the nodes on top
that increase the height, then depth first what the range lacks, until the blocks
run out; what was reached is committed. A write may copy less than it allocated.
`Truncate`, `CutFree`, `CutClear`, `CutFence`, `CutDone` are the truncation of a
live file, between which the power may fail: all that is freed is freed before a
pointer is cleared, and the free list writes its links into the first two words of
what it gets. `Unlink`, `FreeInode`, `FreeSubtree` are the end of a file.
`Crash` picks an image for each cell and inode, `RecoverNext` repeats the
truncations with the same actions, `RecoverEnd` is the scan that finds the free
blocks. Free blocks are handed out in the order of their numbers, but a block that
was freed while pointers to it survive on the media may come first or last.

`FileMap` promises that only calls change what is mapped below the size that a
file is about to have: allocation adds, a truncation takes away what is
behind the new size, and neither its steps nor a crash and the repetition change
anything.

Nothing is claimed after one of these; `tainted` records them:

- `Unflagged`: the copy of a write fails after blocks behind the new size were
  allocated; they lack the flag (`xip.c:185-226`) and a truncation would not look
  for them.
- `EmptySubtree`: the truncation leaves an empty node, `BUG_ON(newroot != 0)`
  (`inode.c:356`). The node is there because a write far into an empty file puts
  the old, empty root below the new one (`inode.c:514-546`), or because the blocks
  ran out after a node was added.
- `Overwritten`: after a crash a tree leads through a node that the free list has
  overwritten, and recovery follows a link as if it were a block.
- `Taken`: after a crash a tree leads to a block that another file has allocated
  and committed meanwhile; recovery frees it.
- `FlagFirst`: the inode without the flag reaches the media before the pointers
  are cleared. The repeated truncation looks no further than the size.
- `StaleStop`: as in `TruncateList`.

### Names

A call is a transaction: `Link`, `Unlink`, `Rmdir`, `RenameNew`, `RenameOver` log
inodes and entries, change them, and `Commit`. What the VFS locks for a call is
`held`. The VFS also lets one rename at a time go from one directory to another
(`RenameMutexFree`), and moves no directory below itself (`Below(i)` is the least set
that has `i` and is closed under entries). Without the former, two renames may undo into a
cycle, and no lost case would tell: a directory leaves `a`, and `a` replaces an
empty directory below it; if a crash undoes only the first, both are below one another.
TLC finds it with four numbers (`Count0 = MaxCount = 4`). The calls that make an inode have more steps, because `pmfs_new_inode`
takes and drops the mutex of the inode table: `Pick`, `Publish`, then `Enter`, or
`EnterFails` and `Abort` if there is no room. `Evict` frees an inode (its steps are
in `TruncateList`). `Reboot` undoes what is not committed, frees the orphans and
counts the inodes (`wpmfs_bbuild.c:69-105`). Numbers start with 1 for the first
that can be given out; the root is 0.

Two lost cases are recorded by `tainted`:

- `Doubled`: a number is given out twice. Between the unlock of the mutex and the
  first store of the link count the inode still looks free (`inode.c:1197`); and
  a creation that fails frees its inode before its transaction is undone.
- `Overtaken`: a transaction has logged an inode that is not locked for it, a
  directory that is renamed (`namei.c:713`) or a new inode (`namei.c:44`, `534`),
  which another transaction changes; a crash that undoes the first takes back a
  part of the second, committed or not. The image that is logged has `i_size`, `root` and
  `i_blocks` next to mode and links (`pmfs_def.h:98-111`): a directory that is renamed
  while an entry is added to it may grow (`dir.c:139-144`), and with its old size the new
  block and the entries in it are lost. The case shows as two different images logged of
  an inode, or as an inode that is not as its transaction has left it.

`grown` stands for these three fields: it counts the blocks that entries have added to a
directory (`MayGrow`, bound `MaxGrown`), and `logged` is what each transaction has logged of
it. A mount that finds a smaller directory may lose any of its entries; `TreeSound` says,
with the exact link counts, that before `Overtaken` it loses none that is committed.
The count of the inodes at mount has memory for its bitmap; without it the counts would
stay 0 (`wpmfs_bbuild.c:167`, for allocator 1 `SkipScan`).

`over` holds the directories that count a link too many for ever: `pmfs_rename`
of a directory over another one does not decrease the count of the old parent
(`namei.c:760-765`).

### Directory and DirMap

`mem[b][o]` is what was written as a record at offset `o`; `Walk` is what the
lengths lead to from the start of the block, the least set that has 0 and is closed
under `Steps`, and `Records` are the offsets of records in it. What
lies in the slack of a record stays there. `Added`, `Removed`, `Replaced` are
functions on the memory and the log, composed by `Link`, `Unlink` and
`Rename`; `Restored` undoes one logged field. A new block is not logged: the size of
the directory takes it back. `ScanStart`, `ScanRecord`, `ScanEnd` are a readdir that
gives up the lock after every record. `ScanStale` is the case the code loses: the
record at the saved offset was merged into another one, and the test for it is
compiled out (`dir.c:252-272`).

`DirMap` promises that a call changes one entry, or two in a rename, at once, and
that a crash takes back exactly the call that has not committed.

### WearLeveling

| Variables | Code |
|---|---|
| `ptr`, `media` | the block pointer in a file's tree, or the slot of the mapping table, and the values the media may hold |
| `free`, `marks`, `map` | the allocator; `page->private`; `page->mapping` |
| `slot`, `elock` | the DAX entry in the radix tree of the mapping and its lock bit |
| `pte`, `kpte`, `wp` | the mappings of a process and of the kernel; the kernel pte is write-protected |
| `fifo`, `tops`, `work` | `_int_ctrl.fifo`; top halves between `kfifo_in` and `queue_work`; the pending work item |
| `bot`, `th` | the single worker and the threads, each with its place in its operation and what it has read so far |
| `holds` | whose newest content a page has |

A file is its first block; `flat` tells whether its tree has height 0, where the
root is the data page itself. A page's content is reduced to whose newest content
it is: a store through one page makes every copy stale, so a store that lands on
the wrong page at the wrong moment leaves the file without its content. The
inode semaphore is derived from the program counters (`Shared`, `Exclusive`).

`Read`, `Write`, `Fault`, `Truncate` and `Extend` begin an operation.
`GrabEntry`, `Lookup`, `FillHole`, `UseRead`, `UseWrite`,
`UseFault`, `HoleEnds` are the parts of the first three between which other
threads run; `ReplaceAlloc`, `ReplaceCopy`, `ReplaceLink`, `ReplaceFlush` are
`wpmfs_replace_tired_page`, called by their lookups, which no lock of its own and no journal
covers: others run, and power may fail, between the store of the pointer and its flush; `Unmap`, `TruncateFree`, `TruncateClear`, `TruncateFence` are the
parts of a truncation. `TopIn` and `TopQueue` are `wpmfs_int_top`;
`BotStart`, `Fetch` and `Service` are `_int_bottom` and `_wear_lerveling`, with
the fall-through of the switch statement (`wpmfs_wl.c:495-503`). `BotNoSuper` is a bottom half
for which `get_super` fails (`wpmfs_wl.c:526`): it leaves the queue as it is, which `left`
remembers until the next request or bottom half. Requests are for any page, in use or not. `Grab` to
`RmapRelease` migrate a page mapped by a process, `VmapAlloc` to `VmapRelease` one
mapped by the kernel, `Strand` marks a page tired.

Seven races that the code loses are named in the module. Nothing is claimed after
one of them, and the model stops there:

- `Remapped`: the page is truncated, and perhaps mapped by another file, between
  the two times its mapping is read (`wpmfs_wl.c:287-325`, `253`), because the
  inode is locked in between only. The migration then replaces a page of a file
  it has not locked, or follows a null pointer.
- `Unreplaced`: for a file of height 0, `__wpmfs_find_pdatablk` returns no pointer,
  `wpmfs_replace_single_datablk` returns without an error (`inode.c:1612-1615`), and
  the block in use is freed. The same if the pointer has changed.
- `Mistaken`: with the rmap switch off and the vmap switch on, a page mapped by a
  process is treated as a page of the kernel.
- `TiredMapped`: a page is mapped between the moment its type is read and the
  moment it is marked tired, or marked while a fault is about to map it.
- `TiredTwice`: two lookups replace the same tired page (`pmfs.h:742-753` takes no
  lock), or a lookup replaces it, anywhere from its test to its store of the pointer, under
  a writer or a fault; or there is no memory, and the block looks like a hole, whose fill
  clears it.
- `Unflushed`: a lookup has stored the pointer to the replacement of a tired page and not
  flushed it yet (`inode.c:1653-1654`), and another thread that has found the new page is
  about to write to it or to map it. A power failure may bring the tired page back, without
  what was stored and synchronised since.
- `LateFault`: a fault that compared with the old size maps the block after
  `truncate_pagecache` and before it is freed (`inode.c:1440-1451`).

Removing one of them from `Races` makes TLC produce it as a counterexample in
`WearLevel`: `Unreplaced` and `TiredMapped` to `Coherent`, `Mistaken` and
`TiredTwice` to `NoStoreLost`, `Unflushed` to `MediaSafe`, `LateFault` to `OneUser`. `Remapped` does with a
second file and a fourth page (`Switches = {{"rmap"}}`, `MaxReq = 1`): to
`NoStoreLost`; with it kept, that instance passes.

Two threads can also wait for each other: a fault on a hole takes the inode lock
while it holds the entry (`xip.c:490`), a truncation waits for the entry while it
holds the inode lock (`inode.c:1444`).

Simplified: filling a hole and clearing the pointers of a truncation are durable at once
(their order is the journal's affair); memory is exhausted only when no page is
free; an inode under eviction (`igrab` fails), replaced metadata blocks and files of
several blocks are left out; the height of a tree does not change.

## 3. Runs

| Run | Instance | Shows |
|---|---|---|
| `JournalLaps` | 1 thread, 1 word, ring of 5, 3 generations, 5 transactions per mount, 2 crashes or unmounts | recovery and commits are atomic past the wrap of the ring and of `gen_id`; stale entries are never taken for records; `BUG_ON` is not reached; an unmount empties the ring |
| `JournalWords` | 1 thread, 2 words, transactions of two entries, ring of 7, 1 crash | transactions of several words, or one word twice, are atomic and durable, and leave other words alone |
| `JournalThreads` | 2 threads, 2 words, ring of 5, cleaner thread, 1 crash | recovery is atomic with threads and cleaner interleaved |
| `JournalLive` | 2 threads, cleaner thread, 1 crash, fairness | the mutex is given back; recovery ends |
| `Allocators` | allocator 0: 4 blocks, 2 of them reserved, 1 page of counters behind the volume with those of 3 of the 5 pages, a stale slot behind the mapping table, 3 lists, 2 crashes or unmounts, mounts without memory for the bitmap; allocator 1: 8 blocks, 2 reserved, 2 crashes or unmounts, 1 failure to allocate memory | placement, counting and wear of the one, the exact list of the other; both refine `BlockPool` |
| `TruncateAll` | 3 inodes of one block, unlink, eviction, reuse of a number, 1 crash, fairness | the two lists agree; removal from the front, middle and end; recovery ends unless a number was used again too early |
| `TruncateRecover` | 2 inodes of one block, truncation of live files and orphans, 1 failure of an eviction or of a step of recovery, 2 crashes | every inode with work left is on the list; recovery truncates only what was asked, completes truncations and frees orphans, also after a crash in the middle of it |
| `BlockTree` | 2 files, 5 blocks, nodes of 2 pointers, height up to 2, 4 calls, 1 crash | every block has one place; `i_blocks` and the flag are exact; the trees implement `FileMap` |
| `Names` | 2 threads, 2 names, an inode table of 2 that can grow by 1, directories that can grow by 1 block, 5 calls, 1 crash | the tree of directories, link counts and the truncate list agree; no committed entry and no number is lost |
| `Directory` | 3 names, one of double length, 2 inodes, 2 blocks of 3 units, 4 calls, 1 crash, 1 readdir | records tile their blocks and implement `DirMap`; an entry that stays is listed once |
| `WearLevel` | 3 pages, the kernel page, 1 file with and without height, 2 threads, 2 settings of `wl_switch`, queue of 2, 3 requests | no page has two users or is used while free; process, DAX entry and tree agree; no store is lost, nor after a power failure, in the middle of a migration or of the replacement of a tired page; the kernel's page stays recognisable; a queued request has a bottom half to come, but for the two cases `Scheduled` names |
| `WearReaders` | the same with readers, writers and faults, 1 request | expected to fail: a reader copies from a page that migration has freed |

Deadlock is not checked: the bounds on transactions, calls, crashes, creations, requests
and wear let every instance come to an end, and `WearLevel` also ends at a lost
race or in the deadlock above.

Why the bounds are enough. The ring of 5 is the smallest that
`RequestsAssumption` admits; one transaction takes two entries, so two fill it and
the third wraps it. Three generations let `gen_id` wrap with all
three values distinct. With two crashes the second one can hit recovery, or a
ring that recovery has forwarded. Two usable blocks and three lists give a list
of two, a block on a wrong list, and one on the list of worn out blocks; the
bitmap of 5 bits for 4 blocks shows the byte rounding, and gives one page that is a block and
holds counters, those of blocks and its own. Six blocks behind the reserved
ones give allocator 1 lists of up to four nodes: splits, a gap filled between two nodes,
a node removed, hints in front of and behind the block. Three inodes are the
fewest with a removal from the middle. In `WearLevel` three pages are the kernel's,
the file's and the one they migrate to: two migrations in a row use up the free
page unless the first gives its page back, so memory is exhausted as well. A queue
of two with three requests is filled and refuses one; a page can be requested
twice, the second time after it has been freed or given away. Two threads next to
the worker are the fewest for a fault between the steps of a truncation. In
`BlockTree` a file of four blocks has height 2 and needs seven blocks, of which
there are five: the height grows and shrinks, and allocation fails at a node as well as
at data; four calls fill a file, truncate it, fill another one from what was freed,
and truncate again. In `Names` three numbers give a directory in a
directory, or two directories to rename over one another, and the table is
exhausted and grows; four calls make two directories, fill one
and rename it over the other; three make a directory and let it grow while it is renamed. In `Directory` a block holds `.` with `..` and two short names or the long one,
so records are split, merged and refused, and a second block begins with a record
that can lose its inode.

Symmetry is declared over threads, words, inodes, files, names and pages where the
run has no liveness property.

### Fairness

`Journal!Fairness`: a thread that holds `journal_mutex` in
`pmfs_new_transaction` and the cleaning pass run on (they never sleep while
they wait for something), and so does the mounting thread. Threads outside the mutex may
stop for ever; commits need not happen. `TruncateList!FairSpec`: only the mounting
thread runs on.

### Findings

`PROJECT.json` names one disagreement between the code and its own comments, which
run `WearReaders` demonstrates: the comment at `wpmfs_wl.c:337` takes the inode lock
shared because migration is safe and readers do not notice; but readers hold it
shared too (`xip.c:147`), and the page they copy from is freed before it is unlocked
(`wpmfs_wl.c:350`). The lost cases of section 2 are documented there, each with its
line, and the definitions that would record them in a run are kept
(`AtomicUpdates`, `CountersReserved`, `OrphansFreed`).

## 4. Proofs

### Journal

`JournalRecoveryProofs` proves every safety property of the four `Journal` runs, for any
number of threads, words, values, entries of the ring and generations, and any number of
transactions, power failures and unmounts (the assumptions are those `Journal` names):

| Theorem | States |
|---|---|
| `TypeCorrect` | `TypeOK`: at all times |
| `RecoveryIsAtomic` | `RecoveredAtomic` |
| `CommittedIsSettled` | `SettledWords` |
| `LogServesRecovery` | `~tainted => LogIntact`; the run checks `LogIntact` itself, with one thread |
| `UnmountLeavesEmpty` | `UnmountEmpties` |

All but the first say nothing after one of the lost cases of section 2, and so they say
that these are all there are. The properties say little about the entries, and all depends
on the entries. The invariant `IInv` (theorem `Invariance`) describes the log as any header
`h` that the media may hold would read it: `Lap(h, s)` is the generation that an entry at
slot `s` must have, and a candidate (`Cand`) is an entry that may be found at `s` after a
power failure and has it.

- `Bounded`: no entry, stale ones included, has a generation above `Top`. This is what
  keeps an entry from becoming valid by itself when `gen_id` advances or wraps, and
  what `PartialLastLap` breaks.
- `Apart`: a slot has at most one candidate; the candidates of a transaction lie together,
  the start first, the end last.
- While operations run (`UpInv`): `Reservations` keeps live transactions ahead of the
  cleaner, `Owned` says that every candidate belongs to a live transaction, to one that
  has ended and is durable as a whole (`Covered`), or has been invalidated by the cleaner
  (`Swept`), so that a power failure in the middle of a pass is harmless. `Words`: a word
  that differs from its committed value, or may do so on the media, is logged by a live
  transaction, with all entries from its start to that one durable; the oldest entry of a
  word has its committed value.
- `HeaderOnMedia`: the wraparound stores `tail` and `gen_id` without a flush. Until the
  reservation that follows the media may have the header before it, for which the same
  entries have to read the same.
- During recovery (`RecoverInv`): `Classified` says what undoing may meet: an entry whose
  transaction has lost its start (`Orphan`, never undone), has ended, or is `Harmless`: it
  has the committed value, or a durable entry of the same word comes before it.
  `Repairs`: a word that is not as it should be has such a transaction in what the scan has
  not come to yet (`Undoable`); what differs on the media only may lie behind it, because
  the next recovery will undo it again until the header is forwarded.
  `Invalidated`, `Stored`, `Cut`: what the entries of the last generation look like while
  they are being taken out.

`UpStep` and `RecoverStep` have a lemma per action; `UpCrash` and `RecoverCrash` turn
either part of the invariant into the start of a recovery. That undoing backwards from any
point is idempotent is `InRecoverUndo`: the oldest entry of a word in the range wins, and
`Harmless` says whose value that is. A single step of the cleaner needs that another
thread may write an entry at any time (`EntryWritten`), which is why the walk may run
over the end of the ring (`Leap`) and the proof has to name it.

### Allocator 0

`BinAllocProofs` proves, for every volume size, number of lists, threshold and
sizes of writes (only the named assumptions of `BinAlloc` are used):

| Theorem | States |
|---|---|
| `TypeCorrect` | `TypeOK`; in particular `num_free_blocks` is never negative |
| `BlockHasOneOwner` | no block is twice on the lists, or free and in use |
| `CountExact` | `num_free_blocks` is the number of free blocks |
| `NoLeak` | after a mount that has rebuilt the lists every block of the volume is free or in use, but for the one the slot behind the mapping table names; mounts without a rebuild may come before |
| `ListTellsWear` | a free block whose counter is not overwritten has the wear of its list, up to the writes of the lists |
| `LeastWornFirst`, `WornOutStayRetired` | what allocation guarantees about the wear of blocks whose counters are not overwritten |
| `EnomemIsHonest` | allocation fails only when all free blocks are on the last list |
| `Implementation` | `BinAlloc` implements `BlockPool` |

The properties are not inductive. The inductive invariant `IInv` is
- `TypeOK`;
- `Distinct`: no list holds a block twice, and no two lists share one. Needed
  because removal takes an entry of a sequence, and only with distinct entries
  does it remove the block from the set;
- `Places`: the unused range, the lists and the owned blocks are disjoint, and
  the reserved blocks are linked;
- `ListWear`: the counter of a block on list `i`, unless it is spoilt, is at least `i * Thres`, and by
  how much the lists can have raised it, which depends on whether the block is
  the oldest or the newest entry (`Place`): a block is written when a newer entry
  follows it and when it becomes the oldest, once each;
- `UnusedFresh`: blocks never used have counter 0;
- `Marks`, `Scanned`: which pages are marked at each stage of a mount, and that
  the scan has dealt with the bits before `scan`. Without them `ScanBit` could
  free a block a second time;
- `FreeCount`, whose step uses the cardinality facts of `FiniteSetTheorems` on
  the disjoint union of the places.

`Init => IInv` and one lemma per action give `Invariance`; the theorems
above follow from it, the action properties and the refinement by one step per
action.

### Allocator 1

`PmfsAllocProofs` proves, for every volume and every number of restarts and memory
failures (`SizesAssumption`):

| Theorem | States |
|---|---|
| `ListIsExact` | `RangesExact` |
| `RangesImplementPool` | `PmfsAlloc` implements `BlockPool` |

The first part is about the list alone: what `InsertAt` and `RemoveAt` do to each index,
then `OccupyExact` and `VacateExact`, that putting a range into a gap and taking a block
out of a node keep the nodes ascending with gaps between them, and change the covered
set by just that. `RangesExact` is not inductive: its conjunct about `-ENOSPC` follows
from the others (`NoGap`), but the rest needs
- `Stages`: while the list is rebuilt no batch is open, so that the hint is 0 although
  nodes disappear, and what is in use is what is referred to;
- `Lost`: a block that could not be freed is not in use, so that a free finds its block
  in the list exactly once;
- that block 0 is always in use (`Types`): no free removes the first node.

`HolderFound` is the heart of the free: whatever the hint, the search meets the node of
the block, so that the lookup of `__pmfs_free_block` fails only for want of memory.
`ScanRunInvariant` shows that a run of bits always lies behind all nodes it has to be
inserted after, which `pmfs_alloc_insert_blocknode_map` takes for granted.

### Truncate list

`TruncateListProofs` proves `ListsStayEqual`, that is `ListsAgree` with its `TypeOK`, for
any number of inodes, sizes, creations and power failures. The lists change in three
steps (an item is filled, the head is changed, an inode leaves) while other threads run,
so the inductive invariant adds to `Agree`:
- `Distinct`: no number is on the list twice. Otherwise the removal of one VFS inode would
  change the item of another;
- `LockHeld` and `NewItem`: from its item to its head a thread holds `s_truncate_lock`, and
  its item points to the head and is not on the list yet;
- `OneInUse` and `Members`: of the two VFS inodes of a number at most one is in use, and
  while one is on the list the other is not. This is what `Reused` would break, and the
  only place where the proof needs that it has not happened: the other lost cases
  leave the two lists equal;
- `MountedOnly`: recovery leaves an empty list to the mount.

It also proves the three properties about power failures: `CrashFindsList`
(`ListedOrDone`), `NeverCutsBehind` (`TruncatesAsAsked`) and `RecoveryFinishes`
(`Recovered`). Their invariant `CInv` adds `CrashInv`, checked by TLC on both runs first:
- `Heads`: the media may hold the head of the list or one from before the last unlinks
  began, because `pmfs_truncate_add` does not fence in a transaction. The heads possible
  are those of the ends of the list, and an inode whose unlink has committed is behind all
  of them. `CommitFences` shows what the barrier of a commit leaves, `DelHeads` what
  `pmfs_truncate_del` leaves; the latter is the only place that needs `~StaleHead`;
- `UnderWay` and `WorkLeft`: a thread in a truncation or an unlink has its inode on the
  list, with the size it was asked for, and an inode with work left is on the list.
  `~OrphanDropped` is needed when an inode leaves it;
- `Files`: whatever values the media holds, no file has blocks behind its end. This is why
  the fence of `pmfs_setsize` between the blocks and the size is enough, and why
  `CutBlocks` may compare with the old size;
- `Ahead`: recovery has come to `rec`, and the orphans are still behind it, so a recovery
  that is cut short begins again with the same head and loses none. `~StaleStop` is
  needed at a free inode, `~GivenUp` where a step of recovery fails.

`Reach`, the inodes met from a head, is the intersection of the sets that the links do not
leave. `ListReach` finds the inodes of the list in it by the least counterexample
(`WFMin`), which the provers can do where induction over the list is out of their reach.

### Wear leveling

`WearLevelingProofs` proves every property of the run `WearLevel`, for any number of
pages, files, threads and requests, every setting of `wl_switch` and any set of files of
height 0 (the assumptions are those `WearLeveling` names):

| Theorem | States |
|---|---|
| `TypeCorrect` | `TypeOK`: at all times |
| `QueueScheduled` | `Scheduled`: at all times, but for a queue that the last bottom half left for want of a superblock and that nothing came to since, and for a worker that followed a null pointer |
| `PagesHaveOneUser` | `OneUser` |
| `MappingsAgree` | `Coherent` |
| `StoresSurvive` | `NoStoreLost` |
| `MediaSurvives` | `MediaSafe`, between the store of a pointer and its flush too, of a migration as of the replacement of a tired page |
| `KernelKeepsPage` | `KernelPage` |

Like the properties themselves, the last five say nothing once one of the seven races has
happened. They therefore also say that these seven are all there are: no other interleaving
of the modelled steps loses a store or shares a page.

The properties are far from inductive, because all of them are broken for a moment inside
of some operation. The invariant `IInv` adds where everybody is:
- `Semaphores`, `Entries`: who excludes whom, from the program counters; an entry is locked
  by one fault or by the migration, never by both;
- `Truncations`: after `truncate_pagecache` the file has neither entry nor mapping, and
  from the moment its block is freed there is no fault on it (what `LateFault` breaks);
- `LookedUp`: the page a writer or a fault is about to use is still that of the tree (what
  `TiredTwice` breaks). A reader's need not be, see `ReadersSeeFile` in section 3;
- `Spare`, `Migration`: which of the two pages of a migration belongs to it alone: the new
  one until the pointer is changed, then the old one. `Owners` keeps it apart from the free
  pages and from all trees;
- `Marks`: a tired page is not mapped (what `TiredMapped` breaks), which is why replacing
  it in a lookup cannot leave an entry behind; the kernel's mark is on the page of the
  mapping table, and during a migration on both pages;
- `Contents`, `Durable`: the copy is as new as the original from the copy to the flush,
  since writers wait for the semaphore, processes for the entry, and the kernel at the
  write-protected pte; until the flush the media may hold either pointer, afterwards only
  the new one. A page that the media may lead to though the tree does not (`Stale`) is
  as new as the one in the tree and nobody can store to it;
- `Replacements`: the page that a thread prepares for a tired one is its own (`Private`) until
  it stores the pointer, and holds the content of the file from the copy on; two threads
  never prepare the same page. From the store to the flush (`Lags`) nobody has mapped the new
  page, which is what `Unflushed` would break, and without somebody about to flush the
  media has the pointer of the tree.

`GoodStep` has a lemma for each action, or for a group that does the same to the pages.
Lemmas such as `FreePage`, `SlotPage` and `PtePage` say what the invariant means for one
page. The proof that `Core` finds what `Grab` has seen (`StillMapped`) is the only place
where `~Remapped` is used, and the one about `RmapCopy` the only one for `~Unreplaced`.

### Directories

`DirectoryProofs` proves every property of the run `Directory`, for any set of names, any
length of each, any inodes and block size, and any number of calls, power failures and scans.
Assumed of the constants: a record fits into a block; inode 0, the inode of `.` and `..` and
their name are none of those of entries; the middle of a record (`Junk`) is not taken for one.

| Theorem | States |
|---|---|
| `AlwaysTiled` | `Tiled` |
| `AlwaysListedOnce` | `ListedOnce` |
| `DirectoryIsMap` | `Directory` implements `DirMap` |

The proof works from one block upwards.
- One walk: `Chain` says that the records of a block that is walked to its end do not
  overlap, `Predecessor` that every record but the first has one before it, which is what
  `pmfs_remove_entry` merges into. Both are proved by the least counterexample.
- What writing a record does to a walk: `SameWalk` (lengths stay), `SplitWalk` (an offset is
  added), `MergeWalk` (one is lost); what lies in the slack of a record does not matter.
- `BlockReuse`, `BlockSplit`, `BlockMerge`, `BlockRetarget`, `BlockFresh`: each of the five
  edits keeps the block tiled, changes just one entry, and is taken back by restoring the one
  field that was logged. For a split this leaves the new record in the slack of the old one, and
  for a record that was reused its new name, under inode 0.
- `LinkOk`, `UnlinkOk`, `RenameOverOk`, `RenameNewOk` put these together for the calls. A rename
  makes two edits, maybe in one block or of adjacent records, and even of one record: the
  slack of the old entry can take the new one. The undo in reverse order must see
  each field as the other edit has left it.

The invariant `Inv` is `Good` (blocks are tiled, and a name is there once, with the bounds on
`mem` and `blocks`), `Settled` (between calls the entries are those of the last commit),
`Undoable` (during a call the logged fields lead back to a good directory with
the entries of the last commit; without it nothing is known after `Reboot`), `ScanTyped`
and `ScanListed`: of the entries that stay, a scan has listed once those before its position and
not at all those behind. It is kept because no edit moves an entry that stays. In the
refinement a call is a step of `DirMap`, the scan stutters, and a power failure takes the map back.

### Names

`NamesProofs` proves both properties of the run `Names`, for any threads and names, any size
and growth of the inode table, and any number of calls and power failures (only
`NamesAssumption` is used):

| Theorem | States |
|---|---|
| `TreeStaysSound` | `TreeSound`, with its types |
| `NumbersStayKept` | `NumbersKept` |
| `SequentialLosesNothing` | with one thread, `TreeSound`, `NumbersKept` and `~tainted` |

The first two say nothing after `Doubled` or `Overtaken`, the latter with the sizes of
directories, and so say that these two are all there are. The third says that both need two calls at the same time: a lone thread
has left each inode that it logs without its lock as the inode still is (`Own`), when the
power fails too, and an inode number cannot be picked by anyone else.

The tree that is there says nothing about the tree a crash leaves, where some calls are undone
and others have committed. So the invariant `Inv` speaks of all of them:
- `Backs`: for every set `T` of threads, the table and the entries without the calls of `T`
  (`PiBack`, `EntBack`) are `Sound`. The set is arbitrary because calls commit in any order,
  each of them leaving `T` for good. `Sound` is what `TreeSound` says, except that a
  directory is below the root if it has a name, by which every edit can be followed.
- `Agree`: taking calls back changes no mode and leaves a directory its name, and, if none
  of them renames between directories, its parent. A rename checks that it moves no directory
  below itself in the tree that is there; this carries the check over to the others
  (`StillAbove`). It holds because of the rename mutex, and is where the
  counterexample above was found.
- `Locks`, `Callers`, `Apart`: what a thread has locked is its own and is live; what it
  has logged (`ChangerOk`) is what it takes back; `MakingOk` and `MakerOk` say how far a new
  inode has come; no number is given out twice, which is what `Doubled` would break.
- `SizeInv`: the size that a call has logged is that of its new inode, of one it has not
  locked, or of one it has locked and makes larger only if it adds an entry there. With
  `~Overtaken` a mount then takes no size back but of a directory whose entries it takes back
  too, and no entry is lost;
- `ListedOk`, `Beyond`: listed inodes wait to be freed; behind the end of the table there are
  none.

The proof has three layers.
- Trees. `LinkSound`, `EnterSound`, `UnlinkSound`, `RmdirSound`, `MoveSound`, `OverSound`
  show that an edit keeps any sound tree sound; `MoveSound`, that a directory that moves stays
  below the root with all that is below it, by sets closed under entries instead
  of paths. `UndoneSound` is the mount.
- Calls taken back. A call of a thread outside `T` is the same edit in the tree without the
  calls of `T`, because the others have locked different inodes (`PiBackOthers`,
  `EntBackOthers`); if the thread is in `T` nothing changes (`BackMine`). `ChangesKeep`
  and `ChangesInv` do this once for all calls, `InodeMade` and `InodeUnmade` for the steps
  on an inode without a name.
- Steps. One lemma for each action. `RebootKeeps` takes back the calls of all threads:
  `UndoneElse` shows that what recovery writes back of an inode that is not locked is what it
  was, which is just what `Overtaken` excludes, `EntUndone` that of the calls that make inodes
  only the entry of the new one goes.

`NumbersKept` needs that the numbers picked and not yet in use are distinct, and of an abort
that it gives back the inode as free as it was picked; `NumbersPicked` is the only place where
`Doubled` matters to it.

### Model-checked only

- `BlockTree`: `TypeOK`, `Accounted`, `InodeExact` and the refinement of `FileMap`. Even the types
  need all of it: that `i_blocks` never wraps follows from `InodeExact`, which counts entries
  that a recursive function collects level by level in trees of `Fan^k` leaves.
  Induction over levels, and arithmetic with powers, are out of the provers' reach.
- Liveness under fairness, for which the runs `JournalLive` and `TruncateAll` are all there is.

## 5. Not modelled

- The fast mount of allocator 1 is dead code: nothing calls
  `pmfs_save_blocknode_mappings`.
- Mapping tables and vmap areas; the split of a write over page counters; the
  redundant super block.
- In `BlockTree`: `new_node`, which `recursive_alloc_blocks` sets and never resets
  between the pointers of a node (`inode.c:614-626`), needs nodes of three pointers to
  matter; the clearing of pointers is one step after the freeing, where the code
  goes node by node, depth first; `pmfs_block_truncate_page` and
  `SEEK_HOLE`; an inode that is used again.
- In `Names`: special inodes of `mknod`, which an eviction never frees
  (`inode.c:1023`); `pmfs_create` returning 0 without an inode (`namei.c:234`);
  `PMFS_LINK_MAX`; the `..` of a directory that moves, which no code updates.
- Data copying, page faults: I/O without a protocol of their own beyond the
  locks and the allocation inside a transaction.
- `ioctl`, `/proc`, statistics, tracing, option parsing: single updates or
  formatting.
- Write protection (CR0.WP windows): hardware state outside the model.
- `workloads/`: vendored benchmark programs (a mail server, a database), by far the
  largest part of the repository's lines and no part of the file system.

## 6. Plan

1. Proofs for `BlockTree`, from a definition of its trees by closed sets of places in the
   way of `Below`.
2. `Mptable`: the stores that make a dynamic page part of the mapping, their
   order, and the index arithmetic of the mount.
3. `WriteTrack`: the split of a write over page counters against a reference
   definition.
4. `WearLeveling` with evicted inodes and liveness of the queue.
