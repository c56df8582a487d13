---------------------------- MODULE WearLeveling ----------------------------
(***************************************************************************)
(* Wear leveling (wpmfs_wl.c, pmfs.h, inode.c, xip.c): a page that has     *)
(* been written too often is reported by the writer (top half), queued,    *)
(* and replaced by a free page in the background (bottom half), while      *)
(* other threads read, write, map and truncate the file it belongs to.     *)
(*                                                                         *)
(* A page is one of three kinds when its request is served:                *)
(*   rmap      a process has mapped it; it is replaced at once under the   *)
(*             DAX entry lock, the process faults the new page in;         *)
(*   vmap      the kernel has mapped it; it is replaced at once, writers   *)
(*             of the kernel wait at a write-protected pte;                *)
(*   stranded  neither; it is marked tired, and the next lookup of the     *)
(*             block replaces it.                                          *)
(*                                                                         *)
(* Data.  Of a file only its first block is there, and whether its tree    *)
(* has more levels than the root; of the kernel mapping one page.          *)
(* The content of a page is only whose newest content it is, all of it:    *)
(* after a store through one page no other page holds it any more.         *)
(***************************************************************************)
EXTENDS Integers, Sequences, FiniteSets

CONSTANTS
  Pages,       \* page frames of the volume
  Files,
  Flats,       \* sets of files of height 0: the root points to the data page itself
  Kern,        \* the kernel mapping
  Threads,
  NoPage,      \* no page frame, no DAX entry
  Empty,       \* a DAX entry without a page
  NoRef,       \* neither a file nor the kernel mapping
  Ops,         \* what the threads do
  Switches,    \* values of the mount option wl_switch
  FifoSize,    \* requests that fit into the queue
  MaxReq       \* bound: requests

Refs == Files \cup {Kern}

ASSUME NamesAssumption ==
  /\ Kern \notin Files /\ NoRef \notin Refs
  /\ NoPage \notin Pages /\ Empty \notin Pages \cup {NoPage}
ASSUME FlatsAssumption == Flats \subseteq SUBSET Files
ASSUME OpsAssumption == Ops \subseteq {"read", "write", "fault", "truncate"}
ASSUME SwitchesAssumption == Switches \subseteq SUBSET {"rmap", "vmap", "stranded"}
ASSUME BoundsAssumption == FifoSize \in Nat \ {0} /\ MaxReq \in Nat

VARIABLES
  ptr,      \* the block a file or a slot of the mapping table points to
  media,    \* the values of ptr the media may hold
  free,     \* free pages
  marks,    \* page->private: using, tired, vmap
  map,      \* page->mapping
  holds,    \* whose newest content the page has
  size,     \* whether i_size > 0
  slot,     \* the DAX entry of a file
  elock,    \* whether the entry is locked
  pte,      \* the page a process has mapped
  kpte,     \* the page the kernel has mapped
  wp,       \* whether that pte is write-protected
  th,       \* what the threads are doing
  bot,      \* what the bottom half is doing
  fifo,     \* requests
  tops,     \* top halves between kfifo_in and queue_work
  work,     \* the bottom half is scheduled
  sw,       \* wl_switch, which never changes
  flat,     \* files of height 0, which neither changes
  reqs,     \* requests so far
  left,     \* history: a bottom half left the queue as it was, nothing came since
  raced     \* history: see Races

poolVars  == <<free, marks>>
ptrVars   == <<ptr, media>>
daxVars   == <<slot, elock, pte, map>>
kernVars  == <<kpte, wp>>
queueVars == <<fifo, tops, work, reqs, left>>
vars == <<ptr, media, free, marks, map, holds, size, slot, elock, pte, kpte, wp,
          th, bot, fifo, tops, work, reqs, left, sw, flat, raced>>

-----------------------------------------------------------------------------
Idle == [op |-> "idle", file |-> NoRef, pc |-> "idle", page |-> NoPage, again |-> FALSE]
Rest == [pc |-> "idle", pfn |-> NoPage, file |-> NoRef, new |-> NoPage]

Go(t, pc)    == th' = [th EXCEPT ![t].pc = pc]
Leave(t)     == th' = [th EXCEPT ![t] = Idle]
BotGo(pc)    == bot' = [bot EXCEPT !.pc = pc]
BotNext      == bot' = [Rest EXCEPT !.pc = "fetch"]

\* The semaphore of an inode: readers share it with the bottom half.
RmapLocked == {"core", "copy", "link", "flush", "slot", "release"}
Shared(f) == {t \in Threads : th[t].op = "read" /\ th[t].file = f}
               \cup (IF bot.pc \in RmapLocked /\ bot.file = f THEN {"bot"} ELSE {})
Exclusive(f) == {t \in Threads : th[t].op \in {"write", "truncate"} /\ th[t].file = f}

\* The content after a store of r through page p.
Stored(p, r) == [q \in Pages |->
  CASE q = p /\ holds[q] # r -> NoRef
    [] q # p /\ holds[q] = r -> NoRef
    [] OTHER                 -> holds[q]]

\* wpmfs_new_block: the page is marked as used, and nothing else.
NewBlock(p) ==
  /\ p \in free
  /\ free' = free \ {p}
  /\ marks' = [marks EXCEPT ![p] = {"using"}]

\* wpmfs_free_block: the same, and the node of the free list overwrites the page.
FreeBlock(p) ==
  /\ free' = free \cup {p}
  /\ marks' = [marks EXCEPT ![p] = {"using"}]
  /\ holds' = [holds EXCEPT ![p] = NoRef]

-----------------------------------------------------------------------------
Init ==
  \E k \in Pages :
    /\ ptr = [r \in Refs |-> IF r = Kern THEN k ELSE NoPage]
    /\ media = [r \in Refs |-> {IF r = Kern THEN k ELSE NoPage}]
    /\ free = Pages \ {k}
    /\ marks = [p \in Pages |-> IF p = k THEN {"using", "vmap"} ELSE {}]
    /\ map = [p \in Pages |-> NoRef]
    /\ holds = [p \in Pages |-> IF p = k THEN Kern ELSE NoRef]
    /\ size = [f \in Files |-> FALSE]
    /\ slot = [f \in Files |-> NoPage] /\ elock = [f \in Files |-> FALSE]
    /\ pte = [f \in Files |-> NoPage]
    /\ kpte = k /\ wp = FALSE
    /\ th = [t \in Threads |-> Idle] /\ bot = Rest
    /\ fifo = <<>> /\ tops = 0 /\ work = FALSE /\ left = FALSE
    /\ sw \in Switches /\ flat \in Flats /\ reqs = 0 /\ raced = FALSE

-----------------------------------------------------------------------------
(* Threads.                                                                *)

Begin(t, op, f, pc) ==
  /\ th[t] = Idle /\ op \in Ops
  /\ th' = [th EXCEPT ![t] = [Idle EXCEPT !.op = op, !.file = f, !.pc = pc]]

\* pmfs_xip_file_read; nothing is looked up in an empty file.
Read(t, f) ==
  /\ Begin(t, "read", f, "lookup")
  /\ Exclusive(f) = {} /\ size[f]
  /\ UNCHANGED <<ptrVars, poolVars, daxVars, holds, size, kernVars, bot, queueVars>>

\* pmfs_xip_file_write.
Write(t, f) ==
  /\ Begin(t, "write", f, "lookup")
  /\ Shared(f) \cup Exclusive(f) = {}
  /\ UNCHANGED <<ptrVars, poolVars, daxVars, holds, size, kernVars, bot, queueVars>>

\* dax_iomap_fault compares with i_size before it locks the entry.
Fault(t, f) ==
  /\ Begin(t, "fault", f, "entry")
  /\ size[f]
  /\ UNCHANGED <<ptrVars, poolVars, daxVars, holds, size, kernVars, bot, queueVars>>

GrabEntry(t) ==
  LET f == th[t].file IN
  /\ th[t].pc = "entry" /\ ~elock[f]
  /\ elock' = [elock EXCEPT ![f] = TRUE]
  /\ slot' = [slot EXCEPT ![f] = IF @ = NoPage THEN Empty ELSE @]
  /\ Go(t, "lookup")
  /\ UNCHANGED <<ptrVars, poolVars, pte, map, holds, size, kernVars, bot, queueVars>>

\* A truncation to a larger size leaves a hole.
Extend(f) ==
  /\ "truncate" \in Ops /\ Shared(f) \cup Exclusive(f) = {} /\ ~size[f]
  /\ size' = [size EXCEPT ![f] = TRUE]
  /\ UNCHANGED <<ptrVars, poolVars, daxVars, holds, kernVars, th, bot, queueVars>>

\* pmfs_setsize to 0, up to truncate_pagecache.
Truncate(t, f) ==
  /\ Begin(t, "truncate", f, "unmap")
  /\ Shared(f) \cup Exclusive(f) = {} /\ size[f]
  /\ size' = [size EXCEPT ![f] = FALSE]
  /\ UNCHANGED <<ptrVars, poolVars, daxVars, holds, kernVars, bot, queueVars>>

\* __pmfs_find_data_block; a page below the root that is tired is replaced.
Lookup(t) ==
  LET f == th[t].file
      p == ptr[f]
  IN
  /\ th[t].pc = "lookup"
  /\ \/ p = NoPage /\ Go(t, "hole")
     \/ p # NoPage /\ "tired" \in marks[p] /\ f \notin flat /\ Go(t, "tired")
     \/ /\ p # NoPage /\ ("tired" \notin marks[p] \/ f \in flat)
        /\ th' = [th EXCEPT ![t].pc = "use", ![t].page = p]
  /\ UNCHANGED <<ptrVars, poolVars, daxVars, holds, size, kernVars, bot, queueVars>>

\* wpmfs_replace_tired_page, which nothing but the caller's locks protects.
\* Without a free page the lookup finds nothing.
ReplaceAlloc(t) ==
  /\ th[t].pc = "tired"
  /\ \/ free = {} /\ Go(t, "hole") /\ UNCHANGED poolVars
     \/ \E n \in free :
          NewBlock(n) /\ th' = [th EXCEPT ![t].pc = "tcopy", ![t].page = n]
  /\ UNCHANGED <<ptrVars, daxVars, holds, size, kernVars, bot, queueVars>>

ReplaceCopy(t) ==
  LET p == ptr[th[t].file] IN
  /\ th[t].pc = "tcopy"
  /\ holds' = [holds EXCEPT ![th[t].page] = IF p = NoPage THEN NoRef ELSE holds[p]]
  /\ Go(t, "tlink")
  /\ UNCHANGED <<ptrVars, poolVars, daxVars, size, kernVars, bot, queueVars>>

\* The old page is freed by the next mount only.
ReplaceLink(t) ==
  LET f == th[t].file IN
  /\ th[t].pc = "tlink"
  /\ ptr' = [ptr EXCEPT ![f] = th[t].page]
  /\ media' = [media EXCEPT ![f] = @ \cup {th[t].page}]
  /\ Go(t, "tflush")
  /\ UNCHANGED <<poolVars, daxVars, holds, size, kernVars, bot, queueVars>>

\* Mutant: the new pointer is not flushed.
ReplaceFlush_none(t) ==
  /\ th[t].pc = "tflush"
  /\ Go(t, "use")
  /\ UNCHANGED <<ptrVars, poolVars, daxVars, holds, size, kernVars, bot, queueVars>>

ReplaceFlush(t) ==
  LET f == th[t].file IN
  /\ th[t].pc = "tflush"
  /\ media' = [media EXCEPT ![f] = {ptr[f]}]
  /\ Go(t, "use")
  /\ UNCHANGED <<ptr, poolVars, daxVars, holds, size, kernVars, bot, queueVars>>

\* The end of an operation; a fault unlocks the entry.
Done(t) ==
  /\ Leave(t)
  /\ elock' = IF th[t].op = "fault" THEN [elock EXCEPT ![th[t].file] = FALSE] ELSE elock

\* Nothing was found: a read returns zeros, a read fault fails, and so do the
\* others at their second attempt or when there is no memory.
HoleEnds(t) ==
  /\ th[t].pc = "hole"
  /\ \/ th[t].op \in {"read", "fault"}
     \/ th[t].again
     \/ free = {} /\ ptr[th[t].file] = NoPage
  /\ Done(t)
  /\ UNCHANGED <<ptrVars, poolVars, slot, pte, map, holds, size, kernVars, bot, queueVars>>

\* Nothing was found: pmfs_alloc_blocks.  A fault takes the inode lock for it,
\* with the entry locked.  Where the page was only tired nothing is allocated,
\* but a write clears the part of the page it does not write.
FillHole(t) ==
  LET f == th[t].file IN
  /\ th[t].pc = "hole" /\ th[t].op # "read" /\ ~th[t].again
  /\ th[t].op = "fault" => Shared(f) \cup Exclusive(f) = {}
  /\ IF ptr[f] = NoPage
     THEN \E n \in free :
            /\ NewBlock(n)
            /\ holds' = [holds EXCEPT ![n] = f]
            /\ ptr' = [ptr EXCEPT ![f] = n] /\ media' = [media EXCEPT ![f] = {n}]
     ELSE /\ holds' = IF th[t].op = "write" THEN [holds EXCEPT ![ptr[f]] = NoRef] ELSE holds
          /\ UNCHANGED <<ptrVars, poolVars>>
  /\ th' = [th EXCEPT ![t].pc = "lookup", ![t].again = TRUE]
  /\ UNCHANGED <<daxVars, size, kernVars, bot, queueVars>>

\* The copy to or from the user with the page that was looked up.
UseRead(t) ==
  /\ th[t].pc = "use" /\ th[t].op = "read"
  /\ Leave(t)
  /\ UNCHANGED <<ptrVars, poolVars, daxVars, holds, size, kernVars, bot, queueVars>>

UseWrite(t) ==
  /\ th[t].pc = "use" /\ th[t].op = "write"
  /\ holds' = Stored(th[t].page, th[t].file)
  /\ size' = [size EXCEPT ![th[t].file] = TRUE]
  /\ Leave(t)
  /\ UNCHANGED <<ptrVars, poolVars, daxVars, kernVars, bot, queueVars>>

\* dax_insert_mapping: an entry that has a page keeps it.
UseFault(t) ==
  LET f == th[t].file
      p == th[t].page
  IN
  /\ th[t].pc = "use" /\ th[t].op = "fault"
  /\ pte' = [pte EXCEPT ![f] = p]
  /\ IF slot[f] = Empty
     THEN slot' = [slot EXCEPT ![f] = p] /\ map' = [map EXCEPT ![p] = f]
     ELSE UNCHANGED <<slot, map>>
  /\ Done(t)
  /\ UNCHANGED <<ptrVars, poolVars, holds, size, kernVars, bot, queueVars>>

\* truncate_pagecache waits for the entry.
Unmap(t) ==
  LET f == th[t].file IN
  /\ th[t].pc = "unmap" /\ ~elock[f]
  /\ pte' = [pte EXCEPT ![f] = NoPage]
  /\ map' = IF slot[f] \in Pages THEN [map EXCEPT ![slot[f]] = NoRef] ELSE map
  /\ slot' = [slot EXCEPT ![f] = NoPage]
  /\ Go(t, "free")
  /\ UNCHANGED <<ptrVars, poolVars, elock, holds, size, kernVars, bot, queueVars>>

\* __pmfs_truncate_blocks: the block is freed, then the pointer is cleared, then
\* that is made durable.
TruncateFree(t) ==
  LET f == th[t].file IN
  /\ th[t].pc = "free"
  /\ IF ptr[f] = NoPage
     THEN Leave(t) /\ UNCHANGED <<poolVars, holds>>
     ELSE Go(t, "clear") /\ FreeBlock(ptr[f])
  /\ UNCHANGED <<ptrVars, daxVars, size, kernVars, bot, queueVars>>

TruncateClear(t) ==
  LET f == th[t].file IN
  /\ th[t].pc = "clear"
  /\ ptr' = [ptr EXCEPT ![f] = NoPage]
  /\ media' = [media EXCEPT ![f] = @ \cup {NoPage}]
  /\ Go(t, "fence")
  /\ UNCHANGED <<poolVars, daxVars, holds, size, kernVars, bot, queueVars>>

TruncateFence(t) ==
  /\ th[t].pc = "fence"
  /\ media' = [media EXCEPT ![th[t].file] = {NoPage}]
  /\ Leave(t)
  /\ UNCHANGED <<ptr, poolVars, daxVars, holds, size, kernVars, bot, queueVars>>

\* Stores of a process and of the kernel through their mappings.
UserStore(f) ==
  /\ pte[f] # NoPage
  /\ holds' = Stored(pte[f], f)
  /\ UNCHANGED <<ptrVars, poolVars, daxVars, size, kernVars, th, bot, queueVars>>

KernStore ==
  /\ ~wp
  /\ holds' = Stored(kpte, Kern)
  /\ UNCHANGED <<ptrVars, poolVars, daxVars, size, kernVars, th, bot, queueVars>>

-----------------------------------------------------------------------------
(* The top half, called by whoever writes to a page.                       *)

\* Mutant: the full queue takes the request.
TopIn_unbounded(p) ==
  /\ sw # {} /\ reqs < MaxReq /\ reqs' = reqs + 1
  /\ fifo' = Append(fifo, p) /\ tops' = tops + 1
  /\ UNCHANGED <<ptrVars, poolVars, daxVars, holds, size, kernVars, th, bot, work, left>>

TopIn(p) ==
  /\ sw # {} /\ reqs < MaxReq /\ reqs' = reqs + 1
  /\ IF Len(fifo) < FifoSize
     THEN fifo' = Append(fifo, p) /\ tops' = tops + 1
     ELSE UNCHANGED <<fifo, tops>>
  /\ UNCHANGED <<ptrVars, poolVars, daxVars, holds, size, kernVars, th, bot, work, left>>

TopQueue ==
  /\ tops > 0 /\ tops' = tops - 1
  /\ work' = TRUE /\ left' = FALSE
  /\ UNCHANGED <<ptrVars, poolVars, daxVars, holds, size, kernVars, th, bot, fifo, reqs>>

-----------------------------------------------------------------------------
(* The bottom half: a single worker.                                       *)

BotStart ==
  /\ work /\ bot.pc = "idle"
  /\ work' = FALSE /\ left' = FALSE
  /\ BotNext
  /\ UNCHANGED <<ptrVars, poolVars, daxVars, holds, size, kernVars, th, fifo, tops, reqs>>

\* get_super finds no superblock: the work is done, the queue is left as it is.
BotNoSuper ==
  /\ work /\ bot.pc = "idle"
  /\ work' = FALSE /\ left' = TRUE
  /\ UNCHANGED <<ptrVars, poolVars, daxVars, holds, size, kernVars, th, bot, fifo, tops, reqs>>

\* _page_type, and what _wear_lerveling does with it: without the switch for
\* rmap the case falls through to the one of vmap.
Service(p) ==
  CASE "using" \notin marks[p]                 -> "fetch"
    [] map[p] # NoRef /\ "rmap" \in sw         -> "grab"
    [] map[p] # NoRef \/ "vmap" \in marks[p]   -> IF "vmap" \in sw THEN "valloc" ELSE "fetch"
    [] OTHER                                   -> IF "stranded" \in sw THEN "strand" ELSE "fetch"

\* Mutant: a request that needs no work ends the run.
Fetch_return ==
  /\ bot.pc = "fetch"
  /\ IF fifo = <<>>
     THEN bot' = Rest /\ UNCHANGED fifo
     ELSE /\ fifo' = Tail(fifo)
          /\ IF Service(Head(fifo)) = "fetch"
             THEN bot' = Rest
             ELSE bot' = [Rest EXCEPT !.pfn = Head(fifo), !.pc = Service(Head(fifo))]
  /\ UNCHANGED <<ptrVars, poolVars, daxVars, holds, size, kernVars, th, tops, work, reqs, left>>

\* _int_bottom.
Fetch ==
  /\ bot.pc = "fetch"
  /\ IF fifo = <<>>
     THEN bot' = Rest /\ UNCHANGED fifo
     ELSE /\ fifo' = Tail(fifo)
          /\ IF Service(Head(fifo)) = "fetch"
             THEN BotNext
             ELSE bot' = [Rest EXCEPT !.pfn = Head(fifo), !.pc = Service(Head(fifo))]
  /\ UNCHANGED <<ptrVars, poolVars, daxVars, holds, size, kernVars, th, tops, work, reqs, left>>

\* _level_type_stranded.
Strand ==
  /\ bot.pc = "strand"
  /\ marks' = [marks EXCEPT ![bot.pfn] = @ \cup {"tired"}]
  /\ BotNext
  /\ UNCHANGED <<ptrVars, free, daxVars, holds, size, kernVars, th, queueVars>>

(* A mapped page: _level_type_rmap.                                        *)

\* The mapping is read and its inode grabbed under the inode table mutex.
Grab ==
  /\ bot.pc = "grab"
  /\ IF map[bot.pfn] = NoRef
     THEN BotNext
     ELSE bot' = [bot EXCEPT !.pc = "ralloc", !.file = map[bot.pfn]]
  /\ UNCHANGED <<ptrVars, poolVars, daxVars, holds, size, kernVars, th, queueVars>>

\* pmfs_new_block; without memory the request is forgotten.
RmapAlloc ==
  /\ bot.pc = "ralloc"
  /\ \/ free = {} /\ BotNext /\ UNCHANGED poolVars
     \/ \E n \in free : NewBlock(n) /\ bot' = [bot EXCEPT !.pc = "lock", !.new = n]
  /\ UNCHANGED <<ptrVars, daxVars, holds, size, kernVars, th, queueVars>>

\* Mutant: the inode is not locked.
RmapLock_none ==
  /\ bot.pc = "lock"
  /\ BotGo("core")
  /\ UNCHANGED <<ptrVars, poolVars, daxVars, holds, size, kernVars, th, queueVars>>

\* inode_lock_shared.
RmapLock ==
  /\ bot.pc = "lock" /\ Exclusive(bot.file) = {}
  /\ BotGo("core")
  /\ UNCHANGED <<ptrVars, poolVars, daxVars, holds, size, kernVars, th, queueVars>>

\* Mutant: the wrong page is freed when the entry is busy.
CoreBusy_old ==
  LET f == map[bot.pfn] IN
  /\ bot.pc = "core" /\ f # NoRef
  /\ slot[f] = NoPage \/ elock[f]
  /\ FreeBlock(bot.pfn)
  /\ BotNext
  /\ UNCHANGED <<ptrVars, daxVars, size, kernVars, th, queueVars>>

\* _level_type_rmap_core reads the mapping again; another thread at the entry
\* makes it give up.
CoreBusy ==
  LET f == map[bot.pfn] IN
  /\ bot.pc = "core" /\ f # NoRef
  /\ slot[f] = NoPage \/ elock[f]
  /\ FreeBlock(bot.new)
  /\ BotNext
  /\ UNCHANGED <<ptrVars, daxVars, size, kernVars, th, queueVars>>

\* Mutant: the old page keeps its mapping.
Core_keep ==
  LET f == map[bot.pfn] IN
  /\ bot.pc = "core" /\ f # NoRef /\ slot[f] # NoPage /\ ~elock[f]
  /\ elock' = [elock EXCEPT ![f] = TRUE]
  /\ map' = [map EXCEPT ![bot.new] = f]
  /\ pte' = [pte EXCEPT ![f] = NoPage]
  /\ bot' = [bot EXCEPT !.pc = "copy", !.file = f]
  /\ UNCHANGED <<ptrVars, poolVars, slot, holds, size, kernVars, th, queueVars>>

\* The entry is locked, the new page gets the mapping, the process loses its pte,
\* the old page loses the mapping.
Core ==
  LET f == map[bot.pfn] IN
  /\ bot.pc = "core" /\ f # NoRef /\ slot[f] # NoPage /\ ~elock[f]
  /\ elock' = [elock EXCEPT ![f] = TRUE]
  /\ map' = [map EXCEPT ![bot.new] = f, ![bot.pfn] = NoRef]
  /\ pte' = [pte EXCEPT ![f] = NoPage]
  /\ bot' = [bot EXCEPT !.pc = "copy", !.file = f]
  /\ UNCHANGED <<ptrVars, poolVars, slot, holds, size, kernVars, th, queueVars>>

\* The mapping is gone: a null pointer is followed, the worker does not return.
CoreOops ==
  /\ bot.pc = "core" /\ map[bot.pfn] = NoRef
  /\ BotGo("oops")
  /\ UNCHANGED <<ptrVars, poolVars, daxVars, holds, size, kernVars, th, queueVars>>

\* wpmfs_replace_single_datablk; __wpmfs_find_pdatablk finds no pointer in a
\* file of height 0, and the caller does not hear of it.
RmapCopy ==
  LET p == ptr[bot.file] IN
  /\ bot.pc = "copy"
  /\ IF bot.file \in flat \/ p = NoPage
     THEN BotGo("slot") /\ UNCHANGED holds
     ELSE BotGo("link") /\ holds' = [holds EXCEPT ![bot.new] = holds[p]]
  /\ UNCHANGED <<ptrVars, poolVars, daxVars, size, kernVars, th, queueVars>>

RmapLink ==
  /\ bot.pc = "link"
  /\ ptr' = [ptr EXCEPT ![bot.file] = bot.new]
  /\ media' = [media EXCEPT ![bot.file] = @ \cup {bot.new}]
  /\ BotGo("flush")
  /\ UNCHANGED <<poolVars, daxVars, holds, size, kernVars, th, queueVars>>

\* Mutant: the new pointer is not flushed.
RmapFlush_none ==
  /\ bot.pc = "flush"
  /\ BotGo("slot")
  /\ UNCHANGED <<ptrVars, poolVars, daxVars, holds, size, kernVars, th, queueVars>>

RmapFlush ==
  /\ bot.pc = "flush"
  /\ media' = [media EXCEPT ![bot.file] = {bot.new}]
  /\ BotGo("slot")
  /\ UNCHANGED <<ptr, poolVars, daxVars, holds, size, kernVars, th, queueVars>>

\* replace_slot unlocks the entry too.
RmapSlot ==
  /\ bot.pc = "slot"
  /\ slot' = [slot EXCEPT ![bot.file] = bot.new]
  /\ elock' = [elock EXCEPT ![bot.file] = FALSE]
  /\ BotGo("release")
  /\ UNCHANGED <<ptrVars, poolVars, pte, map, holds, size, kernVars, th, queueVars>>

\* The page of the request is freed, then the inode unlocked.
RmapRelease ==
  /\ bot.pc = "release"
  /\ FreeBlock(bot.pfn)
  /\ BotNext
  /\ UNCHANGED <<ptrVars, daxVars, size, kernVars, th, queueVars>>

(* A page of the kernel: _level_type_vmap.  The index of the page is that  *)
(* of the kernel mapping, whatever page it is.                             *)

\* Mutant: the new page does not get the marks of the old one.
VmapAlloc_nomarks ==
  /\ bot.pc = "valloc"
  /\ \/ free = {} /\ BotNext /\ UNCHANGED poolVars
     \/ \E n \in free : NewBlock(n) /\ bot' = [bot EXCEPT !.pc = "protect", !.new = n]
  /\ UNCHANGED <<ptrVars, daxVars, holds, size, kernVars, th, queueVars>>

VmapAlloc ==
  /\ bot.pc = "valloc"
  /\ \/ free = {} /\ BotNext /\ UNCHANGED poolVars
     \/ \E n \in free :
          /\ free' = free \ {n}
          /\ marks' = [marks EXCEPT ![n] = marks[bot.pfn]]
          /\ bot' = [bot EXCEPT !.pc = "protect", !.new = n]
  /\ UNCHANGED <<ptrVars, daxVars, holds, size, kernVars, th, queueVars>>

VmapProtect ==
  /\ bot.pc = "protect"
  /\ wp' = TRUE
  /\ BotGo("vcopy")
  /\ UNCHANGED <<ptrVars, poolVars, daxVars, holds, size, kpte, th, queueVars>>

VmapCopy ==
  /\ bot.pc = "vcopy"
  /\ holds' = [holds EXCEPT ![bot.new] = holds[bot.pfn]]
  /\ BotGo("vlink")
  /\ UNCHANGED <<ptrVars, poolVars, daxVars, size, kernVars, th, queueVars>>

\* The slot of the mapping table.
VmapLink ==
  /\ bot.pc = "vlink"
  /\ ptr' = [ptr EXCEPT ![Kern] = bot.new]
  /\ media' = [media EXCEPT ![Kern] = @ \cup {bot.new}]
  /\ BotGo("vflush")
  /\ UNCHANGED <<poolVars, daxVars, holds, size, kernVars, th, queueVars>>

VmapFlush ==
  /\ bot.pc = "vflush"
  /\ media' = [media EXCEPT ![Kern] = {bot.new}]
  /\ BotGo("vswitch")
  /\ UNCHANGED <<ptr, poolVars, daxVars, holds, size, kernVars, th, queueVars>>

VmapSwitch ==
  /\ bot.pc = "vswitch"
  /\ kpte' = bot.new /\ wp' = FALSE
  /\ BotGo("vrelease")
  /\ UNCHANGED <<ptrVars, poolVars, daxVars, holds, size, th, queueVars>>

VmapRelease ==
  /\ bot.pc = "vrelease"
  /\ FreeBlock(bot.pfn)
  /\ BotNext
  /\ UNCHANGED <<ptrVars, daxVars, size, kernVars, th, queueVars>>

-----------------------------------------------------------------------------
Thread(t) ==
  \/ \E f \in Files : Read(t, f) \/ Write(t, f) \/ Fault(t, f) \/ Truncate(t, f)
  \/ GrabEntry(t) \/ Lookup(t) \/ HoleEnds(t) \/ FillHole(t)
  \/ ReplaceAlloc(t) \/ ReplaceCopy(t) \/ ReplaceLink(t) \/ ReplaceFlush(t)
  \/ UseRead(t) \/ UseWrite(t) \/ UseFault(t)
  \/ Unmap(t) \/ TruncateFree(t) \/ TruncateClear(t) \/ TruncateFence(t)

Bottom ==
  \/ BotStart \/ BotNoSuper \/ Fetch \/ Strand
  \/ Grab \/ RmapAlloc \/ RmapLock \/ CoreBusy \/ Core \/ CoreOops
  \/ RmapCopy \/ RmapLink \/ RmapFlush \/ RmapSlot \/ RmapRelease
  \/ VmapAlloc \/ VmapProtect \/ VmapCopy \/ VmapLink \/ VmapFlush \/ VmapSwitch \/ VmapRelease

Step ==
  \/ \E t \in Threads : Thread(t)
  \/ \E f \in Files : Extend(f) \/ UserStore(f)
  \/ KernStore
  \/ \E p \in Pages : TopIn(p)
  \/ TopQueue
  \/ Bottom

(* The races that migration loses.                                         *)

\* The page was truncated, or belongs to another file by now, when the mapping
\* is read for the second time.
Remapped == bot.pc = "core" /\ map[bot.pfn] # bot.file

\* The pointer to the page is not the one the migration replaces.
Unreplaced == bot.pc = "copy" /\ (bot.file \in flat \/ ptr[bot.file] # bot.pfn)

\* A page that is not the kernel's is migrated as if it were.
Mistaken == bot.pc = "valloc" /\ "vmap" \notin marks[bot.pfn]

\* A page becomes tired and mapped at once.
TiredMapped ==
  \/ bot.pc = "strand" /\ map[bot.pfn] # NoRef
  \/ \E t \in Threads : th[t].op = "fault" /\ th[t].pc = "use" /\ "tired" \in marks[th[t].page]

\* A tired page is replaced under another thread that has begun to do so or is
\* about to write to it or to map it, or there is nothing to replace it with.
Replacing == {"tired", "tcopy", "tlink"}
TiredTwice == \E t \in Threads :
  \/ th[t].pc = "tired" /\ free = {}
  \/ /\ th[t].pc \in Replacing
     /\ \E u \in Threads \ {t} :
          /\ th[u].file = th[t].file
          /\ th[u].pc \in Replacing \/ (th[u].op # "read" /\ th[u].pc \in {"tflush", "use"})

\* Another thread has found the new page and will store to it or map it, while a
\* power failure may still bring the tired one back.
Unflushed == \E t, u \in Threads :
  /\ th[t].pc = "tflush"
  /\ th[u].file = th[t].file /\ th[u].op # "read" /\ th[u].pc = "use"

\* A fault that has seen the old size meets a truncation.
LateFault == \E t, u \in Threads :
  th[t].pc = "free" /\ th[u].op = "fault" /\ th[u].file = th[t].file

Races == Remapped \/ Unreplaced \/ Mistaken \/ TiredMapped \/ TiredTwice \/ Unflushed \/ LateFault

\* Nothing is claimed once one of them has happened.
Next == ~raced /\ Step /\ raced' = Races /\ UNCHANGED <<sw, flat>>

Spec == Init /\ [][Next]_vars

-----------------------------------------------------------------------------
(* Properties.                                                             *)

\* The shape of the state.
TypeOK ==
  /\ ptr \in [Refs -> Pages \cup {NoPage}]
  /\ media \in [Refs -> SUBSET (Pages \cup {NoPage})]
  /\ free \subseteq Pages /\ marks \in [Pages -> SUBSET {"using", "tired", "vmap"}]
  /\ map \in [Pages -> Files \cup {NoRef}] /\ holds \in [Pages -> Refs \cup {NoRef}]
  /\ size \in [Files -> BOOLEAN] /\ elock \in [Files -> BOOLEAN]
  /\ slot \in [Files -> Pages \cup {NoPage, Empty}] /\ pte \in [Files -> Pages \cup {NoPage}]
  /\ kpte \in Pages /\ wp \in BOOLEAN
  /\ th \in [Threads -> [op : Ops \cup {"idle"}, file : Files \cup {NoRef}, page : Pages \cup {NoPage},
       again : BOOLEAN, pc : {"idle", "lookup", "entry", "hole", "use", "unmap", "free", "clear",
                              "fence", "tired", "tcopy", "tlink", "tflush"}]]
  /\ bot \in [pfn : Pages \cup {NoPage}, new : Pages \cup {NoPage}, file : Files \cup {NoRef},
       pc : RmapLocked \cup {"idle", "fetch", "strand", "grab", "ralloc", "lock", "oops", "valloc",
                             "protect", "vcopy", "vlink", "vflush", "vswitch", "vrelease"}]
  /\ fifo \in Seq(Pages) /\ Len(fifo) <= FifoSize
  /\ tops \in 0 .. MaxReq /\ reqs \in 0 .. MaxReq /\ work \in BOOLEAN /\ left \in BOOLEAN
  /\ sw \in Switches /\ flat \in Flats /\ raced \in BOOLEAN

\* Files whose block a truncation is taking away.
Cutting(f) == \E t \in Threads : th[t].file = f /\ th[t].pc \in {"clear", "fence"}

\* The pages that the media leads to, that are mapped, and that are being prepared to
\* take the place of another.
InUse == (UNION {media[r] \cup {ptr[r]} : r \in {q \in Refs : ~Cutting(q)}})
           \cup {pte[f] : f \in Files} \cup {bot.new, kpte}
           \cup {th[t].page : t \in {u \in Threads : th[u].pc \in {"tcopy", "tlink"}}}

\* No page has two users, and none is used while it is free.
OneUser ==
  ~raced =>
    /\ InUse \cap free = {}
    /\ \A q, r \in Refs : ptr[q] = ptr[r] /\ ptr[q] # NoPage /\ ~Cutting(q) /\ ~Cutting(r) => q = r

\* A process, the DAX entry and the rmap of the page agree with the tree on what
\* page a file has; a page that has been migrated away has no mapping left.
Coherent ==
  ~raced => \A f \in Files :
    /\ pte[f] # NoPage => pte[f] = slot[f]
    /\ slot[f] \in Pages /\ ~elock[f] => slot[f] = ptr[f] /\ map[slot[f]] = f
    /\ \A p \in Pages : map[p] = f => p \in {slot[f], bot.new}

\* No store is lost: the tree leads to the newest content.
NoStoreLost ==
  ~raced => \A r \in Refs : ptr[r] # NoPage /\ ~Cutting(r) => holds[ptr[r]] = r

\* Nor after a power failure: whatever pointer the media has leads to a page that
\* is not free and has the newest content.
MediaSafe ==
  ~raced => \A r \in Refs : ~Cutting(r) =>
    \A p \in media[r] \ {NoPage} : p \notin free /\ holds[p] = r

\* Kernel stores go to the page of the mapping table, which can be told to be the
\* kernel's when it is worn again; no other page is taken for it.
KernelPage ==
  ~raced =>
    /\ ~wp => holds[kpte] = Kern
    /\ \A p \in Pages : "vmap" \in marks[p] => p \in {kpte, ptr[Kern], bot.new, bot.pfn}
    /\ "vmap" \in marks[ptr[Kern]]

\* A request in the queue has a bottom half that will look at it, unless the last one
\* found no superblock and no request came since, or it followed a null pointer.
Scheduled ==
  fifo # <<>> /\ ~left /\ bot.pc # "oops" => work \/ tops > 0 \/ bot.pc # "idle"

\* Migration takes the inode lock shared because it "is safe, and does not affect
\* the results that readers see" (wpmfs_wl.c:337): the page a reader is about to
\* copy from has the content of its file.
ReadersSeeFile ==
  \A t \in Threads : th[t].op = "read" /\ th[t].pc = "use" => holds[th[t].page] = th[t].file
=============================================================================
