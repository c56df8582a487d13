------------------------- MODULE WearLevelingProofs -------------------------
(***************************************************************************)
(* Proofs about WearLeveling, for any number of pages, files, threads and  *)
(* requests and every setting of wl_switch: until one of the named races   *)
(* happens, no page has two users, processes, DAX entries and trees agree, *)
(* and no store is lost.                                                   *)
(***************************************************************************)
EXTENDS WearLeveling, TLAPS

-----------------------------------------------------------------------------
(* The inductive invariant.                                                *)

\* The parts of a migration.
RmapNew == {"lock", "core", "copy", "link", "flush", "slot", "release"}
VmapNew == {"protect", "vcopy", "vlink", "vflush", "vswitch", "vrelease"}
Holding == {"copy", "link", "flush", "slot"}
Before  == {"lock", "core", "copy", "link", "protect", "vcopy", "vlink"}
After   == {"flush", "slot", "release", "vflush", "vswitch", "vrelease"}

BotHolds(f) == bot.pc \in Holding /\ bot.file = f
FaultHolds(t, f) ==
  th[t].op = "fault" /\ th[t].file = f /\ th[t].pc \in Replacing \cup {"lookup", "tflush", "hole", "use"}

\* The page that belongs to the migration alone: the new one before the pointer
\* is changed, then the old one.
Spare == IF bot.pc \in Before THEN bot.new ELSE IF bot.pc \in After THEN bot.pfn ELSE NoPage

\* The queue.
QueueInv == Scheduled /\ tops <= reqs

\* Which operations have which parts.
ThreadShape ==
  \A t \in Threads :
    /\ th[t].op = "idle" => th[t] = Idle
    /\ th[t].op # "idle" => th[t].file \in Files /\ th[t].pc # "idle"
    /\ th[t].op = "truncate" <=> th[t].pc \in {"unmap", "free", "clear", "fence"}
    /\ th[t].pc = "entry" => th[t].op = "fault"

\* The semaphore of an inode excludes writers and truncations.
Semaphores ==
  /\ \A t, u \in Threads :
       t # u /\ th[t].file = th[u].file /\ th[t].op \in {"write", "truncate"} =>
         th[u].op \notin {"read", "write", "truncate"}
  /\ \A t \in Threads :
       th[t].op \in {"write", "truncate"} /\ bot.pc \in RmapLocked => th[t].file # bot.file

\* An entry is locked by one fault or by the migration.
Entries ==
  \A f \in Files :
    /\ BotHolds(f) => elock[f]
    /\ \A t \in Threads : FaultHolds(t, f) =>
         /\ elock[f] /\ slot[f] # NoPage /\ ~BotHolds(f)
         /\ \A u \in Threads : FaultHolds(u, f) => u = t

\* A truncation has made the file empty, then unmapped it; once it frees the
\* block no fault is left.
Truncations ==
  \A t \in Threads :
    /\ th[t].op = "truncate" => ~size[th[t].file]
    /\ th[t].pc \in {"free", "clear", "fence"} =>
         slot[th[t].file] = NoPage /\ pte[th[t].file] = NoPage
    /\ th[t].pc \in {"clear", "fence"} =>
         \A u \in Threads : th[u].op = "fault" => th[u].file # th[t].file

\* What a thread has looked up, or written, is still so.
LookedUp ==
  \A t \in Threads :
    /\ th[t].pc \in Replacing =>
         /\ th[t].file \notin flat /\ ptr[th[t].file] # NoPage
         /\ "tired" \in marks[ptr[th[t].file]]
    /\ th[t].pc \in {"tflush", "use"} /\ th[t].op \in {"write", "fault"} =>
         th[t].page # NoPage /\ th[t].page = ptr[th[t].file]
    /\ th[t].pc = "hole" /\ th[t].op = "write" /\ ~th[t].again => ptr[th[t].file] = NoPage
    /\ th[t].pc = "fence" => ptr[th[t].file] = NoPage

\* Where the migration is.
Migration ==
  /\ IF bot.pc \in Before \cup After
     THEN bot.new \in Pages ELSE bot.new = NoPage
  /\ bot.pc \notin {"idle", "fetch"} => bot.pfn \in Pages
  /\ bot.pc \in {"ralloc"} \cup RmapNew => bot.file \in Files
  /\ bot.pc \in Holding \cup {"release"} \cup VmapNew => bot.pfn # bot.new
  /\ bot.pc \in Holding =>
       slot[bot.file] = bot.pfn /\ pte[bot.file] = NoPage /\ map[bot.new] = bot.file
  /\ bot.pc \in {"copy", "link"} => ptr[bot.file] = bot.pfn
  /\ bot.pc \in {"flush", "slot", "release"} => ptr[bot.file] = bot.new
  /\ bot.pc \in {"protect", "vcopy", "vlink"} => ptr[Kern] = bot.pfn
  /\ bot.pc \in {"vflush", "vswitch", "vrelease"} => ptr[Kern] = bot.new
  /\ kpte = IF bot.pc \in {"vflush", "vswitch"} THEN bot.pfn ELSE ptr[Kern]
  /\ wp <=> bot.pc \in {"vcopy", "vlink", "vflush", "vswitch"}

\* Every page has one user.
Owners ==
  /\ \A q, r \in Refs :
       ptr[q] = ptr[r] /\ ptr[q] # NoPage /\ ~Cutting(q) /\ ~Cutting(r) => q = r
  /\ \A r \in Refs : ~Cutting(r) => ptr[r] \notin free
  /\ Spare # NoPage => Spare \notin free /\ \A r \in Refs : ~Cutting(r) => ptr[r] # Spare
  /\ ptr[Kern] # NoPage

\* DAX entries, processes and the rmap of pages.
Mappings ==
  \A f \in Files :
    /\ slot[f] \in Pages /\ ~BotHolds(f) => slot[f] = ptr[f] /\ map[slot[f]] = f
    /\ pte[f] # NoPage => pte[f] = slot[f]
    /\ \A p \in Pages : map[p] = f => p = IF BotHolds(f) THEN bot.new ELSE slot[f]

\* Tired pages are not mapped; the kernel's pages are known.
Marks ==
  /\ \A p \in Pages : "tired" \in marks[p] => map[p] = NoRef
  /\ bot.pc \in {"copy", "link"} => "tired" \notin marks[bot.pfn]
  /\ bot.pc \in RmapNew => "tired" \notin marks[bot.new]
  /\ \A p \in Pages : "vmap" \in marks[p] <=>
       p = ptr[Kern] \/ (bot.pc \in VmapNew /\ p \in {bot.pfn, bot.new})

\* The newest content.
Contents ==
  /\ \A r \in Refs : ~Cutting(r) /\ ptr[r] # NoPage => holds[ptr[r]] = r
  /\ bot.pc = "link" => holds[bot.new] = bot.file
  /\ bot.pc = "flush" => holds[bot.pfn] = bot.file
  /\ bot.pc = "vlink" => holds[bot.new] = Kern
  /\ bot.pc = "vflush" => holds[bot.pfn] = Kern

\* The pointers that the media may hold: that of the tree, and those of pages with the
\* same content that nobody uses, the page a migration is about to free among them.
Flushing(r) == (bot.pc = "flush" /\ bot.file = r) \/ (bot.pc = "vflush" /\ r = Kern)
Stale(p, r) ==
  /\ p \in Pages /\ p \notin free /\ holds[p] = r
  /\ \A q \in Refs : ~Cutting(q) => ptr[q] # p
  /\ p = Spare => Flushing(r)

Durable ==
  \A r \in Refs : ~Cutting(r) =>
    ptr[r] \in media[r] /\ \A p \in media[r] \ {ptr[r]} : Stale(p, r)

\* The page that a thread prepares to replace a tired one is its own until it stores
\* the pointer; until it flushes the pointer nobody has mapped the page.  The media
\* lags behind the tree only while somebody is about to flush.
Private(n) == /\ n \in Pages /\ n \notin free /\ n # Spare
              /\ \A r \in Refs : ~Cutting(r) => n \notin media[r]

Prepares(t) == th[t].pc \in {"tcopy", "tlink"}
Lags(t, r) == th[t].pc = "tflush" /\ th[t].file = r

Replacements ==
  /\ \A t \in Threads : Prepares(t) =>
       /\ Private(th[t].page)
       /\ th[t].pc = "tlink" => holds[th[t].page] = th[t].file
       /\ \A u \in Threads : Prepares(u) /\ th[u].page = th[t].page => u = t
  /\ \A t \in Threads : th[t].pc = "tflush" => slot[th[t].file] \notin Pages
  /\ \A r \in Refs : ~Cutting(r) /\ ~Flushing(r) /\ (\A t \in Threads : ~Lags(t, r)) =>
       media[r] = {ptr[r]}

Good ==
  /\ ThreadShape /\ Semaphores /\ Entries /\ Truncations /\ LookedUp
  /\ Migration /\ Owners /\ Mappings /\ Marks /\ Contents /\ Durable
  /\ Replacements

IInv == TypeOK /\ QueueInv /\ (~raced => Good)

-----------------------------------------------------------------------------
(* Types.                                                                  *)

ThreadPcs == {"idle", "lookup", "entry", "hole", "use", "unmap", "free", "clear", "fence",
              "tired", "tcopy", "tlink", "tflush"}
ThreadSet == [op : Ops \cup {"idle"}, file : Files \cup {NoRef}, page : Pages \cup {NoPage},
              again : BOOLEAN, pc : ThreadPcs]
BotPcs == RmapLocked \cup {"idle", "fetch", "strand", "grab", "ralloc", "lock", "oops", "valloc",
                           "protect", "vcopy", "vlink", "vflush", "vswitch", "vrelease"}
BotSet == [pfn : Pages \cup {NoPage}, new : Pages \cup {NoPage}, file : Files \cup {NoRef},
           pc : BotPcs]

\* What the names of the module stand for.
LEMMA Names ==
  /\ Refs = Files \cup {Kern} /\ Kern \notin Files /\ Kern # NoRef /\ NoRef \notin Files
  /\ NoPage \notin Pages /\ Empty \notin Pages /\ Empty # NoPage
  BY NamesAssumption DEF Refs

\* The parts of TypeOK that the proofs below use.
LEMMA Shapes ==
  ASSUME TypeOK
  PROVE  /\ th \in [Threads -> ThreadSet] /\ bot \in BotSet
         /\ ptr \in [Refs -> Pages \cup {NoPage}]
         /\ media \in [Refs -> SUBSET (Pages \cup {NoPage})]
         /\ free \subseteq Pages /\ marks \in [Pages -> SUBSET {"using", "tired", "vmap"}]
         /\ map \in [Pages -> Files \cup {NoRef}] /\ holds \in [Pages -> Refs \cup {NoRef}]
         /\ size \in [Files -> BOOLEAN] /\ elock \in [Files -> BOOLEAN]
         /\ slot \in [Files -> Pages \cup {NoPage, Empty}] /\ pte \in [Files -> Pages \cup {NoPage}]
         /\ kpte \in Pages
  BY DEF TypeOK, ThreadSet, ThreadPcs, BotSet, BotPcs

\* A thread goes on.
LEMMA ThreadGoes ==
  ASSUME th \in [Threads -> ThreadSet], NEW t \in Threads, NEW pc \in ThreadPcs, Go(t, pc)
  PROVE  /\ th' \in [Threads -> ThreadSet]
         /\ th'[t].pc = pc /\ th'[t].op = th[t].op /\ th'[t].file = th[t].file
         /\ th'[t].again = th[t].again /\ th'[t].page = th[t].page
         /\ \A u \in Threads : u # t => th'[u] = th[u]
  BY DEF Go, ThreadSet

\* A thread goes on with a page.
LEMMA ThreadFinds ==
  ASSUME th \in [Threads -> ThreadSet], NEW t \in Threads, NEW p \in Pages,
         NEW pc \in ThreadPcs, th' = [th EXCEPT ![t].pc = pc, ![t].page = p]
  PROVE  /\ th' \in [Threads -> ThreadSet]
         /\ th'[t].pc = pc /\ th'[t].op = th[t].op /\ th'[t].file = th[t].file
         /\ th'[t].again = th[t].again /\ th'[t].page = p
         /\ \A u \in Threads : u # t => th'[u] = th[u]
  BY DEF ThreadSet, ThreadPcs

\* A thread looks again.
LEMMA ThreadRetries ==
  ASSUME th \in [Threads -> ThreadSet], NEW t \in Threads,
         th' = [th EXCEPT ![t].pc = "lookup", ![t].again = TRUE]
  PROVE  /\ th' \in [Threads -> ThreadSet]
         /\ th'[t].pc = "lookup" /\ th'[t].op = th[t].op /\ th'[t].file = th[t].file
         /\ \A u \in Threads : u # t => th'[u] = th[u]
  BY DEF ThreadSet, ThreadPcs

\* A thread has finished.
LEMMA ThreadLeaves ==
  ASSUME th \in [Threads -> ThreadSet], NEW t \in Threads, Leave(t)
  PROVE  /\ th' \in [Threads -> ThreadSet]
         /\ th'[t] = Idle /\ th'[t].op = "idle" /\ th'[t].pc = "idle" /\ th'[t].file = NoRef
         /\ \A u \in Threads : u # t => th'[u] = th[u]
  BY DEF Leave, Idle, ThreadSet, ThreadPcs

\* A thread begins.
LEMMA ThreadBegins ==
  ASSUME th \in [Threads -> ThreadSet], NEW t \in Threads, NEW op, NEW f \in Files,
         NEW pc \in ThreadPcs, Begin(t, op, f, pc)
  PROVE  /\ th' \in [Threads -> ThreadSet]
         /\ th[t].op = "idle" /\ th[t].pc = "idle" /\ th[t].file = NoRef
         /\ th'[t].op = op /\ th'[t].file = f /\ th'[t].pc = pc /\ th'[t].again = FALSE
         /\ op \in Ops
         /\ \A u \in Threads : u # t => th'[u] = th[u]
  <1>1. op \in Ops /\ th[t] = Idle /\ th' = [th EXCEPT ![t] = [Idle EXCEPT !.op = op, !.file = f, !.pc = pc]]
    BY DEF Begin
  <1>2. Idle \in ThreadSet /\ Idle.op = "idle" /\ Idle.pc = "idle" /\ Idle.file = NoRef
        /\ Idle.again = FALSE
    BY DEF Idle, ThreadSet, ThreadPcs
  <1> DEFINE new == [Idle EXCEPT !.op = op, !.file = f, !.pc = pc]
  <1>3. new \in ThreadSet /\ new.op = op /\ new.file = f /\ new.pc = pc /\ new.again = Idle.again
    <2> HIDE DEF Idle
    <2> QED BY <1>1, <1>2 DEF ThreadSet
  <1> HIDE DEF new, Idle
  <1>4. th'[t] = new
    BY <1>1 DEF new
  <1> QED BY <1>1, <1>2, <1>3, <1>4 DEF new

\* The bottom half goes on.
LEMMA BotGoes ==
  ASSUME bot \in BotSet, NEW pc \in BotPcs, BotGo(pc)
  PROVE  /\ bot' \in BotSet /\ bot'.pc = pc
         /\ bot'.pfn = bot.pfn /\ bot'.new = bot.new /\ bot'.file = bot.file
  BY DEF BotGo, BotSet

\* The bottom half goes on to the next request.
LEMMA BotFetches ==
  ASSUME BotNext
  PROVE  /\ bot' \in BotSet /\ bot'.pc = "fetch"
         /\ bot'.pfn = NoPage /\ bot'.new = NoPage /\ bot'.file = NoRef
  BY DEF BotNext, Rest, BotSet, BotPcs

\* A store keeps the type of the contents.
LEMMA StoredType ==
  ASSUME holds \in [Pages -> Refs \cup {NoRef}], NEW p, NEW r
  PROVE  Stored(p, r) \in [Pages -> Refs \cup {NoRef}]
  BY DEF Stored

\* Taking a page from the allocator, and giving it back.
LEMMA NewBlockType ==
  ASSUME TypeOK, NEW p \in free, NewBlock(p)
  PROVE  /\ p \in Pages /\ free' \subseteq Pages /\ marks' \in [Pages -> SUBSET {"using", "tired", "vmap"}]
         /\ free' = free \ {p} /\ marks'[p] = {"using"}
         /\ \A q \in Pages : q # p => marks'[q] = marks[q]
  BY Shapes DEF NewBlock

LEMMA FreeBlockType ==
  ASSUME TypeOK, NEW p \in Pages, FreeBlock(p)
  PROVE  /\ free' \subseteq Pages /\ marks' \in [Pages -> SUBSET {"using", "tired", "vmap"}]
         /\ holds' \in [Pages -> Refs \cup {NoRef}]
         /\ free' = free \cup {p} /\ marks'[p] = {"using"}
         /\ \A q \in Pages : q # p => marks'[q] = marks[q] /\ holds'[q] = holds[q]
  BY Shapes DEF FreeBlock

\* Every part of the state has its type in the next state.
TypeNext ==
  /\ th' \in [Threads -> ThreadSet] /\ bot' \in BotSet
  /\ ptr' \in [Refs -> Pages \cup {NoPage}]
  /\ media' \in [Refs -> SUBSET (Pages \cup {NoPage})]
  /\ free' \subseteq Pages /\ marks' \in [Pages -> SUBSET {"using", "tired", "vmap"}]
  /\ map' \in [Pages -> Files \cup {NoRef}] /\ holds' \in [Pages -> Refs \cup {NoRef}]
  /\ size' \in [Files -> BOOLEAN] /\ elock' \in [Files -> BOOLEAN]
  /\ slot' \in [Files -> Pages \cup {NoPage, Empty}] /\ pte' \in [Files -> Pages \cup {NoPage}]
  /\ kpte' \in Pages

\* Threads keep the type.
LEMMA ThreadTypes ==
  ASSUME TypeOK, NEW t \in Threads, Thread(t), ThreadShape
  PROVE  TypeNext /\ UNCHANGED <<kpte, wp, bot, fifo, tops, work, reqs, left>>
  <1> USE DEF ptrVars, poolVars, daxVars, kernVars, queueVars
  <1> DEFINE f == th[t].file
             Goal == TypeNext /\ UNCHANGED <<kpte, wp, bot, fifo, tops, work, reqs, left>>
  <1>1. th[t].pc # "idle" => f \in Files /\ f \in Refs
    BY Names DEF ThreadShape, Idle
  <1>2. Files \subseteq Refs /\ th[t].page \in Pages \cup {NoPage}
    BY Names, Shapes DEF ThreadSet
  <1>3. ASSUME NEW g \in Files, Read(t, g) \/ Write(t, g) \/ Fault(t, g) \/ Truncate(t, g)
        PROVE  Goal
    <2>1. th' \in [Threads -> ThreadSet]
      BY <1>3, ThreadBegins, Shapes DEF Read, Write, Fault, Truncate, ThreadPcs
    <2> QED BY <1>3, <2>1, Shapes DEF Read, Write, Fault, Truncate, TypeNext
  <1>4. CASE GrabEntry(t)
    <2>1. th' \in [Threads -> ThreadSet]
      BY <1>4, ThreadGoes, Shapes DEF GrabEntry, ThreadPcs
    <2> QED BY <1>1, <1>4, <2>1, Shapes DEF GrabEntry, TypeNext
  <1>5. CASE Lookup(t)
    <2>1. ptr[f] \in Pages \cup {NoPage}
      BY <1>1, <1>5, Shapes DEF Lookup
    <2>2. th' \in [Threads -> ThreadSet]
      BY <1>5, <2>1, ThreadGoes, ThreadFinds, Shapes DEF Lookup, ThreadPcs
    <2> QED BY <1>5, <2>2, Shapes DEF Lookup, TypeNext
  <1>6. ASSUME NEW n \in free, NewBlock(n), f \in Refs, ptr' = [ptr EXCEPT ![f] = n],
               media' = [media EXCEPT ![f] = {n}]
        PROVE  /\ n \in Pages /\ free' \subseteq Pages
               /\ marks' \in [Pages -> SUBSET {"using", "tired", "vmap"}]
               /\ ptr' \in [Refs -> Pages \cup {NoPage}]
               /\ media' \in [Refs -> SUBSET (Pages \cup {NoPage})]
    BY <1>6, NewBlockType, Shapes
  <1>7. CASE ReplaceAlloc(t)
    <2>1. CASE Go(t, "hole") /\ UNCHANGED <<free, marks>>
      BY <1>7, <2>1, ThreadGoes, Shapes DEF ThreadPcs, ReplaceAlloc, TypeNext
    <2>2. ASSUME NEW n \in free, NewBlock(n),
                 th' = [th EXCEPT ![t].pc = "tcopy", ![t].page = n]
          PROVE  Goal
      <3>1. th' \in [Threads -> ThreadSet]
        BY <2>2, NewBlockType, ThreadFinds, Shapes DEF ThreadPcs
      <3> QED BY <1>7, <2>2, <3>1, NewBlockType, Shapes DEF ReplaceAlloc, TypeNext
    <2> QED BY <1>7, <2>1, <2>2 DEF ReplaceAlloc
  <1>18. CASE ReplaceCopy(t) \/ ReplaceLink(t) \/ ReplaceFlush(t)
    <2>1. th' \in [Threads -> ThreadSet]
      BY <1>18, ThreadGoes, Shapes DEF ThreadPcs, ReplaceCopy, ReplaceLink, ReplaceFlush
    <2>2. f \in Refs
      BY <1>1, <1>18 DEF ReplaceCopy, ReplaceLink, ReplaceFlush
    <2>3. holds' \in [Pages -> Refs \cup {NoRef}]
      BY <1>18, <2>2, Shapes DEF ReplaceCopy, ReplaceLink, ReplaceFlush
    <2>4. ptr' \in [Refs -> Pages \cup {NoPage}] /\ media' \in [Refs -> SUBSET (Pages \cup {NoPage})]
      BY <1>2, <1>18, <2>2, Shapes DEF ReplaceCopy, ReplaceLink, ReplaceFlush
    <2> QED BY <1>18, <2>1, <2>3, <2>4, Shapes DEF ReplaceCopy, ReplaceLink, ReplaceFlush, TypeNext
  <1>8. ASSUME Done(t), f \in Files
        PROVE  th' \in [Threads -> ThreadSet] /\ elock' \in [Files -> BOOLEAN]
    BY <1>8, ThreadLeaves, Shapes DEF Done
  <1>9. CASE HoleEnds(t)
    <2>1. f \in Files /\ Done(t)
      BY <1>1, <1>9 DEF HoleEnds
    <2> QED BY <1>8, <1>9, <2>1, Shapes DEF HoleEnds, TypeNext
  <1>10. CASE FillHole(t)
    <2>1. th' \in [Threads -> ThreadSet] /\ f \in Refs
      BY <1>1, <1>10, ThreadRetries, Shapes DEF FillHole
    <2>2. CASE ptr[f] = NoPage
      <3>1. PICK n \in free : /\ NewBlock(n)
                              /\ holds' = [holds EXCEPT ![n] = f]
                              /\ ptr' = [ptr EXCEPT ![f] = n] /\ media' = [media EXCEPT ![f] = {n}]
        BY <1>10, <2>2 DEF FillHole
      <3>2. holds' \in [Pages -> Refs \cup {NoRef}]
        BY <2>1, <3>1, Shapes
      <3> QED BY <1>6, <1>10, <2>1, <3>1, <3>2, Shapes DEF FillHole, TypeNext
    <2>3. CASE ptr[f] # NoPage
      <3>1. holds' \in [Pages -> Refs \cup {NoRef}] /\ UNCHANGED <<ptr, media, free, marks>>
        BY <1>10, <2>3, Shapes DEF FillHole
      <3> QED BY <1>10, <2>1, <3>1, Shapes DEF FillHole, TypeNext
    <2> QED BY <2>2, <2>3
  <1>11. CASE UseRead(t)
    BY <1>11, ThreadLeaves, Shapes DEF UseRead, TypeNext
  <1>12. CASE UseWrite(t)
    <2>1. holds' \in [Pages -> Refs \cup {NoRef}] /\ size' \in [Files -> BOOLEAN]
      BY <1>1, <1>12, StoredType, Shapes DEF UseWrite
    <2> QED BY <1>12, <2>1, ThreadLeaves, Shapes DEF UseWrite, TypeNext
  <1>13. CASE UseFault(t)
    <2>1. f \in Files /\ Done(t)
      BY <1>1, <1>13 DEF UseFault
    <2>2. pte' \in [Files -> Pages \cup {NoPage}] /\ map' \in [Pages -> Files \cup {NoRef}]
          /\ slot' \in [Files -> Pages \cup {NoPage, Empty}]
      BY <1>2, <1>13, <2>1, Shapes DEF UseFault
    <2> QED BY <1>8, <1>13, <2>1, <2>2, Shapes DEF UseFault, TypeNext
  <1>14. CASE Unmap(t)
    <2>1. pte' \in [Files -> Pages \cup {NoPage}] /\ map' \in [Pages -> Files \cup {NoRef}]
          /\ slot' \in [Files -> Pages \cup {NoPage, Empty}]
      BY <1>1, <1>14, Shapes DEF Unmap
    <2> QED BY <1>14, <2>1, ThreadGoes, Shapes DEF Unmap, TypeNext, ThreadPcs
  <1>15. CASE TruncateFree(t)
    <2>1. th' \in [Threads -> ThreadSet]
      BY <1>15, ThreadGoes, ThreadLeaves, Shapes DEF TruncateFree, ThreadPcs
    <2>2. /\ free' \subseteq Pages /\ marks' \in [Pages -> SUBSET {"using", "tired", "vmap"}]
          /\ holds' \in [Pages -> Refs \cup {NoRef}]
      <3>1. CASE ptr[f] = NoPage
        BY <1>15, <3>1, Shapes DEF TruncateFree
      <3>2. CASE ptr[f] # NoPage
        <4>1. ptr[f] \in Pages /\ FreeBlock(ptr[f])
          BY <1>1, <1>15, <3>2, Shapes DEF TruncateFree
        <4> QED BY <4>1, FreeBlockType
      <3> QED BY <3>1, <3>2
    <2> QED BY <1>15, <2>1, <2>2, Shapes DEF TruncateFree, TypeNext
  <1>16. CASE TruncateClear(t)
    <2>1. ptr' \in [Refs -> Pages \cup {NoPage}] /\ media' \in [Refs -> SUBSET (Pages \cup {NoPage})]
      BY <1>16, Shapes DEF TruncateClear
    <2> QED BY <1>16, <2>1, ThreadGoes, Shapes DEF TruncateClear, TypeNext, ThreadPcs
  <1>17. CASE TruncateFence(t)
    <2>1. media' \in [Refs -> SUBSET (Pages \cup {NoPage})]
      BY <1>17, Shapes DEF TruncateFence
    <2> QED BY <1>17, <2>1, ThreadLeaves, Shapes DEF TruncateFence, TypeNext
  <1> QED BY <1>3, <1>4, <1>5, <1>7, <1>9, <1>10, <1>11, <1>12, <1>13, <1>14, <1>15, <1>16, <1>17, <1>18
          DEF Thread

\* The bottom half keeps the type.
LEMMA BotTypes ==
  ASSUME TypeOK, Bottom, Migration
  PROVE  /\ TypeNext /\ UNCHANGED <<th, size, tops, reqs>>
         /\ wp' \in BOOLEAN /\ work' \in BOOLEAN /\ left' \in BOOLEAN
         /\ fifo' \in Seq(Pages) /\ Len(fifo') <= FifoSize
  <1> USE DEF ptrVars, poolVars, daxVars, kernVars, queueVars
  <1> DEFINE Goal == /\ TypeNext /\ UNCHANGED <<th, size, tops, reqs>>
                     /\ wp' \in BOOLEAN /\ work' \in BOOLEAN /\ left' \in BOOLEAN
                     /\ fifo' \in Seq(Pages) /\ Len(fifo') <= FifoSize
  <1>1. /\ bot.pc \notin {"idle", "fetch"} => bot.pfn \in Pages
        /\ bot.pc \in {"ralloc"} \cup RmapNew => bot.file \in Files /\ bot.file \in Refs
        /\ bot.pc \in RmapNew \cup VmapNew => bot.new \in Pages
        /\ Kern \in Refs
    BY Names DEF Migration, Before, After, RmapNew, VmapNew
  <1>2. wp \in BOOLEAN /\ work \in BOOLEAN /\ left \in BOOLEAN /\ fifo \in Seq(Pages) /\ Len(fifo) <= FifoSize
    BY DEF TypeOK
  <1>3. CASE BotStart \/ BotNoSuper
    BY <1>2, <1>3, BotFetches, Shapes DEF BotStart, BotNoSuper, TypeNext
  <1>4. CASE Fetch
    <2>1. fifo' \in Seq(Pages) /\ Len(fifo') <= FifoSize
      <3>1. CASE fifo = <<>>
        BY <1>2, <1>4, <3>1 DEF Fetch
      <3>2. CASE fifo # <<>>
        <4>1. Tail(fifo) \in Seq(Pages) /\ Len(Tail(fifo)) = Len(fifo) - 1 /\ Len(fifo) \in Nat
          BY <1>2, <3>2
        <4> QED BY <1>2, <1>4, <3>2, <4>1, BoundsAssumption DEF Fetch
      <3> QED BY <3>1, <3>2
    <2>2. bot' \in BotSet
      <3>1. CASE fifo = <<>>
        BY <1>4, <3>1 DEF Fetch, Rest, BotSet, BotPcs
      <3>2. CASE fifo # <<>>
        <4>1. Head(fifo) \in Pages
          BY <1>2, <3>2
        <4>2. Service(Head(fifo)) \in BotPcs
          BY DEF Service, BotPcs
        <4>3. Rest \in BotSet
          BY DEF Rest, BotSet, BotPcs
        <4>4. [Rest EXCEPT !.pfn = Head(fifo), !.pc = Service(Head(fifo))] \in BotSet
          <5> HIDE DEF Rest
          <5> QED BY <4>1, <4>2, <4>3 DEF BotSet
        <4> QED BY <1>4, <3>2, <4>4, BotFetches DEF Fetch
      <3> QED BY <3>1, <3>2
    <2> QED BY <1>2, <1>4, <2>1, <2>2, Shapes DEF Fetch, TypeNext
  <1>5. CASE Strand
    BY <1>1, <1>2, <1>5, BotFetches, Shapes DEF Strand, TypeNext
  <1>6. CASE Grab
    <2>1. bot' \in BotSet
      <3>1. CASE map[bot.pfn] = NoRef
        BY <1>6, <3>1, BotFetches DEF Grab
      <3>2. CASE map[bot.pfn] # NoRef
        BY <1>1, <1>6, <3>2, Shapes DEF Grab, BotSet, BotPcs
      <3> QED BY <3>1, <3>2
    <2> QED BY <1>2, <1>6, <2>1, Shapes DEF Grab, TypeNext
  <1>7. ASSUME NEW n \in Pages, NEW pc \in BotPcs, bot' = [bot EXCEPT !.pc = pc, !.new = n]
        PROVE  bot' \in BotSet
    BY <1>7, Shapes DEF BotSet
  <1>8. CASE RmapAlloc
    <2>1. CASE free = {} /\ BotNext /\ UNCHANGED poolVars
      BY <1>2, <1>8, <2>1, BotFetches, Shapes DEF RmapAlloc, TypeNext
    <2>2. ASSUME NEW n \in free, NewBlock(n), bot' = [bot EXCEPT !.pc = "lock", !.new = n]
          PROVE  Goal
      <3>1. bot' \in BotSet
        BY <1>7, <2>2, NewBlockType DEF BotPcs
      <3> QED BY <1>2, <1>8, <2>2, <3>1, NewBlockType, Shapes DEF RmapAlloc, TypeNext
    <2> QED BY <1>8, <2>1, <2>2 DEF RmapAlloc
  <1>9. CASE RmapLock \/ CoreOops
    BY <1>2, <1>9, BotGoes, Shapes DEF RmapLock, CoreOops, TypeNext, BotPcs, RmapLocked
  <1>10. ASSUME NEW p \in Pages, FreeBlock(p), BotNext,
                UNCHANGED <<ptrVars, daxVars, size, kernVars, th, queueVars>>
         PROVE  Goal
    BY <1>2, <1>10, FreeBlockType, BotFetches, Shapes DEF TypeNext
  <1>11. CASE CoreBusy
    BY <1>1, <1>10, <1>11 DEF CoreBusy, RmapNew
  <1>12. CASE Core
    <2>1. map[bot.pfn] \in Files /\ bot.new \in Pages
      BY <1>1, <1>12, Shapes DEF Core, RmapNew
    <2>2. bot' \in BotSet
      BY <1>12, <2>1, Shapes DEF Core, BotSet, BotPcs, RmapLocked
    <2>3. elock' \in [Files -> BOOLEAN] /\ map' \in [Pages -> Files \cup {NoRef}]
          /\ pte' \in [Files -> Pages \cup {NoPage}]
      BY <1>12, <2>1, Shapes DEF Core
    <2> QED BY <1>2, <1>12, <2>2, <2>3, Shapes DEF Core, TypeNext
  <1>13. CASE RmapCopy
    <2>1. holds' \in [Pages -> Refs \cup {NoRef}] /\ bot' \in BotSet
      <3>1. ptr[bot.file] \in Pages \cup {NoPage}
        BY <1>1, <1>13, Shapes DEF RmapCopy, RmapNew
      <3> QED BY <1>13, <3>1, BotGoes, Shapes DEF RmapCopy, BotPcs, RmapLocked
    <2> QED BY <1>2, <1>13, <2>1, Shapes DEF RmapCopy, TypeNext
  <1>14. CASE RmapLink \/ RmapFlush
    <2>1. bot.new \in Pages /\ bot.file \in Refs
      BY <1>1, <1>14 DEF RmapLink, RmapFlush, RmapNew
    <2>2. bot' \in BotSet
      BY <1>14, BotGoes, Shapes DEF RmapLink, RmapFlush, BotPcs, RmapLocked
    <2>3. ptr' \in [Refs -> Pages \cup {NoPage}] /\ media' \in [Refs -> SUBSET (Pages \cup {NoPage})]
      BY <1>14, <2>1, Shapes DEF RmapLink, RmapFlush
    <2> QED BY <1>2, <1>14, <2>2, <2>3, Shapes DEF RmapLink, RmapFlush, TypeNext
  <1>15. CASE RmapSlot
    <2>1. bot' \in BotSet
      BY <1>15, BotGoes, Shapes DEF RmapSlot, BotPcs, RmapLocked
    <2>2. slot' \in [Files -> Pages \cup {NoPage, Empty}] /\ elock' \in [Files -> BOOLEAN]
      BY <1>1, <1>15, Shapes DEF RmapSlot, RmapNew
    <2> QED BY <1>2, <1>15, <2>1, <2>2, Shapes DEF RmapSlot, TypeNext
  <1>16. CASE RmapRelease \/ VmapRelease
    BY <1>1, <1>10, <1>16 DEF RmapRelease, VmapRelease
  <1>17. CASE VmapAlloc
    <2>1. CASE free = {} /\ BotNext /\ UNCHANGED poolVars
      BY <1>2, <1>17, <2>1, BotFetches, Shapes DEF VmapAlloc, TypeNext
    <2>2. ASSUME NEW n \in free, free' = free \ {n}, marks' = [marks EXCEPT ![n] = marks[bot.pfn]],
                 bot' = [bot EXCEPT !.pc = "protect", !.new = n]
          PROVE  Goal
      <3>1. bot' \in BotSet /\ n \in Pages
        BY <1>7, <2>2, Shapes DEF BotPcs
      <3>2. marks' \in [Pages -> SUBSET {"using", "tired", "vmap"}]
        BY <1>1, <1>17, <2>2, Shapes DEF VmapAlloc
      <3> QED BY <1>2, <1>17, <2>2, <3>1, <3>2, Shapes DEF VmapAlloc, TypeNext
    <2> QED BY <1>17, <2>1, <2>2 DEF VmapAlloc
  <1>18. CASE VmapProtect \/ VmapCopy \/ VmapSwitch
    <2>1. bot.new \in Pages /\ bot.pfn \in Pages
      BY <1>1, <1>18 DEF VmapProtect, VmapCopy, VmapSwitch, VmapNew
    <2>2. bot' \in BotSet
      BY <1>18, BotGoes, Shapes DEF VmapProtect, VmapCopy, VmapSwitch, BotPcs
    <2>3. holds' \in [Pages -> Refs \cup {NoRef}] /\ kpte' \in Pages /\ wp' \in BOOLEAN
      BY <1>2, <1>18, <2>1, Shapes DEF VmapProtect, VmapCopy, VmapSwitch
    <2> QED BY <1>2, <1>18, <2>2, <2>3, Shapes DEF VmapProtect, VmapCopy, VmapSwitch, TypeNext
  <1>19. CASE VmapLink \/ VmapFlush
    <2>1. bot.new \in Pages
      BY <1>1, <1>19 DEF VmapLink, VmapFlush, VmapNew
    <2>2. bot' \in BotSet
      BY <1>19, BotGoes, Shapes DEF VmapLink, VmapFlush, BotPcs
    <2>3. ptr' \in [Refs -> Pages \cup {NoPage}] /\ media' \in [Refs -> SUBSET (Pages \cup {NoPage})]
      BY <1>1, <1>19, <2>1, Shapes DEF VmapLink, VmapFlush
    <2> QED BY <1>2, <1>19, <2>2, <2>3, Shapes DEF VmapLink, VmapFlush, TypeNext
  <1> QED BY <1>3, <1>4, <1>5, <1>6, <1>8, <1>9, <1>11, <1>12, <1>13, <1>14, <1>15, <1>16, <1>17, <1>18, <1>19
          DEF Bottom

\* The bottom half stops only at an empty queue.
LEMMA BotKeepsQueue ==
  ASSUME TypeOK, Bottom, Migration, QueueInv
  PROVE  QueueInv'
  <1>1. tops' = tops /\ reqs' = reqs
    BY BotTypes
  <1>2. CASE Fetch /\ fifo = <<>>
    BY <1>1, <1>2 DEF Fetch, QueueInv, Scheduled
  <1>3. CASE Fetch /\ fifo # <<>>
    <2>1. bot'.pc # "idle"
      <3>1. CASE Service(Head(fifo)) = "fetch"
        BY <1>3, <3>1, BotFetches DEF Fetch
      <3>2. CASE Service(Head(fifo)) # "fetch"
        <4>1. Service(Head(fifo)) # "idle"
          BY DEF Service
        <4>2. bot' = [Rest EXCEPT !.pfn = Head(fifo), !.pc = Service(Head(fifo))]
          BY <1>3, <3>2 DEF Fetch
        <4> HIDE DEF Service
        <4> QED BY <4>1, <4>2 DEF Rest
      <3> QED BY <3>1, <3>2
    <2> QED BY <1>1, <2>1 DEF QueueInv, Scheduled
  <1>4. CASE ~Fetch
    <2> USE DEF Bottom
    <2>6. CASE BotNoSuper
      BY <1>1, <2>6 DEF BotNoSuper, QueueInv, Scheduled
    <2>1. ASSUME BotNext PROVE bot'.pc # "idle"
      BY <2>1, BotFetches
    <2>2. ASSUME NEW pc \in BotPcs \ {"idle"}, BotGo(pc) PROVE bot'.pc # "idle"
      BY <2>2, BotGoes, Shapes
    <2>3. CASE BotStart \/ Strand \/ Grab \/ CoreBusy \/ RmapRelease \/ VmapRelease
      <3>1. bot'.pc # "idle"
        <4>1. CASE BotNext
          BY <2>1, <4>1
        <4>2. CASE Grab /\ ~BotNext
          <5>1. bot' = [bot EXCEPT !.pc = "ralloc", !.file = map[bot.pfn]]
            BY <4>2 DEF Grab
          <5> QED BY <5>1, Shapes DEF BotSet
        <4> QED BY <2>3, <4>1, <4>2 DEF BotStart, Strand, Grab, CoreBusy, RmapRelease, VmapRelease
      <3> QED BY <1>1, <3>1 DEF QueueInv, Scheduled
    <2>4. CASE RmapAlloc \/ VmapAlloc \/ Core
      <3>1. bot'.pc # "idle"
        <4>1. CASE BotNext
          BY <2>1, <4>1
        <4>2. CASE ~BotNext
          <5>1. \/ \E n \in free : bot' = [bot EXCEPT !.pc = "lock", !.new = n]
                \/ \E n \in free : bot' = [bot EXCEPT !.pc = "protect", !.new = n]
                \/ bot' = [bot EXCEPT !.pc = "copy", !.file = map[bot.pfn]]
            BY <2>4, <4>2 DEF RmapAlloc, VmapAlloc, Core
          <5> QED BY <5>1, Shapes DEF BotSet
        <4> QED BY <4>1, <4>2
      <3> QED BY <1>1, <3>1 DEF QueueInv, Scheduled
    <2>5. CASE \/ RmapLock \/ CoreOops \/ RmapCopy \/ RmapLink \/ RmapFlush \/ RmapSlot
               \/ VmapProtect \/ VmapCopy \/ VmapLink \/ VmapFlush \/ VmapSwitch
      <3>1. \E pc \in BotPcs \ {"idle"} : BotGo(pc)
        BY <2>5 DEF RmapLock, CoreOops, RmapCopy, RmapLink, RmapFlush, RmapSlot,
                    VmapProtect, VmapCopy, VmapLink, VmapFlush, VmapSwitch, BotPcs, RmapLocked
      <3> QED BY <1>1, <2>2, <3>1 DEF QueueInv, Scheduled
    <2> QED BY <1>4, <2>3, <2>4, <2>5, <2>6
  <1> QED BY <1>2, <1>3, <1>4

\* Every step keeps the type, and the queue scheduled.
LEMMA TypeStep ==
  ASSUME TypeOK, QueueInv, ~raced => Good, [Next]_vars
  PROVE  TypeOK' /\ QueueInv'
  <1> USE DEF ptrVars, poolVars, daxVars, kernVars, queueVars
  <1>1. CASE UNCHANGED vars
    BY <1>1 DEF vars, TypeOK, QueueInv, Scheduled
  <1>2. CASE Next
    <2>1. Step /\ Good /\ sw' = sw /\ flat' = flat
      BY <1>2 DEF Next
    <2>2. raced' \in BOOLEAN
      BY <1>2 DEF Next, Races
    <2>3. ThreadShape /\ Migration
      BY <2>1 DEF Good
    <2>4. ASSUME TypeNext, wp' \in BOOLEAN, work' \in BOOLEAN, left' \in BOOLEAN, fifo' \in Seq(Pages),
                 Len(fifo') <= FifoSize, tops' \in 0 .. MaxReq, reqs' \in 0 .. MaxReq
          PROVE  TypeOK'
      BY <2>1, <2>2, <2>4 DEF TypeNext, TypeOK, ThreadSet, ThreadPcs, BotSet, BotPcs
    <2>5. /\ wp \in BOOLEAN /\ work \in BOOLEAN /\ left \in BOOLEAN /\ fifo \in Seq(Pages) /\ Len(fifo) <= FifoSize
          /\ tops \in 0 .. MaxReq /\ reqs \in 0 .. MaxReq
      BY DEF TypeOK
    <2>6. ASSUME NEW t \in Threads, Thread(t)
          PROVE  TypeOK' /\ QueueInv'
      <3>1. TypeNext /\ UNCHANGED <<kpte, wp, bot, fifo, tops, work, reqs, left>>
        BY <2>3, <2>6, ThreadTypes
      <3> QED BY <2>4, <2>5, <3>1 DEF QueueInv, Scheduled
    <2>7. ASSUME NEW f \in Files, Extend(f) \/ UserStore(f)
          PROVE  TypeOK' /\ QueueInv'
      <3>1. holds' \in [Pages -> Refs \cup {NoRef}]
        <4>1. Stored(pte[f], f) \in [Pages -> Refs \cup {NoRef}]
          BY StoredType, Shapes
        <4> QED BY <2>7, <4>1, Shapes DEF Extend, UserStore
      <3>2. size' \in [Files -> BOOLEAN]
        BY <2>7, Shapes DEF Extend, UserStore
      <3>3. UNCHANGED <<bot, fifo, tops, work, reqs, left, wp>>
        BY <2>7 DEF Extend, UserStore
      <3>4. TypeNext
        BY <2>7, <3>1, <3>2, Shapes DEF Extend, UserStore, TypeNext
      <3> QED BY <2>4, <2>5, <3>3, <3>4 DEF QueueInv, Scheduled
    <2>8. CASE KernStore
      <3>1. TypeNext
        BY <2>8, StoredType, Shapes DEF KernStore, TypeNext
      <3>2. UNCHANGED <<bot, fifo, tops, work, reqs, left, wp>>
        BY <2>8 DEF KernStore
      <3> QED BY <2>4, <2>5, <3>1, <3>2 DEF QueueInv, Scheduled
    <2>9. ASSUME NEW p \in Pages, TopIn(p)
          PROVE  TypeOK' /\ QueueInv'
      <3>1. UNCHANGED <<bot, work, left, wp>> /\ TypeNext
        BY <2>9, Shapes DEF TopIn, TypeNext
      <3>2. reqs' \in 0 .. MaxReq /\ reqs' = reqs + 1 /\ tops <= reqs
        BY <2>5, <2>9, BoundsAssumption DEF TopIn, QueueInv
      <3>3. CASE Len(fifo) < FifoSize
        <4>1. fifo' = Append(fifo, p) /\ tops' = tops + 1
          BY <2>9, <3>3 DEF TopIn
        <4>2. fifo' \in Seq(Pages) /\ Len(fifo') = Len(fifo) + 1 /\ Len(fifo) \in Nat
          BY <2>5, <4>1
        <4>3. Len(fifo') <= FifoSize
          BY <3>3, <4>2, BoundsAssumption
        <4>4. tops' \in 0 .. MaxReq /\ tops' <= reqs' /\ tops' > 0
          BY <2>5, <3>2, <4>1, BoundsAssumption
        <4> QED BY <2>4, <2>5, <3>1, <3>2, <4>2, <4>3, <4>4 DEF QueueInv, Scheduled
      <3>4. CASE ~(Len(fifo) < FifoSize)
        <4>1. fifo' = fifo /\ tops' = tops
          BY <2>9, <3>4 DEF TopIn
        <4>2. tops' <= reqs'
          BY <2>5, <3>2, <4>1
        <4> QED BY <2>4, <2>5, <3>1, <3>2, <4>1, <4>2 DEF QueueInv, Scheduled
      <3> QED BY <3>3, <3>4
    <2>10. CASE TopQueue
      <3>1. UNCHANGED <<bot, fifo, wp, reqs>> /\ TypeNext /\ work' = TRUE /\ left' = FALSE
        BY <2>10, Shapes DEF TopQueue, TypeNext
      <3>2. tops' \in 0 .. MaxReq /\ tops' <= reqs'
        BY <2>5, <2>10, <3>1, BoundsAssumption DEF TopQueue, QueueInv
      <3> QED BY <2>4, <2>5, <3>1, <3>2 DEF QueueInv, Scheduled
    <2>11. CASE Bottom
      <3>1. /\ TypeNext /\ UNCHANGED <<th, size, tops, reqs>>
            /\ wp' \in BOOLEAN /\ work' \in BOOLEAN /\ left' \in BOOLEAN
         /\ fifo' \in Seq(Pages) /\ Len(fifo') <= FifoSize
        BY <2>3, <2>11, BotTypes
      <3>2. TypeOK'
        BY <2>4, <2>5, <3>1
      <3> QED BY <2>3, <2>11, <3>2, BotKeepsQueue
    <2> QED BY <2>1, <2>6, <2>7, <2>8, <2>9, <2>10, <2>11 DEF Step
  <1> QED BY <1>1, <1>2

-----------------------------------------------------------------------------
(* Consequences of the invariant.                                          *)

\* Files whose block is not being taken away.
LEMMA NotCutting ==
  ASSUME TypeOK, Good
  PROVE  /\ ~Cutting(Kern)
         /\ \A t \in Threads : th[t].op \in {"read", "write", "fault"} => ~Cutting(th[t].file)
         /\ \A t \in Threads : th[t].pc \in {"unmap", "free"} => ~Cutting(th[t].file)
         /\ bot.pc \in RmapLocked => ~Cutting(bot.file)
         /\ \A f \in Files : slot[f] # NoPage \/ pte[f] # NoPage => ~Cutting(f)
  <1>1. \A u \in Threads : th[u].pc \in {"clear", "fence"} => th[u].op = "truncate" /\ th[u].file \in Files
    BY DEF Good, ThreadShape
  <1>2. ~Cutting(Kern)
    BY <1>1, Names DEF Cutting
  <1>3. ASSUME NEW t \in Threads, th[t].op \in {"read", "write", "fault"}
        PROVE  ~Cutting(th[t].file)
    BY <1>1, <1>3 DEF Good, Semaphores, Truncations, Cutting
  <1>4. ASSUME NEW t \in Threads, th[t].pc \in {"unmap", "free"}
        PROVE  ~Cutting(th[t].file)
    <2>1. th[t].op = "truncate"
      BY <1>4 DEF Good, ThreadShape
    <2> QED BY <1>1, <1>4, <2>1 DEF Good, Semaphores, Cutting
  <1>5. bot.pc \in RmapLocked => ~Cutting(bot.file)
    BY <1>1 DEF Good, Semaphores, Cutting
  <1>6. \A f \in Files : slot[f] # NoPage \/ pte[f] # NoPage => ~Cutting(f)
    BY DEF Good, Truncations, Cutting
  <1> QED BY <1>2, <1>3, <1>4, <1>5, <1>6

\* A DAX entry with a page has the page of the tree, unless a migration is at it.
LEMMA SlotPage ==
  ASSUME TypeOK, Good, NEW f \in Files, slot[f] \in Pages
  PROVE  /\ ~Cutting(f)
         /\ IF BotHolds(f) THEN slot[f] = bot.pfn /\ pte[f] = NoPage
                           ELSE slot[f] = ptr[f] /\ map[slot[f]] = f
  <1>1. ~Cutting(f)
    BY NotCutting, Names
  <1> QED BY <1>1 DEF Good, Mappings, Migration, BotHolds

\* The page a process has mapped is the page of the tree.
LEMMA PtePage ==
  ASSUME TypeOK, Good, NEW f \in Files, pte[f] # NoPage
  PROVE  /\ ~Cutting(f) /\ ~BotHolds(f) /\ pte[f] \in Pages
         /\ pte[f] = slot[f] /\ pte[f] = ptr[f] /\ map[pte[f]] = f
  <1>1. pte[f] \in Pages /\ pte[f] = slot[f]
    BY Shapes DEF Good, Mappings
  <1> QED BY <1>1, SlotPage

\* The page of the kernel is that of the table, or the old one.
LEMMA KernelPages ==
  ASSUME TypeOK, Good
  PROVE  /\ ptr[Kern] \in Pages
         /\ kpte = ptr[Kern] \/ (bot.pc \in {"vflush", "vswitch"} /\ kpte = Spare /\ wp)
  BY Shapes, Names DEF Good, Owners, Migration, Spare, Before, After

\* The two pages of a migration.
LEMMA MigrationPages ==
  ASSUME TypeOK, Good, bot.pc \in Before \cup After
  PROVE  /\ bot.new \in Pages /\ bot.pfn \in Pages /\ Spare \in Pages
         /\ bot.new = Spare \/ \E r \in Refs : ~Cutting(r) /\ bot.new = ptr[r]
         /\ bot.pc \notin {"lock", "core"} =>
              bot.pfn = Spare \/ \E r \in Refs : ~Cutting(r) /\ bot.pfn = ptr[r]
  <1>1. /\ bot.new \in Pages /\ bot.pfn \in Pages
        /\ bot.pc \in {"ralloc"} \cup RmapNew => bot.file \in Files
    BY DEF Good, Migration, Before, After
  <1>2. ~Cutting(Kern) /\ (bot.pc \in RmapLocked => ~Cutting(bot.file)) /\ Kern \in Refs
        /\ (bot.pc \in RmapNew => bot.file \in Refs)
    BY <1>1, NotCutting, Names
  <1>3. CASE bot.pc \in {"lock", "core"}
    BY <1>1, <1>3 DEF Spare, Before, After
  <1>4. CASE bot.pc \in {"copy", "link"}
    <2>1. bot.pfn = ptr[bot.file] /\ Spare = bot.new
      BY <1>4 DEF Good, Migration, Spare, Before
    <2> QED BY <1>1, <1>2, <1>4, <2>1 DEF RmapLocked, RmapNew
  <1>5. CASE bot.pc \in {"flush", "slot", "release"}
    <2>1. bot.new = ptr[bot.file] /\ Spare = bot.pfn
      BY <1>5 DEF Good, Migration, Spare, Before, After
    <2> QED BY <1>1, <1>2, <1>5, <2>1 DEF RmapLocked, RmapNew
  <1>6. CASE bot.pc \in {"protect", "vcopy", "vlink"}
    <2>1. bot.pfn = ptr[Kern] /\ Spare = bot.new
      BY <1>6 DEF Good, Migration, Spare, Before
    <2> QED BY <1>1, <1>2, <1>6, <2>1
  <1>7. CASE bot.pc \in {"vflush", "vswitch", "vrelease"}
    <2>1. bot.new = ptr[Kern] /\ Spare = bot.pfn
      BY <1>7 DEF Good, Migration, Spare, Before, After
    <2> QED BY <1>1, <1>2, <1>7, <2>1
  <1> QED BY <1>3, <1>4, <1>5, <1>6, <1>7 DEF Before, After

\* Nobody uses a free page.
LEMMA FreePage ==
  ASSUME TypeOK, Good, NEW p \in free
  PROVE  /\ p \in Pages /\ map[p] = NoRef /\ "vmap" \notin marks[p] /\ p # Spare
         /\ \A r \in Refs : ~Cutting(r) => ptr[r] # p
         /\ \A f \in Files : slot[f] # p /\ pte[f] # p
         /\ p # kpte /\ p # bot.new
         /\ bot.pc \in Holding \cup After \cup VmapNew => p # bot.pfn
  <1>1. p \in Pages /\ p # NoPage /\ (\A r \in Refs : ~Cutting(r) => ptr[r] # p)
    BY Shapes, Names DEF Good, Owners
  <1>2. p # Spare
    BY <1>1 DEF Good, Owners
  <1>3. p # bot.new
    <2>1. CASE bot.pc \in Before \cup After
      BY <1>1, <1>2, <2>1, MigrationPages
    <2>2. CASE bot.pc \notin Before \cup After
      BY <1>1, <2>2 DEF Good, Migration
    <2> QED BY <2>1, <2>2
  <1>4. bot.pc \in Holding \cup After \cup VmapNew => p # bot.pfn
    BY <1>1, <1>2, MigrationPages DEF Holding, Before, After, VmapNew
  <1>5. ASSUME NEW f \in Files PROVE slot[f] # p /\ pte[f] # p
    <2>1. slot[f] # p
      <3> SUFFICES ASSUME slot[f] = p PROVE FALSE
        OBVIOUS
      <3>1. CASE BotHolds(f)
        BY <1>1, <1>4, <3>1, SlotPage DEF BotHolds
      <3>2. CASE ~BotHolds(f)
        BY <1>1, <3>2, SlotPage, Names
      <3> QED BY <3>1, <3>2
    <2>2. pte[f] # p
      BY <1>1, <2>1, PtePage
    <2> QED BY <2>1, <2>2
  <1>6. p # kpte
    BY <1>1, <1>2, KernelPages, NotCutting, Names
  <1>7. map[p] = NoRef
    <2> SUFFICES ASSUME NEW f \in Files, map[p] = f PROVE FALSE
      BY <1>1, Shapes
    <2>1. p = IF BotHolds(f) THEN bot.new ELSE slot[f]
      BY <1>1 DEF Good, Mappings
    <2> QED BY <1>3, <1>5, <2>1
  <1>8. "vmap" \notin marks[p]
    BY <1>1, <1>3, <1>4, NotCutting, Names DEF Good, Marks
  <1> QED BY <1>1, <1>2, <1>3, <1>4, <1>5, <1>6, <1>7, <1>8

-----------------------------------------------------------------------------
(* What a step leaves alone.                                               *)

Parts == Migration /\ Owners /\ Mappings /\ Marks /\ Contents /\ Durable
SameCuts == \A r \in Refs : Cutting(r)' <=> Cutting(r)

\* A step of one thread.
Alone(t) == /\ th' \in [Threads -> ThreadSet]
            /\ \A u \in Threads : u # t => th'[u] = th[u]

LEMMA CutsKept ==
  ASSUME NEW t \in Threads, Alone(t), th[t].pc \notin {"clear", "fence"},
         th'[t].pc \notin {"clear", "fence"}
  PROVE  SameCuts
  BY DEF Alone, SameCuts, Cutting

\* What the media has stays good when its pages keep their content and nobody frees
\* or uses them.
LEMMA DurableKept ==
  ASSUME TypeOK, Good, SameCuts, free' \subseteq free, UNCHANGED <<ptr, media, holds, bot>>
  PROVE  Durable'
  <1>1. Spare' = Spare /\ \A r \in Refs : Flushing(r)' <=> Flushing(r)
    BY DEF Spare, Flushing
  <1> QED BY <1>1 DEF Good, Durable, Stale, SameCuts

\* The pages are where they were.
LEMMA PartsKept ==
  ASSUME TypeOK, Good, SameCuts,
         UNCHANGED <<ptr, media, free, marks, map, holds, slot, pte, kpte, wp, bot>>
  PROVE  Parts'
  <1>1. Migration'
    BY DEF Good, Migration
  <1>2. Owners'
    BY DEF Good, Owners, SameCuts, Spare
  <1>3. Mappings'
    BY DEF Good, Mappings, BotHolds
  <1>4. Marks'
    BY DEF Good, Marks
  <1>5. Contents'
    BY DEF Good, Contents, SameCuts
  <1>6. Durable'
    BY DurableKept
  <1> QED BY <1>1, <1>2, <1>3, <1>4, <1>5, <1>6 DEF Parts

\* A thread that keeps its operation, or ends it, keeps the semaphores.
LEMMA SemaphoresKept ==
  ASSUME TypeOK, Good, NEW t \in Threads, Alone(t), bot'.pc \in RmapLocked => bot.pc \in RmapLocked,
         bot'.pc \in RmapLocked => bot'.file = bot.file,
         (th'[t].op = th[t].op /\ th'[t].file = th[t].file) \/ th'[t].op = "idle"
  PROVE  Semaphores'
  <1>1. ASSUME NEW u \in Threads, th'[u].op \in {"read", "write", "truncate"}
        PROVE  th'[u].op = th[u].op /\ th'[u].file = th[u].file
    BY <1>1 DEF Alone
  <1>2. ASSUME NEW u \in Threads, NEW v \in Threads, u # v, th'[u].file = th'[v].file,
               th'[u].op \in {"write", "truncate"}
        PROVE  th'[v].op \notin {"read", "write", "truncate"}
    BY <1>1, <1>2 DEF Good, Semaphores
  <1>3. ASSUME NEW u \in Threads, th'[u].op \in {"write", "truncate"}, bot'.pc \in RmapLocked
        PROVE  th'[u].file # bot'.file
    BY <1>1, <1>3 DEF Good, Semaphores
  <1> QED BY <1>2, <1>3 DEF Semaphores

\* Nobody takes an entry, and who has one keeps it locked.
LEMMA EntriesKept ==
  ASSUME TypeOK, Good, NEW t \in Threads, Alone(t), bot' = bot,
         \A f \in Files : FaultHolds(t, f)' => FaultHolds(t, f),
         \A f \in Files : elock'[f] = elock[f] \/ (FaultHolds(t, f) /\ ~FaultHolds(t, f)'),
         \A f \in Files : elock[f] /\ slot[f] # NoPage => slot'[f] # NoPage
  PROVE  Entries'
  <1> SUFFICES ASSUME NEW f \in Files
               PROVE  /\ BotHolds(f)' => elock'[f]
                      /\ \A u \in Threads : FaultHolds(u, f)' =>
                           /\ elock'[f] /\ slot'[f] # NoPage /\ ~BotHolds(f)'
                           /\ \A v \in Threads : FaultHolds(v, f)' => v = u
    BY DEF Entries
  <1>1. \A u \in Threads : FaultHolds(u, f)' => FaultHolds(u, f)
    <2>1. \A u \in Threads : u # t => (FaultHolds(u, f)' <=> FaultHolds(u, f))
      BY DEF FaultHolds, Alone
    <2> QED BY <2>1
  <1>2. BotHolds(f)' <=> BotHolds(f)
    BY DEF BotHolds
  <1>3. /\ BotHolds(f) => elock[f]
        /\ \A u \in Threads : FaultHolds(u, f) =>
             elock[f] /\ slot[f] # NoPage /\ ~BotHolds(f) /\ \A v \in Threads : FaultHolds(v, f) => v = u
    BY DEF Good, Entries
  <1>4. BotHolds(f)' => elock'[f]
    BY <1>2, <1>3
  <1>5. ASSUME NEW u \in Threads, FaultHolds(u, f)'
        PROVE  /\ elock'[f] /\ slot'[f] # NoPage /\ ~BotHolds(f)'
               /\ \A v \in Threads : FaultHolds(v, f)' => v = u
    <2>1. FaultHolds(u, f)
      BY <1>1, <1>5
    <2>2. elock'[f] = elock[f]
      BY <1>3, <1>5, <2>1
    <2> QED BY <1>1, <1>2, <1>3, <2>1, <2>2
  <1> QED BY <1>4, <1>5

\* What the others have looked up, while trees and marks stay.
LookedUpBy(t) ==
  /\ th[t].pc \in Replacing =>
       /\ th[t].file \notin flat /\ ptr[th[t].file] # NoPage
       /\ "tired" \in marks[ptr[th[t].file]]
  /\ th[t].pc \in {"tflush", "use"} /\ th[t].op \in {"write", "fault"} =>
       th[t].page # NoPage /\ th[t].page = ptr[th[t].file]
  /\ th[t].pc = "hole" /\ th[t].op = "write" /\ ~th[t].again => ptr[th[t].file] = NoPage
  /\ th[t].pc = "fence" => ptr[th[t].file] = NoPage

LEMMA LookedUpKept ==
  ASSUME TypeOK, Good, NEW t \in Threads, Alone(t), UNCHANGED <<ptr, marks, flat>>, LookedUpBy(t)'
  PROVE  LookedUp'
  <1>1. ASSUME NEW u \in Threads, u # t PROVE LookedUpBy(u)'
    <2>1. LookedUpBy(u)
      BY DEF Good, LookedUp, LookedUpBy
    <2> QED BY <1>1, <2>1 DEF LookedUpBy, Alone
  <1>2. \A u \in Threads : LookedUpBy(u)'
    BY <1>1
  <1> QED BY <1>2 DEF LookedUp, LookedUpBy

LEMMA GoodNext ==
  ASSUME ThreadShape', Semaphores', Entries', Truncations', LookedUp', Parts', Replacements'
  PROVE  Good'
  BY DEF Good, Parts

\* A thread that replaces a tired page when the page it prepares stays its own; the media
\* lags behind the tree where it did.
LEMMA ReplacementsKept ==
  ASSUME TypeOK, Good,
         \A t \in Threads : Prepares(t)' => th'[t] = th[t] /\ Private(th[t].page)',
         \A t \in Threads : th'[t].pc = "tlink" => holds'[th[t].page] = holds[th[t].page],
         \A t \in Threads : th[t].pc = "tflush" <=> th'[t].pc = "tflush",
         \A t \in Threads : th[t].pc = "tflush" =>
           th'[t].file = th[t].file /\ (slot[th[t].file] \notin Pages => slot'[th[t].file] \notin Pages),
         \A r \in Refs : ~Cutting(r)' /\ ~Flushing(r)' =>
           \/ media'[r] = {ptr'[r]}
           \/ ~Cutting(r) /\ ~Flushing(r) /\ media'[r] = media[r] /\ ptr'[r] = ptr[r]
  PROVE  Replacements'
  <1>1. ASSUME NEW t \in Threads, Prepares(t)'
        PROVE  /\ Private(th[t].page)'
               /\ th'[t].pc = "tlink" => holds'[th'[t].page] = th'[t].file
               /\ \A u \in Threads : Prepares(u)' /\ th'[u].page = th'[t].page => u = t
    BY <1>1 DEF Good, Replacements, Prepares
  <1>2. ASSUME NEW t \in Threads, th'[t].pc = "tflush"
        PROVE  slot'[th'[t].file] \notin Pages
    BY <1>2 DEF Good, Replacements
  <1>3. ASSUME NEW r \in Refs, ~Cutting(r)', ~Flushing(r)', \A t \in Threads : ~Lags(t, r)'
        PROVE  media'[r] = {ptr'[r]}
    BY <1>3 DEF Good, Replacements, Lags
  <1> QED BY <1>1, <1>2, <1>3 DEF Replacements

\* The steps that change nothing of this.
LEMMA ReplacementsStay ==
  ASSUME TypeOK, Good, SameCuts, free' \subseteq free, UNCHANGED <<ptr, media, holds, bot>>,
         \A t \in Threads : th'[t].pc \in {"tcopy", "tlink", "tflush"} \/ th[t].pc = "tflush" => th'[t] = th[t],
         \A t \in Threads : th[t].pc = "tflush" /\ slot[th[t].file] \notin Pages =>
           slot'[th[t].file] \notin Pages
  PROVE  Replacements'
  <1>1. Spare' = Spare /\ \A r \in Refs : Flushing(r)' <=> Flushing(r)
    BY DEF Spare, Flushing
  <1>2. ASSUME NEW t \in Threads, Prepares(t)'
        PROVE  th'[t] = th[t] /\ Private(th[t].page)'
    BY <1>1, <1>2 DEF Good, Replacements, Prepares, Private, SameCuts
  <1>3. \A r \in Refs : ~Cutting(r)' /\ ~Flushing(r)' => ~Cutting(r) /\ ~Flushing(r)
    BY <1>1 DEF SameCuts
  <1> QED BY <1>2, <1>3, ReplacementsKept DEF Prepares

\* Where nobody is about to flush, the media has what the tree has.
LEMMA MediaExact ==
  ASSUME TypeOK, Good, NEW r \in Refs, ~Cutting(r), ~Flushing(r),
         r \in Files => slot[r] \in Pages \/ \A t \in Threads : ~Lags(t, r)
  PROVE  media[r] = {ptr[r]}
  <1>1. ASSUME NEW t \in Threads, Lags(t, r)
        PROVE  r \in Files /\ slot[r] \notin Pages
    BY <1>1 DEF Good, ThreadShape, Idle, Replacements, Lags
  <1> QED BY <1>1 DEF Good, Replacements

-----------------------------------------------------------------------------
(* The steps of threads that leave the pages alone.                        *)

LEMMA GoodBegin ==
  ASSUME TypeOK, Good, UNCHANGED flat, NEW t \in Threads, NEW f \in Files,
         Read(t, f) \/ Write(t, f) \/ Fault(t, f) \/ Truncate(t, f)
  PROVE  Good'
  <1> USE DEF ptrVars, poolVars, daxVars, kernVars, queueVars
  <1> DEFINE Begun(op, pc) ==
               /\ Begin(t, op, f, pc)
               /\ op = "fault" <=> pc = "entry"
               /\ op = "truncate" <=> pc = "unmap"
               /\ op = "fault" => size[f]
               /\ op = "read" => Exclusive(f) = {}
               /\ op \in {"write", "truncate"} => Shared(f) \cup Exclusive(f) = {}
               /\ size' = IF op = "truncate" THEN [size EXCEPT ![f] = FALSE] ELSE size
               /\ UNCHANGED <<ptr, media, free, marks, map, holds, slot, pte, elock, kpte, wp, bot>>
  <1>1. PICK op \in {"read", "write", "fault", "truncate"}, pc \in {"lookup", "entry", "unmap"} :
          Begun(op, pc)
    <2>1. Begun("read", "lookup") \/ Begun("write", "lookup") \/ Begun("fault", "entry")
          \/ Begun("truncate", "unmap")
      BY DEF Read, Write, Fault, Truncate
    <2> QED BY <2>1
  <1>2. Begun(op, pc)
    BY <1>1
  <1>3. /\ Alone(t) /\ th[t].op = "idle" /\ th[t].pc = "idle" /\ th[t].file = NoRef
        /\ th'[t].op = op /\ th'[t].file = f /\ th'[t].pc = pc /\ th'[t].again = FALSE
    <2>1. Begin(t, op, f, pc) /\ pc \in ThreadPcs
      BY <1>2 DEF ThreadPcs
    <2> HIDE DEF Begun
    <2>2. th \in [Threads -> ThreadSet]
      BY Shapes
    <2> QED BY <2>1, <2>2, ThreadBegins DEF Alone
  <1>4. SameCuts
    BY <1>3, CutsKept
  <1>5. Parts'
    BY <1>2, <1>4, PartsKept
  <1>6. ThreadShape'
    BY <1>2, <1>3 DEF Good, ThreadShape, Alone
  <1>7. LookedUp'
    BY <1>2, <1>3, LookedUpKept DEF LookedUpBy, Replacing
  <1>8. Entries'
    BY <1>2, <1>3, EntriesKept DEF FaultHolds, Replacing
  <1>9. Semaphores'
    <2>1. \A u \in Threads : u # t => th'[u] = th[u]
      BY <1>3 DEF Alone
    <2>2. op \in {"read", "write", "truncate"} =>
            \A u \in Threads : th[u].op \in {"write", "truncate"} => th[u].file # f
      BY <1>2 DEF Exclusive
    <2>3. op \in {"write", "truncate"} =>
            (\A u \in Threads : th[u].op = "read" => th[u].file # f)
            /\ (bot.pc \in RmapLocked => bot.file # f)
      BY <1>2 DEF Shared
    <2> QED BY <1>2, <1>3, <2>1, <2>2, <2>3 DEF Good, Semaphores
  <1>10. Truncations'
    <2>1. \A u \in Threads : u # t => th'[u] = th[u]
      BY <1>3 DEF Alone
    <2>2. op = "fault" => \A u \in Threads : th[u].op = "truncate" => th[u].file # f
      BY <1>2 DEF Good, Truncations
    <2>3. ASSUME NEW u \in Threads, th'[u].op = "truncate" PROVE ~size'[th'[u].file]
      <3>1. CASE u = t
        BY <1>2, <1>3, <2>3, <3>1, Shapes
      <3>2. CASE u # t
        <4>1. th[u].file \in Files /\ ~size[th[u].file]
          BY <2>1, <2>3, <3>2 DEF Good, Truncations, ThreadShape
        <4> QED BY <1>2, <2>1, <3>2, <4>1, Shapes
      <3> QED BY <3>1, <3>2
    <2>4. ASSUME NEW u \in Threads, th'[u].pc \in {"free", "clear", "fence"}
          PROVE  u # t /\ th'[u] = th[u] /\ th[u].op = "truncate"
      BY <1>3, <2>1, <2>4 DEF Good, ThreadShape
    <2>5. ASSUME NEW u \in Threads, th'[u].pc \in {"clear", "fence"}
          PROVE  \A v \in Threads : th'[v].op = "fault" => th'[v].file # th'[u].file
      BY <1>3, <2>1, <2>2, <2>4, <2>5 DEF Good, Truncations
    <2> QED BY <1>2, <2>3, <2>4, <2>5 DEF Good, Truncations
  <1>11. Replacements'
    BY <1>2, <1>3, <1>4, ReplacementsStay DEF Alone
  <1> QED BY <1>5, <1>6, <1>7, <1>8, <1>9, <1>10, <1>11, GoodNext

LEMMA GoodGrabEntry ==
  ASSUME TypeOK, Good, ~Races, UNCHANGED flat, NEW t \in Threads, GrabEntry(t)
  PROVE  Good'
  <1> USE DEF ptrVars, poolVars, daxVars, kernVars, queueVars
  <1>0. PICK f \in Files : f = th[t].file
    BY DEF GrabEntry, Good, ThreadShape
  <1>1. /\ th[t].file = f
        /\ th[t].pc = "entry" /\ th[t].op = "fault" /\ f \in Files /\ ~elock[f]
        /\ UNCHANGED <<ptr, media, free, marks, map, holds, size, pte, kpte, wp, bot>>
        /\ elock' = [elock EXCEPT ![f] = TRUE]
        /\ slot' = [slot EXCEPT ![f] = IF @ = NoPage THEN Empty ELSE @]
    BY <1>0 DEF GrabEntry, Good, ThreadShape
  <1>2. /\ Alone(t) /\ th'[t].op = "fault" /\ th'[t].file = f /\ th'[t].pc = "lookup"
        /\ \A u \in Threads : u # t => th'[u] = th[u]
    BY <1>1, ThreadGoes, Shapes DEF GrabEntry, Alone, ThreadPcs
  <1>3. /\ SameCuts /\ ~Cutting(f) /\ ~BotHolds(f)
        /\ \A u \in Threads : ~FaultHolds(u, f)
    BY <1>1, <1>2, CutsKept, NotCutting DEF Good, Entries
  <1>4. /\ \A g \in Files : g # f => slot'[g] = slot[g] /\ elock'[g] = elock[g]
        /\ elock'[f]
        /\ slot[f] # NoPage => slot'[f] = slot[f]
        /\ slot[f] = NoPage => slot'[f] = Empty
    BY <1>1, Shapes
  <1>5. Migration'
    <2>1. bot.pc \in Holding => bot.file # f /\ bot.file \in Files /\ slot'[bot.file] = slot[bot.file]
      BY <1>1, <1>3, <1>4 DEF BotHolds, Good, Migration, Holding, RmapNew
    <2> QED BY <1>1, <2>1 DEF Good, Migration
  <1>6. Owners' /\ Marks' /\ Contents' /\ Durable'
    <2>1. Owners'
      BY <1>1, <1>3 DEF Good, Owners, SameCuts, Spare
    <2>2. Contents'
      BY <1>1, <1>3 DEF Good, Contents, SameCuts
    <2>3. Durable'
      BY <1>1, <1>3, DurableKept
    <2> QED BY <1>1, <2>1, <2>2, <2>3 DEF Good, Marks
  <1>7. Mappings'
    <2> SUFFICES ASSUME NEW g \in Files
                 PROVE  /\ slot'[g] \in Pages /\ ~BotHolds(g) => slot'[g] = ptr[g] /\ map[slot'[g]] = g
                        /\ pte[g] # NoPage => pte[g] = slot'[g]
                        /\ \A p \in Pages : map[p] = g => p = IF BotHolds(g) THEN bot.new ELSE slot'[g]
      BY <1>1 DEF Mappings, BotHolds
    <2>1. /\ slot[g] \in Pages /\ ~BotHolds(g) => slot[g] = ptr[g] /\ map[slot[g]] = g
          /\ pte[g] # NoPage => pte[g] = slot[g]
          /\ \A p \in Pages : map[p] = g => p = IF BotHolds(g) THEN bot.new ELSE slot[g]
      BY DEF Good, Mappings
    <2> QED BY <1>3, <1>4, <2>1, Names
  <1>8. ThreadShape'
    BY <1>1, <1>2 DEF Good, ThreadShape
  <1>9. Semaphores'
    BY <1>1, <1>2, SemaphoresKept
  <1>10. LookedUp'
    BY <1>1, <1>2, LookedUpKept DEF LookedUpBy, Replacing
  <1>11. Entries'
    <2>1. \A g \in Files : BotHolds(g)' <=> BotHolds(g)
      BY <1>1 DEF BotHolds
    <2>2. \A g \in Files : g # f => \A u \in Threads : FaultHolds(u, g)' <=> FaultHolds(u, g)
      <3>1. \A g \in Files : g # f => ~FaultHolds(t, g) /\ ~FaultHolds(t, g)'
        BY <1>1, <1>2 DEF FaultHolds
      <3>2. \A g \in Files : \A u \in Threads : u # t => (FaultHolds(u, g)' <=> FaultHolds(u, g))
        BY <1>2 DEF FaultHolds
      <3> QED BY <3>1, <3>2
    <2>3. \A u \in Threads : FaultHolds(u, f)' => u = t
      BY <1>2, <1>3 DEF FaultHolds
    <2>4. slot'[f] # NoPage
      BY <1>4, Names
    <2> QED BY <1>3, <1>4, <2>1, <2>2, <2>3, <2>4 DEF Good, Entries
  <1>12. Truncations'
    <2>1. ASSUME NEW u \in Threads, th'[u].op = "truncate" \/ th'[u].pc \in {"free", "clear", "fence"}
          PROVE  u # t /\ th'[u] = th[u] /\ th[u].op = "truncate" /\ th[u].file \in Files
      BY <1>2, <2>1 DEF Good, ThreadShape
    <2>2. ASSUME NEW u \in Threads, th[u].pc \in {"free", "clear", "fence"}
          PROVE  th[u].file # f
      BY <1>1, <2>2 DEF Races, LateFault, Good, Truncations
    <2>3. ASSUME NEW u \in Threads, th'[u].pc \in {"clear", "fence"}
          PROVE  \A v \in Threads : th'[v].op = "fault" => th'[v].file # th'[u].file
      BY <1>1, <1>2, <2>1, <2>2, <2>3 DEF Good, Truncations
    <2> QED BY <1>1, <1>4, <2>1, <2>2, <2>3 DEF Good, Truncations
  <1>13. Replacements'
    <2>1. \A g \in Files : slot[g] \notin Pages => slot'[g] \notin Pages
      BY <1>4, Names
    <2>2. \A u \in Threads : th[u].pc = "tflush" => th[u].file \in Files
      BY DEF Good, ThreadShape, Idle
    <2> QED BY <1>1, <1>2, <1>3, <2>1, <2>2, ReplacementsStay
  <1> QED BY <1>5, <1>6, <1>7, <1>8, <1>9, <1>10, <1>11, <1>12, <1>13, GoodNext DEF Parts

\* A step of a thread that goes on, or ends, and leaves entries and processes alone.
Onward(t) ==
  /\ Alone(t) /\ UNCHANGED <<slot, pte, bot>>
  /\ th'[t] = Idle \/ (th'[t].op = th[t].op /\ th'[t].file = th[t].file /\ th[t].op # "idle")
  /\ th[t].pc \notin {"clear", "fence", "entry"}
  /\ th'[t].pc \notin {"idle", "free", "clear", "fence", "entry"} \/ th'[t] = Idle
  /\ th'[t].op = "truncate" <=> th'[t].pc = "unmap"
  /\ \A f \in Files : elock'[f] = elock[f] \/ (FaultHolds(t, f) /\ ~FaultHolds(t, f)')
  /\ \A f \in Files : f # th[t].file => size'[f] = size[f]
  /\ size' = size \/ th[t].op = "write"

LEMMA ThreadKept ==
  ASSUME TypeOK, Good, NEW t \in Threads, Onward(t)
  PROVE  SameCuts /\ ThreadShape' /\ Semaphores' /\ Entries' /\ Truncations'
  <1> USE DEF Onward
  <1>1. Idle.op = "idle" /\ Idle.pc = "idle" /\ Idle.file = NoRef
    BY DEF Idle
  <1> HIDE DEF Idle
  <1>2. SameCuts
    BY <1>1, CutsKept
  <1>4. ThreadShape'
    BY <1>1 DEF Good, ThreadShape, Alone
  <1>5. Semaphores'
    BY <1>1, SemaphoresKept
  <1>7. Entries'
    <2>1. \A f \in Files : FaultHolds(t, f)' => FaultHolds(t, f)
      <3> SUFFICES ASSUME NEW f \in Files, FaultHolds(t, f)' PROVE FaultHolds(t, f)
        OBVIOUS
      <3>1. th[t].op = "fault" /\ th[t].file = f
        BY <1>1 DEF FaultHolds
      <3>2. th[t].pc \in ThreadPcs
        BY Shapes DEF ThreadSet
      <3>3. th[t].pc \in Replacing \cup {"lookup", "tflush", "hole", "use"}
        BY <3>1, <3>2 DEF Good, ThreadShape, ThreadPcs, Replacing
      <3> QED BY <3>1, <3>3 DEF FaultHolds
    <2> QED BY <2>1, EntriesKept
  <1>8. Truncations'
    <2>1. ASSUME NEW u \in Threads, th'[u].op = "truncate"
          PROVE  th[u].op = "truncate" /\ th'[u].file = th[u].file /\ th[u].file \in Files
      BY <1>1, <2>1 DEF Good, ThreadShape, Alone
    <2>2. ASSUME NEW u \in Threads, th'[u].op = "truncate"
          PROVE  ~size'[th'[u].file]
      BY <2>1, <2>2 DEF Good, Truncations, Semaphores
    <2>3. ASSUME NEW u \in Threads, th'[u].pc \in {"free", "clear", "fence"}
          PROVE  u # t /\ th'[u] = th[u]
      BY <1>1, <2>3 DEF Alone
    <2>4. ASSUME NEW u \in Threads, th'[u].op = "fault"
          PROVE  th[u].op = "fault" /\ th[u].file = th'[u].file
      BY <1>1, <2>4 DEF Alone
    <2> QED BY <2>2, <2>3, <2>4 DEF Good, Truncations
  <1> QED BY <1>2, <1>4, <1>5, <1>7, <1>8

\* The pages are left alone too.
LEMMA GoodQuiet ==
  ASSUME TypeOK, Good, NEW t \in Threads, Onward(t), UNCHANGED flat, LookedUpBy(t)',
         th[t].pc # "tflush", th'[t].pc \notin {"tcopy", "tlink", "tflush"},
         UNCHANGED <<ptr, media, free, marks, map, holds, kpte, wp>>
  PROVE  Good'
  <1>1. SameCuts /\ ThreadShape' /\ Semaphores' /\ Entries' /\ Truncations'
    BY ThreadKept
  <1>2. Parts'
    BY <1>1, PartsKept DEF Onward
  <1>3. LookedUp'
    BY LookedUpKept DEF Onward
  <1>4. Replacements'
    BY <1>1, ReplacementsStay DEF Onward, Alone
  <1> QED BY <1>1, <1>2, <1>3, <1>4, GoodNext

LEMMA GoodLookup ==
  ASSUME TypeOK, Good, UNCHANGED flat, NEW t \in Threads, Lookup(t)
  PROVE  Good'
  <1> USE DEF ptrVars, poolVars, daxVars, kernVars, queueVars
  <1>1. /\ th[t].pc = "lookup" /\ th[t].op # "idle" /\ th[t].op # "truncate" /\ th[t].file \in Files
        /\ UNCHANGED <<ptr, media, free, marks, map, holds, slot, elock, size, pte, kpte, wp, bot>>
    BY DEF Lookup, Good, ThreadShape, Idle
  <1>2. ptr[th[t].file] \in Pages \cup {NoPage}
    BY <1>1, Shapes, Names
  <1> DEFINE found == /\ Alone(t) /\ th'[t].op = th[t].op /\ th'[t].file = th[t].file
                      /\ th'[t].pc \in {"hole", "tired", "use"} /\ LookedUpBy(t)'
  <1>3. CASE ptr[th[t].file] = NoPage /\ Go(t, "hole")
    <2>1. found
      BY <1>1, <1>3, ThreadGoes, Shapes DEF LookedUpBy, Alone, ThreadPcs, Replacing
    <2> QED BY <1>1, <2>1, GoodQuiet DEF Onward
  <1>4. CASE /\ ptr[th[t].file] # NoPage /\ "tired" \in marks[ptr[th[t].file]]
             /\ th[t].file \notin flat /\ Go(t, "tired")
    <2>1. found
      BY <1>1, <1>4, ThreadGoes, Shapes DEF LookedUpBy, Alone, ThreadPcs, Replacing
    <2> QED BY <1>1, <2>1, GoodQuiet DEF Onward
  <1>5. CASE /\ ptr[th[t].file] # NoPage
             /\ th' = [th EXCEPT ![t].pc = "use", ![t].page = ptr[th[t].file]]
    <2>1. PICK p \in Pages : /\ p = ptr[th[t].file]
                            /\ th' = [th EXCEPT ![t].pc = "use", ![t].page = p]
      BY <1>2, <1>5
    <2>6. th \in [Threads -> ThreadSet] /\ "use" \in ThreadPcs
      BY Shapes DEF ThreadPcs
    <2>2. /\ th' \in [Threads -> ThreadSet]
          /\ th'[t].pc = "use" /\ th'[t].op = th[t].op /\ th'[t].file = th[t].file
          /\ th'[t].page = ptr[th[t].file]
          /\ \A u \in Threads : u # t => th'[u] = th[u]
      BY <2>1, <2>6 DEF ThreadSet
    <2>3. Alone(t)
      BY <2>2 DEF Alone
    <2>4. LookedUpBy(t)'
      BY <1>1, <1>5, <2>2 DEF LookedUpBy, Replacing
    <2>5. found
      BY <2>2, <2>3, <2>4
    <2> QED BY <1>1, <2>5, GoodQuiet DEF Onward
  <1> QED BY <1>3, <1>4, <1>5 DEF Lookup

\* Who leaves unlocks the entry if it was a fault.
LEMMA LeavesEntry ==
  ASSUME TypeOK, Good, NEW t \in Threads, Done(t), th[t].file \in Files,
         th[t].pc \in {"hole", "use"}
  PROVE  /\ Alone(t) /\ th'[t] = Idle /\ LookedUpBy(t)'
         /\ th'[t].op # "truncate" /\ th'[t].pc = "idle"
         /\ \A f \in Files : elock'[f] = elock[f] \/ (FaultHolds(t, f) /\ ~FaultHolds(t, f)')
         /\ \A f \in Files : ~FaultHolds(t, f)'
  <1>1. Alone(t) /\ th'[t] = Idle /\ th'[t].op = "idle" /\ th'[t].pc = "idle"
    BY ThreadLeaves, Shapes DEF Done, Alone
  <1>2. \A f \in Files : ~FaultHolds(t, f)'
    BY <1>1 DEF FaultHolds
  <1>3. LookedUpBy(t)'
    BY <1>1 DEF LookedUpBy, Replacing
  <1>4. \A f \in Files : elock'[f] = elock[f] \/ FaultHolds(t, f)
    BY Shapes DEF Done, FaultHolds
  <1> QED BY <1>1, <1>2, <1>3, <1>4

LEMMA GoodHoleEnds ==
  ASSUME TypeOK, Good, UNCHANGED flat, NEW t \in Threads, HoleEnds(t)
  PROVE  Good'
  <1> USE DEF ptrVars, poolVars, daxVars, kernVars, queueVars
  <1>1. /\ th[t].pc = "hole" /\ th[t].op # "idle" /\ th[t].file \in Files /\ Done(t)
        /\ UNCHANGED <<ptr, media, free, marks, map, holds, slot, size, pte, kpte, wp, bot>>
    BY DEF HoleEnds, Good, ThreadShape, Idle
  <1> QED BY <1>1, LeavesEntry, GoodQuiet DEF Onward

LEMMA GoodUseRead ==
  ASSUME TypeOK, Good, UNCHANGED flat, NEW t \in Threads, UseRead(t)
  PROVE  Good'
  <1> USE DEF ptrVars, poolVars, daxVars, kernVars, queueVars
  <1>1. /\ th[t].pc = "use" /\ th[t].op # "idle" /\ Leave(t)
        /\ UNCHANGED <<ptr, media, free, marks, map, holds, slot, elock, size, pte, kpte, wp, bot>>
    BY DEF UseRead
  <1>2. /\ Alone(t) /\ th'[t] = Idle /\ th'[t].op = "idle" /\ th'[t].pc = "idle"
    BY <1>1, ThreadLeaves, Shapes DEF Alone
  <1>3. LookedUpBy(t)'
    BY <1>2 DEF LookedUpBy, Replacing
  <1> QED BY <1>1, <1>2, <1>3, GoodQuiet DEF Onward

-----------------------------------------------------------------------------
(* Stores.                                                                 *)

\* A store through the page of the tree, while no migration copies that page.
LEMMA PartsStored ==
  ASSUME TypeOK, Good, SameCuts, NEW r \in Refs, NEW p \in Pages, ptr[r] = p, ~Cutting(r),
         media[r] = {p},
         holds' = Stored(p, r),
         bot.pc \in {"link", "flush"} => bot.file # r,
         bot.pc \in {"vlink", "vflush"} => r # Kern,
         UNCHANGED <<ptr, media, free, marks, map, slot, pte, kpte, wp, bot>>
  PROVE  Parts'
  <1>0. holds[p] = r
    BY Names DEF Good, Contents
  <1>1. \A s \in Refs, q \in Pages : s # r /\ holds[q] = s => holds'[q] = s
    BY <1>0 DEF Stored
  <1>2. holds'[p] = r
    BY <1>0 DEF Stored
  <1>3. Migration'
    BY DEF Good, Migration
  <1>4. Owners'
    BY DEF Good, Owners, SameCuts, Spare
  <1>5. Mappings'
    BY DEF Good, Mappings, BotHolds
  <1>6. Marks'
    BY DEF Good, Marks
  <1>7. Contents'
    <2>1. ASSUME NEW s \in Refs, ~Cutting(s), ptr[s] # NoPage
          PROVE  holds'[ptr[s]] = s
      <3>1. holds[ptr[s]] = s /\ ptr[s] \in Pages
        BY <2>1, Shapes DEF Good, Contents
      <3> QED BY <1>1, <1>2, <3>1
    <2>2. bot.pc \in {"link", "flush", "vlink", "vflush"} =>
            bot.new \in Pages /\ bot.pfn \in Pages
      BY DEF Good, Migration, Before, After
    <2>3. bot.pc \in {"link", "flush"} => bot.file \in Refs
      BY Names DEF Good, Migration, RmapNew
    <2>4. Kern \in Refs
      BY Names
    <2> QED BY <1>1, <2>1, <2>2, <2>3, <2>4 DEF Good, Contents, SameCuts
  <1>8. Durable'
    <2>1. Spare' = Spare /\ \A q \in Refs : Flushing(q)' <=> Flushing(q)
      BY DEF Spare, Flushing
    <2>2. ASSUME NEW q \in Refs, ~Cutting(q), NEW o \in media[q] \ {ptr[q]}
          PROVE  Stale(o, q)'
      <3>1. q # r /\ Stale(o, q)
        BY <2>2 DEF Good, Durable
      <3> QED BY <1>1, <2>1, <3>1 DEF Stale, SameCuts
    <2> QED BY <2>2 DEF Good, Durable, SameCuts
  <1> QED BY <1>3, <1>4, <1>5, <1>6, <1>7, <1>8 DEF Parts

\* The same for the threads that replace a page: no page of another file changes.
LEMMA ReplacementsStored ==
  ASSUME TypeOK, Good, SameCuts, NEW r \in Refs, NEW p \in Pages, holds[p] = r,
         holds' = Stored(p, r), UNCHANGED <<ptr, media, free, slot, bot>>,
         \A t \in Threads : th[t].pc = "tlink" => th[t].file # r,
         \A t \in Threads : th'[t].pc \in {"tcopy", "tlink", "tflush"} \/ th[t].pc = "tflush" => th'[t] = th[t]
  PROVE  Replacements'
  <1>1. Spare' = Spare /\ \A q \in Refs : Flushing(q)' <=> Flushing(q)
    BY DEF Spare, Flushing
  <1>2. ASSUME NEW t \in Threads, Prepares(t)'
        PROVE  th'[t] = th[t] /\ Private(th[t].page)'
    BY <1>1, <1>2 DEF Good, Replacements, Prepares, Private, SameCuts
  <1>3. ASSUME NEW t \in Threads, th'[t].pc = "tlink"
        PROVE  holds'[th[t].page] = holds[th[t].page]
    <2>1. th'[t] = th[t] /\ th[t].page \in Pages /\ holds[th[t].page] # r
      BY <1>3 DEF Good, Replacements, Prepares, Private
    <2> QED BY <2>1 DEF Stored
  <1>4. \A q \in Refs : ~Cutting(q)' /\ ~Flushing(q)' => ~Cutting(q) /\ ~Flushing(q)
    BY <1>1 DEF SameCuts
  <1> QED BY <1>2, <1>3, <1>4, ReplacementsKept DEF Prepares

\* The file of a thread that replaces a tired page is not mapped, nor being migrated.
LEMMA TiredUnmapped ==
  ASSUME TypeOK, Good, NEW t \in Threads, th[t].pc \in Replacing \cup {"tflush"}
  PROVE  /\ th[t].file \in Files /\ th[t].file \in Refs /\ th[t].op \in {"read", "write", "fault"}
         /\ ~Cutting(th[t].file) /\ slot[th[t].file] \notin Pages /\ pte[th[t].file] = NoPage
         /\ bot.pc \in Holding => bot.file # th[t].file
  <1> DEFINE f == th[t].file
  <1>1. th[t].op \in {"read", "write", "fault", "truncate", "idle"}
    BY Shapes, OpsAssumption DEF ThreadSet
  <1>2. f \in Files /\ f \in Refs /\ th[t].op \in {"read", "write", "fault"}
    BY <1>1, Names DEF Good, ThreadShape, Idle, Replacing
  <1>3. ~Cutting(f)
    BY <1>2, NotCutting
  <1>4. slot[f] \notin Pages
    <2>1. CASE th[t].pc = "tflush"
      BY <2>1 DEF Good, Replacements
    <2>2. CASE th[t].pc \in Replacing
      <3> SUFFICES ASSUME slot[f] \in Pages PROVE FALSE
        OBVIOUS
      <3>1. ptr[f] \in Pages /\ "tired" \in marks[ptr[f]] /\ map[ptr[f]] = NoRef
        BY <1>2, <2>2, Shapes DEF Good, LookedUp, Marks
      <3>2. CASE BotHolds(f)
        <4>1. bot.pc \in {"copy", "link"} => ptr[f] = bot.pfn /\ "tired" \notin marks[bot.pfn]
          BY <3>2 DEF Good, Migration, Marks, BotHolds
        <4>2. bot.pc \in {"flush", "slot"} => ptr[f] = bot.new /\ "tired" \notin marks[bot.new]
          BY <3>2 DEF Good, Migration, Marks, RmapNew, BotHolds
        <4> QED BY <3>1, <3>2, <4>1, <4>2 DEF BotHolds, Holding
      <3>3. CASE ~BotHolds(f)
        <4>1. slot[f] = ptr[f] /\ map[slot[f]] = f
          BY <1>2, <3>3, SlotPage
        <4> QED BY <1>2, <3>1, <4>1, Names
      <3> QED BY <3>2, <3>3
    <2> QED BY <2>1, <2>2
  <1>5. pte[f] = NoPage
    BY <1>2, <1>4, PtePage
  <1>6. bot.pc \in Holding => bot.file # f
    <2>1. bot.pc \in Holding => bot.pfn \in Pages /\ slot[bot.file] = bot.pfn
      BY DEF Good, Migration, Holding
    <2> QED BY <1>4, <2>1
  <1> QED BY <1>2, <1>3, <1>4, <1>5, <1>6

\* What is needed of a step that no thread takes.
LEMMA GoodNoThread ==
  ASSUME TypeOK, Good, UNCHANGED <<th, slot, pte, elock, bot, ptr, marks, flat>>,
         \A t \in Threads : th[t].op = "truncate" => size'[th[t].file] = size[th[t].file], Parts', Replacements'
  PROVE  Good'
  <1>1. ThreadShape'
    BY DEF Good, ThreadShape
  <1>2. Semaphores'
    BY DEF Good, Semaphores
  <1>3. Entries'
    BY DEF Good, Entries, FaultHolds, BotHolds
  <1>4. Truncations'
    BY DEF Good, Truncations
  <1>5. LookedUp'
    BY DEF Good, LookedUp
  <1> QED BY <1>1, <1>2, <1>3, <1>4, <1>5, GoodNext

LEMMA GoodUserStore ==
  ASSUME TypeOK, Good, UNCHANGED flat, NEW f \in Files, UserStore(f)
  PROVE  Good'
  <1> USE DEF ptrVars, poolVars, daxVars, kernVars, queueVars
  <1>1. /\ pte[f] # NoPage /\ holds' = Stored(pte[f], f)
        /\ UNCHANGED <<ptr, media, free, marks, map, slot, elock, size, pte, kpte, wp, bot, th>>
    BY DEF UserStore
  <1>2. /\ ~Cutting(f) /\ ~BotHolds(f) /\ pte[f] \in Pages /\ pte[f] = ptr[f]
    BY <1>1, PtePage
  <1>3. SameCuts
    BY <1>1 DEF SameCuts, Cutting
  <1>4. f \in Refs /\ f # Kern
    BY Names
  <1>5. slot[f] \in Pages /\ ~Flushing(f) /\ holds[ptr[f]] = f
    BY <1>1, <1>2, <1>4, PtePage, Names DEF Flushing, BotHolds, Holding, Good, Contents
  <1>6. media[f] = {ptr[f]}
    BY <1>2, <1>4, <1>5, MediaExact
  <1>7. Parts'
    BY <1>1, <1>2, <1>3, <1>4, <1>6, PartsStored DEF BotHolds, Holding
  <1>8. \A t \in Threads : th[t].pc = "tlink" => th[t].file # f
    BY <1>5, TiredUnmapped DEF Replacing
  <1>9. Replacements'
    BY <1>1, <1>2, <1>3, <1>4, <1>5, <1>8, ReplacementsStored
  <1> QED BY <1>1, <1>7, <1>9, GoodNoThread

LEMMA GoodKernStore ==
  ASSUME TypeOK, Good, UNCHANGED flat, KernStore
  PROVE  Good'
  <1> USE DEF ptrVars, poolVars, daxVars, kernVars, queueVars
  <1>1. /\ ~wp /\ holds' = Stored(kpte, Kern)
        /\ UNCHANGED <<ptr, media, free, marks, map, slot, elock, size, pte, kpte, wp, bot, th>>
    BY DEF KernStore
  <1>2. kpte = ptr[Kern] /\ kpte \in Pages /\ ~Cutting(Kern) /\ Kern \in Refs
    BY <1>1, KernelPages, NotCutting, Names
  <1>3. SameCuts
    BY <1>1 DEF SameCuts, Cutting
  <1>4. bot.pc \in {"link", "flush"} => bot.file # Kern
    BY Names DEF Good, Migration, RmapNew
  <1>5. bot.pc \notin {"vlink", "vflush"}
    BY <1>1 DEF Good, Migration
  <1>6. ~Flushing(Kern) /\ Kern \notin Files /\ holds[kpte] = Kern
    BY <1>2, <1>4, <1>5, Names DEF Flushing, Good, Contents
  <1>7. media[Kern] = {kpte}
    BY <1>2, <1>6, MediaExact
  <1>8. Parts'
    BY <1>1, <1>2, <1>3, <1>4, <1>5, <1>7, PartsStored
  <1>9. \A t \in Threads : th[t].pc = "tlink" => th[t].file # Kern
    BY <1>6, TiredUnmapped DEF Replacing
  <1>10. Replacements'
    BY <1>1, <1>2, <1>3, <1>6, <1>9, ReplacementsStored
  <1> QED BY <1>1, <1>8, <1>10, GoodNoThread

LEMMA GoodExtend ==
  ASSUME TypeOK, Good, UNCHANGED flat, NEW f \in Files, Extend(f)
  PROVE  Good'
  <1> USE DEF ptrVars, poolVars, daxVars, kernVars, queueVars
  <1>1. /\ Shared(f) \cup Exclusive(f) = {} /\ size' = [size EXCEPT ![f] = TRUE]
        /\ UNCHANGED <<ptr, media, free, marks, map, holds, slot, elock, pte, kpte, wp, bot, th>>
    BY DEF Extend
  <1>2. \A t \in Threads : th[t].op = "truncate" => th[t].file # f /\ th[t].file \in Files
    BY <1>1 DEF Exclusive, Good, ThreadShape
  <1>3. Parts'
    <2>1. SameCuts
      BY <1>1 DEF SameCuts, Cutting
    <2> QED BY <1>1, <2>1, PartsKept
  <1>4. Replacements'
    BY <1>1, ReplacementsStay DEF SameCuts, Cutting
  <1> QED BY <1>1, <1>2, <1>3, <1>4, GoodNoThread, Shapes

LEMMA GoodUseWrite ==
  ASSUME TypeOK, Good, ~Races, UNCHANGED flat, NEW t \in Threads, UseWrite(t)
  PROVE  Good'
  <1> USE DEF ptrVars, poolVars, daxVars, kernVars, queueVars
  <1>0. PICK f \in Files : f = th[t].file
    BY DEF UseWrite, Good, ThreadShape
  <1>1. /\ th[t].pc = "use" /\ th[t].op = "write" /\ Leave(t) /\ th[t].file = f
        /\ holds' = Stored(th[t].page, f) /\ size' = [size EXCEPT ![f] = TRUE]
        /\ UNCHANGED <<ptr, media, free, marks, map, slot, elock, pte, kpte, wp, bot>>
    BY <1>0 DEF UseWrite
  <1>2. /\ Alone(t) /\ th'[t] = Idle /\ th'[t].op = "idle" /\ th'[t].pc = "idle"
    BY <1>1, ThreadLeaves, Shapes DEF Alone
  <1> HIDE DEF Idle
  <1>3. th[t].page = ptr[f] /\ ptr[f] \in Pages /\ f \in Refs /\ f # Kern
    BY <1>1, Shapes, Names DEF Good, LookedUp
  <1>4. SameCuts /\ ~Cutting(f)
    BY <1>1, <1>2, CutsKept, NotCutting
  <1>5. bot.pc \in RmapLocked => bot.file # f
    BY <1>1 DEF Good, Semaphores
  <1>6. Parts' /\ Replacements'
    <2>1. bot.pc \in {"link", "flush"} => bot.file # f
      BY <1>5 DEF RmapLocked
    <2>2. \A u \in Threads : th[u].pc \in {"tlink", "tflush"} => th[u].file # f
      BY <1>1 DEF Races, TiredTwice, Unflushed, Replacing
    <2>3. media[f] = {ptr[f]}
      BY <1>3, <1>4, <2>1, <2>2, MediaExact DEF Flushing, Lags
    <2>4. holds[ptr[f]] = f
      BY <1>3, <1>4, Names DEF Good, Contents
    <2>5. Parts'
      BY <1>1, <1>3, <1>4, <2>1, <2>3, PartsStored
    <2>6. Replacements'
      BY <1>1, <1>2, <1>3, <1>4, <2>2, <2>4, ReplacementsStored DEF Alone
    <2> QED BY <2>5, <2>6
  <1>7. ThreadShape'
    BY <1>2 DEF Good, ThreadShape, Alone
  <1>8. Semaphores'
    BY <1>1, <1>2, SemaphoresKept
  <1>9. LookedUp'
    <2>1. LookedUpBy(t)'
      BY <1>2 DEF LookedUpBy, Replacing
    <2> QED BY <1>1, <1>2, <2>1, LookedUpKept
  <1>10. Entries'
    <2>1. \A g \in Files : ~FaultHolds(t, g)'
      BY <1>2 DEF FaultHolds
    <2> QED BY <1>1, <1>2, <2>1, EntriesKept
  <1>11. Truncations'
    <2>1. ASSUME NEW u \in Threads, u # t, th[u].op = "truncate"
          PROVE  th[u].file # f /\ th[u].file \in Files /\ ~size[th[u].file]
      BY <1>1, <2>1 DEF Good, Semaphores, ThreadShape, Truncations
    <2>2. \A u \in Threads : u # t => th'[u] = th[u]
      BY <1>2 DEF Alone
    <2>3. \A u \in Threads : th'[u].op = "truncate" => ~size'[th'[u].file]
      BY <1>1, <1>2, <2>1, <2>2, Shapes
    <2> QED BY <1>1, <1>2, <2>2, <2>3 DEF Good, Truncations
  <1> QED BY <1>6, <1>7, <1>8, <1>9, <1>10, <1>11, GoodNext

-----------------------------------------------------------------------------
(* A fault maps the page it has found.                                     *)

LEMMA GoodUseFault ==
  ASSUME TypeOK, Good, ~Races, UNCHANGED flat, NEW t \in Threads, UseFault(t)
  PROVE  Good'
  <1> USE DEF ptrVars, poolVars, daxVars, kernVars, queueVars
  <1>0. PICK f \in Files : f = th[t].file
    BY DEF UseFault, Good, ThreadShape
  <1>1. PICK p \in Pages : p = th[t].page
    BY Shapes DEF UseFault, Good, LookedUp, ThreadSet
  <1>2. /\ th[t].pc = "use" /\ th[t].op = "fault" /\ th[t].file = f /\ Done(t)
        /\ UNCHANGED <<ptr, media, free, marks, holds, size, kpte, wp, bot>>
        /\ pte' = [pte EXCEPT ![f] = p]
        /\ slot[f] = Empty => slot' = [slot EXCEPT ![f] = p] /\ map' = [map EXCEPT ![p] = f]
        /\ slot[f] # Empty => UNCHANGED <<slot, map>>
    BY <1>0, <1>1 DEF UseFault
  <1>3. /\ Alone(t) /\ th'[t] = Idle /\ LookedUpBy(t)' /\ \A g \in Files : ~FaultHolds(t, g)'
        /\ \A g \in Files : elock'[g] = elock[g] \/ (FaultHolds(t, g) /\ ~FaultHolds(t, g)')
    BY <1>2, LeavesEntry
  <1>4. th'[t].op = "idle" /\ th'[t].pc = "idle"
    BY <1>3 DEF Idle
  <1> HIDE DEF Idle
  <1>5. /\ p = ptr[f] /\ "tired" \notin marks[p] /\ ~Cutting(f) /\ f \in Refs
        /\ slot[f] # NoPage /\ ~BotHolds(f) /\ SameCuts
    <2>1. "tired" \notin marks[p]
      BY <1>1, <1>2 DEF Races, TiredMapped
    <2>2. FaultHolds(t, f)
      BY <1>2 DEF FaultHolds
    <2> QED BY <1>1, <1>2, <1>4, <1>3, <2>1, <2>2, CutsKept, NotCutting, Names DEF Good, LookedUp, Entries
  <1>6. slot'[f] = p /\ map'[p] = f /\ pte'[f] = p
    <2>1. CASE slot[f] = Empty
      BY <1>2, <2>1, Shapes
    <2>2. CASE slot[f] # Empty
      <3>1. slot[f] \in Pages
        BY <1>5, <2>2, Shapes
      <3> QED BY <1>2, <1>5, <2>2, <3>1, SlotPage, Shapes
    <2> QED BY <2>1, <2>2
  <1>7. /\ \A g \in Files : g # f => slot'[g] = slot[g] /\ pte'[g] = pte[g]
        /\ \A q \in Pages : q # p => map'[q] = map[q]
    BY <1>2, Shapes
  <1>8. bot.pc \in Holding => bot.file # f /\ bot.new # p /\ bot.file \in Files
    <2> SUFFICES ASSUME bot.pc \in Holding
                 PROVE  bot.file # f /\ bot.new # p /\ bot.file \in Files
      OBVIOUS
    <2>1. bot.file # f /\ bot.file \in Files /\ bot.file \in Refs /\ ~Cutting(bot.file)
      BY <1>5, NotCutting, Names DEF BotHolds, Good, Migration, Holding, RmapNew, RmapLocked
    <2>2. Spare # p
      BY <1>5, Names DEF Good, Owners
    <2>3. bot.new = Spare \/ bot.new = ptr[bot.file]
      BY DEF Good, Migration, Spare, Before, Holding
    <2> QED BY <1>5, <2>1, <2>2, <2>3, Names DEF Good, Owners
  <1>9. Migration'
    <2>1. bot.pc \in Holding => bot.new \in Pages
      BY DEF Good, Migration, Holding, Before, After
    <2>2. bot.pc \in Holding =>
            slot'[bot.file] = bot.pfn /\ pte'[bot.file] = NoPage /\ map'[bot.new] = bot.file
      BY <1>7, <1>8, <2>1 DEF Good, Migration
    <2> QED BY <1>2, <2>2 DEF Good, Migration
  <1>10. Owners' /\ Contents' /\ Durable'
    <2>1. Owners'
      BY <1>2, <1>5 DEF Good, Owners, SameCuts, Spare
    <2>2. Contents'
      BY <1>2, <1>5 DEF Good, Contents, SameCuts
    <2>3. Durable'
      BY <1>2, <1>5, DurableKept
    <2> QED BY <2>1, <2>2, <2>3
  <1>11. Marks'
    BY <1>2, <1>5, <1>7, Shapes DEF Good, Marks
  <1>12. Mappings'
    <2> SUFFICES ASSUME NEW g \in Files
                 PROVE  /\ slot'[g] \in Pages /\ ~BotHolds(g) => slot'[g] = ptr[g] /\ map'[slot'[g]] = g
                        /\ pte'[g] # NoPage => pte'[g] = slot'[g]
                        /\ \A q \in Pages : map'[q] = g => q = IF BotHolds(g) THEN bot.new ELSE slot'[g]
      BY <1>2 DEF Mappings, BotHolds
    <2>1. /\ slot[g] \in Pages /\ ~BotHolds(g) => slot[g] = ptr[g] /\ map[slot[g]] = g
          /\ pte[g] # NoPage => pte[g] = slot[g]
          /\ \A q \in Pages : map[q] = g => q = IF BotHolds(g) THEN bot.new ELSE slot[g]
      BY DEF Good, Mappings
    <2>2. CASE g = f
      <3>1. ASSUME NEW q \in Pages, map'[q] = f PROVE q = p
        <4>1. CASE slot[f] = Empty
          BY <1>5, <1>7, <2>1, <2>2, <3>1, <4>1, Names
        <4>2. CASE slot[f] # Empty
          BY <1>2, <1>5, <1>6, <2>1, <2>2, <3>1, <4>2
        <4> QED BY <4>1, <4>2
      <3> QED BY <1>5, <1>6, <2>2, <3>1
    <2>3. CASE g # f
      <3>1. slot[g] \in Pages /\ ~BotHolds(g) => slot[g] # p
        BY <1>5, <2>1, <2>3, SlotPage, Names DEF Good, Owners
      <3> QED BY <1>6, <1>7, <2>1, <2>3, <3>1
    <2> QED BY <2>2, <2>3
  <1>13. ThreadShape'
    BY <1>3, <1>4 DEF Good, ThreadShape, Alone
  <1>14. Semaphores'
    BY <1>2, <1>3, <1>4, SemaphoresKept
  <1>15. LookedUp'
    BY <1>2, <1>3, LookedUpKept
  <1>16. Entries'
    <2>1. \A g \in Files : slot[g] # NoPage => slot'[g] # NoPage
      BY <1>6, <1>7, Names
    <2> QED BY <1>2, <1>3, <2>1, EntriesKept
  <1>17. Truncations'
    <2>1. ASSUME NEW u \in Threads, th'[u].op = "truncate" \/ th'[u].pc \in {"free", "clear", "fence"}
          PROVE  u # t /\ th'[u] = th[u] /\ th[u].op = "truncate" /\ th[u].file \in Files
      BY <1>3, <1>4, <2>1 DEF Good, ThreadShape, Alone
    <2>2. ASSUME NEW u \in Threads, th[u].pc \in {"free", "clear", "fence"}
          PROVE  th[u].file # f
      BY <1>2, <2>2 DEF Races, LateFault, Good, Truncations
    <2>3. ASSUME NEW u \in Threads, th'[u].op = "fault"
          PROVE  th[u] = th'[u]
      BY <1>3, <1>4, <2>3 DEF Alone
    <2> QED BY <1>2, <1>7, <2>1, <2>2, <2>3 DEF Good, Truncations
  <1>18. Replacements'
    <2>1. \A u \in Threads : th[u].pc = "tflush" => th[u].file \in Files /\ th[u].file # f
      BY <1>2, TiredUnmapped DEF Races, Unflushed
    <2> QED BY <1>2, <1>3, <1>4, <1>5, <1>7, <2>1, ReplacementsStay DEF Alone
  <1> QED BY <1>9, <1>10, <1>11, <1>12, <1>13, <1>14, <1>15, <1>16, <1>17, <1>18, GoodNext DEF Parts

-----------------------------------------------------------------------------
(* Truncation.                                                             *)

LEMMA GoodUnmap ==
  ASSUME TypeOK, Good, UNCHANGED flat, NEW t \in Threads, Unmap(t)
  PROVE  Good'
  <1> USE DEF ptrVars, poolVars, daxVars, kernVars, queueVars
  <1>0. PICK f \in Files : f = th[t].file
    BY DEF Unmap, Good, ThreadShape
  <1>1. /\ th[t].pc = "unmap" /\ th[t].op = "truncate" /\ th[t].file = f /\ ~elock[f] /\ Go(t, "free")
        /\ UNCHANGED <<ptr, media, free, marks, elock, holds, size, kpte, wp, bot>>
        /\ pte' = [pte EXCEPT ![f] = NoPage] /\ slot' = [slot EXCEPT ![f] = NoPage]
        /\ map' = IF slot[f] \in Pages THEN [map EXCEPT ![slot[f]] = NoRef] ELSE map
    BY <1>0 DEF Unmap, Good, ThreadShape
  <1>2. /\ Alone(t) /\ th'[t].op = "truncate" /\ th'[t].file = f /\ th'[t].pc = "free"
        /\ \A u \in Threads : u # t => th'[u] = th[u]
    BY <1>1, ThreadGoes, Shapes DEF Alone, ThreadPcs
  <1>3. SameCuts /\ ~BotHolds(f) /\ (bot.pc \in RmapLocked => bot.file # f)
    BY <1>1, <1>2, CutsKept DEF Good, Entries, Semaphores
  <1>4. /\ pte'[f] = NoPage /\ slot'[f] = NoPage
        /\ \A g \in Files : g # f => slot'[g] = slot[g] /\ pte'[g] = pte[g]
        /\ \A q \in Pages : map'[q] = map[q] \/ (q = slot[f] /\ map[q] = f /\ map'[q] = NoRef)
        /\ \A q \in Pages : map'[q] # f
    <2>1. slot[f] \in Pages => map[slot[f]] = f
      BY <1>3, SlotPage
    <2>2. \A q \in Pages : map[q] = f => q = slot[f]
      BY <1>3 DEF Good, Mappings
    <2>3. CASE slot[f] \in Pages
      <3>1. map' = [map EXCEPT ![slot[f]] = NoRef]
        BY <1>1, <2>3
      <3> QED BY <1>1, <2>1, <2>2, <2>3, <3>1, Shapes, Names
    <2>4. CASE slot[f] \notin Pages
      BY <1>1, <2>2, <2>4, Shapes
    <2> QED BY <2>3, <2>4
  <1>5. Migration'
    <2>1. bot.pc \in Holding => bot.pc \in RmapLocked /\ bot.file \in Files /\ bot.new \in Pages
      BY DEF Good, Migration, Holding, RmapLocked, RmapNew, Before, After
    <2> QED BY <1>1, <1>3, <1>4, <2>1 DEF Good, Migration
  <1>6. Owners' /\ Contents' /\ Durable'
    <2>1. Owners'
      BY <1>1, <1>3 DEF Good, Owners, SameCuts, Spare
    <2>2. Contents'
      BY <1>1, <1>3 DEF Good, Contents, SameCuts
    <2>3. Durable'
      BY <1>1, <1>3, DurableKept
    <2> QED BY <2>1, <2>2, <2>3
  <1>7. Marks'
    BY <1>1, <1>4 DEF Good, Marks
  <1>8. Mappings'
    <2> SUFFICES ASSUME NEW g \in Files
                 PROVE  /\ slot'[g] \in Pages /\ ~BotHolds(g) => slot'[g] = ptr[g] /\ map'[slot'[g]] = g
                        /\ pte'[g] # NoPage => pte'[g] = slot'[g]
                        /\ \A q \in Pages : map'[q] = g => q = IF BotHolds(g) THEN bot.new ELSE slot'[g]
      BY <1>1 DEF Mappings, BotHolds
    <2>1. /\ slot[g] \in Pages /\ ~BotHolds(g) => slot[g] = ptr[g] /\ map[slot[g]] = g
          /\ pte[g] # NoPage => pte[g] = slot[g]
          /\ \A q \in Pages : map[q] = g => q = IF BotHolds(g) THEN bot.new ELSE slot[g]
      BY DEF Good, Mappings
    <2> QED BY <1>4, <2>1, Names
  <1>9. ThreadShape'
    BY <1>1, <1>2 DEF Good, ThreadShape
  <1>10. Semaphores'
    BY <1>1, <1>2, SemaphoresKept
  <1>11. LookedUp'
    BY <1>1, <1>2, LookedUpKept DEF LookedUpBy, Replacing
  <1>12. Entries'
    <2>1. \A g \in Files : ~FaultHolds(t, g)'
      BY <1>2 DEF FaultHolds
    <2> QED BY <1>1, <1>2, <1>4, <2>1, EntriesKept
  <1>13. Truncations'
    <2>1. ASSUME NEW u \in Threads, th'[u].pc \in {"free", "clear", "fence"}
          PROVE  slot'[th'[u].file] = NoPage /\ pte'[th'[u].file] = NoPage
      BY <1>2, <1>4, <2>1 DEF Good, Truncations, ThreadShape
    <2>2. ASSUME NEW u \in Threads, th'[u].op = "truncate" PROVE ~size'[th'[u].file]
      BY <1>1, <1>2, <2>2 DEF Good, Truncations
    <2>3. ASSUME NEW u \in Threads, th'[u].pc \in {"clear", "fence"}
          PROVE  \A v \in Threads : th'[v].op = "fault" => th'[v].file # th'[u].file
      BY <1>2, <2>3 DEF Good, Truncations
    <2> QED BY <2>1, <2>2, <2>3 DEF Truncations
  <1>14. Replacements'
    <2>1. \A g \in Files : slot[g] \notin Pages => slot'[g] \notin Pages
      BY <1>4, Names
    <2>2. \A u \in Threads : th[u].pc = "tflush" => th[u].file \in Files
      BY DEF Good, ThreadShape, Idle
    <2> QED BY <1>1, <1>2, <1>3, <2>1, <2>2, ReplacementsStay
  <1> QED BY <1>5, <1>6, <1>7, <1>8, <1>9, <1>10, <1>11, <1>12, <1>13, <1>14, GoodNext DEF Parts

LEMMA GoodTruncateFree ==
  ASSUME TypeOK, Good, ~Races, UNCHANGED flat, NEW t \in Threads, TruncateFree(t)
  PROVE  Good'
  <1> USE DEF ptrVars, poolVars, daxVars, kernVars, queueVars
  <1>0. PICK f \in Files : f = th[t].file
    BY DEF TruncateFree, Good, ThreadShape
  <1>1. /\ th[t].pc = "free" /\ th[t].op = "truncate" /\ th[t].file = f /\ f \in Refs /\ f # Kern
        /\ UNCHANGED <<ptr, media, slot, elock, pte, map, size, kpte, wp, bot>>
    BY <1>0, Names DEF TruncateFree, Good, ThreadShape
  <1>2. CASE ptr[f] = NoPage
    <2>1. Leave(t) /\ UNCHANGED <<free, marks, holds>>
      BY <1>0, <1>2 DEF TruncateFree
    <2>2. /\ Alone(t) /\ th'[t] = Idle /\ th'[t].op = "idle" /\ th'[t].pc = "idle"
      BY <2>1, ThreadLeaves, Shapes DEF Alone
    <2>3. LookedUpBy(t)'
      BY <2>2 DEF LookedUpBy, Replacing
    <2> QED BY <1>1, <2>1, <2>2, <2>3, GoodQuiet DEF Onward
  <1>3. CASE ptr[f] # NoPage
    <2>1. PICK p \in Pages : p = ptr[f]
      BY <1>1, <1>3, Shapes
    <2>2. Go(t, "clear") /\ FreeBlock(p)
      BY <1>0, <1>3, <2>1 DEF TruncateFree
    <2>3. /\ Alone(t) /\ th'[t].op = "truncate" /\ th'[t].file = f /\ th'[t].pc = "clear"
          /\ \A u \in Threads : u # t => th'[u] = th[u]
      BY <1>1, <2>2, ThreadGoes, Shapes DEF Alone, ThreadPcs
    <2>4. /\ free' = free \cup {p} /\ marks'[p] = {"using"}
          /\ \A q \in Pages : q # p => marks'[q] = marks[q] /\ holds'[q] = holds[q]
      BY <2>2, FreeBlockType
    <2>5. /\ ~Cutting(f) /\ (bot.pc \in RmapLocked => bot.file # f)
          /\ \A r \in Refs : Cutting(r)' <=> Cutting(r) \/ r = f
      <3>1. \A r \in Refs : Cutting(r)' <=> Cutting(r) \/ r = f
        BY <1>1, <2>3 DEF Cutting
      <3> QED BY <1>1, <3>1, NotCutting DEF Good, Semaphores
    <2>6. /\ \A r \in Refs : r # f /\ ~Cutting(r) => ptr[r] # p
          /\ p # Spare /\ ~Cutting(Kern) /\ Kern \in Refs
      BY <1>1, <1>3, <2>1, <2>5, NotCutting, Names DEF Good, Owners
    <2>7. \A u \in Threads : u # t => th[u].file # f \/ th[u].op = "idle"
      <3>1. \A u \in Threads : th[u].op = "fault" => th[u].file # f
        BY <1>1 DEF Races, LateFault
      <3>2. \A u \in Threads : th[u].op \in {"read", "write", "fault", "truncate", "idle"}
        BY Shapes, OpsAssumption DEF ThreadSet
      <3> QED BY <1>1, <3>1, <3>2 DEF Good, Semaphores
    <2>8. Migration'
      BY <1>1 DEF Good, Migration
    <2>9. Owners'
      <3>1. Spare' = Spare
        BY <1>1 DEF Spare
      <3> QED BY <1>1, <2>4, <2>5, <2>6, <3>1 DEF Good, Owners
    <2>10. Mappings'
      BY <1>1 DEF Good, Mappings, BotHolds
    <2>11. /\ bot.pc \in {"link", "vlink"} => bot.new # p /\ bot.new \in Pages
           /\ bot.pc \in {"flush", "vflush"} => bot.pfn # p /\ bot.pfn \in Pages
           /\ bot.pc \in VmapNew => bot.pfn # p /\ bot.new # p
      <3>1. bot.pc \in Before => Spare = bot.new
        BY DEF Spare
      <3>2. bot.pc \in After => Spare = bot.pfn
        BY DEF Spare, After, Before
      <3>3. bot.pc \in VmapNew => bot.pfn \in {Spare, ptr[Kern]} /\ bot.new \in {Spare, ptr[Kern]}
        BY <3>1, <3>2 DEF Good, Migration, VmapNew, Before, After
      <3>4. bot.pc \in Before \cup After => bot.pfn \in Pages /\ bot.new \in Pages
        BY MigrationPages
      <3> QED BY <1>1, <2>6, <3>1, <3>2, <3>3, <3>4 DEF Before, After
    <2>12. Marks'
      <3>1. \A q \in Pages : "tired" \in marks'[q] => "tired" \in marks[q]
        BY <2>4
      <3>2. bot.pc \in {"copy", "link"} \cup RmapNew => bot.pfn \in Pages /\ bot.new \in Pages
        BY MigrationPages DEF Before, After, RmapNew
      <3>3. \A q \in Pages : "vmap" \in marks'[q] <=>
              q = ptr[Kern] \/ (bot.pc \in VmapNew /\ q \in {bot.pfn, bot.new})
        <4>1. \A q \in Pages : "vmap" \in marks[q] <=>
                q = ptr[Kern] \/ (bot.pc \in VmapNew /\ q \in {bot.pfn, bot.new})
          BY DEF Good, Marks
        <4>2. p # ptr[Kern] /\ "vmap" \notin marks'[p]
          BY <1>1, <2>4, <2>6
        <4> QED BY <2>4, <2>11, <4>1, <4>2
      <3> QED BY <1>1, <3>1, <3>2, <3>3 DEF Good, Marks
    <2>13. Contents'
      <3>1. ASSUME NEW r \in Refs, ~Cutting(r)', ptr[r] # NoPage
            PROVE  holds'[ptr[r]] = r
        <4>1. ptr[r] # p /\ ptr[r] \in Pages /\ holds[ptr[r]] = r
          BY <2>5, <2>6, <3>1, Shapes DEF Good, Contents
        <4> QED BY <2>4, <4>1
      <3> QED BY <1>1, <2>4, <2>11, <3>1 DEF Good, Contents
    <2>14. Durable'
      <3>1. Spare' = Spare /\ \A r \in Refs : Flushing(r)' <=> Flushing(r)
        BY <1>1 DEF Spare, Flushing
      <3>2. ASSUME NEW r \in Refs, ~Cutting(r), r # f, NEW o \in media[r] \ {ptr[r]}
            PROVE  Stale(o, r)'
        <4>1. Stale(o, r) /\ o # p
          BY <1>1, <2>1, <2>5, <3>2 DEF Good, Durable, Stale
        <4> QED BY <1>1, <2>4, <2>5, <3>1, <4>1 DEF Stale
      <3> QED BY <1>1, <2>5, <3>2 DEF Good, Durable
    <2>15. ThreadShape'
      BY <1>1, <2>3 DEF Good, ThreadShape
    <2>16. Semaphores'
      BY <1>1, <2>3, SemaphoresKept
    <2>17. LookedUp'
      <3>1. ASSUME NEW u \in Threads PROVE LookedUpBy(u)'
        <4>1. CASE u = t
          BY <2>3, <4>1 DEF LookedUpBy, Replacing
        <4>2. CASE u # t
          <5>1. LookedUpBy(u) /\ th'[u] = th[u]
            BY <2>3, <4>2 DEF Good, LookedUp, LookedUpBy
          <5>2. th[u].pc \in Replacing => ptr[th[u].file] # p /\ ptr[th[u].file] \in Pages
            <6> SUFFICES ASSUME th[u].pc \in Replacing
                         PROVE  ptr[th[u].file] # p /\ ptr[th[u].file] \in Pages
              OBVIOUS
            <6>1. th[u].op # "idle" /\ th[u].op # "truncate" /\ th[u].file \in Files
              BY DEF Good, ThreadShape, Idle, Replacing
            <6>2. th[u].op \in {"read", "write", "fault", "truncate", "idle"}
              BY Shapes, OpsAssumption DEF ThreadSet
            <6>3. th[u].file \in Refs /\ ~Cutting(th[u].file) /\ th[u].file # f
              BY <2>7, <4>2, <6>1, <6>2, NotCutting, Names
            <6> QED BY <2>6, <5>1, <6>3, Shapes DEF LookedUpBy
          <5> QED BY <1>1, <2>4, <5>1, <5>2 DEF LookedUpBy
        <4> QED BY <4>1, <4>2
      <3> QED BY <3>1 DEF LookedUp, LookedUpBy
    <2>18. Entries'
      <3>1. \A g \in Files : ~FaultHolds(t, g)'
        BY <2>3 DEF FaultHolds
      <3> QED BY <1>1, <2>3, <3>1, EntriesKept
    <2>19. Truncations'
      BY <1>1, <2>3, <2>7 DEF Good, Truncations
    <2>20. Replacements'
      <3>1. Spare' = Spare /\ \A r \in Refs : Flushing(r)' <=> Flushing(r)
        BY <1>1 DEF Spare, Flushing
      <3>2. ASSUME NEW u \in Threads, Prepares(u)'
            PROVE  th'[u] = th[u] /\ th[u].page # p /\ Private(th[u].page)'
        <4>1. th'[u] = th[u] /\ Private(th[u].page)
          BY <2>3, <3>2 DEF Good, Replacements, Prepares
        <4>2. th[u].page # p
          BY <1>1, <2>1, <2>5, <4>1 DEF Private, Good, Durable
        <4> QED BY <1>1, <2>4, <2>5, <3>1, <4>1, <4>2 DEF Private
      <3>3. ASSUME NEW u \in Threads, th'[u].pc = "tlink"
            PROVE  holds'[th[u].page] = holds[th[u].page]
        BY <2>4, <3>2, <3>3 DEF Prepares, Private
      <3> QED BY <1>1, <2>3, <2>5, <3>1, <3>2, <3>3, ReplacementsKept DEF Prepares
    <2> QED BY <2>8, <2>9, <2>10, <2>12, <2>13, <2>14, <2>15, <2>16, <2>17, <2>18, <2>19, <2>20, GoodNext
            DEF Parts
  <1> QED BY <1>2, <1>3

\* The pointer of a file whose block has been freed, and what the media has of it.
LEMMA PartsCut ==
  ASSUME TypeOK, Good, NEW f \in Files, Cutting(f), bot.pc \in RmapLocked => bot.file # f,
         \A r \in Refs : r # f => (Cutting(r)' <=> Cutting(r)),
         slot[f] = NoPage, pte[f] = NoPage,
         \A r \in Refs : r # f => ptr'[r] = ptr[r] /\ media'[r] = media[r],
         Cutting(f)' \/ (ptr'[f] = NoPage /\ media'[f] = {NoPage}),
         UNCHANGED <<free, marks, map, holds, slot, pte, kpte, wp, bot>>
  PROVE  Parts'
  <1>1. ~Cutting(Kern) /\ Kern \in Refs /\ f \in Refs /\ Kern # f
    BY NotCutting, Names
  <1>2. ptr'[Kern] = ptr[Kern]
    BY <1>1
  <1>3. bot.pc \in RmapLocked => ptr'[bot.file] = ptr[bot.file] /\ bot.file \in Refs
    <2>1. bot.pc \in RmapLocked => bot.file \in Refs
      BY Names DEF Good, Migration, RmapLocked, RmapNew
    <2> QED BY <2>1
  <1>4. Migration'
    BY <1>2, <1>3 DEF Good, Migration, RmapLocked
  <1>5. NoPage \notin free
    BY Shapes, Names
  <1>6. Owners'
    <2>1. Spare' = Spare
      BY DEF Spare
    <2> QED BY <1>1, <1>2, <1>5, <2>1 DEF Good, Owners
  <1>7. Mappings'
    <2>1. NoPage \notin Pages
      BY Names
    <2> QED BY <1>1, <2>1, Names DEF Good, Mappings, BotHolds
  <1>8. Marks'
    BY <1>2 DEF Good, Marks
  <1>9. Contents'
    BY DEF Good, Contents
  <1>10. Durable'
    <2>1. Spare' = Spare /\ \A r \in Refs : Flushing(r)' <=> Flushing(r)
      BY DEF Spare, Flushing
    <2>2. ASSUME NEW r \in Refs, ~Cutting(r), r # f, NEW o \in media[r] \ {ptr[r]}
          PROVE  Stale(o, r)'
      BY <1>1, <2>1, <2>2, Names DEF Good, Durable, Stale
    <2> QED BY <1>1, <2>2 DEF Good, Durable
  <1> QED BY <1>4, <1>6, <1>7, <1>8, <1>9, <1>10 DEF Parts

LEMMA GoodTruncateEnd ==
  ASSUME TypeOK, Good, UNCHANGED flat, NEW t \in Threads, TruncateClear(t) \/ TruncateFence(t)
  PROVE  Good'
  <1> USE DEF ptrVars, poolVars, daxVars, kernVars, queueVars
  <1>0. PICK f \in Files : f = th[t].file
    BY DEF TruncateClear, TruncateFence, Good, ThreadShape
  <1>1. /\ th[t].pc \in {"clear", "fence"} /\ th[t].op = "truncate" /\ th[t].file = f
        /\ f \in Refs /\ f # Kern
        /\ UNCHANGED <<free, marks, slot, elock, pte, map, holds, size, kpte, wp, bot>>
    BY <1>0, Names DEF TruncateClear, TruncateFence, Good, ThreadShape
  <1>2. /\ Alone(t) /\ \A u \in Threads : u # t => th'[u] = th[u]
        /\ \/ /\ th'[t].pc = "fence" /\ th'[t].op = "truncate" /\ th'[t].file = f /\ ptr'[f] = NoPage
           \/ /\ th'[t].pc = "idle" /\ th'[t].op = "idle" /\ th'[t] = Idle
              /\ ptr' = ptr /\ ptr[f] = NoPage /\ media'[f] = {NoPage}
        /\ \A r \in Refs : r # f => ptr'[r] = ptr[r] /\ media'[r] = media[r]
    <2>1. CASE TruncateClear(t)
      <3>1. Go(t, "fence")
        BY <2>1 DEF TruncateClear
      <3>2. /\ Alone(t) /\ \A u \in Threads : u # t => th'[u] = th[u]
            /\ th'[t].pc = "fence" /\ th'[t].op = "truncate" /\ th'[t].file = f
        BY <1>1, <3>1, ThreadGoes, Shapes DEF Alone, ThreadPcs
      <3> QED BY <1>0, <1>1, <2>1, <3>2, Shapes DEF TruncateClear
    <2>2. CASE TruncateFence(t)
      <3>1. Leave(t) /\ th[t].pc = "fence"
        BY <2>2 DEF TruncateFence
      <3>2. /\ Alone(t) /\ \A u \in Threads : u # t => th'[u] = th[u]
            /\ th'[t].pc = "idle" /\ th'[t].op = "idle" /\ th'[t] = Idle
        BY <3>1, ThreadLeaves, Shapes DEF Alone
      <3>3. ptr[f] = NoPage
        BY <1>0, <3>1 DEF Good, LookedUp
      <3> QED BY <1>0, <1>1, <2>2, <3>2, <3>3, Shapes DEF TruncateFence
    <2> QED BY <2>1, <2>2
  <1> HIDE DEF Idle
  <1>3. /\ Cutting(f) /\ slot[f] = NoPage /\ pte[f] = NoPage
        /\ bot.pc \in RmapLocked => bot.file # f
        /\ \A r \in Refs : r # f => (Cutting(r)' <=> Cutting(r))
        /\ th'[t].pc = "fence" => Cutting(f)'
    <2>1. Cutting(f)
      BY <1>1 DEF Cutting
    <2>2. slot[f] = NoPage /\ pte[f] = NoPage /\ (bot.pc \in RmapLocked => bot.file # f)
      BY <1>1 DEF Good, Truncations, Semaphores
    <2>3. \A r \in Refs : r # f => (Cutting(r)' <=> Cutting(r))
      BY <1>1, <1>2 DEF Cutting
    <2>4. th'[t].pc = "fence" => Cutting(f)'
      BY <1>2 DEF Cutting
    <2> QED BY <2>1, <2>2, <2>3, <2>4
  <1>4. Parts'
    BY <1>1, <1>2, <1>3, PartsCut
  <1>5. ThreadShape'
    BY <1>1, <1>2 DEF Good, ThreadShape
  <1>6. Semaphores'
    BY <1>1, <1>2, SemaphoresKept
  <1>7. Entries'
    <2>1. \A g \in Files : ~FaultHolds(t, g)'
      BY <1>2 DEF FaultHolds
    <2> QED BY <1>1, <1>2, <2>1, EntriesKept
  <1>8. Truncations'
    BY <1>1, <1>2 DEF Good, Truncations
  <1>9. LookedUp'
    <2>1. ASSUME NEW u \in Threads PROVE LookedUpBy(u)'
      <3>1. CASE u = t
        BY <1>2, <3>1 DEF LookedUpBy, Replacing
      <3>2. CASE u # t
        <4>1. th[u].op \in {"read", "write", "fault", "truncate"} => th[u].file # f /\ th[u].file \in Refs
          BY <1>1, <3>2, Names DEF Good, Semaphores, Truncations, ThreadShape
        <4>2. th[u].op \in {"read", "write", "fault", "truncate", "idle"}
          BY Shapes, OpsAssumption DEF ThreadSet
        <4>3. th[u].op = "idle" => th[u].pc = "idle"
          BY DEF Good, ThreadShape, Idle
        <4>4. LookedUpBy(u) /\ th'[u] = th[u]
          BY <1>2, <3>2 DEF Good, LookedUp, LookedUpBy
        <4> QED BY <1>1, <1>2, <4>1, <4>2, <4>3, <4>4 DEF LookedUpBy, Replacing
      <3> QED BY <3>1, <3>2
    <2> QED BY <2>1 DEF LookedUp, LookedUpBy
  <1>10. Replacements'
    <2>1. Spare' = Spare /\ \A r \in Refs : Flushing(r)' <=> Flushing(r)
      BY <1>1 DEF Spare, Flushing
    <2>2. ~Cutting(f)' => media'[f] = {NoPage} /\ ptr'[f] = NoPage
      BY <1>2, <1>3
    <2>3. ASSUME NEW u \in Threads, Prepares(u)'
          PROVE  th'[u] = th[u] /\ Private(th[u].page)'
      <3>1. th'[u] = th[u] /\ Private(th[u].page)
        BY <1>2, <2>3 DEF Good, Replacements, Prepares
      <3> QED BY <1>1, <1>2, <1>3, <2>1, <2>2, <3>1, Names DEF Private
    <2>4. \A r \in Refs : ~Cutting(r)' /\ ~Flushing(r)' =>
            \/ media'[r] = {ptr'[r]}
            \/ ~Cutting(r) /\ ~Flushing(r) /\ media'[r] = media[r] /\ ptr'[r] = ptr[r]
      BY <1>2, <1>3, <2>1, <2>2
    <2> QED BY <1>1, <1>2, <2>3, <2>4, ReplacementsKept DEF Prepares
  <1> QED BY <1>4, <1>5, <1>6, <1>7, <1>8, <1>9, <1>10, GoodNext

-----------------------------------------------------------------------------
(* A file gets a free page.                                                *)

LEMMA PartsAttached ==
  ASSUME TypeOK, Good, SameCuts, NEW f \in Files, ~Cutting(f), NEW n \in free, NewBlock(n),
         slot[f] \notin Pages,
         bot.pc \in Holding \cup {"release"} => bot.file # f,
         ptr' = [ptr EXCEPT ![f] = n], media' = [media EXCEPT ![f] = {n}],
         holds' = [holds EXCEPT ![n] = f],
         UNCHANGED <<map, slot, pte, kpte, wp, bot>>
  PROVE  Parts'
  <1>1. /\ n \in Pages /\ free' = free \ {n} /\ marks'[n] = {"using"}
        /\ \A q \in Pages : q # n => marks'[q] = marks[q] /\ holds'[q] = holds[q]
        /\ holds'[n] = f /\ n # NoPage
    BY NewBlockType, Shapes, Names
  <1>2. /\ f \in Refs /\ f # Kern /\ Kern \in Refs /\ ~Cutting(Kern)
        /\ ptr'[f] = n /\ media'[f] = {n}
        /\ \A r \in Refs : r # f => ptr'[r] = ptr[r] /\ media'[r] = media[r]
    BY NotCutting, Names, Shapes
  <1>3. /\ n # Spare /\ n # bot.new /\ (\A r \in Refs : ~Cutting(r) => ptr[r] # n)
        /\ bot.pc \in Holding \cup After \cup VmapNew => n # bot.pfn
    BY FreePage
  <1>4. Migration'
    <2>1. bot.pc \in Holding \cup {"release"} => ptr'[bot.file] = ptr[bot.file]
      <3>1. bot.pc \in Holding \cup {"release"} => bot.file \in Refs
        BY Names DEF Good, Migration, Holding, RmapNew
      <3> QED BY <1>2, <3>1
    <2>2. bot.pc \in {"copy", "link", "flush", "slot", "release"} => ptr'[bot.file] = ptr[bot.file]
      BY <2>1 DEF Holding
    <2> QED BY <1>2, <2>2 DEF Good, Migration
  <1>5. Owners'
    <2>1. Spare' = Spare
      BY DEF Spare
    <2>2. \A r \in Refs : ~Cutting(r) => ptr[r] \notin free
      BY DEF Good, Owners
    <2>3. ASSUME NEW q \in Refs, NEW r \in Refs, ptr'[q] = ptr'[r], ptr'[q] # NoPage, ~Cutting(q),
                 ~Cutting(r)
          PROVE  q = r
      BY <1>2, <1>3, <2>3 DEF Good, Owners
    <2>4. \A r \in Refs : ~Cutting(r) => ptr'[r] \notin free'
      BY <1>1, <1>2, <2>2
    <2>5. Spare # NoPage => Spare \notin free' /\ \A r \in Refs : ~Cutting(r) => ptr'[r] # Spare
      BY <1>1, <1>2, <1>3 DEF Good, Owners
    <2>6. ptr'[Kern] # NoPage
      BY <1>2 DEF Good, Owners
    <2> QED BY <2>1, <2>3, <2>4, <2>5, <2>6 DEF Owners, SameCuts
  <1>6. Mappings'
    BY <1>2, Names DEF Good, Mappings, BotHolds
  <1>7. Marks'
    <2>1. bot.pc \in {"copy", "link"} \cup RmapNew => bot.pfn \in Pages /\ bot.new \in Pages
      BY MigrationPages DEF Before, After, RmapNew
    <2>2. \A q \in Pages : "tired" \in marks'[q] => "tired" \in marks[q]
      BY <1>1
    <2>3. \A q \in Pages : "vmap" \in marks'[q] <=>
            q = ptr[Kern] \/ (bot.pc \in VmapNew /\ q \in {bot.pfn, bot.new})
      <3>1. \A q \in Pages : "vmap" \in marks[q] <=>
              q = ptr[Kern] \/ (bot.pc \in VmapNew /\ q \in {bot.pfn, bot.new})
        BY DEF Good, Marks
      <3>2. n # ptr[Kern] /\ "vmap" \notin marks'[n]
        BY <1>1, <1>2, <1>3
      <3> QED BY <1>1, <1>3, <3>1, <3>2
    <2> QED BY <1>2, <2>1, <2>2, <2>3 DEF Good, Marks
  <1>8. Contents'
    <2>1. ASSUME NEW r \in Refs, ~Cutting(r), ptr'[r] # NoPage
          PROVE  holds'[ptr'[r]] = r
      <3>1. CASE r = f
        BY <1>1, <1>2, <3>1
      <3>2. CASE r # f
        <4>1. ptr'[r] = ptr[r] /\ ptr[r] \in Pages /\ ptr[r] # n /\ holds[ptr[r]] = r
          BY <1>2, <1>3, <2>1, <3>2, Shapes DEF Good, Contents
        <4> QED BY <1>1, <4>1
      <3> QED BY <3>1, <3>2
    <2>2. bot.pc \in {"link", "vlink"} => bot.new \in Pages /\ bot.new # n
      BY <1>3, MigrationPages DEF Before
    <2>3. bot.pc \in {"flush", "vflush"} => bot.pfn \in Pages /\ bot.pfn # n
      BY <1>3, MigrationPages DEF After
    <2> QED BY <1>1, <2>1, <2>2, <2>3 DEF Good, Contents, SameCuts
  <1>9. Durable'
    <2>1. Spare' = Spare /\ \A r \in Refs : Flushing(r)' <=> Flushing(r)
      BY DEF Spare, Flushing
    <2>2. ASSUME NEW r \in Refs, ~Cutting(r), r # f, NEW o \in media[r] \ {ptr[r]}
          PROVE  Stale(o, r)'
      <3>1. Stale(o, r) /\ o # n
        BY <2>2 DEF Good, Durable, Stale
      <3> QED BY <1>1, <1>2, <2>1, <3>1 DEF Stale, SameCuts
    <2> QED BY <1>2, <2>2 DEF Good, Durable, SameCuts
  <1> QED BY <1>4, <1>5, <1>6, <1>7, <1>8, <1>9 DEF Parts

\* Nothing that this thread has looked up depends on the block of its file.
Unaware(u) ==
  /\ th[u].pc \notin Replacing \cup {"fence"}
  /\ ~(th[u].pc \in {"tflush", "use"} /\ th[u].op \in {"write", "fault"})
  /\ ~(th[u].pc = "hole" /\ th[u].op = "write" /\ ~th[u].again)

\* The others, when a file gets a page that nobody else has looked up.
LEMMA LookedUpAttached ==
  ASSUME TypeOK, Good, NEW t \in Threads, Alone(t), UNCHANGED flat, NEW f \in Files, NEW n \in free,
         NewBlock(n), ptr' = [ptr EXCEPT ![f] = n], LookedUpBy(t)',
         \A u \in Threads : u # t /\ th[u].file = f => Unaware(u)
  PROVE  LookedUp'
  <1>1. ASSUME NEW u \in Threads PROVE LookedUpBy(u)'
    <2>1. CASE u = t
      BY <2>1
    <2>2. CASE u # t
      <3>1. LookedUpBy(u) /\ th'[u] = th[u]
        BY <2>2 DEF Good, LookedUp, LookedUpBy, Alone
      <3>2. th[u].file \in Refs \ {f} => ptr'[th[u].file] = ptr[th[u].file]
        BY Shapes
      <3>3. th[u].pc # "idle" => th[u].file \in Refs
        BY Names DEF Good, ThreadShape, Idle, Replacing
      <3>4. th[u].pc \in Replacing => marks'[ptr[th[u].file]] = marks[ptr[th[u].file]]
        <4> SUFFICES ASSUME th[u].pc \in Replacing
                     PROVE  marks'[ptr[th[u].file]] = marks[ptr[th[u].file]]
          OBVIOUS
        <4>1. th[u].op \in {"read", "write", "fault"}
          <5>1. th[u].op \in {"read", "write", "fault", "truncate", "idle"}
            BY Shapes, OpsAssumption DEF ThreadSet
          <5> QED BY <5>1 DEF Good, ThreadShape, Idle, Replacing
        <4>2. ~Cutting(th[u].file) /\ ptr[th[u].file] \in Pages
          BY <3>1, <3>3, <4>1, NotCutting, Shapes DEF LookedUpBy, Replacing
        <4>3. ptr[th[u].file] # n
          BY <3>3, <4>2, FreePage DEF Replacing
        <4> QED BY <4>2, <4>3, NewBlockType
      <3> QED BY <2>2, <3>1, <3>2, <3>3, <3>4 DEF LookedUpBy, Unaware, Replacing
    <2> QED BY <2>1, <2>2
  <1> QED BY <1>1 DEF LookedUp, LookedUpBy

-----------------------------------------------------------------------------
(* A tired page is replaced.                                               *)

\* A free page is taken for it.
LEMMA PartsTaken ==
  ASSUME TypeOK, Good, SameCuts, NEW n \in free, NewBlock(n),
         UNCHANGED <<ptr, media, map, holds, slot, pte, kpte, wp, bot>>
  PROVE  Parts'
  <1>1. /\ n \in Pages /\ free' = free \ {n} /\ marks'[n] = {"using"}
        /\ \A q \in Pages : q # n => marks'[q] = marks[q]
    BY NewBlockType
  <1>2. map[n] = NoRef /\ "vmap" \notin marks[n]
    BY FreePage
  <1>3. Migration'
    BY DEF Good, Migration
  <1>4. Owners'
    BY <1>1 DEF Good, Owners, SameCuts, Spare
  <1>5. Mappings'
    BY DEF Good, Mappings, BotHolds
  <1>6. Marks'
    <2>1. bot.pc \in {"copy", "link"} \cup RmapNew => bot.pfn \in Pages /\ bot.new \in Pages
      BY MigrationPages DEF Before, After, RmapNew
    <2>2. \A q \in Pages : /\ "tired" \in marks'[q] => "tired" \in marks[q]
                           /\ "vmap" \in marks'[q] <=> "vmap" \in marks[q]
      BY <1>1, <1>2
    <2> QED BY <2>1, <2>2 DEF Good, Marks
  <1>7. Contents'
    BY DEF Good, Contents, SameCuts
  <1>8. Durable'
    BY <1>1, DurableKept
  <1> QED BY <1>3, <1>4, <1>5, <1>6, <1>7, <1>8 DEF Parts

LEMMA GoodReplaceAlloc ==
  ASSUME TypeOK, Good, ~Races, UNCHANGED flat, NEW t \in Threads, ReplaceAlloc(t)
  PROVE  Good'
  <1> USE DEF ptrVars, poolVars, daxVars, kernVars, queueVars
  <1> DEFINE f == th[t].file
  <1>1. /\ th[t].pc = "tired" /\ free # {}
        /\ UNCHANGED <<ptr, media, map, holds, slot, elock, pte, size, kpte, wp, bot>>
    BY DEF ReplaceAlloc, Races, TiredTwice
  <1>2. /\ f \in Files /\ f \in Refs /\ th[t].op \in {"read", "write", "fault"} /\ ~Cutting(f)
    BY <1>1, TiredUnmapped DEF Replacing
  <1>3. PICK n \in free : NewBlock(n) /\ th' = [th EXCEPT ![t].pc = "tcopy", ![t].page = n]
    BY <1>1 DEF ReplaceAlloc
  <1>4. /\ n \in Pages /\ free' = free \ {n} /\ n # Spare
        /\ \A q \in Pages : q # n => marks'[q] = marks[q]
        /\ \A r \in Refs : ~Cutting(r) => ptr[r] # n
    BY <1>3, NewBlockType, FreePage
  <1>5. /\ Alone(t) /\ th'[t].pc = "tcopy" /\ th'[t].op = th[t].op /\ th'[t].file = f
        /\ th'[t].page = n
    BY <1>3, <1>4, ThreadFinds, Shapes DEF Alone, ThreadPcs
  <1>6. SameCuts /\ ThreadShape' /\ Semaphores' /\ Entries' /\ Truncations'
    BY <1>1, <1>2, <1>5, ThreadKept DEF Onward
  <1>7. Parts'
    BY <1>1, <1>3, <1>6, PartsTaken
  <1>8. LookedUp'
    <2>1. ASSUME NEW u \in Threads, th[u].pc \in Replacing
          PROVE  marks'[ptr[th[u].file]] = marks[ptr[th[u].file]]
      <3>1. ptr[th[u].file] \in Pages /\ ptr[th[u].file] # n
        BY <1>4, <2>1, TiredUnmapped, Shapes DEF Good, LookedUp
      <3> QED BY <1>4, <3>1
    <2>2. LookedUpBy(t)'
      BY <1>1, <1>5, <2>1 DEF Good, LookedUp, LookedUpBy, Replacing
    <2>3. ASSUME NEW u \in Threads, u # t PROVE LookedUpBy(u)'
      BY <1>1, <1>5, <2>1, <2>3 DEF Good, LookedUp, LookedUpBy, Alone
    <2> QED BY <2>2, <2>3 DEF LookedUp, LookedUpBy
  <1>9. Replacements'
    <2>1. Spare' = Spare /\ \A r \in Refs : Flushing(r)' <=> Flushing(r)
      BY <1>1 DEF Spare, Flushing
    <2>2. \A r \in Refs : ~Cutting(r) => n \notin media[r]
      BY <1>4 DEF Good, Durable, Stale
    <2>3. Private(n)'
      BY <1>1, <1>4, <1>6, <2>1, <2>2 DEF Private, SameCuts
    <2>4. ASSUME NEW u \in Threads, u # t, Prepares(u)'
          PROVE  th'[u] = th[u] /\ Prepares(u) /\ th[u].page # n /\ Private(th[u].page)'
      <3>1. th'[u] = th[u] /\ Prepares(u) /\ Private(th[u].page)
        BY <1>5, <2>4 DEF Good, Replacements, Prepares, Alone
      <3> QED BY <1>1, <1>4, <1>6, <2>1, <3>1 DEF Private, SameCuts
    <2>5. \A u \in Threads : Prepares(u)' =>
            /\ Private(th[u].page)'
            /\ th'[u].pc = "tlink" => holds'[th'[u].page] = th'[u].file
            /\ \A v \in Threads : Prepares(v)' /\ th'[v].page = th'[u].page => v = u
      BY <1>1, <1>5, <2>3, <2>4 DEF Good, Replacements
    <2>6. \A u \in Threads : th'[u].pc = "tflush" => slot'[th'[u].file] \notin Pages
      BY <1>1, <1>5 DEF Good, Replacements, Alone
    <2>7. \A u \in Threads, r \in Refs : Lags(u, r) => Lags(u, r)'
      BY <1>1, <1>5 DEF Lags, Alone
    <2> QED BY <1>1, <1>6, <2>1, <2>5, <2>6, <2>7 DEF Good, Replacements, SameCuts
  <1> QED BY <1>6, <1>7, <1>8, <1>9, GoodNext

\* The content of the tired page is copied to the new one, which nobody else knows of.
LEMMA GoodReplaceCopy ==
  ASSUME TypeOK, Good, UNCHANGED flat, NEW t \in Threads, ReplaceCopy(t)
  PROVE  Good'
  <1> USE DEF ptrVars, poolVars, daxVars, kernVars, queueVars
  <1> DEFINE f == th[t].file
             n == th[t].page
  <1>1. /\ th[t].pc = "tcopy"
        /\ UNCHANGED <<ptr, media, free, marks, map, slot, elock, pte, size, kpte, wp, bot>>
    BY DEF ReplaceCopy
  <1>2. /\ f \in Files /\ f \in Refs /\ th[t].op \in {"read", "write", "fault"} /\ ~Cutting(f)
        /\ ptr[f] # NoPage
    BY <1>1, TiredUnmapped DEF Replacing, Good, LookedUp
  <1>3. Private(n) /\ n \in Pages
    BY <1>1 DEF Good, Replacements, Prepares, Private
  <1>4. holds'[n] = f /\ \A q \in Pages : q # n => holds'[q] = holds[q]
    <2>1. holds' = [holds EXCEPT ![n] = holds[ptr[f]]] /\ holds[ptr[f]] = f
      BY <1>2 DEF ReplaceCopy, Good, Contents
    <2> QED BY <1>3, <2>1, Shapes
  <1>5. /\ Alone(t) /\ th'[t].pc = "tlink" /\ th'[t].op = th[t].op /\ th'[t].file = f
        /\ th'[t].page = n
    BY ThreadGoes, Shapes DEF ReplaceCopy, Alone, ThreadPcs
  <1>6. SameCuts /\ ThreadShape' /\ Semaphores' /\ Entries' /\ Truncations'
    BY <1>1, <1>2, <1>5, ThreadKept DEF Onward
  <1>7. Spare' = Spare /\ \A r \in Refs : Flushing(r)' <=> Flushing(r)
    BY <1>1 DEF Spare, Flushing
  <1>8. \A r \in Refs : ~Cutting(r) => n \notin media[r] /\ ptr[r] # n
    BY <1>3 DEF Private, Good, Durable
  <1>9. Parts'
    <2>1. Migration'
      BY <1>1 DEF Good, Migration
    <2>2. Owners'
      BY <1>1, <1>6 DEF Good, Owners, SameCuts, Spare
    <2>3. Mappings' /\ Marks'
      BY <1>1 DEF Good, Mappings, Marks, BotHolds
    <2>4. Contents'
      <3>1. /\ bot.pc \in {"link", "vlink"} => bot.new \in Pages /\ bot.new # n
            /\ bot.pc \in {"flush", "vflush"} => bot.pfn \in Pages /\ bot.pfn # n
        BY <1>3, MigrationPages DEF Private, Spare, Before, After
      <3>2. ASSUME NEW r \in Refs, ~Cutting(r), ptr[r] # NoPage
            PROVE  holds'[ptr[r]] = r
        BY <1>4, <1>8, <3>2, Shapes DEF Good, Contents
      <3> QED BY <1>1, <1>4, <1>6, <3>1, <3>2 DEF Good, Contents, SameCuts
    <2>5. Durable'
      <3>1. ASSUME NEW r \in Refs, ~Cutting(r), NEW o \in media[r] \ {ptr[r]}
            PROVE  Stale(o, r)'
        <4>1. Stale(o, r) /\ o # n
          BY <1>8, <3>1 DEF Good, Durable
        <4> QED BY <1>1, <1>4, <1>6, <1>7, <4>1 DEF Stale, SameCuts
      <3> QED BY <1>1, <1>6, <3>1 DEF Good, Durable, SameCuts
    <2> QED BY <2>1, <2>2, <2>3, <2>4, <2>5 DEF Parts
  <1>10. LookedUp'
    <2>1. LookedUpBy(t)'
      BY <1>1, <1>5 DEF Good, LookedUp, LookedUpBy, Replacing
    <2> QED BY <1>1, <1>5, <2>1, LookedUpKept
  <1>11. Replacements'
    <2>1. ASSUME NEW u \in Threads, Prepares(u)'
          PROVE  /\ Prepares(u) /\ th'[u].page = th[u].page /\ th'[u].file = th[u].file
                 /\ Private(th[u].page)'
                 /\ th'[u].pc = "tlink" => holds'[th'[u].page] = th'[u].file
      <3>1. /\ Prepares(u) /\ th'[u].page = th[u].page /\ th'[u].file = th[u].file
            /\ u # t => th'[u] = th[u]
        BY <1>1, <1>5, <2>1 DEF Prepares, Alone
      <3>2. /\ Private(th[u].page) /\ (u # t => th[u].page # n)
            /\ u # t /\ th'[u].pc = "tlink" => holds[th[u].page] = th[u].file
        BY <1>1, <3>1 DEF Good, Replacements, Prepares
      <3>3. Private(th[u].page)'
        BY <1>1, <1>6, <1>7, <3>1, <3>2 DEF Private, SameCuts
      <3>4. th[u].page \in Pages
        BY <3>2 DEF Private
      <3> QED BY <1>4, <1>5, <3>1, <3>2, <3>3, <3>4
    <2>2. \A u \in Threads : th'[u].pc = "tflush" => slot'[th'[u].file] \notin Pages
      BY <1>1, <1>5 DEF Good, Replacements, Alone
    <2>3. \A u \in Threads, r \in Refs : Lags(u, r) => Lags(u, r)'
      BY <1>1, <1>5 DEF Lags, Alone
    <2>4. \A u \in Threads : Prepares(u)' =>
            \A v \in Threads : Prepares(v)' /\ th'[v].page = th'[u].page => v = u
      BY <2>1 DEF Good, Replacements
    <2> QED BY <1>1, <1>6, <1>7, <2>1, <2>2, <2>3, <2>4 DEF Good, Replacements, SameCuts
  <1> QED BY <1>6, <1>9, <1>10, <1>11, GoodNext

\* The new page takes the place of the tired one, which the media may still have.
LEMMA GoodReplaceLink ==
  ASSUME TypeOK, Good, ~Races, UNCHANGED flat, NEW t \in Threads, ReplaceLink(t)
  PROVE  Good'
  <1> USE DEF ptrVars, poolVars, daxVars, kernVars, queueVars
  <1> DEFINE f == th[t].file
             n == th[t].page
  <1>1. /\ th[t].pc = "tlink"
        /\ UNCHANGED <<free, marks, map, holds, slot, elock, pte, size, kpte, wp, bot>>
        /\ ptr' = [ptr EXCEPT ![f] = n] /\ media' = [media EXCEPT ![f] = @ \cup {n}]
    BY DEF ReplaceLink
  <1>2. /\ f \in Files /\ f \in Refs /\ f # Kern /\ th[t].op \in {"read", "write", "fault"}
        /\ ~Cutting(f) /\ slot[f] \notin Pages /\ pte[f] = NoPage
        /\ bot.pc \in Holding => bot.file # f
    BY <1>1, TiredUnmapped, Names DEF Replacing
  <1>3. /\ ptr'[f] = n /\ media'[f] = media[f] \cup {n}
        /\ \A r \in Refs : r # f => ptr'[r] = ptr[r] /\ media'[r] = media[r]
    BY <1>1, <1>2, Shapes
  <1>4. PICK old \in Pages : old = ptr[f]
    BY <1>1, <1>2, Shapes DEF Good, LookedUp, Replacing
  <1>5. /\ "tired" \in marks[old] /\ holds[old] = f /\ old \notin free /\ old # Spare
        /\ \A r \in Refs : ~Cutting(r) /\ r # f => ptr[r] # old
    BY <1>1, <1>2, <1>4, Names DEF Good, LookedUp, Replacing, Contents, Owners
  <1>6. /\ Private(n) /\ n \in Pages /\ n # NoPage /\ n \notin free /\ n # Spare /\ holds[n] = f
        /\ \A r \in Refs : ~Cutting(r) => n \notin media[r] /\ ptr[r] # n
    BY <1>1, Names DEF Good, Replacements, Prepares, Private, Durable
  <1>7. /\ Alone(t) /\ th'[t].pc = "tflush" /\ th'[t].op = th[t].op /\ th'[t].file = f
        /\ th'[t].page = n
    BY ThreadGoes, Shapes DEF ReplaceLink, Alone, ThreadPcs
  <1>8. SameCuts /\ ThreadShape' /\ Semaphores' /\ Entries' /\ Truncations'
    BY <1>1, <1>2, <1>7, ThreadKept DEF Onward
  <1>9. Spare' = Spare /\ \A r \in Refs : Flushing(r)' <=> Flushing(r)
    BY <1>1 DEF Spare, Flushing
  <1>10. ptr'[Kern] = ptr[Kern] /\ Kern \in Refs
    BY <1>2, <1>3, Names
  <1>11. Migration'
    <2>1. bot.pc = "release" => bot.file # f
      BY <1>4, <1>5 DEF Good, Migration, Marks, RmapNew
    <2>2. bot.pc \in Holding \cup {"release"} => bot.file \in Refs
      BY Names DEF Good, Migration, Holding, RmapNew
    <2>3. bot.pc \in {"copy", "link", "flush", "slot", "release"} => ptr'[bot.file] = ptr[bot.file]
      BY <1>2, <1>3, <2>1, <2>2 DEF Holding
    <2> QED BY <1>1, <1>10, <2>3 DEF Good, Migration
  <1>12. Owners'
    <2>1. \A r \in Refs : ~Cutting(r) => ptr'[r] \notin free
      BY <1>3, <1>6 DEF Good, Owners
    <2>2. ASSUME NEW q \in Refs, NEW r \in Refs, ptr'[q] = ptr'[r], ptr'[q] # NoPage, ~Cutting(q),
                 ~Cutting(r)
          PROVE  q = r
      BY <1>3, <1>6, <2>2 DEF Good, Owners
    <2>3. Spare # NoPage => Spare \notin free /\ \A r \in Refs : ~Cutting(r) => ptr'[r] # Spare
      BY <1>3, <1>6 DEF Good, Owners
    <2> QED BY <1>1, <1>8, <1>9, <1>10, <2>1, <2>2, <2>3 DEF Good, Owners, SameCuts
  <1>13. Mappings'
    BY <1>1, <1>2, <1>3, Names DEF Good, Mappings, BotHolds
  <1>14. Marks'
    BY <1>1, <1>10 DEF Good, Marks
  <1>15. Contents'
    BY <1>1, <1>3, <1>6, <1>8 DEF Good, Contents, SameCuts
  <1>16. Durable'
    <2>1. ASSUME NEW r \in Refs, ~Cutting(r), NEW o \in media'[r] \ {ptr'[r]}
          PROVE  Stale(o, r)'
      <3>1. o \in media[r] /\ o # n
        BY <1>3, <1>6, <2>1
      <3>2. CASE o = ptr[r]
        <4>1. r = f /\ o = old
          BY <1>3, <1>4, <2>1, <3>2
        <4>2. \A q \in Refs : ~Cutting(q) => ptr'[q] # old
          BY <1>3, <1>5, <3>1, <4>1
        <4> QED BY <1>1, <1>5, <1>8, <1>9, <4>1, <4>2 DEF Stale, SameCuts
      <3>3. CASE o # ptr[r]
        <4>1. Stale(o, r)
          BY <2>1, <3>1, <3>3 DEF Good, Durable
        <4>2. \A q \in Refs : ~Cutting(q) => ptr'[q] # o
          BY <1>3, <3>1, <4>1 DEF Stale
        <4> QED BY <1>1, <1>8, <1>9, <4>1, <4>2 DEF Stale, SameCuts
      <3> QED BY <3>2, <3>3
    <2>2. \A r \in Refs : ~Cutting(r) => ptr'[r] \in media'[r]
      BY <1>3 DEF Good, Durable
    <2> QED BY <1>8, <2>1, <2>2 DEF Durable, SameCuts
  <1>17. LookedUp'
    <2>1. LookedUpBy(t)'
      BY <1>3, <1>6, <1>7 DEF LookedUpBy, Replacing
    <2>2. ASSUME NEW u \in Threads, u # t PROVE LookedUpBy(u)'
      <3>1. LookedUpBy(u) /\ th'[u] = th[u]
        BY <1>7, <2>2 DEF Good, LookedUp, LookedUpBy, Alone
      <3>2. CASE th[u].file = f
        <4>1. /\ th[u].pc \notin Replacing
              /\ ~(th[u].pc \in {"tflush", "use"} /\ th[u].op \in {"write", "fault"})
          BY <1>1, <2>2, <3>2 DEF Races, TiredTwice, Replacing
        <4>2. th[u].pc # "fence" /\ ~(th[u].pc = "hole" /\ th[u].op = "write" /\ ~th[u].again)
          BY <1>4, <3>1, <3>2, Names DEF LookedUpBy
        <4> QED BY <3>1, <4>1, <4>2 DEF LookedUpBy
      <3>3. CASE th[u].file # f
        <4>1. th[u].file \in Refs => ptr'[th[u].file] = ptr[th[u].file]
          BY <1>3, <3>3
        <4>2. th[u].pc # "idle" => th[u].file \in Refs
          BY Names DEF Good, ThreadShape, Idle
        <4> QED BY <1>1, <3>1, <4>1, <4>2 DEF LookedUpBy, Replacing
      <3> QED BY <3>2, <3>3
    <2> QED BY <2>1, <2>2 DEF LookedUp, LookedUpBy
  <1>18. Replacements'
    <2>1. ASSUME NEW u \in Threads, Prepares(u)'
          PROVE  th'[u] = th[u] /\ Prepares(u) /\ Private(th[u].page)'
      <3>1. u # t /\ th'[u] = th[u] /\ Prepares(u)
        BY <1>7, <2>1 DEF Prepares, Alone
      <3>2. Private(th[u].page) /\ th[u].page # n
        BY <1>1, <3>1 DEF Good, Replacements, Prepares
      <3> QED BY <1>1, <1>3, <1>8, <1>9, <3>1, <3>2 DEF Private, SameCuts
    <2>2. \A u \in Threads : Prepares(u)' =>
            /\ Private(th[u].page)'
            /\ th'[u].pc = "tlink" => holds'[th'[u].page] = th'[u].file
            /\ \A v \in Threads : Prepares(v)' /\ th'[v].page = th'[u].page => v = u
      BY <1>1, <2>1 DEF Good, Replacements
    <2>3. \A u \in Threads : th'[u].pc = "tflush" => slot'[th'[u].file] \notin Pages
      BY <1>1, <1>2, <1>7 DEF Good, Replacements, Alone
    <2>4. ASSUME NEW r \in Refs, ~Cutting(r)', ~Flushing(r)', \A u \in Threads : ~Lags(u, r)'
          PROVE  media'[r] = {ptr'[r]}
      <3>1. r # f
        BY <1>7, <2>4 DEF Lags
      <3>2. \A u \in Threads : ~Lags(u, r)
        BY <1>1, <1>7, <2>4 DEF Lags, Alone
      <3> QED BY <1>3, <1>8, <1>9, <2>4, <3>1, <3>2 DEF Good, Replacements, SameCuts
    <2> QED BY <2>2, <2>3, <2>4 DEF Replacements
  <1> QED BY <1>8, <1>11, <1>12, <1>13, <1>14, <1>15, <1>16, <1>17, <1>18, GoodNext DEF Parts

\* The pointer is durable, and the thread goes on to use the page.
LEMMA GoodReplaceFlush ==
  ASSUME TypeOK, Good, UNCHANGED flat, NEW t \in Threads, ReplaceFlush(t)
  PROVE  Good'
  <1> USE DEF ptrVars, poolVars, daxVars, kernVars, queueVars
  <1> DEFINE f == th[t].file
  <1>1. /\ th[t].pc = "tflush" /\ media' = [media EXCEPT ![f] = {ptr[f]}]
        /\ UNCHANGED <<ptr, free, marks, map, holds, slot, elock, pte, size, kpte, wp, bot>>
    BY DEF ReplaceFlush
  <1>2. /\ f \in Files /\ f \in Refs /\ th[t].op \in {"read", "write", "fault"} /\ ~Cutting(f)
    BY <1>1, TiredUnmapped
  <1>3. media'[f] = {ptr[f]} /\ \A r \in Refs : r # f => media'[r] = media[r]
    BY <1>1, <1>2, Shapes
  <1>4. /\ Alone(t) /\ th'[t].pc = "use" /\ th'[t].op = th[t].op /\ th'[t].file = f
        /\ th'[t].page = th[t].page
    BY ThreadGoes, Shapes DEF ReplaceFlush, Alone, ThreadPcs
  <1>5. SameCuts /\ ThreadShape' /\ Semaphores' /\ Entries' /\ Truncations'
    BY <1>1, <1>2, <1>4, ThreadKept DEF Onward
  <1>6. Spare' = Spare /\ \A r \in Refs : Flushing(r)' <=> Flushing(r)
    BY <1>1 DEF Spare, Flushing
  <1>7. \A r \in Refs : ~Cutting(r) => ptr[r] \in media'[r] /\ media'[r] \subseteq media[r]
    BY <1>3 DEF Good, Durable
  <1>8. Parts'
    <2>1. Migration'
      BY <1>1 DEF Good, Migration
    <2>2. Owners' /\ Contents'
      BY <1>1, <1>5 DEF Good, Owners, Contents, SameCuts, Spare
    <2>3. Mappings' /\ Marks'
      BY <1>1 DEF Good, Mappings, Marks, BotHolds
    <2>4. Durable'
      <3>1. ASSUME NEW r \in Refs, ~Cutting(r), NEW o \in media'[r] \ {ptr[r]}
            PROVE  Stale(o, r)'
        <4>1. Stale(o, r)
          BY <1>7, <3>1 DEF Good, Durable
        <4> QED BY <1>1, <1>5, <1>6, <4>1 DEF Stale, SameCuts
      <3> QED BY <1>1, <1>5, <1>7, <3>1 DEF Durable, SameCuts
    <2> QED BY <2>1, <2>2, <2>3, <2>4 DEF Parts
  <1>9. LookedUp'
    <2>1. LookedUpBy(t)'
      BY <1>1, <1>4 DEF Good, LookedUp, LookedUpBy, Replacing
    <2> QED BY <1>1, <1>4, <2>1, LookedUpKept
  <1>10. Replacements'
    <2>1. ASSUME NEW u \in Threads, Prepares(u)'
          PROVE  th'[u] = th[u] /\ Prepares(u) /\ Private(th[u].page)'
      <3>1. th'[u] = th[u] /\ Prepares(u)
        BY <1>4, <2>1 DEF Prepares, Alone
      <3>2. Private(th[u].page)
        BY <3>1 DEF Good, Replacements
      <3> QED BY <1>1, <1>5, <1>6, <1>7, <3>1, <3>2 DEF Private, SameCuts
    <2>2. \A u \in Threads : Prepares(u)' =>
            /\ Private(th[u].page)'
            /\ th'[u].pc = "tlink" => holds'[th'[u].page] = th'[u].file
            /\ \A v \in Threads : Prepares(v)' /\ th'[v].page = th'[u].page => v = u
      BY <1>1, <2>1 DEF Good, Replacements
    <2>3. \A u \in Threads : th'[u].pc = "tflush" => slot'[th'[u].file] \notin Pages
      BY <1>1, <1>4 DEF Good, Replacements, Alone
    <2>4. ASSUME NEW r \in Refs, ~Cutting(r)', ~Flushing(r)', \A u \in Threads : ~Lags(u, r)'
          PROVE  media'[r] = {ptr'[r]}
      <3>1. CASE r = f
        BY <1>1, <1>3, <3>1
      <3>2. CASE r # f
        <4>1. \A u \in Threads : ~Lags(u, r)
          BY <1>4, <2>4, <3>2 DEF Lags, Alone
        <4> QED BY <1>1, <1>3, <1>5, <1>6, <2>4, <3>2, <4>1 DEF Good, Replacements, SameCuts
      <3> QED BY <3>1, <3>2
    <2> QED BY <2>2, <2>3, <2>4 DEF Replacements
  <1> QED BY <1>5, <1>8, <1>9, <1>10, GoodNext

LEMMA GoodFillHole ==
  ASSUME TypeOK, Good, UNCHANGED flat, NEW t \in Threads, FillHole(t)
  PROVE  Good'
  <1> USE DEF ptrVars, poolVars, daxVars, kernVars, queueVars
  <1>0. PICK f \in Files : f = th[t].file
    BY DEF FillHole, Good, ThreadShape, Idle
  <1>1. /\ th[t].pc = "hole" /\ th[t].file = f /\ th[t].op \in {"write", "fault"} /\ ~th[t].again
        /\ th[t].op = "fault" => Shared(f) \cup Exclusive(f) = {}
        /\ UNCHANGED <<slot, elock, pte, map, size, kpte, wp, bot>>
        /\ th' = [th EXCEPT ![t].pc = "lookup", ![t].again = TRUE]
    <2>1. th[t].op \in {"read", "write", "fault", "truncate", "idle"} /\ th[t].pc = "hole"
      BY Shapes, OpsAssumption DEF ThreadSet, FillHole
    <2> QED BY <1>0, <2>1 DEF FillHole, Good, ThreadShape, Idle
  <1>2. /\ Alone(t) /\ th'[t].pc = "lookup" /\ th'[t].op = th[t].op /\ th'[t].file = f
    BY <1>1, ThreadRetries, Shapes DEF Alone
  <1>3. LookedUpBy(t)'
    BY <1>2 DEF LookedUpBy, Replacing
  <1>4. Onward(t)
    BY <1>1, <1>2 DEF Onward
  <1>5. CASE ptr[f] # NoPage
    <2>1. th[t].op = "fault"
      BY <1>1, <1>5 DEF Good, LookedUp
    <2>2. UNCHANGED <<ptr, media, free, marks, holds>>
      BY <1>0, <1>5, <2>1 DEF FillHole
    <2> QED BY <1>1, <1>2, <1>3, <1>4, <2>2, GoodQuiet
  <1>6. CASE ptr[f] = NoPage
    <2>1. PICK n \in free :
            /\ NewBlock(n)
            /\ holds' = [holds EXCEPT ![n] = f]
            /\ ptr' = [ptr EXCEPT ![f] = n] /\ media' = [media EXCEPT ![f] = {n}]
      BY <1>0, <1>6 DEF FillHole
    <2>2. SameCuts /\ ThreadShape' /\ Semaphores' /\ Entries' /\ Truncations'
      BY <1>4, ThreadKept
    <2>3. bot.pc \in Holding \cup {"release"} => bot.file # f
      <3>1. bot.pc \in Holding \cup {"release"} => ptr[bot.file] \in {bot.pfn, bot.new}
        BY DEF Good, Migration, Holding
      <3>2. bot.pc \in Holding \cup {"release"} => bot.pfn \in Pages /\ bot.new \in Pages
        BY MigrationPages DEF Holding, Before, After
      <3> QED BY <1>6, <3>1, <3>2, Names
    <2>4. slot[f] \notin Pages /\ ~Cutting(f)
      BY <1>1, <1>6, <2>3, SlotPage, NotCutting, Names DEF BotHolds
    <2>5. Parts'
      BY <1>1, <2>1, <2>2, <2>3, <2>4, PartsAttached
    <2>6. ASSUME NEW u \in Threads, u # t, th[u].file = f
          PROVE  Unaware(u)
      <3>1. th[u].pc \notin Replacing /\ ~(th[u].pc \in {"tflush", "use"} /\ th[u].op \in {"write", "fault"})
        BY <1>6, <2>6 DEF Good, LookedUp
      <3>2. th[u].op \notin {"write", "truncate"}
        BY <1>1, <2>6 DEF Good, Semaphores, Exclusive
      <3> QED BY <3>1, <3>2 DEF Good, ThreadShape, Unaware
    <2>7. LookedUp'
      <3>1. \A u \in Threads : u # t /\ th[u].file = f => Unaware(u)
        BY <2>6
      <3> QED BY <1>2, <1>3, <2>1, <3>1, LookedUpAttached
    <2>8. Replacements'
      <3>1. Spare' = Spare /\ \A r \in Refs : Flushing(r)' <=> Flushing(r)
        BY <1>1 DEF Spare, Flushing
      <3>2. /\ free' = free \ {n} /\ ptr'[f] = n /\ media'[f] = {n} /\ n \in Pages
            /\ \A r \in Refs : r # f => ptr'[r] = ptr[r] /\ media'[r] = media[r]
        BY <2>1, NewBlockType, Shapes, Names
      <3>3. ASSUME NEW u \in Threads, Prepares(u)'
            PROVE  th'[u] = th[u] /\ th[u].page # n /\ Private(th[u].page)'
        <4>1. th'[u] = th[u] /\ Private(th[u].page) /\ th[u].page # n
          BY <1>2, <3>3 DEF Good, Replacements, Prepares, Alone, Private
        <4> QED BY <2>2, <3>1, <3>2, <4>1 DEF Private, SameCuts
      <3>4. ASSUME NEW u \in Threads, th'[u].pc = "tlink"
            PROVE  holds'[th[u].page] = holds[th[u].page]
        BY <2>1, <3>3, <3>4, Shapes DEF Prepares, Private
      <3>5. \A r \in Refs : ~Cutting(r)' /\ ~Flushing(r)' =>
              \/ media'[r] = {ptr'[r]}
              \/ ~Cutting(r) /\ ~Flushing(r) /\ media'[r] = media[r] /\ ptr'[r] = ptr[r]
        BY <2>2, <3>1, <3>2 DEF SameCuts
      <3> QED BY <1>1, <1>2, <3>3, <3>4, <3>5, ReplacementsKept DEF Prepares, Alone
    <2> QED BY <2>2, <2>5, <2>7, <2>8, GoodNext
  <1> QED BY <1>5, <1>6

-----------------------------------------------------------------------------
(* The steps of the bottom half.                                           *)

\* The threads do not notice a step of the bottom half that leaves entries alone.
LEMMA ThreadsKept ==
  ASSUME TypeOK, Good, UNCHANGED <<th, size, flat, slot, pte, elock>>,
         bot'.pc \in RmapLocked => Exclusive(bot'.file) = {},
         \A f \in Files : BotHolds(f)' => BotHolds(f)
  PROVE  SameCuts /\ ThreadShape' /\ Semaphores' /\ Entries' /\ Truncations'
  <1>1. SameCuts
    BY DEF SameCuts, Cutting
  <1>2. ThreadShape'
    BY DEF Good, ThreadShape
  <1>3. Semaphores'
    BY DEF Good, Semaphores, Exclusive
  <1>4. Entries'
    <2>1. \A t \in Threads, f \in Files : FaultHolds(t, f)' <=> FaultHolds(t, f)
      BY DEF FaultHolds
    <2> QED BY <2>1 DEF Good, Entries
  <1>5. Truncations'
    BY DEF Good, Truncations
  <1> QED BY <1>1, <1>2, <1>3, <1>4, <1>5

\* A migration that goes on with the inode lock excludes writers.
LEMMA NoWriter ==
  ASSUME TypeOK, Good, bot.pc \in RmapLocked
  PROVE  Exclusive(bot.file) = {}
  BY DEF Good, Semaphores, Exclusive

\* What the media has, and what threads prepare, stays good in the steps that neither
\* change nor flush a pointer: they free and write at most the page of the migration.
LEMMA BottomKeeps ==
  ASSUME TypeOK, Good, SameCuts, UNCHANGED <<ptr, media, th>>,
         bot.pc \notin {"flush", "vflush"}, bot'.pc \notin {"flush", "vflush"},
         Spare' \in free \cup {Spare, NoPage},
         \A p \in Pages \ {Spare} : p \notin free => p \notin free' /\ holds'[p] = holds[p],
         \A f \in Files : slot'[f] \in Pages => slot[f] \in Pages
  PROVE  Durable' /\ Replacements'
  <1>1. \A r \in Refs : ~Flushing(r) /\ ~Flushing(r)'
    BY DEF Flushing
  <1>2. NoPage \notin Pages
    BY Names
  <1>3. ASSUME NEW r \in Refs, ~Cutting(r), NEW o \in media[r] \ {ptr[r]}
        PROVE  Stale(o, r)'
    <2>1. Stale(o, r) /\ o # Spare
      BY <1>1, <1>3 DEF Good, Durable, Stale
    <2> QED BY <1>2, <2>1 DEF Stale, SameCuts
  <1>4. Durable'
    BY <1>3 DEF Good, Durable, SameCuts
  <1>5. ASSUME NEW t \in Threads, Prepares(t)'
        PROVE  /\ Private(th[t].page)'
               /\ th[t].pc = "tlink" => holds'[th[t].page] = holds[th[t].page]
    <2>1. Private(th[t].page)
      BY <1>5 DEF Good, Replacements, Prepares
    <2> QED BY <1>2, <2>1 DEF Private, SameCuts
  <1>6. \A t \in Threads : th[t].pc = "tflush" => th[t].file \in Files
    BY TiredUnmapped
  <1>7. Replacements'
    <2>1. \A r \in Refs : ~Cutting(r)' /\ ~Flushing(r)' => ~Cutting(r) /\ ~Flushing(r)
      BY <1>1 DEF SameCuts
    <2> QED BY <1>5, <1>6, <2>1, ReplacementsKept DEF Prepares
  <1> QED BY <1>4, <1>7

\* The page of a thread that is about to replace it.
LEMMA TiredPage ==
  ASSUME TypeOK, Good, NEW t \in Threads, th[t].pc \in Replacing
  PROVE  /\ th[t].file \in Files /\ ~Cutting(th[t].file) /\ th[t].op \in {"read", "write", "fault"}
         /\ ptr[th[t].file] \in Pages /\ ptr[th[t].file] \notin free /\ ptr[th[t].file] # Spare
         /\ "tired" \in marks[ptr[th[t].file]]
  <1>1. th[t].op \in {"read", "write", "fault", "truncate", "idle"}
    BY Shapes, OpsAssumption DEF ThreadSet
  <1>2. th[t].file \in Files /\ th[t].op \in {"read", "write", "fault"} /\ th[t].file \in Refs
    BY <1>1, Names DEF Good, ThreadShape, Idle, Replacing
  <1>3. ~Cutting(th[t].file) /\ ptr[th[t].file] \in Pages /\ "tired" \in marks[ptr[th[t].file]]
    BY <1>2, NotCutting, Shapes DEF Good, LookedUp
  <1>4. ptr[th[t].file] \notin free /\ ptr[th[t].file] # Spare
    <2>1. Spare # NoPage => ptr[th[t].file] # Spare
      BY <1>2, <1>3 DEF Good, Owners
    <2>2. ptr[th[t].file] # NoPage /\ ptr[th[t].file] \notin free
      BY <1>2, <1>3, Names DEF Good, Owners
    <2> QED BY <2>1, <2>2
  <1> QED BY <1>2, <1>3, <1>4

LEMMA LookedUpStays ==
  ASSUME TypeOK, Good, UNCHANGED <<th, flat, ptr>>,
         \A t \in Threads : th[t].pc \in Replacing => "tired" \in marks'[ptr[th[t].file]]
  PROVE  LookedUp'
  BY DEF Good, LookedUp

\* Between two migrations.
Between == {"idle", "fetch", "strand", "grab", "ralloc", "valloc"}

LEMMA BetweenShape ==
  ASSUME TypeOK, Good, bot.pc \in Between
  PROVE  /\ bot.new = NoPage /\ Spare = NoPage /\ bot.pc \notin RmapLocked
         /\ \A f \in Files : ~BotHolds(f)
         /\ kpte = ptr[Kern] /\ ~wp
         /\ \A p \in Pages : "vmap" \in marks[p] <=> p = ptr[Kern]
  BY DEF Good, Migration, Marks, Spare, BotHolds, Between, Before, After, Holding, RmapLocked,
         VmapNew

LEMMA GoodBetween ==
  ASSUME TypeOK, Good, bot.pc \in Between, bot'.pc \in Between, bot'.new = NoPage,
         bot'.pc \notin {"idle", "fetch"} => bot'.pfn \in Pages,
         bot'.pc = "ralloc" => bot'.file \in Files,
         UNCHANGED <<ptr, media, free, map, holds, slot, pte, elock, kpte, wp, th, size, flat>>,
         \A p \in Pages : /\ "tired" \in marks[p] => "tired" \in marks'[p]
                          /\ "tired" \in marks'[p] => "tired" \in marks[p] \/ map[p] = NoRef
                          /\ "vmap" \in marks'[p] <=> "vmap" \in marks[p]
  PROVE  Good'
  <1>1. /\ bot'.pc \notin RmapLocked /\ bot'.pc \notin Holding /\ bot'.pc \notin Before
        /\ bot'.pc \notin After /\ bot'.pc \notin RmapNew /\ bot'.pc \notin VmapNew
        /\ bot'.pc \notin {"copy", "link", "flush", "slot", "release", "protect", "vcopy", "vlink", "vflush",
                           "vswitch", "vrelease"}
    BY DEF Between, RmapLocked, Holding, Before, After, RmapNew, VmapNew
  <1>2. \A f \in Files : ~BotHolds(f)'
    BY <1>1 DEF BotHolds
  <1>3. SameCuts /\ ThreadShape' /\ Semaphores' /\ Entries' /\ Truncations'
    BY <1>1, <1>2, ThreadsKept
  <1>4. LookedUp'
    BY TiredPage, LookedUpStays
  <1>5. Migration'
    <2>1. bot'.pc \in {"ralloc"} \cup RmapNew => bot'.file \in Files
      BY <1>1
    <2> QED BY <1>1, <2>1, BetweenShape DEF Migration
  <1>6. Owners'
    <2>1. Spare' = NoPage
      BY <1>1 DEF Spare
    <2> QED BY <1>3, <2>1 DEF Good, Owners, SameCuts
  <1>7. Mappings'
    BY <1>2, BetweenShape DEF Good, Mappings
  <1>8. Marks'
    BY <1>1, BetweenShape DEF Good, Marks
  <1>9. Contents'
    BY <1>1, <1>3 DEF Good, Contents, SameCuts
  <1>10. Durable' /\ Replacements'
    <2>1. Spare' = NoPage /\ bot.pc \notin {"flush", "vflush"}
      BY <1>1 DEF Spare, Between
    <2> QED BY <1>1, <1>3, <2>1, BottomKeeps
  <1> QED BY <1>3, <1>4, <1>5, <1>6, <1>7, <1>8, <1>9, <1>10, GoodNext DEF Parts

LEMMA GoodRequests ==
  ASSUME TypeOK, Good, ~Races, UNCHANGED flat,
         \/ BotStart \/ BotNoSuper \/ Fetch \/ Strand \/ Grab \/ ((RmapAlloc \/ VmapAlloc) /\ free = {})
  PROVE  Good'
  <1> USE DEF ptrVars, poolVars, daxVars, kernVars, queueVars
  <1> DEFINE Same == UNCHANGED <<ptr, media, free, map, holds, slot, pte, elock, kpte, wp, th, size, flat>>
  <1>1. CASE BotStart
    BY <1>1, BotFetches, GoodBetween DEF BotStart, Between
  <1>6. CASE BotNoSuper
    <2>1. bot.pc = "idle" /\ bot' = bot /\ Same /\ marks' = marks
      BY <1>6 DEF BotNoSuper
    <2> QED BY <2>1, BetweenShape, GoodBetween DEF Between
  <1>2. CASE Fetch
    <2>1. bot.pc = "fetch" /\ Same /\ marks' = marks
      BY <1>2 DEF Fetch
    <2>2. CASE BotNext
      BY <2>1, <2>2, BotFetches, GoodBetween DEF Between
    <2>3. CASE bot' = Rest
      BY <2>1, <2>3, GoodBetween DEF Between, Rest
    <2>4. CASE fifo # <<>> /\ Service(Head(fifo)) # "fetch"
      <3>1. PICK p \in Pages, pc \in {"grab", "valloc", "strand"} :
              bot' = [Rest EXCEPT !.pfn = p, !.pc = pc]
        <4>1. Head(fifo) \in Pages
          BY <2>4 DEF TypeOK
        <4>2. Service(Head(fifo)) \in {"grab", "valloc", "strand", "fetch"}
          BY DEF Service
        <4>3. bot' = [Rest EXCEPT !.pfn = Head(fifo), !.pc = Service(Head(fifo))]
          BY <1>2, <2>4 DEF Fetch
        <4> HIDE DEF Service
        <4> QED BY <2>4, <4>1, <4>2, <4>3
      <3>2. bot'.pc = pc /\ bot'.pfn = p /\ bot'.new = NoPage
        BY <3>1 DEF Rest
      <3> QED BY <2>1, <3>2, GoodBetween DEF Between
    <2> QED BY <1>2, <2>2, <2>3, <2>4 DEF Fetch
  <1>3. CASE Strand
    <2>1. bot.pc = "strand" /\ Same /\ marks' = [marks EXCEPT ![bot.pfn] = @ \cup {"tired"}] /\ BotNext
      BY <1>3 DEF Strand
    <2>2. map[bot.pfn] = NoRef /\ bot.pfn \in Pages
      BY <2>1 DEF Races, TiredMapped, Good, Migration
    <2>3. \A p \in Pages : /\ "tired" \in marks[p] => "tired" \in marks'[p]
                           /\ "tired" \in marks'[p] => "tired" \in marks[p] \/ map[p] = NoRef
                           /\ "vmap" \in marks'[p] <=> "vmap" \in marks[p]
      BY <2>1, <2>2, Shapes
    <2> QED BY <2>1, <2>3, BotFetches, GoodBetween DEF Between
  <1>4. CASE Grab
    <2>1. bot.pc = "grab" /\ Same /\ marks' = marks
      BY <1>4 DEF Grab
    <2>2. CASE BotNext
      BY <2>1, <2>2, BotFetches, GoodBetween DEF Between
    <2>3. CASE map[bot.pfn] # NoRef /\ bot' = [bot EXCEPT !.pc = "ralloc", !.file = map[bot.pfn]]
      <3>1. bot.pfn \in Pages /\ map[bot.pfn] \in Files /\ bot.new = NoPage
        BY <2>1, <2>3, Shapes, BetweenShape DEF Good, Migration, Between
      <3>2. bot'.pc = "ralloc" /\ bot'.file = map[bot.pfn] /\ bot'.pfn = bot.pfn /\ bot'.new = bot.new
        BY <2>3, Shapes DEF BotSet
      <3> QED BY <2>1, <3>1, <3>2, GoodBetween DEF Between
    <2> QED BY <1>4, <2>2, <2>3 DEF Grab
  <1>5. CASE (RmapAlloc \/ VmapAlloc) /\ free = {}
    <2>1. bot.pc \in Between /\ Same /\ marks' = marks /\ BotNext
      BY <1>5 DEF RmapAlloc, VmapAlloc, Between
    <2> QED BY <2>1, BotFetches, GoodBetween DEF Between
  <1> QED BY <1>1, <1>2, <1>3, <1>4, <1>5, <1>6

\* A free page becomes the new page of a migration.
LEMMA GoodAlloc ==
  ASSUME TypeOK, Good, ~Races, UNCHANGED flat, RmapAlloc \/ VmapAlloc, free # {}
  PROVE  Good'
  <1> USE DEF ptrVars, poolVars, daxVars, kernVars, queueVars
  <1>1. PICK n \in free :
          /\ UNCHANGED <<ptr, media, map, holds, slot, pte, elock, kpte, wp, th, size>>
          /\ free' = free \ {n}
          /\ \/ /\ bot.pc = "ralloc" /\ marks' = [marks EXCEPT ![n] = {"using"}]
                /\ bot' = [bot EXCEPT !.pc = "lock", !.new = n]
             \/ /\ bot.pc = "valloc" /\ marks' = [marks EXCEPT ![n] = marks[bot.pfn]]
                /\ bot' = [bot EXCEPT !.pc = "protect", !.new = n]
    <2>1. CASE RmapAlloc
      BY <2>1 DEF RmapAlloc, NewBlock
    <2>2. CASE VmapAlloc
      BY <2>2 DEF VmapAlloc
    <2> QED BY <2>1, <2>2
  <1>2. /\ n \in Pages /\ n # NoPage /\ map[n] = NoRef /\ (\A r \in Refs : ~Cutting(r) => ptr[r] # n)
        /\ "vmap" \notin marks[n]
    BY FreePage, Names
  <1>3. /\ bot'.new = n /\ bot'.pfn = bot.pfn /\ bot'.file = bot.file /\ bot.pfn \in Pages
        /\ bot'.pc = IF bot.pc = "ralloc" THEN "lock" ELSE "protect"
        /\ bot.pc = "ralloc" => bot.file \in Files
        /\ bot.pc \in {"ralloc", "valloc"}
    BY <1>1, Shapes DEF BotSet, Good, Migration
  <1>4. /\ \A q \in Pages : q # n => marks'[q] = marks[q]
        /\ bot.pc = "ralloc" => marks'[n] = {"using"}
        /\ bot.pc = "valloc" => marks'[n] = marks[bot.pfn] /\ "vmap" \in marks'[n]
    <2>1. bot.pc = "valloc" => "vmap" \in marks[bot.pfn]
      BY DEF Races, Mistaken
    <2> QED BY <1>1, <1>2, <2>1, Shapes
  <1>5. bot.pc \in Between /\ ~Cutting(Kern) /\ Kern \in Refs
    BY <1>3, NotCutting, Names DEF Between
  <1>6. bot.pc = "valloc" => ptr[Kern] = bot.pfn /\ bot.pfn # n
    BY <1>2, <1>3, <1>4, <1>5, BetweenShape
  <1>7. SameCuts /\ ThreadShape' /\ Semaphores' /\ Entries' /\ Truncations'
    <2>1. bot'.pc \notin RmapLocked /\ \A f \in Files : ~BotHolds(f)'
      BY <1>3 DEF RmapLocked, BotHolds, Holding
    <2> QED BY <1>1, <2>1, ThreadsKept
  <1>8. LookedUp'
    <2>1. \A t \in Threads : th[t].pc \in Replacing => "tired" \in marks'[ptr[th[t].file]]
      BY <1>2, <1>4, TiredPage
    <2> QED BY <1>1, <2>1, LookedUpStays
  <1>9. Migration'
    BY <1>1, <1>2, <1>3, <1>5, <1>6, BetweenShape
       DEF Migration, Before, After, Holding, RmapNew, VmapNew
  <1>10. Owners'
    <2>1. Spare' = n
      BY <1>3 DEF Spare, Before
    <2> QED BY <1>1, <1>2, <1>7, <2>1 DEF Good, Owners, SameCuts
  <1>11. Mappings'
    <2>1. \A f \in Files : ~BotHolds(f) /\ ~BotHolds(f)'
      BY <1>3, <1>5, BetweenShape DEF BotHolds, Holding
    <2> QED BY <1>1, <2>1 DEF Good, Mappings
  <1>12. Marks'
    <2>1. \A p \in Pages : "tired" \in marks'[p] => map'[p] = NoRef
      BY <1>1, <1>2, <1>4 DEF Good, Marks
    <2>2. bot'.pc \in RmapNew => "tired" \notin marks'[bot'.new]
      BY <1>3, <1>4 DEF RmapNew
    <2>3. \A p \in Pages : "vmap" \in marks'[p] <=>
            p = ptr[Kern] \/ (bot'.pc \in VmapNew /\ p \in {bot'.pfn, bot'.new})
      <3>1. bot'.pc \in VmapNew <=> bot.pc = "valloc"
        BY <1>3 DEF VmapNew
      <3>2. \A p \in Pages : "vmap" \in marks[p] <=> p = ptr[Kern]
        BY <1>5, BetweenShape
      <3>3. n # ptr[Kern]
        BY <1>2, <1>5
      <3> QED BY <1>3, <1>4, <1>6, <3>1, <3>2, <3>3
    <2> QED BY <1>1, <1>3, <2>1, <2>2, <2>3 DEF Marks
  <1>13. Contents'
    BY <1>1, <1>3, <1>7 DEF Good, Contents, SameCuts
  <1>14. Durable' /\ Replacements'
    <2>1. Spare' = n /\ bot.pc \notin {"flush", "vflush"} /\ bot'.pc \notin {"flush", "vflush"}
      BY <1>3 DEF Spare, Before
    <2> QED BY <1>1, <1>7, <2>1, BottomKeeps
  <1> QED BY <1>7, <1>8, <1>9, <1>10, <1>11, <1>12, <1>13, <1>14, GoodNext DEF Parts

\* The mapping that a migration has read is still there.
LEMMA StillMapped ==
  ASSUME TypeOK, Good, ~Races, bot.pc = "core"
  PROVE  /\ bot.file \in Files /\ bot.pfn \in Pages /\ bot.new \in Pages /\ map[bot.pfn] = bot.file
         /\ slot[bot.file] = bot.pfn /\ ptr[bot.file] = bot.pfn /\ ~Cutting(bot.file)
         /\ bot.new = Spare /\ bot.new # bot.pfn /\ ~BotHolds(bot.file)
  <1>1. bot.file \in Files /\ map[bot.pfn] = bot.file /\ bot.pfn \in Pages /\ bot.new \in Pages
    BY MigrationPages DEF Races, Remapped, Good, Migration, RmapNew, Before
  <1>2. ~BotHolds(bot.file)
    BY DEF BotHolds, Holding
  <1>3. bot.pfn = slot[bot.file]
    BY <1>1, <1>2 DEF Good, Mappings
  <1>4. ptr[bot.file] = bot.pfn /\ ~Cutting(bot.file)
    BY <1>1, <1>2, <1>3, SlotPage
  <1>5. bot.new = Spare
    BY DEF Spare, Before
  <1>6. bot.new # bot.pfn
    BY <1>1, <1>4, <1>5, Names DEF Good, Owners
  <1> QED BY <1>1, <1>2, <1>3, <1>4, <1>5, <1>6

LEMMA GoodRmapLock ==
  ASSUME TypeOK, Good, UNCHANGED flat, RmapLock
  PROVE  Good'
  <1> USE DEF ptrVars, poolVars, daxVars, kernVars, queueVars
  <1>1. /\ bot.pc = "lock" /\ Exclusive(bot.file) = {}
        /\ UNCHANGED <<ptr, media, free, marks, map, holds, slot, pte, elock, kpte, wp, th, size>>
    BY DEF RmapLock
  <1>2. bot'.pc = "core" /\ bot'.new = bot.new /\ bot'.file = bot.file /\ bot'.pfn = bot.pfn
    BY BotGoes, Shapes DEF RmapLock, BotPcs, RmapLocked
  <1>3. \A f \in Files : ~BotHolds(f) /\ ~BotHolds(f)'
    BY <1>1, <1>2 DEF BotHolds, Holding
  <1>4. SameCuts /\ ThreadShape' /\ Semaphores' /\ Entries' /\ Truncations'
    BY <1>1, <1>2, <1>3, ThreadsKept
  <1>5. LookedUp'
    BY <1>1, TiredPage, LookedUpStays
  <1>6. Migration'
    BY <1>1, <1>2 DEF Good, Migration, Before, After, Holding, RmapNew, VmapNew
  <1>7. Owners'
    <2>1. Spare' = Spare
      BY <1>1, <1>2 DEF Spare, Before
    <2> QED BY <1>1, <1>4, <2>1 DEF Good, Owners, SameCuts
  <1>8. Mappings'
    BY <1>1, <1>3 DEF Good, Mappings
  <1>9. Marks'
    BY <1>1, <1>2 DEF Good, Marks, RmapNew, VmapNew
  <1>10. Contents'
    BY <1>1, <1>2, <1>4 DEF Good, Contents, SameCuts
  <1>11. Durable' /\ Replacements'
    <2>1. Spare' = Spare
      BY <1>1, <1>2 DEF Spare, Before
    <2> QED BY <1>1, <1>2, <1>4, <2>1, BottomKeeps
  <1> QED BY <1>4, <1>5, <1>6, <1>7, <1>8, <1>9, <1>10, <1>11, GoodNext DEF Parts

\* The page that belongs to the migration alone is freed.
LEMMA GoodFreeSpare ==
  ASSUME TypeOK, Good, ~Races, UNCHANGED flat, CoreBusy \/ RmapRelease \/ VmapRelease
  PROVE  Good'
  <1> USE DEF ptrVars, poolVars, daxVars, kernVars, queueVars
  <1>1. PICK p \in Pages :
          /\ p = Spare /\ FreeBlock(p) /\ BotNext /\ bot.pc \in {"core", "release", "vrelease"}
          /\ bot.pc = "core" => p = bot.new
          /\ bot.pc # "core" => p = bot.pfn
          /\ UNCHANGED <<ptr, media, map, slot, pte, elock, kpte, wp, th, size>>
    <2>1. CASE CoreBusy
      BY <2>1, MigrationPages DEF CoreBusy, Spare, Before
    <2>2. CASE RmapRelease \/ VmapRelease
      BY <2>2, MigrationPages DEF RmapRelease, VmapRelease, Spare, Before, After
    <2> QED BY <2>1, <2>2
  <1>2. /\ free' = free \cup {p} /\ marks'[p] = {"using"}
        /\ \A q \in Pages : q # p => marks'[q] = marks[q] /\ holds'[q] = holds[q]
    BY <1>1, FreeBlockType
  <1>3. bot'.pc = "fetch" /\ bot'.new = NoPage
    BY <1>1, BotFetches
  <1>4. /\ \A r \in Refs : ~Cutting(r) => ptr[r] # p
        /\ ~Cutting(Kern) /\ Kern \in Refs
    BY <1>1, NotCutting, Names DEF Good, Owners
  <1>5. \A f \in Files : ~BotHolds(f) /\ ~BotHolds(f)'
    BY <1>1, <1>3 DEF BotHolds, Holding
  <1>6. SameCuts /\ ThreadShape' /\ Semaphores' /\ Entries' /\ Truncations'
    BY <1>1, <1>3, <1>5, ThreadsKept DEF RmapLocked
  <1>7. LookedUp'
    <2>1. \A t \in Threads : th[t].pc \in Replacing => "tired" \in marks'[ptr[th[t].file]]
      BY <1>1, <1>2, TiredPage
    <2> QED BY <1>1, <2>1, LookedUpStays
  <1>8. Migration'
    BY <1>1, <1>3 DEF Good, Migration, Before, After, Holding, RmapNew, VmapNew
  <1>9. Owners'
    <2>1. Spare' = NoPage
      BY <1>3 DEF Spare, Before, After
    <2> QED BY <1>1, <1>2, <1>4, <1>6, <2>1 DEF Good, Owners, SameCuts
  <1>10. Mappings'
    BY <1>1, <1>5 DEF Good, Mappings
  <1>11. Marks'
    <2>1. \A q \in Pages : "tired" \in marks'[q] => map'[q] = NoRef
      BY <1>1, <1>2 DEF Good, Marks
    <2>2. \A q \in Pages : "vmap" \in marks'[q] <=> q = ptr[Kern]
      <3>1. \A q \in Pages : "vmap" \in marks[q] <=>
              q = ptr[Kern] \/ (bot.pc \in VmapNew /\ q \in {bot.pfn, bot.new})
        BY DEF Good, Marks
      <3>2. p # ptr[Kern] /\ "vmap" \notin marks'[p]
        BY <1>2, <1>4
      <3>3. bot.pc \in VmapNew => bot.pfn = p /\ bot.new = ptr[Kern]
        BY <1>1 DEF VmapNew, Good, Migration
      <3> QED BY <1>2, <3>1, <3>2, <3>3
    <2> QED BY <1>1, <1>3, <2>1, <2>2 DEF Marks, RmapNew, VmapNew
  <1>12. Contents'
    <2>1. ASSUME NEW r \in Refs, ~Cutting(r), ptr[r] # NoPage
          PROVE  holds'[ptr[r]] = r
      <3>1. ptr[r] \in Pages /\ ptr[r] # p /\ holds[ptr[r]] = r
        BY <1>4, <2>1, Shapes DEF Good, Contents
      <3> QED BY <1>2, <3>1
    <2> QED BY <1>1, <1>3, <1>6, <2>1 DEF Contents, SameCuts
  <1>13. Durable' /\ Replacements'
    <2>1. Spare' = NoPage
      BY <1>3 DEF Spare, Before, After
    <2> QED BY <1>1, <1>2, <1>3, <1>6, <2>1, BottomKeeps
  <1> QED BY <1>6, <1>7, <1>8, <1>9, <1>10, <1>11, <1>12, <1>13, GoodNext DEF Parts

LEMMA GoodCore ==
  ASSUME TypeOK, Good, ~Races, UNCHANGED flat, Core
  PROVE  Good'
  <1> USE DEF ptrVars, poolVars, daxVars, kernVars, queueVars
  <1>1. PICK f \in Files, p \in Pages, n \in Pages :
          /\ f = bot.file /\ p = bot.pfn /\ n = bot.new /\ map[p] = f /\ slot[f] = p /\ ptr[f] = p
          /\ ~Cutting(f) /\ n = Spare /\ n # p /\ ~BotHolds(f)
    BY StillMapped DEF Core
  <1>2. /\ bot.pc = "core" /\ ~elock[f] /\ f # NoRef
        /\ elock' = [elock EXCEPT ![f] = TRUE]
        /\ map' = [map EXCEPT ![n] = f, ![p] = NoRef]
        /\ pte' = [pte EXCEPT ![f] = NoPage]
        /\ bot' = [bot EXCEPT !.pc = "copy", !.file = f]
        /\ UNCHANGED <<ptr, media, free, marks, slot, holds, kpte, wp, th, size>>
    BY <1>1, Names DEF Core
  <1>3. bot'.pc = "copy" /\ bot'.file = f /\ bot'.pfn = p /\ bot'.new = n
    BY <1>1, <1>2, Shapes DEF BotSet
  <1>4. /\ elock'[f] /\ pte'[f] = NoPage /\ map'[n] = f /\ map'[p] = NoRef
        /\ \A g \in Files : g # f => elock'[g] = elock[g] /\ pte'[g] = pte[g]
        /\ \A q \in Pages : q \notin {n, p} => map'[q] = map[q]
    BY <1>1, <1>2, Shapes
  <1>5. \A g \in Files : ~BotHolds(g) /\ (BotHolds(g)' <=> g = f)
    BY <1>2, <1>3 DEF BotHolds, Holding
  <1>6. SameCuts /\ ThreadShape' /\ Semaphores' /\ Truncations'
    <2>1. SameCuts
      BY <1>2 DEF SameCuts, Cutting
    <2>2. ThreadShape'
      BY <1>2 DEF Good, ThreadShape
    <2>3. Semaphores'
      BY <1>1, <1>2, <1>3 DEF Good, Semaphores, RmapLocked
    <2>4. Truncations'
      <3>1. \A t \in Threads : th[t].op = "truncate" => th[t].file \in Files
        BY DEF Good, ThreadShape
      <3>2. \A t \in Threads : th[t].pc \in {"free", "clear", "fence"} => th[t].op = "truncate"
        BY DEF Good, ThreadShape
      <3> QED BY <1>2, <1>4, <3>1, <3>2 DEF Good, Truncations
    <2> QED BY <2>1, <2>2, <2>3, <2>4
  <1>7. Entries'
    <2>1. \A t \in Threads, g \in Files : FaultHolds(t, g)' <=> FaultHolds(t, g)
      BY <1>2 DEF FaultHolds
    <2>2. \A t \in Threads : ~FaultHolds(t, f)
      BY <1>2 DEF Good, Entries
    <2> QED BY <1>2, <1>4, <1>5, <2>1, <2>2 DEF Good, Entries
  <1>8. LookedUp'
    BY <1>2, TiredPage, LookedUpStays
  <1>9. Migration'
    BY <1>1, <1>2, <1>3, <1>4 DEF Good, Migration, Before, After, Holding, RmapNew, VmapNew
  <1>10. Owners'
    <2>1. Spare' = Spare
      BY <1>1, <1>3 DEF Spare, Before
    <2> QED BY <1>2, <1>6, <2>1 DEF Good, Owners, SameCuts
  <1>11. Mappings'
    <2>1. ASSUME NEW g \in Files, g # f
          PROVE  /\ slot[g] \in Pages => slot[g] \notin {n, p}
                 /\ \A q \in Pages : map'[q] = g => map[q] = g
      <3>1. slot[g] \in Pages => slot[g] = ptr[g] /\ map[slot[g]] = g /\ ~Cutting(g)
        BY <1>5, SlotPage
      <3>2. \A r \in Refs : ~Cutting(r) => ptr[r] # n
        BY <1>1, Names DEF Good, Owners
      <3>3. slot[g] \in Pages => slot[g] # n /\ slot[g] # p
        BY <1>1, <2>1, <3>1, <3>2, Names
      <3> QED BY <1>4, <2>1, <3>3, Names
    <2>2. \A q \in Pages : map'[q] = f => q = n
      <3>1. \A q \in Pages : map[q] = f => q = p
        BY <1>1, <1>5 DEF Good, Mappings
      <3> QED BY <1>4, <3>1, Names
    <2>3. ASSUME NEW g \in Files
          PROVE  /\ slot[g] \in Pages /\ ~BotHolds(g)' => slot[g] = ptr[g] /\ map'[slot[g]] = g
                 /\ pte'[g] # NoPage => pte'[g] = slot[g]
                 /\ \A q \in Pages : map'[q] = g => q = IF BotHolds(g)' THEN n ELSE slot[g]
      <3>1. CASE g = f
        BY <1>4, <1>5, <2>2, <3>1
      <3>2. CASE g # f
        <4>1. /\ slot[g] \in Pages => slot[g] = ptr[g] /\ map[slot[g]] = g
              /\ pte[g] # NoPage => pte[g] = slot[g]
              /\ \A q \in Pages : map[q] = g => q = slot[g]
          BY <1>5 DEF Good, Mappings
        <4> QED BY <1>4, <1>5, <2>1, <3>2, <4>1
      <3> QED BY <3>1, <3>2
    <2> QED BY <1>2, <1>3, <2>3 DEF Mappings
  <1>12. Marks'
    <2>1. "tired" \notin marks[p]
      BY <1>1, Names DEF Good, Marks
    <2>2. "tired" \notin marks[n]
      BY <1>1, <1>2 DEF Good, Marks, RmapNew
    <2>3. \A q \in Pages : "tired" \in marks[q] => map'[q] = NoRef
      BY <1>4, <2>1, <2>2 DEF Good, Marks
    <2>4. \A q \in Pages : "vmap" \in marks[q] <=> q = ptr[Kern]
      BY <1>2 DEF Good, Marks, VmapNew
    <2> QED BY <1>2, <1>3, <2>1, <2>2, <2>3, <2>4 DEF Marks, VmapNew
  <1>13. Contents'
    BY <1>2, <1>3, <1>6 DEF Good, Contents, SameCuts
  <1>14. Durable' /\ Replacements'
    <2>1. Spare' = Spare
      BY <1>1, <1>3 DEF Spare, Before
    <2> QED BY <1>2, <1>3, <1>6, <2>1, BottomKeeps
  <1> QED BY <1>6, <1>7, <1>8, <1>9, <1>10, <1>11, <1>12, <1>13, <1>14, GoodNext DEF Parts

\* A migration goes on from one stage to another that has the same pages.
Advance(pc) ==
  /\ bot'.pc = pc /\ bot'.pfn = bot.pfn /\ bot'.new = bot.new /\ bot'.file = bot.file
  /\ UNCHANGED <<free, marks, map, slot, pte, elock, th, size, flat>>

LEMMA AdvanceKeeps ==
  ASSUME TypeOK, Good, NEW pc, Advance(pc),
         \/ bot.pc \in {"copy", "link", "flush"} /\ pc \in {"link", "flush", "slot"}
         \/ bot.pc \in VmapNew /\ pc \in VmapNew
  PROVE  /\ SameCuts /\ ThreadShape' /\ Semaphores' /\ Entries' /\ Truncations'
         /\ \A f \in Files : BotHolds(f)' <=> BotHolds(f)
  <1>1. \A f \in Files : BotHolds(f)' <=> BotHolds(f)
    BY DEF Advance, BotHolds, Holding, VmapNew
  <1>2. bot'.pc \in RmapLocked => bot.pc \in RmapLocked
    BY DEF Advance, RmapLocked, VmapNew
  <1> QED BY <1>1, <1>2, NoWriter, ThreadsKept DEF Advance

\* The stages in which trees stay what they are: the copies, and the write protection.
LEMMA GoodCopy ==
  ASSUME TypeOK, Good, ~Races, UNCHANGED flat, RmapCopy \/ VmapProtect \/ VmapCopy
  PROVE  Good'
  <1> USE DEF ptrVars, poolVars, daxVars, kernVars, queueVars
  <1>1. PICK p \in Pages, n \in Pages :
          /\ p = bot.pfn /\ n = bot.new /\ n = Spare /\ bot.pc \in {"copy", "protect", "vcopy"}
    BY MigrationPages DEF RmapCopy, VmapProtect, VmapCopy, Spare, Before
  <1>2. PICK pc \in {"link", "vcopy", "vlink"} :
          /\ Advance(pc) /\ UNCHANGED <<ptr, media, kpte>>
          /\ \/ bot.pc = "copy" /\ pc = "link" /\ holds' = [holds EXCEPT ![n] = holds[p]] /\ wp' = wp
             \/ bot.pc = "protect" /\ pc = "vcopy" /\ holds' = holds /\ wp'
             \/ bot.pc = "vcopy" /\ pc = "vlink" /\ holds' = [holds EXCEPT ![n] = holds[p]] /\ wp' = wp
    <2>1. CASE RmapCopy
      <3>1. ptr[bot.file] = p /\ bot.file \notin flat /\ p # NoPage
        BY <1>1, <2>1, Names DEF Races, Unreplaced, RmapCopy
      <3>2. BotGo("link") /\ holds' = [holds EXCEPT ![n] = holds[p]] /\ bot.pc = "copy"
        BY <1>1, <2>1, <3>1 DEF RmapCopy
      <3> QED BY <2>1, <3>2, BotGoes, Shapes DEF RmapCopy, Advance, BotPcs, RmapLocked
    <2>2. CASE VmapProtect
      BY <2>2, BotGoes, Shapes DEF VmapProtect, Advance, BotPcs
    <2>3. CASE VmapCopy
      BY <1>1, <2>3, BotGoes, Shapes DEF VmapCopy, Advance, BotPcs
    <2> QED BY <2>1, <2>2, <2>3
  <1>3. SameCuts /\ ThreadShape' /\ Semaphores' /\ Entries' /\ Truncations'
        /\ \A f \in Files : BotHolds(f)' <=> BotHolds(f)
    BY <1>1, <1>2, AdvanceKeeps DEF VmapNew
  <1>4. bot'.pc = pc /\ bot'.pfn = p /\ bot'.new = n /\ bot'.file = bot.file
        /\ UNCHANGED <<free, marks, map, slot, pte, elock, th, size, flat>>
    BY <1>1, <1>2 DEF Advance
  <1>5. LookedUp'
    BY <1>2, <1>4, TiredPage, LookedUpStays
  <1>6. Migration'
    BY <1>1, <1>2, <1>4 DEF Good, Migration, Before, After, Holding, RmapNew, VmapNew
  <1>7. Owners'
    <2>1. Spare' = Spare
      BY <1>1, <1>2, <1>4 DEF Spare, Before
    <2> QED BY <1>2, <1>3, <1>4, <2>1 DEF Good, Owners, SameCuts
  <1>8. Mappings'
    BY <1>1, <1>2, <1>3, <1>4 DEF Good, Mappings
  <1>9. Marks'
    BY <1>1, <1>2, <1>4 DEF Good, Marks, RmapNew, VmapNew
  <1>10. Contents'
    <2>1. \A q \in Pages : q # n => holds'[q] = holds[q]
      BY <1>2, Shapes
    <2>2. \A r \in Refs : ~Cutting(r) /\ ptr[r] # NoPage => ptr[r] # n /\ ptr[r] \in Pages
      BY <1>1, Shapes, Names DEF Good, Owners
    <2>3. pc \in {"link", "vlink"} => holds'[n] = holds[p]
      BY <1>2, Shapes
    <2>4. bot.pc = "copy" => holds[p] = bot.file
      <3>1. bot.pc = "copy" => ptr[bot.file] = p /\ bot.file \in Refs /\ ~Cutting(bot.file)
        BY <1>1, NotCutting, Names DEF Good, Migration, RmapNew, RmapLocked
      <3> QED BY <1>1, <3>1, Names DEF Good, Contents
    <2>5. bot.pc = "vcopy" => holds[p] = Kern
      <3>1. bot.pc = "vcopy" => ptr[Kern] = p /\ Kern \in Refs /\ ~Cutting(Kern)
        BY <1>1, NotCutting, Names DEF Good, Migration
      <3> QED BY <1>1, <3>1, Names DEF Good, Contents
    <2>6. \A r \in Refs : ~Cutting(r) /\ ptr[r] # NoPage => holds'[ptr[r]] = r
      BY <2>1, <2>2 DEF Good, Contents
    <2> QED BY <1>1, <1>2, <1>3, <1>4, <2>3, <2>4, <2>5, <2>6 DEF Contents, SameCuts
  <1>11. Durable' /\ Replacements'
    <2>1. Spare' = Spare
      BY <1>1, <1>2, <1>4 DEF Spare, Before
    <2>2. \A q \in Pages \ {Spare} : holds'[q] = holds[q]
      BY <1>1, <1>2, Shapes
    <2> QED BY <1>1, <1>2, <1>3, <1>4, <2>1, <2>2, BottomKeeps
  <1> QED BY <1>3, <1>5, <1>6, <1>7, <1>8, <1>9, <1>10, <1>11, GoodNext DEF Parts

\* The new page takes the place of the old one in the tree.
LEMMA GoodLink ==
  ASSUME TypeOK, Good, ~Races, UNCHANGED flat, RmapLink \/ VmapLink
  PROVE  Good'
  <1> USE DEF ptrVars, poolVars, daxVars, kernVars, queueVars
  <1>1. PICK r \in Refs, p \in Pages, n \in Pages :
          /\ p = bot.pfn /\ n = bot.new /\ n = Spare /\ ptr[r] = p /\ ~Cutting(r) /\ n # p
          /\ \/ bot.pc = "link" /\ r = bot.file /\ r # Kern
             \/ bot.pc = "vlink" /\ r = Kern
    <2>1. CASE bot.pc = "link"
      BY <2>1, MigrationPages, NotCutting, Names DEF Good, Migration, Spare, Before, Holding, RmapNew,
                                                     RmapLocked
    <2>2. CASE bot.pc = "vlink"
      BY <2>2, MigrationPages, NotCutting, Names DEF Good, Migration, Spare, Before, VmapNew
    <2> QED BY <2>1, <2>2 DEF RmapLink, VmapLink
  <1>2. PICK pc \in {"flush", "vflush"} :
          /\ Advance(pc) /\ UNCHANGED <<holds, kpte, wp>>
          /\ ptr' = [ptr EXCEPT ![r] = n] /\ media' = [media EXCEPT ![r] = @ \cup {n}]
          /\ pc = IF bot.pc = "link" THEN "flush" ELSE "vflush"
    <2>1. CASE RmapLink
      BY <1>1, <2>1, BotGoes, Shapes DEF RmapLink, Advance, BotPcs, RmapLocked
    <2>2. CASE VmapLink
      BY <1>1, <2>2, BotGoes, Shapes DEF VmapLink, Advance, BotPcs
    <2> QED BY <2>1, <2>2
  <1>3. SameCuts /\ ThreadShape' /\ Semaphores' /\ Entries' /\ Truncations'
        /\ \A f \in Files : BotHolds(f)' <=> BotHolds(f)
    BY <1>1, <1>2, AdvanceKeeps DEF VmapNew
  <1>4. bot'.pc = pc /\ bot'.pfn = p /\ bot'.new = n /\ bot'.file = bot.file
        /\ UNCHANGED <<free, marks, map, slot, pte, elock, th, size, flat>>
    BY <1>1, <1>2 DEF Advance
  <1>5. /\ ptr'[r] = n /\ media'[r] = {p, n} /\ p # NoPage /\ n # NoPage
        /\ \A q \in Refs : q # r => ptr'[q] = ptr[q] /\ media'[q] = media[q]
    <2>1. media[r] = {p}
      <3>1. ~Flushing(r)
        BY <1>1 DEF Flushing
      <3>2. r \in Files => slot[r] \in Pages
        BY <1>1, Names DEF Good, Migration, Holding
      <3> QED BY <1>1, <3>1, <3>2, MediaExact
    <2> QED BY <1>1, <1>2, <2>1, Shapes, Names
  <1>6. LookedUp'
    <2>1. ASSUME NEW t \in Threads, th[t].file = r
          PROVE  /\ th[t].op \notin {"write", "truncate", "fault"} \/ th[t].pc = "entry"
                 /\ th[t].pc \notin Replacing
      <3>1. r \in Files /\ bot.pc = "link"
        <4>1. th[t].file \in Files \cup {NoRef}
          BY Shapes DEF ThreadSet
        <4> QED BY <1>1, <2>1, <4>1, Names
      <3>2. th[t].op \notin {"write", "truncate"}
        BY <1>1, <2>1, <3>1 DEF Good, Semaphores, RmapLocked
      <3>3. th[t].op = "fault" => th[t].pc = "entry"
        <4>1. BotHolds(r)
          BY <1>1, <3>1 DEF BotHolds, Holding
        <4>2. ~FaultHolds(t, r)
          BY <3>1, <4>1 DEF Good, Entries
        <4>3. th[t].pc \in ThreadPcs
          BY Shapes DEF ThreadSet
        <4> QED BY <2>1, <4>2, <4>3 DEF FaultHolds, ThreadPcs, Good, ThreadShape, Replacing
      <3>4. th[t].pc \notin Replacing
        <4>1. "tired" \notin marks[p]
          BY <1>1, <3>1 DEF Good, Marks
        <4> QED BY <1>1, <2>1, <4>1, TiredPage
      <3> QED BY <3>2, <3>3, <3>4
    <2>2. ASSUME NEW t \in Threads PROVE LookedUpBy(t)'
      <3>1. LookedUpBy(t)
        BY DEF Good, LookedUp, LookedUpBy
      <3>2. th[t].pc = "fence" => th[t].op = "truncate"
        BY DEF Good, ThreadShape
      <3>3. CASE th[t].file = r
        BY <1>4, <2>1, <3>2, <3>3 DEF LookedUpBy
      <3>4. CASE th[t].file # r
        <4>1. th[t].pc # "idle" => th[t].file \in Refs
          BY Names DEF Good, ThreadShape, Idle
        <4> QED BY <1>4, <1>5, <3>1, <3>4, <4>1 DEF LookedUpBy, Replacing
      <3> QED BY <3>3, <3>4
    <2> QED BY <2>2 DEF LookedUp, LookedUpBy
  <1>7. Migration'
    <2>1. CASE bot.pc = "link"
      <3>1. ptr'[Kern] = ptr[Kern]
        BY <1>1, <1>5, <2>1, Names
      <3> QED BY <1>1, <1>2, <1>4, <1>5, <2>1, <3>1
              DEF Good, Migration, Before, After, Holding, RmapNew, VmapNew
    <2>2. CASE bot.pc = "vlink"
      BY <1>1, <1>2, <1>4, <1>5, <2>2 DEF Good, Migration, Before, After, Holding, RmapNew, VmapNew
    <2> QED BY <1>1, <2>1, <2>2
  <1>8. Owners'
    <2>1. Spare' = p
      BY <1>2, <1>4 DEF Spare, Before, After
    <2>2. \A q \in Refs : ~Cutting(q) => ptr[q] # n /\ (q # r => ptr[q] # p)
      BY <1>1, <1>5 DEF Good, Owners
    <2>3. n \notin free /\ p \notin free
      BY <1>1, <1>5 DEF Good, Owners
    <2>4. ptr'[Kern] # NoPage
      BY <1>5, Names DEF Good, Owners
    <2>5. \A q, s \in Refs :
            ptr'[q] = ptr'[s] /\ ptr'[q] # NoPage /\ ~Cutting(q) /\ ~Cutting(s) => q = s
      BY <1>5, <2>2 DEF Good, Owners
    <2>6. \A q \in Refs : ~Cutting(q) => ptr'[q] \notin free /\ ptr'[q] # p
      BY <1>1, <1>5, <2>2, <2>3 DEF Good, Owners
    <2> QED BY <1>3, <1>4, <2>1, <2>3, <2>4, <2>5, <2>6 DEF Owners, SameCuts
  <1>9. Mappings'
    <2>1. \A f \in Files : ~BotHolds(f) => ptr'[f] = ptr[f]
      BY <1>1, <1>5, Names DEF BotHolds, Holding
    <2> QED BY <1>1, <1>3, <1>4, <2>1 DEF Good, Mappings
  <1>10. Marks'
    <2>1. CASE bot.pc = "link"
      <3>1. ptr'[Kern] = ptr[Kern]
        BY <1>1, <1>5, <2>1, Names
      <3> QED BY <1>1, <1>2, <1>4, <2>1, <3>1 DEF Good, Marks, RmapNew, VmapNew
    <2>2. CASE bot.pc = "vlink"
      <3>1. \A q \in Pages : "vmap" \in marks[q] <=> q = p \/ q = n
        BY <1>1, <2>2 DEF Good, Marks, VmapNew
      <3> QED BY <1>1, <1>2, <1>4, <1>5, <2>2, <3>1 DEF Good, Marks, RmapNew, VmapNew
    <2> QED BY <1>1, <2>1, <2>2
  <1>11. Contents'
    <2>1. holds[n] = r /\ holds[p] = r
      BY <1>1, <1>5 DEF Good, Contents
    <2> QED BY <1>1, <1>2, <1>3, <1>4, <1>5, <2>1 DEF Good, Contents, SameCuts
  <1>12. Spare = n /\ Spare' = p /\ n \notin free /\ p \notin free /\ holds[p] = r
    BY <1>1, <1>2, <1>4, <1>5 DEF Spare, Before, After, Good, Owners, Contents
  <1>13. \A q \in Refs : ~Flushing(q) /\ (Flushing(q)' <=> q = r)
    BY <1>1, <1>2, <1>4 DEF Flushing
  <1>14. Durable'
    <2>1. ASSUME NEW q \in Refs, ~Cutting(q), NEW o \in media'[q] \ {ptr'[q]}
          PROVE  Stale(o, q)'
      <3>1. CASE q = r
        <4>1. o = p
          BY <1>5, <2>1, <3>1
        <4>2. \A s \in Refs : ~Cutting(s) => ptr'[s] # p
          BY <1>1, <1>5 DEF Good, Owners
        <4> QED BY <1>2, <1>3, <1>4, <1>12, <1>13, <3>1, <4>1, <4>2 DEF Stale, SameCuts
      <3>2. CASE q # r
        <4>1. Stale(o, q) /\ o # n /\ o # p
          BY <1>1, <1>5, <1>12, <1>13, <2>1, <3>2 DEF Good, Durable, Stale
        <4>2. \A s \in Refs : ~Cutting(s) => ptr'[s] # o
          BY <1>5, <4>1 DEF Stale
        <4> QED BY <1>2, <1>3, <1>4, <1>12, <4>1, <4>2 DEF Stale, SameCuts
      <3> QED BY <3>1, <3>2
    <2>2. \A q \in Refs : ~Cutting(q) => ptr'[q] \in media'[q]
      BY <1>5 DEF Good, Durable
    <2> QED BY <1>3, <2>1, <2>2 DEF Durable, SameCuts
  <1>15. Replacements'
    <2>1. ASSUME NEW t \in Threads, Prepares(t)'
          PROVE  Private(th[t].page)'
      <3>1. Private(th[t].page)
        BY <1>4, <2>1 DEF Good, Replacements, Prepares
      <3>2. th[t].page # p /\ th[t].page # n
        BY <1>1, <1>12, <3>1 DEF Private, Good, Durable
      <3>3. \A q \in Refs : ~Cutting(q) => th[t].page \notin media'[q]
        BY <1>5, <3>1, <3>2 DEF Private
      <3> QED BY <1>3, <1>4, <1>12, <3>1, <3>2, <3>3 DEF Private, SameCuts
    <2>2. \A q \in Refs : ~Cutting(q)' /\ ~Flushing(q)' =>
            ~Cutting(q) /\ ~Flushing(q) /\ media'[q] = media[q] /\ ptr'[q] = ptr[q]
      BY <1>3, <1>5, <1>13 DEF SameCuts
    <2> QED BY <1>2, <1>4, <2>1, <2>2, ReplacementsKept DEF Prepares
  <1> QED BY <1>3, <1>6, <1>7, <1>8, <1>9, <1>10, <1>11, <1>14, <1>15, GoodNext DEF Parts

\* The new pointer is durable.
LEMMA GoodFlush ==
  ASSUME TypeOK, Good, UNCHANGED flat, RmapFlush \/ VmapFlush
  PROVE  Good'
  <1> USE DEF ptrVars, poolVars, daxVars, kernVars, queueVars
  <1>1. PICK r \in Refs, p \in Pages, n \in Pages :
          /\ p = bot.pfn /\ n = bot.new /\ p = Spare /\ ptr[r] = n /\ ~Cutting(r)
          /\ \/ bot.pc = "flush" /\ r = bot.file /\ r # Kern
             \/ bot.pc = "vflush" /\ r = Kern
    <2>1. CASE bot.pc = "flush"
      BY <2>1, MigrationPages, NotCutting, Names DEF Good, Migration, Spare, Before, After, RmapNew, RmapLocked
    <2>2. CASE bot.pc = "vflush"
      BY <2>2, MigrationPages, NotCutting, Names DEF Good, Migration, Spare, Before, After
    <2> QED BY <2>1, <2>2 DEF RmapFlush, VmapFlush
  <1>2. PICK pc \in {"slot", "vswitch"} :
          /\ Advance(pc) /\ UNCHANGED <<ptr, holds, kpte, wp>>
          /\ media' = [media EXCEPT ![r] = {n}]
          /\ pc = IF bot.pc = "flush" THEN "slot" ELSE "vswitch"
    <2>1. CASE RmapFlush
      BY <1>1, <2>1, BotGoes, Shapes DEF RmapFlush, Advance, BotPcs, RmapLocked
    <2>2. CASE VmapFlush
      BY <1>1, <2>2, BotGoes, Shapes DEF VmapFlush, Advance, BotPcs
    <2> QED BY <2>1, <2>2
  <1>3. SameCuts /\ ThreadShape' /\ Semaphores' /\ Entries' /\ Truncations'
        /\ \A f \in Files : BotHolds(f)' <=> BotHolds(f)
    BY <1>1, <1>2, AdvanceKeeps DEF VmapNew
  <1>4. bot'.pc = pc /\ bot'.pfn = p /\ bot'.new = n /\ bot'.file = bot.file
        /\ UNCHANGED <<free, marks, map, slot, pte, elock, th, size, flat>>
    BY <1>1, <1>2 DEF Advance
  <1>5. LookedUp'
    BY <1>2, <1>4, TiredPage, LookedUpStays
  <1>6. Migration'
    BY <1>1, <1>2, <1>4 DEF Good, Migration, Before, After, Holding, RmapNew, VmapNew
  <1>7. Owners'
    <2>1. Spare' = Spare
      BY <1>1, <1>2, <1>4 DEF Spare, Before, After
    <2> QED BY <1>2, <1>3, <1>4, <2>1 DEF Good, Owners, SameCuts
  <1>8. Mappings'
    BY <1>1, <1>2, <1>3, <1>4 DEF Good, Mappings
  <1>9. Marks'
    BY <1>1, <1>2, <1>4 DEF Good, Marks, RmapNew, VmapNew
  <1>10. Contents'
    BY <1>1, <1>2, <1>3, <1>4 DEF Good, Contents, SameCuts
  <1>11. Spare' = Spare /\ \A q \in Refs : (Flushing(q) <=> q = r) /\ ~Flushing(q)'
    BY <1>1, <1>2, <1>4 DEF Spare, Before, After, Flushing
  <1>12. media'[r] = {ptr[r]} /\ \A q \in Refs : q # r => media'[q] = media[q]
    BY <1>1, <1>2, Shapes
  <1>13. Durable'
    <2>1. ASSUME NEW q \in Refs, ~Cutting(q), NEW o \in media'[q] \ {ptr[q]}
          PROVE  Stale(o, q)'
      <3>1. q # r /\ Stale(o, q) /\ o # Spare
        BY <1>11, <1>12, <2>1 DEF Good, Durable, Stale
      <3> QED BY <1>2, <1>3, <1>4, <1>11, <3>1 DEF Stale, SameCuts
    <2>2. \A q \in Refs : ~Cutting(q) => ptr[q] \in media'[q]
      BY <1>12 DEF Good, Durable
    <2> QED BY <1>2, <1>3, <2>1, <2>2 DEF Durable, SameCuts
  <1>14. Replacements'
    <2>1. ASSUME NEW t \in Threads, Prepares(t)'
          PROVE  Private(th[t].page)'
      <3>1. Private(th[t].page)
        BY <1>4, <2>1 DEF Good, Replacements, Prepares
      <3>2. \A q \in Refs : ~Cutting(q) => media'[q] \subseteq media[q]
        BY <1>12 DEF Good, Durable
      <3> QED BY <1>3, <1>4, <1>11, <3>1, <3>2 DEF Private, SameCuts
    <2>2. \A q \in Refs : ~Cutting(q)' /\ ~Flushing(q)' =>
            \/ media'[q] = {ptr'[q]}
            \/ ~Cutting(q) /\ ~Flushing(q) /\ media'[q] = media[q] /\ ptr'[q] = ptr[q]
      BY <1>2, <1>3, <1>11, <1>12 DEF SameCuts
    <2> QED BY <1>2, <1>4, <2>1, <2>2, ReplacementsKept DEF Prepares
  <1> QED BY <1>3, <1>5, <1>6, <1>7, <1>8, <1>9, <1>10, <1>13, <1>14, GoodNext DEF Parts

\* The new page is put into the DAX entry, which is unlocked.
LEMMA GoodRmapSlot ==
  ASSUME TypeOK, Good, UNCHANGED flat, RmapSlot
  PROVE  Good'
  <1> USE DEF ptrVars, poolVars, daxVars, kernVars, queueVars
  <1>1. PICK f \in Files, p \in Pages, n \in Pages :
          /\ f = bot.file /\ p = bot.pfn /\ n = bot.new /\ ptr[f] = n /\ ~Cutting(f) /\ n # p
          /\ pte[f] = NoPage /\ map[n] = f /\ BotHolds(f) /\ bot.pc = "slot"
    BY MigrationPages, NotCutting
       DEF RmapSlot, Good, Migration, After, Holding, RmapNew, RmapLocked, BotHolds
  <1>2. /\ slot' = [slot EXCEPT ![f] = n] /\ elock' = [elock EXCEPT ![f] = FALSE]
        /\ UNCHANGED <<ptr, media, free, marks, map, holds, pte, kpte, wp, th, size>>
    BY <1>1 DEF RmapSlot
  <1>3. bot'.pc = "release" /\ bot'.new = n /\ bot'.file = f /\ bot'.pfn = p
    BY <1>1, BotGoes, Shapes DEF RmapSlot, BotPcs, RmapLocked
  <1>4. /\ slot'[f] = n
        /\ \A g \in Files : g # f => slot'[g] = slot[g] /\ elock'[g] = elock[g]
    BY <1>2, Shapes
  <1>5. \A g \in Files : ~BotHolds(g)' /\ (BotHolds(g) <=> g = f)
    BY <1>1, <1>3 DEF BotHolds, Holding
  <1>6. SameCuts /\ ThreadShape' /\ Semaphores' /\ Truncations'
    <2>1. SameCuts
      BY <1>2 DEF SameCuts, Cutting
    <2>2. ThreadShape'
      BY <1>2 DEF Good, ThreadShape
    <2>3. Semaphores'
      BY <1>1, <1>2, <1>3 DEF Good, Semaphores, RmapLocked
    <2>4. Truncations'
      <3>1. \A t \in Threads : th[t].op = "truncate" => th[t].file \in Files \ {f}
        BY <1>1 DEF Good, ThreadShape, Semaphores, RmapLocked
      <3>2. \A t \in Threads : th[t].pc \in {"free", "clear", "fence"} => th[t].op = "truncate"
        BY DEF Good, ThreadShape
      <3> QED BY <1>2, <1>4, <3>1, <3>2 DEF Good, Truncations
    <2> QED BY <2>1, <2>2, <2>3, <2>4
  <1>7. Entries'
    <2>1. \A t \in Threads, g \in Files : FaultHolds(t, g)' <=> FaultHolds(t, g)
      BY <1>2 DEF FaultHolds
    <2>2. \A t \in Threads : ~FaultHolds(t, f)
      BY <1>1 DEF Good, Entries
    <2> QED BY <1>4, <1>5, <2>1, <2>2 DEF Good, Entries
  <1>8. LookedUp'
    BY <1>2, TiredPage, LookedUpStays
  <1>9. Migration'
    BY <1>1, <1>2, <1>3, <1>4 DEF Good, Migration, Before, After, Holding, RmapNew, VmapNew
  <1>10. Owners'
    <2>1. Spare' = Spare
      BY <1>1, <1>3 DEF Spare, Before, After
    <2> QED BY <1>2, <1>6, <2>1 DEF Good, Owners, SameCuts
  <1>11. Mappings'
    <2>1. ASSUME NEW g \in Files
          PROVE  /\ slot'[g] \in Pages => slot'[g] = ptr[g] /\ map[slot'[g]] = g
                 /\ pte[g] # NoPage => pte[g] = slot'[g]
                 /\ \A q \in Pages : map[q] = g => q = slot'[g]
      <3>1. CASE g = f
        BY <1>1, <1>4, <1>5, <3>1 DEF Good, Mappings
      <3>2. CASE g # f
        BY <1>4, <1>5, <3>2 DEF Good, Mappings
      <3> QED BY <3>1, <3>2
    <2> QED BY <1>2, <1>5, <2>1 DEF Mappings
  <1>12. Marks'
    BY <1>1, <1>2, <1>3 DEF Good, Marks, RmapNew, VmapNew
  <1>13. Contents'
    BY <1>1, <1>2, <1>3, <1>6 DEF Good, Contents, SameCuts
  <1>14. Durable' /\ Replacements'
    <2>1. Spare' = Spare
      BY <1>1, <1>3 DEF Spare, Before, After
    <2>2. slot[f] \in Pages
      BY <1>1 DEF Good, Migration, BotHolds
    <2> QED BY <1>1, <1>2, <1>3, <1>4, <1>6, <2>1, <2>2, BottomKeeps
  <1> QED BY <1>6, <1>7, <1>8, <1>9, <1>10, <1>11, <1>12, <1>13, <1>14, GoodNext DEF Parts

\* The kernel uses the new page.
LEMMA GoodVmapSwitch ==
  ASSUME TypeOK, Good, UNCHANGED flat, VmapSwitch
  PROVE  Good'
  <1> USE DEF ptrVars, poolVars, daxVars, kernVars, queueVars
  <1>1. /\ bot.pc = "vswitch" /\ kpte' = bot.new /\ ~wp'
        /\ UNCHANGED <<ptr, media, holds>> /\ Advance("vrelease")
    BY BotGoes, Shapes DEF VmapSwitch, Advance, BotPcs
  <1>2. SameCuts /\ ThreadShape' /\ Semaphores' /\ Entries' /\ Truncations'
        /\ \A f \in Files : BotHolds(f)' <=> BotHolds(f)
    BY <1>1, AdvanceKeeps DEF VmapNew
  <1>3. bot'.pc = "vrelease" /\ bot'.pfn = bot.pfn /\ bot'.new = bot.new /\ bot'.file = bot.file
        /\ UNCHANGED <<free, marks, map, slot, pte, elock, th, size, flat>>
    BY <1>1 DEF Advance
  <1>4. LookedUp'
    BY <1>1, <1>3, TiredPage, LookedUpStays
  <1>5. Migration'
    BY <1>1, <1>3 DEF Good, Migration, Before, After, Holding, RmapNew, VmapNew
  <1>6. Owners'
    <2>1. Spare' = Spare
      BY <1>1, <1>3 DEF Spare, Before, After
    <2> QED BY <1>1, <1>2, <1>3, <2>1 DEF Good, Owners, SameCuts
  <1>7. Mappings'
    BY <1>1, <1>2, <1>3 DEF Good, Mappings
  <1>8. Marks'
    BY <1>1, <1>3 DEF Good, Marks, RmapNew, VmapNew
  <1>9. Contents'
    BY <1>1, <1>2, <1>3 DEF Good, Contents, SameCuts
  <1>10. Durable' /\ Replacements'
    <2>1. Spare' = Spare
      BY <1>1, <1>3 DEF Spare, Before, After
    <2> QED BY <1>1, <1>2, <1>3, <2>1, BottomKeeps
  <1> QED BY <1>2, <1>4, <1>5, <1>6, <1>7, <1>8, <1>9, <1>10, GoodNext DEF Parts

\* The queue.
LEMMA GoodTop ==
  ASSUME TypeOK, Good, UNCHANGED flat, TopQueue \/ \E p \in Pages : TopIn(p)
  PROVE  Good'
  <1> USE DEF ptrVars, poolVars, daxVars, kernVars, queueVars
  <1>1. UNCHANGED <<ptr, media, free, marks, map, holds, slot, pte, elock, kpte, wp, bot, th, size>>
    BY DEF TopIn, TopQueue
  <1>2. Parts' /\ Replacements'
    <2>1. SameCuts
      BY <1>1 DEF SameCuts, Cutting
    <2> QED BY <1>1, <2>1, PartsKept, ReplacementsStay
  <1> QED BY <1>1, <1>2, GoodNoThread

-----------------------------------------------------------------------------
(* The invariant.                                                          *)

\* As long as no race happens, every step keeps what the properties need.
LEMMA GoodStep ==
  ASSUME TypeOK, Good, ~Races, UNCHANGED flat, Step
  PROVE  Good'
  <1>1. ASSUME NEW t \in Threads, Thread(t) PROVE Good'
    BY <1>1, GoodBegin, GoodGrabEntry, GoodLookup, GoodReplaceAlloc, GoodReplaceCopy, GoodReplaceLink,
       GoodReplaceFlush, GoodHoleEnds, GoodFillHole,
       GoodUseRead, GoodUseWrite, GoodUseFault, GoodUnmap, GoodTruncateFree, GoodTruncateEnd
       DEF Thread
  <1>2. ASSUME NEW f \in Files, Extend(f) \/ UserStore(f) PROVE Good'
    BY <1>2, GoodExtend, GoodUserStore
  <1>3. CASE Bottom
    <2>1. ~CoreOops
      BY StillMapped, Names DEF CoreOops
    <2> QED BY <1>3, <2>1, GoodRequests, GoodAlloc, GoodRmapLock, GoodFreeSpare, GoodCore, GoodCopy,
               GoodLink, GoodFlush, GoodRmapSlot, GoodVmapSwitch
            DEF Bottom
  <1> QED BY <1>1, <1>2, <1>3, GoodKernStore, GoodTop DEF Step

LEMMA InitGood ==
  ASSUME Init
  PROVE  IInv
  <1>1. PICK k \in Pages :
          /\ ptr = [r \in Refs |-> IF r = Kern THEN k ELSE NoPage]
          /\ media = [r \in Refs |-> {IF r = Kern THEN k ELSE NoPage}]
          /\ free = Pages \ {k}
          /\ marks = [p \in Pages |-> IF p = k THEN {"using", "vmap"} ELSE {}]
          /\ map = [p \in Pages |-> NoRef]
          /\ holds = [p \in Pages |-> IF p = k THEN Kern ELSE NoRef]
          /\ size = [f \in Files |-> FALSE]
          /\ slot = [f \in Files |-> NoPage] /\ elock = [f \in Files |-> FALSE]
          /\ pte = [f \in Files |-> NoPage]
          /\ kpte = k /\ wp = FALSE
          /\ th = [t \in Threads |-> Idle] /\ bot = Rest
          /\ fifo = <<>> /\ tops = 0 /\ work = FALSE /\ left = FALSE
          /\ sw \in Switches /\ flat \in Flats /\ reqs = 0 /\ raced = FALSE
    BY DEF Init
  <1>2. /\ Idle \in ThreadSet /\ Idle.op = "idle" /\ Idle.pc = "idle" /\ Idle.file = NoRef
        /\ Idle.page = NoPage
    BY DEF Idle, ThreadSet, ThreadPcs
  <1>3. Rest \in BotSet /\ Rest.pc = "idle" /\ Rest.new = NoPage /\ Rest.file = NoRef
    BY DEF Rest, BotSet, BotPcs
  <1> HIDE DEF Idle, Rest
  <1>4. TypeOK
    <2>1. th \in [Threads -> ThreadSet] /\ bot \in BotSet
      BY <1>1, <1>2, <1>3
    <2>2. /\ ptr \in [Refs -> Pages \cup {NoPage}]
          /\ media \in [Refs -> SUBSET (Pages \cup {NoPage})]
          /\ free \subseteq Pages /\ marks \in [Pages -> SUBSET {"using", "tired", "vmap"}]
      BY <1>1
    <2>3. /\ map \in [Pages -> Files \cup {NoRef}] /\ holds \in [Pages -> Refs \cup {NoRef}]
          /\ size \in [Files -> BOOLEAN] /\ elock \in [Files -> BOOLEAN]
          /\ slot \in [Files -> Pages \cup {NoPage, Empty}] /\ pte \in [Files -> Pages \cup {NoPage}]
          /\ kpte \in Pages /\ wp \in BOOLEAN
      BY <1>1, Names
    <2>4. /\ fifo \in Seq(Pages) /\ Len(fifo) <= FifoSize
          /\ tops \in 0 .. MaxReq /\ reqs \in 0 .. MaxReq /\ work \in BOOLEAN /\ left \in BOOLEAN
          /\ sw \in Switches /\ flat \in Flats /\ raced \in BOOLEAN
      <3>1. fifo \in Seq(Pages) /\ Len(fifo) = 0
        BY <1>1
      <3>2. 0 <= FifoSize /\ 0 \in 0 .. MaxReq
        BY BoundsAssumption
      <3> QED BY <1>1, <3>1, <3>2
    <2> QED BY <2>1, <2>2, <2>3, <2>4 DEF TypeOK, ThreadSet, ThreadPcs, BotSet, BotPcs
  <1>5. QueueInv
    BY <1>1 DEF QueueInv, Scheduled
  <1>6. /\ \A t \in Threads : th[t] = Idle /\ th[t].op = "idle" /\ th[t].pc = "idle" /\ th[t].file = NoRef
        /\ bot.pc = "idle" /\ bot.new = NoPage
    BY <1>1, <1>2, <1>3
  <1>7. \A f \in Files : ~BotHolds(f) /\ \A t \in Threads : ~FaultHolds(t, f)
    BY <1>6 DEF BotHolds, Holding, FaultHolds, Replacing
  <1>8. /\ ptr[Kern] = k /\ \A r \in Refs : ptr[r] = (IF r = Kern THEN k ELSE NoPage) /\ media[r] = {ptr[r]}
        /\ holds[k] = Kern
    BY <1>1, Names
  <1>9. ThreadShape /\ Semaphores /\ Entries /\ Truncations /\ LookedUp
    <2>1. ThreadShape /\ Semaphores
      BY <1>6 DEF ThreadShape, Semaphores, RmapLocked
    <2>2. Entries
      BY <1>7 DEF Entries
    <2>3. Truncations /\ LookedUp
      BY <1>6 DEF Truncations, LookedUp, Replacing
    <2> QED BY <2>1, <2>2, <2>3
  <1>10. Migration
    BY <1>1, <1>6, <1>8 DEF Migration, Before, After, Holding, RmapNew, VmapNew
  <1>11. Owners
    <2>1. Spare = NoPage
      BY <1>6 DEF Spare, Before, After
    <2> QED BY <1>1, <1>8, <2>1, Names DEF Owners
  <1>12. Mappings
    BY <1>1, <1>7, Names DEF Mappings
  <1>13. Marks
    BY <1>1, <1>6, <1>8 DEF Marks, RmapNew, VmapNew
  <1>14. Contents /\ Durable
    BY <1>6, <1>8 DEF Contents, Durable
  <1>15. Replacements
    BY <1>6, <1>8 DEF Replacements, Prepares
  <1> QED BY <1>4, <1>5, <1>9, <1>10, <1>11, <1>12, <1>13, <1>14, <1>15 DEF IInv, Good

\* The invariant is one: it holds until a race has happened, whatever the threads do.
THEOREM Invariance == Spec => []IInv
  <1>1. Init => IInv
    BY InitGood
  <1>2. IInv /\ [Next]_vars => IInv'
    <2> SUFFICES ASSUME IInv, [Next]_vars PROVE IInv'
      OBVIOUS
    <2>1. TypeOK /\ QueueInv /\ (~raced => Good)
      BY DEF IInv
    <2>2. TypeOK' /\ QueueInv'
      BY <2>1, TypeStep
    <2>3. ~raced' => Good'
      <3> SUFFICES ASSUME ~raced' PROVE Good'
        OBVIOUS
      <3>1. CASE UNCHANGED vars
        <4>1. Good
          BY <2>1, <3>1 DEF vars
        <4>2. Parts' /\ Replacements'
          <5>1. SameCuts
            BY <3>1 DEF vars, SameCuts, Cutting
          <5> QED BY <2>1, <3>1, <4>1, <5>1, PartsKept, ReplacementsStay DEF vars
        <4> QED BY <2>1, <3>1, <4>1, <4>2, GoodNoThread DEF vars
      <3>2. CASE Next
        <4>1. Good /\ ~Races /\ Step /\ UNCHANGED flat
          BY <2>1, <3>2 DEF Next
        <4> QED BY <2>1, <4>1, GoodStep
      <3> QED BY <3>1, <3>2
    <2> QED BY <2>2, <2>3 DEF IInv
  <1> QED BY <1>1, <1>2, PTL DEF Spec

-----------------------------------------------------------------------------
(* What follows from the invariant.                                        *)

\* The shape of the state, and the queue (_int_top and _int_bottom): no request is left
\* in it with no bottom half to come, but by one that found no superblock
\* (wpmfs_wl.c:526) or that followed a null pointer.
THEOREM TypeCorrect == Spec => []TypeOK
  <1>1. IInv => TypeOK
    BY DEF IInv
  <1> QED BY <1>1, Invariance, PTL

THEOREM QueueScheduled == Spec => []Scheduled
  <1>1. IInv => Scheduled
    BY DEF IInv, QueueInv
  <1> QED BY <1>1, Invariance, PTL

\* No page has two users, and no free page is used (the allocations of wpmfs_wl.c and
\* of the lookups against the frees of truncation and of the bottom half).
THEOREM PagesHaveOneUser == Spec => []OneUser
  <1>1. ASSUME IInv, ~raced
        PROVE  /\ InUse \cap free = {}
               /\ \A q, r \in Refs :
                    ptr[q] = ptr[r] /\ ptr[q] # NoPage /\ ~Cutting(q) /\ ~Cutting(r) => q = r
    <2>1. TypeOK /\ Good
      BY <1>1 DEF IInv
    <2>2. InUse \cap free = {}
      <3>1. ASSUME NEW p \in free PROVE p \notin InUse
        <4>1. \A r \in Refs : ~Cutting(r) => ptr[r] # p /\ p \notin media[r]
          BY <2>1, FreePage DEF Good, Durable, Stale
        <4>2. \A t \in Threads : th[t].pc \in {"tcopy", "tlink"} => th[t].page # p
          BY <2>1 DEF Good, Replacements, Prepares, Private
        <4>3. /\ \A f \in Files : pte[f] # p
              /\ p \notin {bot.new, kpte}
          BY <2>1, FreePage
        <4> DEFINE led == UNION {media[r] \cup {ptr[r]} : r \in {q \in Refs : ~Cutting(q)}}
                   mapped == {pte[f] : f \in Files}
                   prepared == {th[t].page : t \in {u \in Threads : th[u].pc \in {"tcopy", "tlink"}}}
        <4>4. p \notin led /\ p \notin mapped /\ p \notin prepared
          BY <4>1, <4>2, <4>3
        <4>5. InUse = led \cup mapped \cup {bot.new, kpte} \cup prepared
          BY DEF InUse
        <4> HIDE DEF led, mapped, prepared
        <4> QED BY <4>3, <4>4, <4>5
      <3> QED BY <3>1
    <2> QED BY <2>1, <2>2 DEF Good, Owners
  <1>2. IInv => OneUser
    BY <1>1 DEF OneUser
  <1> QED BY <1>2, Invariance, PTL

\* Processes, DAX entries, the rmap of pages and the trees agree
\* (_level_type_rmap_core, dax_insert_mapping and truncate_pagecache).
THEOREM MappingsAgree == Spec => []Coherent
  <1>1. ASSUME IInv, ~raced, NEW f \in Files
        PROVE  /\ pte[f] # NoPage => pte[f] = slot[f]
               /\ slot[f] \in Pages /\ ~elock[f] => slot[f] = ptr[f] /\ map[slot[f]] = f
               /\ \A p \in Pages : map[p] = f => p \in {slot[f], bot.new}
    <2>1. TypeOK /\ Good
      BY <1>1 DEF IInv
    <2>2. BotHolds(f) => elock[f]
      BY <2>1 DEF Good, Entries
    <2> QED BY <2>1, <2>2 DEF Good, Mappings
  <1>2. IInv => Coherent
    BY <1>1 DEF Coherent
  <1> QED BY <1>2, Invariance, PTL

\* No store is lost to a migration (wpmfs_replace_single_datablk, _level_type_vmap
\* and wpmfs_replace_tired_page): the tree leads to the newest content.
THEOREM StoresSurvive == Spec => []NoStoreLost
  <1>1. IInv => NoStoreLost
    BY DEF IInv, Good, Contents, NoStoreLost
  <1> QED BY <1>1, Invariance, PTL

\* Nor after a power failure in the middle of one: whatever pointer the media has
\* leads to the newest content in a page that is not free.
THEOREM MediaSurvives == Spec => []MediaSafe
  <1>1. ASSUME IInv, ~raced, NEW r \in Refs, ~Cutting(r), NEW p \in media[r] \ {NoPage}
        PROVE  p \notin free /\ holds[p] = r
    <2>1. TypeOK /\ Good
      BY <1>1 DEF IInv
    <2>2. CASE p = ptr[r]
      BY <1>1, <2>1, <2>2 DEF Good, Owners, Contents
    <2>3. CASE p # ptr[r]
      BY <1>1, <2>1, <2>3 DEF Good, Durable, Stale
    <2> QED BY <2>2, <2>3
  <1>2. IInv => MediaSafe
    BY <1>1 DEF MediaSafe
  <1> QED BY <1>2, Invariance, PTL

\* The kernel stores to the page of its mapping table, and no other page is taken for
\* it (_level_type_vmap, the marks it copies, and the write-protected pte).
THEOREM KernelKeepsPage == Spec => []KernelPage
  <1>1. ASSUME IInv, ~raced
        PROVE  /\ ~wp => holds[kpte] = Kern
               /\ \A p \in Pages : "vmap" \in marks[p] => p \in {kpte, ptr[Kern], bot.new, bot.pfn}
               /\ "vmap" \in marks[ptr[Kern]]
    <2>1. TypeOK /\ Good
      BY <1>1 DEF IInv
    <2>2. ptr[Kern] \in Pages /\ Kern \in Refs /\ ~Cutting(Kern)
      BY <2>1, KernelPages, NotCutting, Names
    <2>3. ~wp => kpte = ptr[Kern]
      BY <2>1, KernelPages
    <2>4. holds[ptr[Kern]] = Kern
      BY <2>1, <2>2, Names DEF Good, Contents
    <2> QED BY <2>1, <2>2, <2>3, <2>4 DEF Good, Marks
  <1>2. IInv => KernelPage
    BY <1>1 DEF KernelPage
  <1> QED BY <1>2, Invariance, PTL
=============================================================================
