------------------------------ MODULE Journal ------------------------------
(***************************************************************************)
(* The undo journal of WPMFS (journal.c): a ring of JSize log entries and  *)
(* a header {head, tail, gen_id}, filled by transactions of several        *)
(* threads, emptied by the log cleaner, replayed backwards after a crash.  *)
(*                                                                         *)
(* Persistent memory.  A store reaches the media at any time before the    *)
(* flush + fence that covers it.  For the header, every log slot and every *)
(* metadata word the model keeps the cached value and the set of values    *)
(* the media may hold (phdr, plog, pmeta); Crash picks one of each.        *)
(*                                                                         *)
(* Data.  A metadata word is a member of Addrs holding one of Vals; a log  *)
(* entry keeps the old value of one word.  Offsets count entries, not      *)
(* bytes.  Only undo logging is modelled: journal_hard_init writes         *)
(* redo_logging = 0 and nothing ever sets it.                              *)
(***************************************************************************)
EXTENDS Integers, FiniteSets

CONSTANTS
  Procs,      \* threads that run file-system operations
  Addrs,      \* metadata words
  Vals,       \* their values
  InitVal,    \* value of every word after mkfs
  NoAddr,     \* address of a commit or abort record
  Requests,   \* the max_log_entries that callers ask for
  JSize,      \* entries in the ring
  MaxGen,     \* MAX_GEN_ID, 0xFFFF in the code
  MaxTid,     \* bound: transactions per mount
  MaxBoot,    \* bound: power failures and unmounts
  MaxWake     \* bound: wake-ups of the cleaner thread

ASSUME ProcsAssumption == Procs \cap {"free", "cleaner", "umount"} = {}
ASSUME ValsAssumption == InitVal \in Vals
ASSUME NoAddrAssumption == NoAddr \notin Addrs
ASSUME JSizeAssumption == JSize \in Nat \ {0}
\* PMFS_MINIMUM_JOURNAL_SIZE holds 1024 entries, the largest request (a write
\* that logs MAX_METABLOCK_LENTRIES) far less than half of them.
ASSUME RequestsAssumption == \A r \in Requests : r \in Nat /\ r >= 1 /\ 2 * (r + 1) < JSize
ASSUME MaxGenAssumption == MaxGen \in Nat /\ MaxGen > 1
ASSUME BoundsAssumption == MaxTid \in Nat /\ MaxBoot \in Nat /\ MaxWake \in Nat

VARIABLES
  hdr,        \* pmfs_journal_t: head, tail, gen
  phdr,       \* header values the media may hold
  log,        \* the ring of log entries
  plog,       \* per slot, the entries the media may hold
  meta,       \* metadata words as the CPU sees them
  pmeta,      \* per word, the values the media may hold
  mutex,      \* holder of sbi->journal_mutex
  ntid,       \* sbi->next_transaction_id
  txn,        \* each thread's pmfs_transaction_t
  nt,         \* locals of pmfs_new_transaction (its caller holds the mutex)
  cl,         \* locals of pmfs_clean_journal / pmfs_process_transaction
  thr,        \* the log cleaner thread
  rc,         \* locals of pmfs_recover_undo_journal / _recover_transaction
  mode,       \* mounted, being mounted, journal recovered
  stable,     \* history: the last committed value of every word
  tainted,    \* history: the log lost an entry it still needed, or kept one
              \* that it should have invalidated (see Next)
  boots, wakes

vars == <<hdr, phdr, log, plog, meta, pmeta, mutex, ntid, txn, nt, cl, thr,
          rc, mode, stable, tainted, boots, wakes>>

hdrVars  == <<hdr, phdr>>
logVars  == <<log, plog>>
dataVars == <<meta, pmeta>>
runVars  == <<mutex, ntid, txn, nt, cl, thr, wakes>>
bootVars == <<rc, mode, boots>>

-----------------------------------------------------------------------------
Slots == 0 .. JSize - 1
Gens  == 0 .. MaxGen

\* Mutant: the end of the ring is missed by one.
next_log_entry_late(i) == IF i + 1 > JSize THEN 0 ELSE i + 1

next_log_entry(i) == IF i + 1 >= JSize THEN 0 ELSE i + 1
prev_log_entry(i) == IF i = 0 THEN JSize - 1 ELSE i - 1

\* Mutant: the wraparound does not skip the invalid generation 0.
next_gen_id_zero(g) == IF g >= MaxGen THEN 0 ELSE g + 1

\* uint16_t arithmetic with MAX_GEN_ID for 0xFFFF; 0 marks an invalid entry.
next_gen_id(g) == IF g >= MaxGen THEN 1 ELSE g + 1
prev_gen_id(g) == IF g <= 1 THEN MaxGen ELSE g - 1

\* Entries met going forward from slot i before slot j.
Dist(i, j) == IF i <= j THEN j - i ELSE j - i + JSize

\* The part of the ring between head and tail.
Window(h) == {s \in Slots : Dist(h.head, s) < Dist(h.head, h.tail)}

Headers == [head : Slots, tail : Slots, gen : Gens]

Entries == [gen : Gens, start : BOOLEAN, kind : {"data", "commit", "abort"},
            tid : 0 .. MaxTid, addr : Addrs \cup {NoAddr}, old : Vals]

\* A zeroed or invalidated entry: gen_id 0 matches no generation, so the
\* other fields are never read again.
Invalid == [gen |-> 0, start |-> FALSE, kind |-> "data", tid |-> 0,
            addr |-> NoAddr, old |-> InitVal]

\* LE_COMMIT or LE_ABORT.
Ends(e) == e.kind \in {"commit", "abort"}

Idle   == [pc |-> "idle", tid |-> 0, gen |-> 0, start |-> 0, n |-> 0,
           used |-> 0, addrs |-> {}]
NtOff  == [head |-> 0, tail |-> 0, n |-> 0, tries |-> 0, freed |-> 0]
ClOff  == [pc |-> "off", head |-> 0, tail |-> 0, gen |-> 0, new |-> 0,
           total |-> 0, inv |-> {}]
RcOff  == [pc |-> "off", tail |-> 0, gen |-> 0, last |-> 0, ended |-> FALSE,
           start |-> FALSE]

\* A transaction exists from its reservation to its commit or abort record.
Live(p)     == txn[p].pc \in {"run", "logging", "flushed", "undone"}
Reserved(p) == txn[p].start .. txn[p].start + txn[p].n - 1
Used(p)     == txn[p].start .. txn[p].start + txn[p].used - 1

\* Entries of the live transactions lie between head and tail.
LogRetained == \A p \in Procs : Live(p) => Reserved(p) \subseteq Window(hdr)

-----------------------------------------------------------------------------
(* pmfs_journal_hard_init: mkfs writes generation 1 and an empty ring.     *)
Init ==
  /\ hdr = [head |-> 0, tail |-> 0, gen |-> 1]
  /\ phdr = {hdr}
  /\ log = [s \in Slots |-> Invalid]
  /\ plog = [s \in Slots |-> {Invalid}]
  /\ meta = [a \in Addrs |-> InitVal]
  /\ pmeta = [a \in Addrs |-> {InitVal}]
  /\ stable = meta
  /\ mutex = "free"
  /\ ntid = 0
  /\ txn = [p \in Procs |-> Idle]
  /\ nt = NtOff
  /\ cl = ClOff
  /\ thr = "sleep"
  /\ rc = RcOff
  /\ mode = "up"
  /\ tainted = FALSE
  /\ boots = 0
  /\ wakes = 0

-----------------------------------------------------------------------------
(* pmfs_new_transaction.  The mutex is held from NewTransaction to         *)
(* ReserveEntries or JournalFull.                                          *)

\* One more entry than asked for, for the commit record.
NewTransaction(p) ==
  /\ mode = "up" /\ mutex = "free" /\ txn[p].pc = "idle"
  /\ ntid < MaxTid
  /\ \E m \in Requests :
       nt' = [NtOff EXCEPT !.head = hdr.head, !.tail = hdr.tail, !.n = m + 1]
  /\ mutex' = p
  /\ ntid' = ntid + 1
  /\ txn' = [txn EXCEPT ![p].pc = "again", ![p].tid = ntid]
  /\ UNCHANGED <<hdrVars, logVars, dataVars, cl, thr, wakes, bootVars, stable>>

\* avail_size, from the copies of head and tail taken under the mutex.
Avail == (IF nt.tail >= nt.head THEN JSize - (nt.tail - nt.head)
                                ELSE nt.head - nt.tail) - 1

\* The space test that lets the reservation go ahead.
HasRoom(p) == \/ txn[p].pc = "again" /\ Avail >= nt.n
              \/ txn[p].pc = "retry" /\ Avail + nt.freed >= nt.n

\* The locals of a cleaning pass as pmfs_clean_journal sets them up.
CleanStart == [ClOff EXCEPT !.pc = "scan", !.head = hdr.head, !.tail = hdr.tail,
                 !.gen = IF hdr.tail < hdr.head THEN prev_gen_id(hdr.gen)
                                                ELSE hdr.gen]

\* Mutant: the retries are not counted.
FreeLogentries_forever(p) ==
  /\ mutex = p /\ ~HasRoom(p) /\ txn[p].pc \in {"again", "retry"}
  /\ cl' = CleanStart
  /\ txn' = [txn EXCEPT ![p].pc = "clean"]
  /\ UNCHANGED <<hdrVars, logVars, dataVars, mutex, ntid, nt, thr, wakes, bootVars,
                 stable>>

\* Too little room: run the cleaner, three times at most.
FreeLogentries(p) ==
  /\ mutex = p /\ ~HasRoom(p)
  /\ \/ txn[p].pc = "again" /\ nt' = [nt EXCEPT !.tries = 1, !.freed = 0]
     \/ txn[p].pc = "retry" /\ nt.tries < 3 /\ nt' = [nt EXCEPT !.tries = @ + 1]
  /\ cl' = CleanStart
  /\ txn' = [txn EXCEPT ![p].pc = "clean"]
  /\ UNCHANGED <<hdrVars, logVars, dataVars, mutex, ntid, thr, wakes, bootVars,
                 stable>>

\* -EAGAIN.
JournalFull(p) ==
  /\ mutex = p /\ txn[p].pc = "retry" /\ ~HasRoom(p) /\ nt.tries = 3
  /\ mutex' = "free"
  /\ nt' = NtOff
  /\ txn' = [txn EXCEPT ![p] = Idle]
  /\ UNCHANGED <<hdrVars, logVars, dataVars, ntid, cl, thr, wakes, bootVars,
                 stable>>

\* The entries would cross the end of the ring: tail = 0 and the next
\* generation in one 8-byte store, not flushed, then look for room again.
WrapJournal(p) ==
  /\ mutex = p /\ HasRoom(p)
  /\ nt.tail + nt.n >= JSize
  /\ hdr' = [hdr EXCEPT !.tail = 0, !.gen = next_gen_id(hdr.gen)]
  /\ phdr' = phdr \cup {hdr'}
  /\ nt' = [nt EXCEPT !.tail = 0]
  /\ txn' = [txn EXCEPT ![p].pc = "again"]
  /\ UNCHANGED <<logVars, dataVars, mutex, ntid, cl, thr, wakes, bootVars, stable>>

\* wakeup_log_cleaner has an effect only on a sleeping thread.  The ring is
\* so small here that the jsize/8 threshold is always passed.
Wakeup ==
  IF thr = "sleep" /\ wakes < MaxWake
  THEN thr' = "ready" /\ wakes' = wakes + 1
  ELSE UNCHANGED <<thr, wakes>>

\* tail is stored and flushed; the unlock orders the flush.
ReserveEntries(p) ==
  /\ mutex = p /\ HasRoom(p)
  /\ nt.tail + nt.n < JSize
  /\ hdr' = [hdr EXCEPT !.tail = nt.tail + nt.n]
  /\ phdr' = {hdr'}
  /\ txn' = [txn EXCEPT ![p].pc = "run", ![p].gen = hdr.gen,
                        ![p].start = nt.tail, ![p].n = nt.n]
  /\ mutex' = "free"
  /\ nt' = NtOff
  /\ Wakeup
  /\ UNCHANGED <<logVars, dataVars, ntid, cl, bootVars, stable>>

-----------------------------------------------------------------------------
(* pmfs_add_logentry, pmfs_commit_transaction, pmfs_abort_transaction.     *)
(* They run without the mutex.                                             *)

\* The entry that transaction p writes next; the first one has LE_START.
Record(p, kind, a, v) ==
  [gen |-> txn[p].gen, start |-> txn[p].used = 0, kind |-> kind,
   tid |-> txn[p].tid, addr |-> a, old |-> v]

NextSlot(p) == txn[p].start + txn[p].used

\* One iteration of the loop of pmfs_add_logentry: fields first, gen_id last,
\* flushed but not fenced.  A caller stays within the max_log_entries it asked
\* for, and the VFS locks give every word to one transaction at a time.
AddLogentry(p, a) ==
  /\ txn[p].pc \in {"run", "logging"}
  /\ txn[p].used + 1 < txn[p].n
  /\ \A q \in Procs \ {p} : a \notin txn[q].addrs
  /\ log' = [log EXCEPT ![NextSlot(p)] = Record(p, "data", a, meta[a])]
  /\ plog' = [plog EXCEPT ![NextSlot(p)] = @ \cup {log'[NextSlot(p)]}]
  /\ txn' = [txn EXCEPT ![p].pc = "logging", ![p].used = @ + 1,
                        ![p].addrs = @ \cup {a}]
  /\ UNCHANGED <<hdrVars, dataVars, mutex, ntid, nt, cl, thr, wakes, bootVars,
                 stable>>

\* Mutant: pmfs_add_logentry returns without the fence.
LogFence_missing(p) ==
  /\ txn[p].pc = "logging"
  /\ txn' = [txn EXCEPT ![p].pc = "run"]
  /\ UNCHANGED <<hdrVars, logVars, dataVars, mutex, ntid, nt, cl, thr, wakes,
                 bootVars, stable>>

\* The fence that ends pmfs_add_logentry: all entries of the call are durable.
LogFence(p) ==
  /\ txn[p].pc = "logging"
  /\ plog' = [s \in Slots |-> IF s \in Used(p) THEN {log[s]} ELSE plog[s]]
  /\ txn' = [txn EXCEPT ![p].pc = "run"]
  /\ UNCHANGED <<hdrVars, log, dataVars, mutex, ntid, nt, cl, thr, wakes,
                 bootVars, stable>>

\* The caller changes a logged word in place (cached, not flushed).
Update(p, a, v) ==
  /\ txn[p].pc = "run" /\ a \in txn[p].addrs /\ v # meta[a]
  /\ meta' = [meta EXCEPT ![a] = v]
  /\ pmeta' = [pmeta EXCEPT ![a] = @ \cup {v}]
  /\ UNCHANGED <<hdrVars, logVars, runVars, bootVars, stable>>

\* Mutant: the commit record is written without flushing the data.
CommitFlush_missing(p) ==
  /\ txn[p].pc = "run"
  /\ txn' = [txn EXCEPT ![p].pc = "flushed"]
  /\ UNCHANGED <<hdrVars, logVars, dataVars, mutex, ntid, nt, cl, thr, wakes,
                 bootVars, stable>>

\* pmfs_flush_transaction and the barrier of pmfs_commit_logentry: the words
\* named by the transaction's entries become durable.
CommitFlush(p) ==
  /\ txn[p].pc = "run"
  /\ pmeta' = [a \in Addrs |-> IF \E s \in Used(p) : log[s].addr = a
                               THEN {meta[a]} ELSE pmeta[a]]
  /\ txn' = [txn EXCEPT ![p].pc = "flushed"]
  /\ UNCHANGED <<hdrVars, logVars, meta, mutex, ntid, nt, cl, thr, wakes,
                 bootVars, stable>>

\* The record that ends transaction p becomes valid and durable.
EndRecord(p, kind) ==
  /\ log' = [log EXCEPT ![NextSlot(p)] = Record(p, kind, NoAddr, InitVal)]
  /\ plog' = [plog EXCEPT ![NextSlot(p)] = {log'[NextSlot(p)]}]
  /\ txn' = [txn EXCEPT ![p] = Idle]

CommitEntry(p) ==
  /\ txn[p].pc = "flushed"
  /\ EndRecord(p, "commit")
  /\ stable' = [a \in Addrs |-> IF a \in txn[p].addrs THEN meta[a] ELSE stable[a]]
  /\ UNCHANGED <<hdrVars, dataVars, mutex, ntid, nt, cl, thr, wakes, bootVars>>

\* Undo in reverse order over the slots S: the oldest entry of a word wins.
\* Only entries of generation g are applied.
UndoEntries(S, g, a) == {s \in S : log[s].gen = g /\ log[s].addr = a}
\* Mutant: the entries are applied in the order they were written.
undo_transaction_forward(S, g) ==
  [a \in Addrs |->
     IF UndoEntries(S, g, a) = {} THEN meta[a]
     ELSE log[CHOOSE s \in UndoEntries(S, g, a) :
                \A t \in UndoEntries(S, g, a) : s >= t].old]

pmfs_undo_transaction(S, g) ==
  [a \in Addrs |->
     IF UndoEntries(S, g, a) = {} THEN meta[a]
     ELSE log[CHOOSE s \in UndoEntries(S, g, a) :
                \A t \in UndoEntries(S, g, a) : s <= t].old]

\* What the media may hold while the undo is being flushed.
UndoMedia(S, g) ==
  [a \in Addrs |-> pmeta[a] \cup {log[s].old : s \in UndoEntries(S, g, a)}]

AbortUndo(p) ==
  /\ txn[p].pc = "run"
  /\ meta' = pmfs_undo_transaction(Used(p), txn[p].gen)
  /\ pmeta' = UndoMedia(Used(p), txn[p].gen)
  /\ txn' = [txn EXCEPT ![p].pc = "undone"]
  /\ UNCHANGED <<hdrVars, logVars, mutex, ntid, nt, cl, thr, wakes, bootVars, stable>>

\* The barrier after the undo, then the abort record.
AbortEntry(p) ==
  /\ txn[p].pc = "undone"
  /\ pmeta' = [a \in Addrs |-> IF a \in txn[p].addrs THEN {meta[a]} ELSE pmeta[a]]
  /\ EndRecord(p, "abort")
  /\ UNCHANGED <<hdrVars, meta, mutex, ntid, nt, cl, thr, wakes, bootVars, stable>>

-----------------------------------------------------------------------------
(* pmfs_clean_journal with pmfs_process_transaction.  The pass holds the   *)
(* mutex but not the entries: every entry it looks at is a step, and       *)
(* threads add entries in between.                                         *)

\* invalidate_gen_id on the slots S; those in D are durable when it is over.
InvalidateSlots(S, D) ==
  /\ log' = [s \in Slots |-> IF s \in S THEN Invalid ELSE log[s]]
  /\ plog' = [s \in Slots |-> CASE s \in S \cap D -> {Invalid}
                                [] s \in S \ D    -> plog[s] \cup {Invalid}
                                [] OTHER          -> plog[s]]

\* pmfs_invalidate_logentries fences after every entry that is just LE_START,
\* not after one that is also the commit or abort record.  What lies behind the
\* last of these fences may reach the media in any order.
Fenced(S) ==
  {s \in S : \E t \in S : s <= t /\ log[t].start /\ ~Ends(log[t])}

\* Move the scan to slot h; the generation follows at the start of the ring.
MoveTo(h, n, inv) ==
  cl' = [cl EXCEPT !.pc = "scan", !.head = h, !.total = @ + n,
                   !.inv = @ \cup inv,
                   !.gen = IF h = 0 THEN next_gen_id(@) ELSE @]

\* Mutant: the scan stops at an entry of another generation.
CleanSkip_stop ==
  /\ cl.pc = "scan" /\ cl.head # cl.tail
  /\ log[cl.head].gen # cl.gen
  /\ cl' = [cl EXCEPT !.pc = "finish"]
  /\ UNCHANGED <<hdrVars, logVars, dataVars, mutex, ntid, txn, nt, thr, wakes,
                 bootVars, stable>>

\* The entry at head is of another generation: nothing to do there.
CleanSkip ==
  /\ cl.pc = "scan" /\ cl.head # cl.tail
  /\ log[cl.head].gen # cl.gen
  /\ IF cl.gen = MaxGen
     THEN /\ InvalidateSlots({cl.head}, {})
          /\ MoveTo(next_log_entry(cl.head), 0, {cl.head})
     ELSE /\ MoveTo(next_log_entry(cl.head), 0, {})
          /\ UNCHANGED logVars
  /\ UNCHANGED <<hdrVars, dataVars, mutex, ntid, txn, nt, thr, wakes, bootVars, stable>>

\* A valid entry: without LE_START it is skipped, with it the walk begins.
CleanEnter ==
  /\ cl.pc = "scan" /\ cl.head # cl.tail
  /\ log[cl.head].gen = cl.gen
  /\ IF log[cl.head].start
     THEN cl' = [cl EXCEPT !.pc = "walk", !.new = cl.head]
     ELSE MoveTo(next_log_entry(cl.head), 0, {})
  /\ UNCHANGED <<hdrVars, logVars, dataVars, mutex, ntid, txn, nt, thr, wakes,
                 bootVars, stable>>

\* One iteration of the loop of pmfs_process_transaction at entry cl.new.
\* The count of entries handled is added up whether or not head moves.
CleanWalk ==
  LET e   == log[cl.new]
      new == next_log_entry(cl.new)
      cnt == Dist(cl.head, cl.new) + 1
      rng == cl.head .. cl.new
  IN
  /\ cl.pc = "walk"
  /\ \/ /\ e.gen = cl.gen /\ Ends(e)
        /\ IF cl.gen = MaxGen
           THEN InvalidateSlots(rng, Fenced(rng)) /\ MoveTo(new, cnt, rng)
           ELSE UNCHANGED logVars /\ MoveTo(new, cnt, {})
     \/ /\ ~(e.gen = cl.gen /\ Ends(e))
        /\ IF new = cl.tail \/ (log[new].gen = cl.gen /\ log[new].start)
           THEN cl' = [cl EXCEPT !.pc = "finish", !.total = @ + cnt]
           ELSE cl' = [cl EXCEPT !.new = new]
        /\ UNCHANGED logVars
  /\ UNCHANGED <<hdrVars, dataVars, mutex, ntid, txn, nt, thr, wakes, bootVars, stable>>

\* Barrier, then the new head is stored, flushed and fenced; the pass returns
\* to pmfs_new_transaction, to the thread, or to the unmount.
CleanFinish ==
  /\ cl.pc = "finish" \/ (cl.pc = "scan" /\ cl.head = cl.tail)
  /\ hdr' = [hdr EXCEPT !.head = cl.head]
  /\ phdr' = {hdr'}
  /\ plog' = [s \in Slots |-> IF s \in cl.inv THEN {log[s]} ELSE plog[s]]
  /\ cl' = ClOff
  /\ \/ /\ mutex \in Procs
        /\ nt' = [nt EXCEPT !.freed = @ + cl.total]
        /\ txn' = [txn EXCEPT ![mutex].pc = "retry"]
        /\ UNCHANGED <<mutex, thr, mode>>
     \/ /\ mutex = "cleaner"
        /\ mutex' = "free" /\ thr' = "sleep"
        /\ UNCHANGED <<nt, txn, mode>>
     \/ /\ mutex = "umount"
        /\ mutex' = "free" /\ mode' = "recover"
        /\ UNCHANGED <<nt, txn, thr>>
  /\ UNCHANGED <<log, dataVars, ntid, wakes, rc, boots, stable>>

\* pmfs_log_cleaner: woken up, it takes the mutex and makes a pass.
CleanerRun ==
  /\ thr = "ready" /\ mutex = "free" /\ mode = "up"
  /\ thr' = "run" /\ mutex' = "cleaner"
  /\ cl' = CleanStart
  /\ UNCHANGED <<hdrVars, logVars, dataVars, ntid, txn, nt, wakes, bootVars, stable>>

\* pmfs_journal_uninit stops the thread, which makes a last pass; the volume
\* is then mounted again.
Unmount ==
  /\ mode = "up" /\ mutex = "free" /\ \A p \in Procs : txn[p].pc = "idle"
  /\ boots < MaxBoot /\ boots' = boots + 1
  /\ mutex' = "umount" /\ thr' = "sleep"
  /\ cl' = CleanStart
  /\ UNCHANGED <<hdrVars, logVars, dataVars, ntid, txn, nt, wakes, rc, mode,
                 stable>>

-----------------------------------------------------------------------------
(* Power failure and recovery.                                             *)

\* The functions that pick one possible media value wherever there is a choice.
Pick(cur, media) ==
  LET M == {x \in DOMAIN media : Cardinality(media[x]) > 1}
  IN  {[x \in DOMAIN cur |-> IF x \in M THEN f[x] ELSE CHOOSE v \in media[x] : TRUE] :
         f \in {g \in [M -> UNION {media[x] : x \in M}] :
                  \A x \in M : g[x] \in media[x]}}

Crash ==
  /\ boots < MaxBoot
  /\ boots' = boots + 1
  /\ hdr' \in phdr /\ phdr' = {hdr'}
  /\ log' \in Pick(log, plog) /\ plog' = [s \in Slots |-> {log'[s]}]
  /\ meta' \in Pick(meta, pmeta) /\ pmeta' = [a \in Addrs |-> {meta'[a]}]
  /\ mutex' = "free" /\ txn' = [p \in Procs |-> Idle] /\ nt' = NtOff
  /\ cl' = ClOff /\ thr' = "sleep" /\ rc' = RcOff
  /\ mode' = "recover"
  /\ UNCHANGED <<ntid, wakes, stable>>

\* pmfs_journal_soft_init, then pmfs_recover_journal, which leaves an empty
\* journal alone.
RecoverStart ==
  /\ mode = "recover" /\ rc.pc = "off"
  /\ ntid' = 0
  /\ IF hdr.head = hdr.tail
     THEN mode' = "recovered" /\ UNCHANGED rc
     ELSE /\ rc' = [RcOff EXCEPT !.pc = "scan", !.tail = hdr.tail, !.gen = hdr.gen]
          /\ UNCHANGED mode
  /\ UNCHANGED <<hdrVars, logVars, dataVars, mutex, txn, nt, cl, thr, wakes,
                 boots, stable>>

\* Mutant: the scan does not step over an entry of another generation.
RecoverScan_stuck ==
  /\ rc.pc = "scan" /\ rc.tail # hdr.head
  /\ LET t == prev_log_entry(rc.tail)
         g == IF rc.tail = 0 THEN prev_gen_id(rc.gen) ELSE rc.gen
     IN IF log[t].gen = g
        THEN rc' = [rc EXCEPT !.pc = "walk", !.tail = t, !.gen = g, !.last = t,
                              !.ended = FALSE, !.start = FALSE]
        ELSE rc' = rc
  /\ UNCHANGED <<hdrVars, logVars, dataVars, runVars, mode, boots, stable>>

\* One iteration of the loop of pmfs_recover_undo_journal: one entry back.
RecoverScan ==
  /\ rc.pc = "scan" /\ rc.tail # hdr.head
  /\ LET t == prev_log_entry(rc.tail)
         g == IF rc.tail = 0 THEN prev_gen_id(rc.gen) ELSE rc.gen
     IN IF log[t].gen = g
        THEN /\ rc' = [rc EXCEPT !.pc = "walk", !.tail = t, !.gen = g, !.last = t,
                                 !.ended = FALSE, !.start = FALSE]
             /\ UNCHANGED logVars
        ELSE /\ rc' = [rc EXCEPT !.tail = t, !.gen = g]
             /\ IF g = MaxGen THEN InvalidateSlots({t}, {}) ELSE UNCHANGED logVars
  /\ UNCHANGED <<hdrVars, dataVars, runVars, mode, boots, stable>>

\* One iteration of the loop of pmfs_recover_transaction at entry rc.tail.
\* BUG_ON stops the mount for good.
RecoverWalk ==
  LET e     == log[rc.tail]
      mine  == e.gen = rc.gen
      ended == rc.ended \/ (mine /\ Ends(e))
      first == rc.tail = 0 \/ rc.tail = hdr.head
      other == ~first /\ log[rc.tail - 1].gen = rc.gen /\ Ends(log[rc.tail - 1])
  IN
  /\ rc.pc = "walk"
  /\ IF ~(mine /\ e.start) /\ other /\ log[rc.tail - 1].tid = log[rc.last].tid
     THEN rc' = [rc EXCEPT !.pc = "bug"]
     ELSE IF (mine /\ e.start) \/ first \/ other
     THEN rc' = [rc EXCEPT !.pc = "undo", !.ended = ended, !.start = mine /\ e.start]
     ELSE rc' = [rc EXCEPT !.tail = @ - 1, !.ended = ended]
  /\ UNCHANGED <<hdrVars, logVars, dataVars, runVars, mode, boots, stable>>

\* The transaction is undone if its start and no end was found.
RecoverUndo ==
  /\ rc.pc = "undo"
  /\ IF rc.start /\ ~rc.ended
     THEN /\ meta' = pmfs_undo_transaction(rc.tail .. rc.last, rc.gen)
          /\ pmeta' = UndoMedia(rc.tail .. rc.last, rc.gen)
     ELSE UNCHANGED dataVars
  /\ rc' = [rc EXCEPT !.pc = IF rc.gen = MaxGen THEN "invalidate" ELSE "scan"]
  /\ UNCHANGED <<hdrVars, logVars, runVars, mode, boots, stable>>

\* Entries of the last generation are invalidated, after the barrier that
\* makes the undo durable; the start entry first.
RecoverInvalidate ==
  /\ rc.pc = "invalidate"
  /\ pmeta' = IF rc.start /\ ~rc.ended THEN [a \in Addrs |-> {meta[a]}] ELSE pmeta
  /\ InvalidateSlots(rc.tail .. rc.last, Fenced(rc.tail .. rc.last))
  /\ rc' = [rc EXCEPT !.pc = "scan"]
  /\ UNCHANGED <<hdrVars, meta, runVars, mode, boots, stable>>

\* pmfs_forward_journal, wrap of the generation: invalidate the rest of the ring.
InvalidateRest ==
  /\ rc.pc = "scan" /\ rc.tail = hdr.head
  /\ IF hdr.gen = MaxGen THEN InvalidateSlots(hdr.tail .. JSize - 1, {})
                         ELSE UNCHANGED logVars
  /\ rc' = [rc EXCEPT !.pc = "forward"]
  /\ UNCHANGED <<hdrVars, dataVars, runVars, mode, boots, stable>>

\* Barrier, then gen_id and head are stored, in this order.
ForwardJournal ==
  /\ rc.pc = "forward"
  /\ plog' = [s \in Slots |-> {log[s]}]
  /\ pmeta' = [a \in Addrs |-> {meta[a]}]
  /\ hdr' = [hdr EXCEPT !.gen = next_gen_id(@), !.head = hdr.tail]
  /\ phdr' = phdr \cup {[hdr EXCEPT !.gen = next_gen_id(@)], hdr'}
  /\ rc' = [rc EXCEPT !.pc = "sync"]
  /\ UNCHANGED <<log, meta, runVars, mode, boots, stable>>

RecoverDone ==
  /\ rc.pc = "sync"
  /\ phdr' = {hdr}
  /\ rc' = RcOff
  /\ mode' = "recovered"
  /\ UNCHANGED <<hdr, logVars, dataVars, runVars, boots, stable>>

\* The rest of the mount; operations may start.
Mounted ==
  /\ mode = "recovered"
  /\ mode' = "up"
  /\ stable' = meta
  /\ UNCHANGED <<hdrVars, logVars, dataVars, runVars, rc, boots>>

-----------------------------------------------------------------------------
\* The part of pmfs_new_transaction under the mutex.
Reserve(p) == \/ FreeLogentries(p) \/ JournalFull(p)
              \/ WrapJournal(p) \/ ReserveEntries(p)

Transact(p) == \/ NewTransaction(p) \/ Reserve(p)
               \/ \E a \in Addrs : AddLogentry(p, a)
               \/ LogFence(p)
               \/ \E a \in Addrs, v \in Vals : Update(p, a, v)
               \/ CommitFlush(p) \/ CommitEntry(p) \/ AbortUndo(p) \/ AbortEntry(p)

Clean == CleanSkip \/ CleanEnter \/ CleanWalk \/ CleanFinish

Recover == \/ RecoverStart \/ RecoverScan \/ RecoverWalk \/ RecoverUndo
           \/ RecoverInvalidate \/ InvalidateRest \/ ForwardJournal
           \/ RecoverDone \/ Mounted

Step == (\E p \in Procs : Transact(p)) \/ Clean \/ CleanerRun \/ Unmount
        \/ Crash \/ Recover

\* Where the log goes wrong.

\* The cleaner passes an entry of a live transaction.
Kept == Window([hdr EXCEPT !.head = IF cl.pc = "off" THEN @ ELSE cl.head])
Passed == \E p \in Procs : Live(p) /\ ~(Reserved(p) \subseteq Kept)

\* pmfs_new_transaction goes ahead on the count of entries handled, although
\* the ring has no room: tail would run over head.
Overrun ==
  /\ mutex \in Procs /\ boots' = boots /\ hdr'.tail # hdr.tail
  /\ Dist(hdr.head, hdr.tail) + nt.n >= JSize

\* The walk goes over the end of the ring, where entries of the lap before pass
\* for entries of the same generation, and takes one of them for the end.
Leap == cl.pc = "walk" /\ cl.new < cl.head /\ cl'.pc = "scan"

\* The last generation begins in the middle of the ring: its lap will not
\* pass, and so not invalidate, the entries before tail.
PartialLastLap == rc.pc = "forward" /\ rc'.pc = "sync" /\ hdr'.gen = MaxGen /\ hdr.tail # 0

\* Power fails while entries of the last generation are being invalidated:
\* one of them survives without its start, behind an unfinished transaction.
Unended(l, t) ==
  l[t].start /\ \A r \in Slots : l[r].gen = l[t].gen /\ l[r].tid = l[t].tid => ~Ends(l[r])
HalfInvalidated ==
  /\ boots' # boots /\ mode = "recover"
  /\ \E s, t \in Slots : /\ t < s /\ log[s].gen = 0 /\ log'[s].gen = MaxGen
                         /\ log'[t].gen = MaxGen /\ Unended(log', t)

\* Power fails while the rest of the ring is being invalidated: entries of the
\* lap before may be lost, in any order, that are still to be undone again.
RestHalf ==
  /\ boots' # boots /\ rc.pc = "forward" /\ hdr.gen = MaxGen
  /\ \E s \in Window(hdr) : s >= hdr.tail /\ plog[s] # {log[s]}

Mark == tainted' = \/ tainted \/ Passed' \/ Overrun \/ Leap
                   \/ PartialLastLap \/ HalfInvalidated \/ RestHalf

Next == Step /\ Mark

Spec == Init /\ [][Next]_vars

-----------------------------------------------------------------------------
(* Properties.                                                             *)

Transactions ==
  [pc : {"idle", "again", "clean", "retry", "run", "logging", "flushed", "undone"},
   tid : 0 .. MaxTid, gen : Gens, start : Slots, n : 0 .. JSize, used : 0 .. JSize,
   addrs : SUBSET Addrs]
Requested  == [head : Slots, tail : Slots, n : 0 .. JSize, tries : 0 .. 3, freed : Nat]
CleanState == [pc : {"off", "scan", "walk", "finish"}, head : Slots, tail : Slots,
               gen : Gens, new : Slots, total : Nat, inv : SUBSET Slots]
RecoverState ==
  [pc : {"off", "scan", "walk", "undo", "invalidate", "forward", "sync", "bug"},
   tail : Slots, gen : Gens, last : Slots, ended : BOOLEAN, start : BOOLEAN]

\* The shape of the state.
TypeOK ==
  /\ hdr \in Headers /\ phdr \in SUBSET Headers
  /\ log \in [Slots -> Entries] /\ plog \in [Slots -> SUBSET Entries]
  /\ meta \in [Addrs -> Vals] /\ pmeta \in [Addrs -> SUBSET Vals]
  /\ stable \in [Addrs -> Vals]
  /\ mutex \in Procs \cup {"free", "cleaner", "umount"}
  /\ ntid \in 0 .. MaxTid
  /\ txn \in [Procs -> Transactions]
  /\ nt \in Requested /\ cl \in CleanState
  /\ thr \in {"sleep", "ready", "run"}
  /\ rc \in RecoverState
  /\ mode \in {"up", "recover", "recovered"}
  /\ tainted \in BOOLEAN
  /\ boots \in 0 .. MaxBoot /\ wakes \in 0 .. MaxWake

\* "Consistent meta-data updates against arbitrary power and system failures":
\* once pmfs_recover_journal is over, every word holds, in cache and on media,
\* the value its last committed transaction gave it.
AtomicUpdates ==
  mode = "recovered" =>
    \A a \in Addrs : meta[a] = stable[a] /\ pmeta[a] = {stable[a]}

\* The same, as long as the log kept every live transaction's entries.
RecoveredAtomic == ~tainted => AtomicUpdates

\* After a recovery, and all the time for a word that no transaction holds: the
\* word is durable and has its last committed value. Commits flush before their
\* record, aborts restore the oldest logged value.
SettledWords ==
  ~tainted =>
    /\ AtomicUpdates
    /\ mode = "up" =>
         \A a \in Addrs : (\A p \in Procs : a \notin txn[p].addrs) =>
           meta[a] = stable[a] /\ pmeta[a] = {stable[a]}

\* Reserved entries that were not written yet never carry the transaction's
\* generation, in cache or on media: a stale entry of an earlier lap of the
\* ring, or of an earlier lap of gen_id, is never taken for a record.
FreshSlots ==
  ~tainted => \A p \in Procs : Live(p) =>
    \A s \in Reserved(p) \ Used(p) :
      \A e \in plog[s] \cup {log[s]} : e.gen # txn[p].gen

\* BUG_ON in pmfs_recover_transaction: going back from an unfinished
\* transaction never meets the end record of the same transaction.
NoBug == ~tainted => rc.pc # "bug"

\* The log serves recovery: no entry of a live transaction is cut off by the
\* cleaner (pmfs_clean_journal), none is taken from an earlier lap
\* (pmfs_add_logentry writes gen_id last), and the walk back of
\* pmfs_recover_transaction ends where the transaction starts.
LogIntact == LogRetained /\ FreshSlots /\ NoBug

\* "is the journal empty? true if unmounted properly": the last pass of the
\* cleaner leaves head = tail.
UnmountEmpties ==
  [][mutex = "umount" /\ mutex' = "free" /\ boots' = boots /\ ~tainted
       => hdr'.head = hdr'.tail]_vars

\* The scheduler runs a thread that holds the mutex, and the mounting thread.
Fairness ==
  /\ \A p \in Procs : WF_vars(Reserve(p) /\ Mark)
  /\ WF_vars(Clean /\ Mark)
  /\ WF_vars(Recover /\ Mark)

FairSpec == Spec /\ Fairness

\* The journal mutex is always given back: the retry loop, the wrap and the
\* cleaner's scans end.
MutexReleased == (mutex # "free") ~> (mutex = "free")

\* The mount gets through journal recovery, however often power fails on the way.
RecoveryCompletes == (mode = "recover") ~> (mode = "up")

=============================================================================
