--------------------------- MODULE JournalProofs ---------------------------
(***************************************************************************)
(* Proofs about Journal, for any number of threads, words and log entries: *)
(* the inductive invariant IInv, and that the steps of the mounted volume  *)
(* keep its part UpInv.  JournalRecoveryProofs has the power failures, the *)
(* recovery with RecoverInv, and the theorems.                             *)
(***************************************************************************)
EXTENDS Journal, TLAPS, WellFoundedInduction

-----------------------------------------------------------------------------
(* The ring as a header h sees it.                                         *)

\* Slot s lies between head and tail.
InW(h, s) == IF h.head <= h.tail THEN h.head <= s /\ s < h.tail
                                 ELSE h.head <= s \/ s < h.tail

\* The generation of an entry of the lap that slot s belongs to.
Lap(h, s) == IF s < h.tail THEN h.gen ELSE prev_gen_id(h.gen)

\* Two slots on the same side of tail: of the same lap.
Side(h, u, v) == u < h.tail <=> v < h.tail

\* The generation of no entry at slot s, in cache or on media, is above this.
Top(h, s) == IF InW(h, s) THEN Lap(h, s)
             ELSE IF h.tail <= s THEN h.gen - 1
             ELSE IF h.gen = MaxGen THEN 0 ELSE h.gen

Bounded(h) == \A s \in Slots : \A e \in plog[s] : e.gen <= Top(h, s)

\* Entry e, of the right generation, may be found at slot s after a crash.
Cand(h, s, e) == InW(h, s) /\ e \in plog[s] /\ e.gen = Lap(h, s)

\* An entry of the right generation is seen at slot s.
Match(h, s) == InW(h, s) /\ log[s].gen = Lap(h, s)

\* At most one candidate for a slot; the candidates of a transaction lie
\* together, its first entry first and its last entry last.
Single(h) == \A s \in Slots : \A e, f \in plog[s] : Cand(h, s, e) /\ Cand(h, s, f) => e = f

Convex(h) ==
  \A u, w, v \in Slots : \A e \in plog[u], d \in plog[w], f \in plog[v] :
    /\ u < w /\ w < v /\ Side(h, u, v)
    /\ Cand(h, u, e) /\ Cand(h, w, d) /\ Cand(h, v, f) /\ e.tid = f.tid
    => d.tid = e.tid

Ordered(h) ==
  \A u, v \in Slots : \A e \in plog[u], f \in plog[v] :
    /\ u < v /\ Side(h, u, v) /\ Cand(h, u, e) /\ Cand(h, v, f) /\ e.tid = f.tid
    => ~f.start /\ ~Ends(e)

Apart(h) == Single(h) /\ Convex(h) /\ Ordered(h)

\* The slots st .. r hold durable entries of one transaction.
Chain(h, st, r) ==
  /\ st <= r /\ Side(h, st, r)
  /\ \A w \in st .. r : Match(h, w) /\ log[w].tid = log[st].tid /\ plog[w] = {log[w]}

\* Slot u belongs to a transaction that has ended, and all of it is durable.
Covered(h, u) ==
  \E st, r \in Slots : /\ st <= u /\ u <= r /\ Chain(h, st, r)
                       /\ log[st].start /\ Ends(log[r])

\* Slot t is the first of a transaction that has not ended.
OpenStart(h, t) ==
  /\ Match(h, t) /\ log[t].start
  /\ \A r \in Slots : Match(h, r) /\ Side(h, t, r) /\ log[r].tid = log[t].tid
                        => ~Ends(log[r])

\* No transaction that has not ended begins at slot u or before it.
Orphan(h, u) == \A t \in Slots : t <= u /\ Side(h, t, u) => ~OpenStart(h, t)

\* An entry of word a at slot u has the last committed value, or comes after
\* another entry of the word in the same transaction.
Harmless(h, u) ==
  /\ ~Ends(log[u])
  /\ log[u].addr \in Addrs =>
       \/ log[u].old = stable[log[u].addr]
       \/ \E st, m \in Slots : /\ st <= m /\ m < u /\ Chain(h, st, m) /\ log[st].start
                               /\ log[st].tid = log[u].tid /\ Side(h, m, u)
                               /\ log[m].addr = log[u].addr

Dirty(a) == meta[a] # stable[a] \/ pmeta[a] # {stable[a]}

OnMedia ==
  /\ hdr \in phdr
  /\ \A s \in Slots : log[s] \in plog[s]
  /\ \A a \in Addrs : meta[a] \in pmeta[a]

\* Who holds the mutex, and what goes on meanwhile.
Reserving == {"again", "clean", "retry"}
Locking ==
  /\ mode # "recover" => rc.pc = "off"
  /\ mode # "up" => mutex = "free" /\ \A p \in Procs : txn[p].pc = "idle"
  /\ \A p \in Procs :
       /\ txn[p].pc \in Reserving <=> mutex = p
       /\ mutex = p => /\ nt.tail = hdr.tail /\ nt.n - 1 \in Requests
                       /\ cl.pc # "off" <=> txn[p].pc = "clean"
       /\ Live(p) => txn[p].used < txn[p].n /\ txn[p].start + txn[p].n < JSize
       /\ ~Live(p) => txn[p].used = 0 /\ txn[p].addrs = {}
       /\ mutex = "umount" => txn[p].pc = "idle"
  /\ mutex = "free" => cl.pc = "off"
  /\ mutex \in {"cleaner", "umount"} => cl.pc # "off"

-----------------------------------------------------------------------------
(* While operations run.                                                   *)

\* How far the cleaner has come.
CleanPos == IF cl.pc = "off" THEN hdr.head ELSE cl.head
Ahead    == [hdr EXCEPT !.head = CleanPos]
Behind(s) == InW(hdr, s) /\ ~InW(Ahead, s)

\* tail wrapped around, and the media may still have the header before that.
HeaderOnMedia ==
  \/ phdr = {hdr}
  \/ /\ hdr.tail = 0
     /\ \E old \in phdr :
          /\ phdr = {old, hdr} /\ old.head = hdr.head
          /\ old.head # 0 /\ old.head <= old.tail /\ old.gen = prev_gen_id(hdr.gen)
          /\ \A p \in Procs : Live(p) => \A s \in Reserved(p) : s < old.tail

\* The reservations.
Reservations ==
  /\ \A p \in Procs : Live(p) =>
       \A s \in Reserved(p) : InW(Ahead, s) /\ Lap(hdr, s) = txn[p].gen
  /\ \A p, q \in Procs : Live(p) /\ Live(q) /\ p # q => Reserved(p) \cap Reserved(q) = {}

\* Transaction ids.
Tids ==
  /\ \A p \in Procs : txn[p].pc # "idle" => txn[p].tid < ntid
  /\ \A p, q \in Procs : txn[p].pc # "idle" /\ txn[q].pc # "idle" /\ p # q
                           => txn[p].tid # txn[q].tid
  /\ \A s \in Slots : \A e \in plog[s] : Cand(hdr, s, e) =>
       /\ e.tid < ntid
       /\ \A p \in Procs : txn[p].pc # "idle" /\ txn[p].tid = e.tid
                             => Live(p) /\ s \in Used(p)

\* What the reserved slots hold.
WrittenBy(p) ==
  /\ \A s \in Reserved(p) \ Used(p) : \A e \in plog[s] : e.gen # txn[p].gen
  /\ \A s \in Used(p) :
       /\ log[s].gen = txn[p].gen /\ log[s].tid = txn[p].tid
       /\ log[s].start = (s = txn[p].start) /\ log[s].kind = "data"
       /\ log[s].addr \in txn[p].addrs
       /\ \A e \in plog[s] : e.gen = txn[p].gen => e = log[s]
       /\ txn[p].pc # "logging" => plog[s] = {log[s]}
Written == \A p \in Procs : Live(p) => WrittenBy(p)

\* Every candidate belongs to a transaction under way, to one that has ended, or
\* has been invalidated by the cleaner.
Swept(s) == Behind(s) /\ log[s] = Invalid /\ \A e \in plog[s] : e.start => Ends(e)
Owned ==
  \A s \in Slots : \A e \in plog[s] : Cand(hdr, s, e) =>
    \/ \E p \in Procs : Live(p) /\ s \in Used(p)
    \/ Covered(hdr, s)
    \/ Swept(s)

\* The cleaner.
Cleaning ==
  /\ cl.pc # "off" =>
       /\ cl.tail = hdr.tail
       /\ cl.head = hdr.tail \/ InW(hdr, cl.head)
       /\ cl.head # hdr.tail => cl.gen = Lap(hdr, cl.head)
  /\ cl.pc = "walk" => cl.head # hdr.tail /\ InW(Ahead, cl.new)
  /\ \A s \in Slots : Behind(s) /\ Lap(hdr, s) = MaxGen => s \in cl.inv /\ log[s] = Invalid
  /\ \A u, v \in Slots : \A e \in plog[u], f \in plog[v] :
       /\ Cand(hdr, u, e) /\ Cand(hdr, v, f) /\ Side(hdr, u, v)
       /\ Behind(u) /\ ~Behind(v)
       => e.tid # f.tid
  /\ mutex = "umount" =>
       /\ cl.pc # "finish"
       /\ cl.pc = "walk" =>
            /\ Chain(hdr, cl.head, cl.new) /\ log[cl.head].start
            /\ \A w \in cl.head .. cl.new - 1 : ~Ends(log[w])

\* The words.
Logged(p, a, m) ==
  /\ m \in Used(p) /\ log[m].addr = a
  /\ \A w \in txn[p].start .. m : plog[w] = {log[w]}
HeldWords(p) ==
  /\ \A a \in txn[p].addrs : \E s \in Used(p) : log[s].addr = a
  /\ \A u \in Used(p) : \/ log[u].old = stable[log[u].addr]
                        \/ \E m \in Slots : m < u /\ Logged(p, log[u].addr, m)
  /\ txn[p].pc = "flushed" => \A a \in txn[p].addrs : pmeta[a] = {meta[a]}
  /\ txn[p].pc = "undone" => \A a \in txn[p].addrs : meta[a] = stable[a]
DirtyLogged(a) == \E p \in Procs, m \in Slots : Live(p) /\ Logged(p, a, m)
Words ==
  /\ \A a \in Addrs : Dirty(a) => DirtyLogged(a)
  /\ \A p, q \in Procs : p # q => txn[p].addrs \cap txn[q].addrs = {}
  /\ \A p \in Procs : Live(p) => HeldWords(p)

UpInv ==
  /\ HeaderOnMedia /\ \A h \in phdr : Bounded(h)
  /\ Apart(hdr) /\ Reservations /\ Tids /\ Written /\ Owned /\ Cleaning /\ Words

-----------------------------------------------------------------------------
(* While the journal is recovered.                                         *)

Settled == \A a \in Addrs : ~Dirty(a)

\* The slots that the scan has not come to, the slots of the transaction at
\* hand, and the slots that are done with.
Rem(s)  == InW(IF rc.pc = "off" THEN hdr ELSE [hdr EXCEPT !.tail = rc.tail], s)
Range_(s) == rc.pc \in {"walk", "undo", "invalidate"} /\ rc.tail <= s /\ s <= rc.last
Done(s) == InW(hdr, s) /\ ~Rem(s) /\ ~Range_(s)

\* An invalidation that may not have reached the media.
Pending(s) ==
  /\ log[s].gen = 0 /\ Done(s)
  /\ \/ Lap(hdr, s) = MaxGen /\ \A e \in plog[s] : e.gen = MaxGen => (e.start => Ends(e))
     \/ rc.pc = "forward" /\ hdr.gen = MaxGen /\ hdr.tail <= s

Scanning ==
  /\ rc.pc \in {"scan", "walk", "undo", "invalidate"} =>
       rc.gen = IF rc.tail <= hdr.tail THEN hdr.gen ELSE prev_gen_id(hdr.gen)
  /\ rc.pc \in {"scan", "walk", "undo", "invalidate", "forward"} =>
       rc.tail = hdr.tail \/ InW(hdr, rc.tail)
  /\ rc.pc \in {"walk", "undo", "invalidate"} =>
       /\ rc.tail # hdr.tail /\ rc.tail <= rc.last /\ InW(hdr, rc.last)
       /\ Side(hdr, rc.tail, rc.last)
       /\ log[rc.last].gen = rc.gen
       /\ \A w \in rc.tail + 1 .. rc.last : Match(hdr, w) => ~log[w].start
       /\ \A w \in rc.tail .. rc.last - 1 : Match(hdr, w) => ~Ends(log[w])
  /\ rc.pc = "walk" => rc.ended = (rc.tail < rc.last /\ Ends(log[rc.last]))
  /\ rc.pc \in {"undo", "invalidate"} =>
       /\ rc.ended = Ends(log[rc.last])
       /\ rc.start = (log[rc.tail].gen = rc.gen /\ log[rc.tail].start)
  /\ rc.pc = "forward" => rc.tail = hdr.head
  /\ rc.pc = "invalidate" => rc.gen = MaxGen

\* No transaction lies on both sides of the place the scan has come to.
Cut ==
  \A u, v \in Slots : \A e \in plog[u], f \in plog[v] :
    /\ Cand(hdr, u, e) /\ Cand(hdr, v, f) /\ Side(hdr, u, v)
    /\ \/ ~Done(u) /\ Done(v)
       \/ rc.pc \in {"undo", "invalidate"} /\ Rem(u) /\ ~Rem(v)
    => e.tid # f.tid

Invalidated ==
  /\ \A s \in Slots : Done(s) /\ Lap(hdr, s) = MaxGen => log[s].gen = 0
  /\ rc.pc = "forward" /\ hdr.gen = MaxGen =>
       \A s \in Slots : hdr.tail <= s => log[s].gen = 0

Classified(h) ==
  \A u \in Slots : Match(h, u) => Orphan(h, u) \/ Covered(h, u) \/ Harmless(h, u)

Stored == \A s \in Slots : InW(hdr, s) => plog[s] = {log[s]} \/ Pending(s)

\* A word that differs from its last committed value, or may do so on the media,
\* is undone by a transaction that is still in the log.
Undoable(a) ==
  \E st, m \in Slots :
    /\ st <= m /\ Chain(hdr, st, m) /\ OpenStart(hdr, st) /\ log[m].addr = a
    /\ meta[a] # stable[a] =>
         Rem(m) \/ (rc.pc \in {"walk", "undo"} /\ Range_(m))
HalfRest == rc.pc = "forward" /\ \E s \in Slots : InW(hdr, s) /\ hdr.tail <= s /\ plog[s] # {log[s]}
Repairs ==
  \A a \in Addrs : Dirty(a) => \/ Undoable(a)
                               \/ HalfRest /\ hdr.gen = MaxGen /\ meta[a] = stable[a]

RecoverInv ==
  /\ rc.pc # "bug"
  /\ mode = "recovered" => hdr.head = hdr.tail
  /\ \A h \in phdr : Bounded(h) /\ Apart(h) /\ Classified(h)
  /\ IF rc.pc = "sync"
     THEN Settled /\ hdr.head = hdr.tail /\ \A s \in Slots : plog[s] = {log[s]}
     ELSE phdr = {hdr} /\ Scanning /\ Cut /\ Invalidated /\ Stored /\ Repairs

GenValid == \A h \in phdr : h.gen >= 1

TypeInv == TypeOK /\ OnMedia /\ GenValid /\ Locking

IInv ==
  /\ TypeInv
  /\ ~tainted => /\ mode = "up" => UpInv
                 /\ mode # "up" => RecoverInv

-----------------------------------------------------------------------------
(* Constants and the shapes of records.                                    *)

\* A nonempty set of slots has a first one.
LEMMA FirstSlot ==
  ASSUME NEW S, S \subseteq Nat, S # {}
  PROVE  \E s \in S : \A t \in S : s <= t
  <1>1. PICK s \in S : \A t \in S : ~(<<t, s>> \in OpToRel(<, Nat))
    BY NatLessThanWellFounded, WFMin, Zenon
  <1>2. \A t \in S : s <= t
    <2> SUFFICES ASSUME NEW t \in S PROVE s <= t
      OBVIOUS
    <2>1. t \in Nat /\ s \in Nat
      OBVIOUS
    <2>2. ~(t < s)
      BY <1>1, <2>1 DEF OpToRel
    <2> QED BY <2>1, <2>2
  <1> QED BY <1>2

LEMMA Constants ==
  /\ 0 \in Slots /\ 0 \in Gens /\ 1 \in Gens /\ 0 \in 0 .. JSize /\ 0 \in 0 .. MaxTid
  /\ JSize \in Nat /\ JSize > 0 /\ MaxGen \in Nat /\ MaxGen > 1 /\ MaxTid \in Nat
  /\ \A i \in Slots : next_log_entry(i) \in Slots /\ prev_log_entry(i) \in Slots
  /\ \A g \in Gens : /\ next_gen_id(g) \in Gens /\ next_gen_id(g) >= 1
                     /\ prev_gen_id(g) \in Gens /\ prev_gen_id(g) >= 1
  BY JSizeAssumption, MaxGenAssumption, BoundsAssumption
     DEF Slots, Gens, next_log_entry, prev_log_entry, next_gen_id, prev_gen_id

LEMMA Defaults ==
  /\ Invalid \in Entries /\ Idle \in Transactions /\ NtOff \in Requested
  /\ ClOff \in CleanState /\ RcOff \in RecoverState
  BY Constants, ValsAssumption
     DEF Invalid, Entries, Idle, Transactions, NtOff, Requested, ClOff, CleanState,
         RcOff, RecoverState

TxnPcs == {"idle", "again", "clean", "retry", "run", "logging", "flushed", "undone"}

LEMMA TxnShape ==
  /\ Transactions = [pc : TxnPcs, tid : 0 .. MaxTid, gen : Gens, start : Slots,
                     n : 0 .. JSize, used : 0 .. JSize, addrs : SUBSET Addrs]
  /\ {"idle", "again", "clean", "retry", "run", "logging", "flushed", "undone"} \subseteq TxnPcs
  BY DEF Transactions, TxnPcs

\* What the actions change of a pmfs_transaction_t.
LEMMA PcEffect ==
  ASSUME txn \in [Procs -> Transactions], NEW p \in Procs, NEW x \in TxnPcs,
         txn' = [txn EXCEPT ![p].pc = x]
  PROVE  /\ txn' \in [Procs -> Transactions]
         /\ txn'[p].pc = x /\ txn'[p].tid = txn[p].tid /\ txn'[p].gen = txn[p].gen
         /\ txn'[p].start = txn[p].start /\ txn'[p].n = txn[p].n
         /\ txn'[p].used = txn[p].used /\ txn'[p].addrs = txn[p].addrs
         /\ \A q \in Procs \ {p} : txn'[q] = txn[q]
  BY TxnShape

LEMMA NewEffect ==
  ASSUME txn \in [Procs -> Transactions], NEW p \in Procs, NEW x \in TxnPcs, NEW t \in 0 .. MaxTid,
         txn' = [txn EXCEPT ![p].pc = x, ![p].tid = t]
  PROVE  /\ txn' \in [Procs -> Transactions]
         /\ txn'[p].pc = x /\ txn'[p].tid = t /\ txn'[p].addrs = txn[p].addrs
         /\ \A q \in Procs \ {p} : txn'[q] = txn[q]
  BY TxnShape

LEMMA ReserveEffect ==
  ASSUME txn \in [Procs -> Transactions], NEW p \in Procs, NEW x \in TxnPcs, NEW g \in Gens,
         NEW s \in Slots, NEW n \in 0 .. JSize,
         txn' = [txn EXCEPT ![p].pc = x, ![p].gen = g, ![p].start = s, ![p].n = n]
  PROVE  /\ txn' \in [Procs -> Transactions]
         /\ txn'[p].pc = x /\ txn'[p].tid = txn[p].tid /\ txn'[p].gen = g
         /\ txn'[p].start = s /\ txn'[p].n = n
         /\ txn'[p].used = txn[p].used /\ txn'[p].addrs = txn[p].addrs
         /\ \A q \in Procs \ {p} : txn'[q] = txn[q]
  <1>1. /\ txn'[p] = [txn[p] EXCEPT !.pc = x, !.gen = g, !.start = s, !.n = n]
        /\ DOMAIN txn' = Procs /\ \A q \in Procs \ {p} : txn'[q] = txn[q]
        /\ txn' = [q \in Procs |-> txn'[q]]
    BY TxnShape
  <1>2. /\ txn'[p].pc = x /\ txn'[p].tid = txn[p].tid /\ txn'[p].gen = g
        /\ txn'[p].start = s /\ txn'[p].n = n
        /\ txn'[p].used = txn[p].used /\ txn'[p].addrs = txn[p].addrs
    BY TxnShape
  <1>3. txn'[p] \in Transactions
    <2> DEFINE t == txn[p]
    <2>1. t \in [pc : TxnPcs, tid : 0 .. MaxTid, gen : Gens, start : Slots,
                  n : 0 .. JSize, used : 0 .. JSize, addrs : SUBSET Addrs]
      BY TxnShape
    <2>2. txn'[p] = [t EXCEPT !.pc = x, !.gen = g, !.start = s, !.n = n]
      BY <1>1
    <2> HIDE DEF t
    <2>3. [t EXCEPT !.pc = x, !.gen = g, !.start = s, !.n = n]
            \in [pc : TxnPcs, tid : 0 .. MaxTid, gen : Gens, start : Slots,
                 n : 0 .. JSize, used : 0 .. JSize, addrs : SUBSET Addrs]
      BY <2>1
    <2> QED BY <2>2, <2>3, TxnShape
  <1>4. txn' \in [Procs -> Transactions]
    BY <1>1, <1>3
  <1> QED BY <1>1, <1>2, <1>4

LEMMA WriteEffect ==
  ASSUME txn \in [Procs -> Transactions], NEW p \in Procs, NEW x \in TxnPcs,
         NEW u \in 0 .. JSize, NEW A \in SUBSET Addrs,
         txn' = [txn EXCEPT ![p].pc = x, ![p].used = u, ![p].addrs = A]
  PROVE  /\ txn' \in [Procs -> Transactions]
         /\ txn'[p].pc = x /\ txn'[p].tid = txn[p].tid /\ txn'[p].gen = txn[p].gen
         /\ txn'[p].start = txn[p].start /\ txn'[p].n = txn[p].n
         /\ txn'[p].used = u /\ txn'[p].addrs = A
         /\ \A q \in Procs \ {p} : txn'[q] = txn[q]
  BY TxnShape

LEMMA IdleEffect ==
  ASSUME txn \in [Procs -> Transactions], NEW p \in Procs, txn' = [txn EXCEPT ![p] = Idle]
  PROVE  /\ txn' \in [Procs -> Transactions]
         /\ txn'[p] = Idle /\ \A q \in Procs \ {p} : txn'[q] = txn[q]
  BY Defaults

\* The first entry of a word among the slots S, of which pmfs_undo_transaction
\* takes the value.
LEMMA UndoValue ==
  ASSUME NEW S, S \subseteq Slots, NEW g, NEW a \in Addrs
  PROVE  /\ UndoEntries(S, g, a) = {} => pmfs_undo_transaction(S, g)[a] = meta[a]
         /\ UndoEntries(S, g, a) # {} =>
              \E s \in UndoEntries(S, g, a) :
                /\ \A t \in UndoEntries(S, g, a) : s <= t
                /\ pmfs_undo_transaction(S, g)[a] = log[s].old
  <1> DEFINE U == UndoEntries(S, g, a)
             m == CHOOSE s \in U : \A t \in U : s <= t
  <1>1. pmfs_undo_transaction(S, g)[a] = IF U = {} THEN meta[a] ELSE log[m].old
    BY DEF pmfs_undo_transaction
  <1>2. U \subseteq Nat
    <2>1. U \subseteq Slots
      BY DEF UndoEntries
    <2>2. Slots \subseteq Nat
      BY Constants DEF Slots
    <2> QED BY <2>1, <2>2
  <1>3. ASSUME U # {} PROVE m \in U /\ \A t \in U : m <= t
    <2>1. \E s \in U : \A t \in U : s <= t
      BY <1>2, <1>3, FirstSlot
    <2> QED BY <2>1
  <1> HIDE DEF U, m
  <1>4. /\ U = {} => pmfs_undo_transaction(S, g)[a] = meta[a]
        /\ U # {} => \E s \in U : /\ \A t \in U : s <= t
                                  /\ pmfs_undo_transaction(S, g)[a] = log[s].old
    BY <1>1, <1>3
  <1> QED BY <1>4 DEF U

LEMMA UndoTypes ==
  ASSUME TypeOK, OnMedia, NEW S, S \subseteq Slots, NEW g
  PROVE  /\ pmfs_undo_transaction(S, g) \in [Addrs -> Vals]
         /\ UndoMedia(S, g) \in [Addrs -> SUBSET Vals]
         /\ \A a \in Addrs : pmfs_undo_transaction(S, g)[a] \in UndoMedia(S, g)[a]
  <1>1. \A s \in S : log[s].old \in Vals
    BY DEF TypeOK, Entries
  <1>2. \A a \in Addrs : UndoEntries(S, g, a) \subseteq S
    BY DEF UndoEntries
  <1>3. \A a \in Addrs : pmfs_undo_transaction(S, g)[a] \in UndoMedia(S, g)[a]
    BY UndoValue DEF UndoMedia, OnMedia
  <1>4. UndoMedia(S, g) \in [Addrs -> SUBSET Vals]
    BY <1>1, <1>2 DEF UndoMedia, TypeOK
  <1> QED BY <1>3, <1>4 DEF pmfs_undo_transaction, UndoMedia

\* A crash picks, for every place, a value that the media may hold.
LEMMA Picked ==
  ASSUME NEW X, NEW cur, NEW media, DOMAIN cur = X, DOMAIN media = X,
         \A x \in X : media[x] # {}, NEW f \in Pick(cur, media)
  PROVE  DOMAIN f = X /\ \A x \in X : f[x] \in media[x]
  BY DEF Pick

-----------------------------------------------------------------------------
(* Types.                                                                  *)

Shape == TypeOK /\ OnMedia /\ GenValid

LEMMA InitTypes == Init => Shape
  <1> SUFFICES ASSUME Init PROVE Shape
    OBVIOUS
  <1>1. hdr \in Headers /\ hdr.gen = 1
    BY Constants DEF Init, Headers
  <1>2. TypeOK
    <2>1. log \in [Slots -> Entries] /\ plog \in [Slots -> SUBSET Entries]
      BY Defaults DEF Init
    <2>2. meta \in [Addrs -> Vals] /\ pmeta \in [Addrs -> SUBSET Vals] /\ stable \in [Addrs -> Vals]
      BY ValsAssumption DEF Init
    <2>3. txn \in [Procs -> Transactions]
      BY Defaults DEF Init
    <2>4. boots \in 0 .. MaxBoot /\ wakes \in 0 .. MaxWake /\ ntid \in 0 .. MaxTid
      BY BoundsAssumption DEF Init
    <2> QED BY <1>1, <2>1, <2>2, <2>3, <2>4, Defaults DEF Init, TypeOK
  <1>3. OnMedia
    BY DEF Init, OnMedia
  <1> QED BY <1>1, <1>2, <1>3 DEF Init, Shape, GenValid

LEMMA TypeNewTransaction ==
  ASSUME TypeInv, NEW p \in Procs, NewTransaction(p), tainted' \in BOOLEAN
  PROVE  Shape'
  <1> USE DEF hdrVars, logVars, dataVars, bootVars
  <1>1. PICK m \in Requests : nt' = [NtOff EXCEPT !.head = hdr.head, !.tail = hdr.tail, !.n = m + 1]
    BY DEF NewTransaction
  <1>2. m \in Nat /\ m + 1 \in 0 .. JSize
    BY RequestsAssumption, Constants
  <1>3. nt' \in Requested
    BY <1>1, <1>2, Defaults DEF TypeInv, Shape, TypeOK, Requested, Headers
  <1>4. ntid \in 0 .. MaxTid /\ ntid + 1 \in 0 .. MaxTid
    BY Constants DEF NewTransaction, TypeInv, Shape, TypeOK
  <1>5. txn' \in [Procs -> Transactions]
    BY <1>4, TxnShape, NewEffect DEF NewTransaction, TypeInv, Shape, TypeOK
  <1> QED BY <1>3, <1>4, <1>5 DEF NewTransaction, TypeInv, Shape, TypeOK, OnMedia, GenValid

LEMMA CleanStartType ==
  ASSUME TypeInv
  PROVE  CleanStart \in CleanState
  <1>1. hdr \in Headers
    BY DEF TypeInv, Shape, TypeOK
  <1>2. prev_gen_id(hdr.gen) \in Gens
    BY <1>1, Constants DEF Headers
  <1> QED BY <1>1, <1>2, Defaults DEF CleanStart, CleanState, Headers

LEMMA TypeReserve ==
  ASSUME TypeInv, NEW p \in Procs, Reserve(p), tainted' \in BOOLEAN
  PROVE  Shape'
  <1> USE DEF hdrVars, logVars, dataVars, bootVars
  <1>1. CASE FreeLogentries(p)
    <2>1. nt' \in Requested
      <3>1. nt \in Requested
        BY DEF TypeInv, Shape, TypeOK
      <3>2. nt.tries < 3 => nt.tries + 1 \in 0 .. 3
        BY <3>1 DEF Requested
      <3>3. CASE txn[p].pc = "again" /\ nt' = [nt EXCEPT !.tries = 1, !.freed = 0]
        <4>1. nt' = [head |-> nt.head, tail |-> nt.tail, n |-> nt.n, tries |-> 1, freed |-> 0]
          BY <3>1, <3>3 DEF Requested
        <4>2. 1 \in 0 .. 3 /\ 0 \in Nat
          OBVIOUS
        <4> QED BY <3>1, <4>1, <4>2 DEF Requested
      <3>4. CASE nt.tries < 3 /\ nt' = [nt EXCEPT !.tries = @ + 1]
        BY <3>1, <3>2, <3>4 DEF Requested
      <3> QED BY <1>1, <3>3, <3>4 DEF FreeLogentries
    <2>2. txn' \in [Procs -> Transactions]
      BY <1>1, TxnShape, PcEffect DEF FreeLogentries, TypeInv, Shape, TypeOK
    <2> QED BY <1>1, <2>1, <2>2, CleanStartType DEF FreeLogentries, TypeInv, Shape, TypeOK, OnMedia, GenValid
  <1>2. CASE JournalFull(p)
    <2>1. txn' \in [Procs -> Transactions]
      BY <1>2, Defaults DEF JournalFull, TypeInv, Shape, TypeOK
    <2> QED BY <1>2, <2>1, Defaults DEF JournalFull, TypeInv, Shape, TypeOK, OnMedia, GenValid
  <1>3. CASE WrapJournal(p)
    <2>1. hdr \in Headers /\ nt \in Requested
      BY DEF TypeInv, Shape, TypeOK
    <2>2. hdr' \in Headers /\ hdr'.gen >= 1 /\ nt' \in Requested
      BY <1>3, <2>1, Constants DEF WrapJournal, Headers, Requested
    <2>3. txn' \in [Procs -> Transactions]
      BY <1>3, TxnShape, PcEffect DEF WrapJournal, TypeInv, Shape, TypeOK
    <2> QED BY <1>3, <2>2, <2>3 DEF WrapJournal, TypeInv, Shape, TypeOK, OnMedia, GenValid
  <1>4. CASE ReserveEntries(p)
    <2>1. hdr \in Headers /\ nt \in Requested /\ hdr.gen >= 1
      BY DEF TypeInv, Shape, TypeOK, OnMedia, GenValid
    <2>2. nt.tail + nt.n \in Slots
      BY <1>4, <2>1, Constants DEF ReserveEntries, Requested, Slots
    <2>3. hdr' \in Headers /\ hdr'.gen >= 1
      BY <1>4, <2>1, <2>2 DEF ReserveEntries, Headers
    <2>4. txn' \in [Procs -> Transactions]
      <3>1. hdr.gen \in Gens /\ nt.tail \in Slots /\ nt.n \in 0 .. JSize /\ "run" \in TxnPcs
        BY <2>1, TxnShape DEF Headers, Requested
      <3> QED BY <1>4, <3>1, ReserveEffect DEF ReserveEntries, TypeInv, Shape, TypeOK
    <2>5. thr' \in {"sleep", "ready", "run"} /\ wakes' \in 0 .. MaxWake
      BY <1>4, BoundsAssumption DEF ReserveEntries, Wakeup, TypeInv, Shape, TypeOK
    <2> QED BY <1>4, <2>3, <2>4, <2>5, Defaults DEF ReserveEntries, TypeInv, Shape, TypeOK, OnMedia, GenValid
  <1> QED BY <1>1, <1>2, <1>3, <1>4 DEF Reserve

LEMMA TypeTransact ==
  ASSUME TypeInv, NEW p \in Procs, Transact(p), tainted' \in BOOLEAN
  PROVE  Shape'
  <1> USE DEF hdrVars, logVars, dataVars, bootVars, runVars
  <1>1. TypeOK /\ OnMedia /\ GenValid /\ txn[p] \in Transactions /\ txn \in [Procs -> Transactions]
    BY DEF TypeInv, Shape, TypeOK
  <1>2. ASSUME NEW kind \in {"data", "commit", "abort"}, NEW a \in Addrs \cup {NoAddr}, NEW v \in Vals
        PROVE  Record(p, kind, a, v) \in Entries
    BY <1>1, TxnShape DEF Record, Entries
  <1>3. CASE NewTransaction(p) \/ Reserve(p)
    BY <1>3, TypeNewTransaction, TypeReserve
  <1>4. ASSUME NEW a \in Addrs, AddLogentry(p, a)
        PROVE  Shape'
    <2> DEFINE e == Record(p, "data", a, meta[a])
    <2>1. e \in Entries
      BY <1>1, <1>2 DEF TypeOK
    <2> HIDE DEF e
    <2>2. /\ log' = [log EXCEPT ![NextSlot(p)] = e]
          /\ plog' = [plog EXCEPT ![NextSlot(p)] = @ \cup {log'[NextSlot(p)]}]
      BY <1>4 DEF AddLogentry, e
    <2>3. log' \in [Slots -> Entries]
      BY <1>1, <2>1, <2>2 DEF TypeOK
    <2>4. plog' \in [Slots -> SUBSET Entries] /\ \A s \in Slots : log'[s] \in plog'[s]
      <3>1. CASE NextSlot(p) \in Slots
        BY <1>1, <2>2, <2>3, <3>1 DEF TypeOK, OnMedia
      <3>2. CASE NextSlot(p) \notin Slots
        BY <1>1, <2>2, <2>3, <3>2 DEF TypeOK, OnMedia
      <3> QED BY <3>1, <3>2
    <2>5. txn' \in [Procs -> Transactions]
      <3>1. txn[p].used + 1 \in 0 .. JSize /\ txn[p].addrs \cup {a} \in SUBSET Addrs /\ "logging" \in TxnPcs
        BY <1>1, <1>4, TxnShape, Constants DEF AddLogentry
      <3>2. txn' = [txn EXCEPT ![p].pc = "logging", ![p].used = txn[p].used + 1,
                              ![p].addrs = txn[p].addrs \cup {a}]
        BY <1>1, <1>4 DEF AddLogentry
      <3> QED BY <1>1, <3>1, <3>2, WriteEffect
    <2> QED BY <1>1, <1>4, <2>3, <2>4, <2>5 DEF AddLogentry, TypeInv, Shape, TypeOK, OnMedia, GenValid
  <1>5. CASE LogFence(p)
    <2>1. txn' \in [Procs -> Transactions]
      BY <1>1, <1>5, TxnShape, PcEffect DEF LogFence
    <2>2. plog' \in [Slots -> SUBSET Entries] /\ \A s \in Slots : log[s] \in plog'[s]
      BY <1>1, <1>5 DEF LogFence, TypeOK, OnMedia
    <2> QED BY <1>1, <1>5, <2>1, <2>2 DEF LogFence, TypeInv, Shape, TypeOK, OnMedia, GenValid
  <1>6. ASSUME NEW a \in Addrs, NEW v \in Vals, Update(p, a, v)
        PROVE  Shape'
    <2>1. meta' \in [Addrs -> Vals] /\ pmeta' \in [Addrs -> SUBSET Vals]
          /\ \A b \in Addrs : meta'[b] \in pmeta'[b]
      BY <1>1, <1>6 DEF Update, TypeOK, OnMedia
    <2> QED BY <1>1, <1>6, <2>1 DEF Update, TypeInv, Shape, TypeOK, OnMedia, GenValid
  <1>7. CASE CommitFlush(p)
    <2>1. txn' \in [Procs -> Transactions]
      BY <1>1, <1>7, TxnShape, PcEffect DEF CommitFlush
    <2>2. pmeta' \in [Addrs -> SUBSET Vals] /\ \A b \in Addrs : meta[b] \in pmeta'[b]
      BY <1>1, <1>7 DEF CommitFlush, TypeOK, OnMedia
    <2> QED BY <1>1, <1>7, <2>1, <2>2 DEF CommitFlush, TypeInv, Shape, TypeOK, OnMedia, GenValid
  <1>8. ASSUME NEW kind \in {"commit", "abort"}, EndRecord(p, kind)
        PROVE  /\ log' \in [Slots -> Entries] /\ plog' \in [Slots -> SUBSET Entries]
               /\ \A s \in Slots : log'[s] \in plog'[s]
               /\ txn' \in [Procs -> Transactions]
    <2> DEFINE e == Record(p, kind, NoAddr, InitVal)
    <2>1. e \in Entries
      BY <1>2, ValsAssumption
    <2> HIDE DEF e
    <2>2. /\ log' = [log EXCEPT ![NextSlot(p)] = e]
          /\ plog' = [plog EXCEPT ![NextSlot(p)] = {log'[NextSlot(p)]}]
      BY <1>8 DEF EndRecord, e
    <2>3. log' \in [Slots -> Entries]
      BY <1>1, <2>1, <2>2 DEF TypeOK
    <2>4. plog' \in [Slots -> SUBSET Entries] /\ \A s \in Slots : log'[s] \in plog'[s]
      <3>1. CASE NextSlot(p) \in Slots
        BY <1>1, <2>2, <2>3, <3>1 DEF TypeOK, OnMedia
      <3>2. CASE NextSlot(p) \notin Slots
        BY <1>1, <2>2, <2>3, <3>2 DEF TypeOK, OnMedia
      <3> QED BY <3>1, <3>2
    <2> QED BY <1>1, <1>8, <2>3, <2>4, IdleEffect DEF EndRecord
  <1>9. CASE CommitEntry(p)
    <2>1. stable' \in [Addrs -> Vals]
      BY <1>1, <1>9 DEF CommitEntry, TypeOK
    <2>2. EndRecord(p, "commit")
      BY <1>9 DEF CommitEntry
    <2> QED BY <1>1, <1>8, <1>9, <2>1, <2>2 DEF CommitEntry, TypeInv, Shape, TypeOK, OnMedia, GenValid
  <1>10. CASE AbortUndo(p)
    <2>1. txn' \in [Procs -> Transactions]
      BY <1>1, <1>10, TxnShape, PcEffect DEF AbortUndo
    <2>2. Used(p) \subseteq Slots
      BY <1>1, <1>10, TxnShape, Constants DEF AbortUndo, TypeInv, Locking, Live, Used, Slots
    <2>3. /\ meta' \in [Addrs -> Vals] /\ pmeta' \in [Addrs -> SUBSET Vals]
          /\ \A b \in Addrs : meta'[b] \in pmeta'[b]
      BY <1>1, <1>10, <2>2, UndoTypes DEF AbortUndo
    <2> QED BY <1>1, <1>10, <2>1, <2>3 DEF AbortUndo, TypeInv, Shape, TypeOK, OnMedia, GenValid
  <1>11. CASE AbortEntry(p)
    <2>1. pmeta' \in [Addrs -> SUBSET Vals] /\ \A b \in Addrs : meta[b] \in pmeta'[b]
      BY <1>1, <1>11 DEF AbortEntry, TypeOK, OnMedia
    <2>2. EndRecord(p, "abort")
      BY <1>11 DEF AbortEntry
    <2> QED BY <1>1, <1>8, <1>11, <2>1, <2>2 DEF AbortEntry, TypeInv, Shape, TypeOK, OnMedia, GenValid
  <1> QED BY <1>3, <1>4, <1>5, <1>6, <1>7, <1>9, <1>10, <1>11 DEF Transact

LEMMA InvalidateTypes ==
  ASSUME TypeOK, OnMedia, NEW S, NEW D, InvalidateSlots(S, D)
  PROVE  /\ log' \in [Slots -> Entries] /\ plog' \in [Slots -> SUBSET Entries]
         /\ \A s \in Slots : log'[s] \in plog'[s]
         /\ \A s \in Slots : /\ log'[s] = IF s \in S THEN Invalid ELSE log[s]
                             /\ s \notin S => plog'[s] = plog[s]
                             /\ s \in S \cap D => plog'[s] = {Invalid}
                             /\ s \in S \ D => plog'[s] = plog[s] \cup {Invalid}
  <1>1. \A s \in Slots : /\ log'[s] = IF s \in S THEN Invalid ELSE log[s]
                         /\ s \notin S => plog'[s] = plog[s]
                         /\ s \in S \cap D => plog'[s] = {Invalid}
                         /\ s \in S \ D => plog'[s] = plog[s] \cup {Invalid}
    BY DEF InvalidateSlots
  <1>2. log' \in [Slots -> Entries]
    BY Defaults DEF InvalidateSlots, TypeOK
  <1>3. \A s \in Slots : plog'[s] \in SUBSET Entries
    BY <1>1, Defaults DEF TypeOK
  <1>4. plog' \in [Slots -> SUBSET Entries]
    BY <1>3 DEF InvalidateSlots
  <1>5. \A s \in Slots : log'[s] \in plog'[s]
    BY <1>1 DEF OnMedia
  <1> QED BY <1>1, <1>2, <1>4, <1>5

\* What the cleaner changes of its locals.
LEMMA MoveEffect ==
  ASSUME cl \in CleanState, NEW h \in Slots, NEW n \in Nat, NEW inv \in SUBSET Slots, MoveTo(h, n, inv)
  PROVE  /\ cl' \in CleanState
         /\ cl'.pc = "scan" /\ cl'.head = h /\ cl'.tail = cl.tail /\ cl'.inv = cl.inv \cup inv
         /\ cl'.gen = IF h = 0 THEN next_gen_id(cl.gen) ELSE cl.gen
  <1>1. cl.gen \in Gens /\ cl.tail \in Slots /\ cl.new \in Slots /\ cl.total + n \in Nat
        /\ cl.inv \cup inv \in SUBSET Slots
    BY DEF CleanState
  <1>2. cl' = [pc |-> "scan", head |-> h, tail |-> cl.tail,
               gen |-> IF h = 0 THEN next_gen_id(cl.gen) ELSE cl.gen, new |-> cl.new,
               total |-> cl.total + n, inv |-> cl.inv \cup inv]
    BY DEF MoveTo, CleanState
  <1>3. (IF h = 0 THEN next_gen_id(cl.gen) ELSE cl.gen) \in Gens
    BY <1>1, Constants
  <1> QED BY <1>1, <1>2, <1>3 DEF CleanState

LEMMA DistNat ==
  ASSUME NEW i \in Slots, NEW j \in Slots
  PROVE  Dist(i, j) \in Nat
  BY Constants DEF Dist, Slots

LEMMA TypeClean ==
  ASSUME TypeInv, Clean, tainted' \in BOOLEAN
  PROVE  Shape'
  <1> USE DEF hdrVars, logVars, dataVars, bootVars
  <1>1. TypeOK /\ OnMedia /\ GenValid /\ Locking /\ cl \in CleanState
    BY DEF TypeInv, Shape, TypeOK
  <1>2. /\ cl.head \in Slots /\ cl.new \in Slots /\ {cl.head} \in SUBSET Slots /\ {} \in SUBSET Slots
        /\ next_log_entry(cl.head) \in Slots /\ next_log_entry(cl.new) \in Slots /\ 0 \in Nat
    BY <1>1, Constants DEF CleanState
  <1>3. ASSUME cl' \in CleanState,
               log' \in [Slots -> Entries], plog' \in [Slots -> SUBSET Entries],
               \A s \in Slots : log'[s] \in plog'[s],
               UNCHANGED <<hdrVars, dataVars, mutex, ntid, txn, nt, thr, wakes, bootVars, stable>>
        PROVE  Shape'
    BY <1>1, <1>3 DEF Shape, TypeOK, OnMedia, GenValid
  <1>4. CASE CleanSkip
    <2>1. cl' \in CleanState
      BY <1>1, <1>2, <1>4, MoveEffect DEF CleanSkip
    <2>2. /\ log' \in [Slots -> Entries] /\ plog' \in [Slots -> SUBSET Entries]
          /\ \A s \in Slots : log'[s] \in plog'[s]
      BY <1>1, <1>4, InvalidateTypes DEF CleanSkip, TypeOK, OnMedia
    <2> QED BY <1>3, <1>4, <2>1, <2>2 DEF CleanSkip
  <1>5. CASE CleanEnter
    <2>1. cl' \in CleanState
      <3>1. CASE log[cl.head].start
        <4>1. cl' = [cl EXCEPT !.pc = "walk", !.new = cl.head]
          BY <1>5, <3>1 DEF CleanEnter
        <4> QED BY <1>1, <1>2, <4>1 DEF CleanState
      <3>2. CASE ~log[cl.head].start
        BY <1>1, <1>2, <1>5, <3>2, MoveEffect DEF CleanEnter
      <3> QED BY <3>1, <3>2
    <2>2. /\ log' \in [Slots -> Entries] /\ plog' \in [Slots -> SUBSET Entries]
          /\ \A s \in Slots : log'[s] \in plog'[s]
      BY <1>1, <1>5 DEF CleanEnter, TypeOK, OnMedia
    <2> QED BY <1>3, <1>5, <2>1, <2>2 DEF CleanEnter
  <1>6. CASE CleanWalk
    <2>1. /\ Dist(cl.head, cl.new) + 1 \in Nat
          /\ cl.head .. cl.new \in SUBSET Slots
      <3>1. cl.head .. cl.new \in SUBSET Slots
        BY <1>2, Constants DEF Slots
      <3> QED BY <1>2, <3>1, DistNat
    <2>2. cl' \in CleanState
      <3>1. CASE MoveTo(next_log_entry(cl.new), Dist(cl.head, cl.new) + 1, cl.head .. cl.new)
        BY <1>1, <1>2, <2>1, <3>1, MoveEffect
      <3>2. CASE MoveTo(next_log_entry(cl.new), Dist(cl.head, cl.new) + 1, {})
        BY <1>1, <1>2, <2>1, <3>2, MoveEffect
      <3>3. CASE cl' = [cl EXCEPT !.pc = "finish", !.total = @ + (Dist(cl.head, cl.new) + 1)]
        <4>1. cl.total + (Dist(cl.head, cl.new) + 1) \in Nat
          BY <1>1, <2>1 DEF CleanState
        <4> HIDE DEF CleanState
        <4>2. cl' = [cl EXCEPT !.pc = "finish", !.total = cl.total + (Dist(cl.head, cl.new) + 1)]
          BY <1>1, <3>3 DEF CleanState
        <4> QED BY <1>1, <4>1, <4>2 DEF CleanState
      <3>4. CASE cl' = [cl EXCEPT !.new = next_log_entry(cl.new)]
        BY <1>1, <1>2, <3>4 DEF CleanState
      <3> QED BY <1>6, <3>1, <3>2, <3>3, <3>4 DEF CleanWalk
    <2>3. /\ log' \in [Slots -> Entries] /\ plog' \in [Slots -> SUBSET Entries]
          /\ \A s \in Slots : log'[s] \in plog'[s]
      BY <1>1, <1>6, InvalidateTypes DEF CleanWalk, TypeOK, OnMedia
    <2> QED BY <1>3, <1>6, <2>2, <2>3 DEF CleanWalk
  <1>7. CASE CleanFinish
    <2>1. hdr' = [hdr EXCEPT !.head = cl.head] /\ hdr \in Headers /\ hdr.gen >= 1
      BY <1>1, <1>7 DEF CleanFinish, TypeOK, OnMedia, GenValid
    <2>2. hdr' \in Headers /\ hdr'.gen >= 1
      BY <1>2, <2>1 DEF Headers
    <2>3. plog' \in [Slots -> SUBSET Entries] /\ \A s \in Slots : log[s] \in plog'[s]
      BY <1>1, <1>7 DEF CleanFinish, TypeOK, OnMedia
    <2>4. nt' \in Requested /\ txn' \in [Procs -> Transactions]
      <3>1. CASE mutex \in Procs
        <4>1. txn' \in [Procs -> Transactions]
          BY <1>1, <1>7, <3>1, ProcsAssumption, TxnShape, PcEffect DEF CleanFinish, TypeOK
        <4>2. nt.freed + cl.total \in Nat
          BY <1>1 DEF TypeOK, CleanState, Requested
        <4>3. nt' = [nt EXCEPT !.freed = nt.freed + cl.total]
          BY <1>1, <1>7, <3>1, ProcsAssumption DEF CleanFinish, TypeOK, Requested
        <4>4. nt \in Requested
          BY <1>1 DEF TypeOK
        <4> QED BY <4>1, <4>2, <4>3, <4>4 DEF Requested
      <3>2. CASE mutex \notin Procs
        BY <1>1, <1>7, <3>2 DEF CleanFinish, TypeOK
      <3> QED BY <3>1, <3>2
    <2>5. /\ mutex' \in Procs \cup {"free", "cleaner", "umount"} /\ thr' \in {"sleep", "ready", "run"}
          /\ mode' \in {"up", "recover", "recovered"}
      BY <1>1, <1>7 DEF CleanFinish, TypeOK
    <2> QED BY <1>1, <1>7, <2>2, <2>3, <2>4, <2>5, Defaults DEF CleanFinish, Shape, TypeOK, OnMedia, GenValid
  <1> QED BY <1>4, <1>5, <1>6, <1>7 DEF Clean

LEMMA TypeCrash ==
  ASSUME TypeInv, Crash, tainted' \in BOOLEAN
  PROVE  /\ Shape'
         /\ hdr' \in phdr /\ \A s \in Slots : log'[s] \in plog[s] /\ plog'[s] = {log'[s]}
         /\ \A a \in Addrs : meta'[a] \in pmeta[a] /\ pmeta'[a] = {meta'[a]}
  <1>1. TypeOK /\ OnMedia /\ GenValid
    BY DEF TypeInv, Shape
  <1>2. DOMAIN log' = Slots /\ \A s \in Slots : log'[s] \in plog[s]
    <2>1. DOMAIN log = Slots /\ DOMAIN plog = Slots /\ \A s \in Slots : plog[s] # {}
      BY <1>1 DEF TypeOK, OnMedia
    <2>2. log' \in Pick(log, plog)
      BY DEF Crash
    <2> QED BY <2>1, <2>2, Picked
  <1>3. DOMAIN meta' = Addrs /\ \A a \in Addrs : meta'[a] \in pmeta[a]
    <2>1. DOMAIN meta = Addrs /\ DOMAIN pmeta = Addrs /\ \A a \in Addrs : pmeta[a] # {}
      BY <1>1 DEF TypeOK, OnMedia
    <2>2. meta' \in Pick(meta, pmeta)
      BY DEF Crash
    <2> QED BY <2>1, <2>2, Picked
  <1>4. log' = [s \in Slots |-> log'[s]] /\ meta' = [a \in Addrs |-> meta'[a]]
    <2>1. \A f \in Pick(log, plog) : f = [s \in DOMAIN log |-> f[s]]
      BY DEF Pick
    <2>2. \A f \in Pick(meta, pmeta) : f = [s \in DOMAIN meta |-> f[s]]
      BY DEF Pick
    <2> QED BY <1>1, <2>1, <2>2 DEF Crash, TypeOK
  <1>5. log' \in [Slots -> Entries] /\ meta' \in [Addrs -> Vals]
    BY <1>1, <1>2, <1>3, <1>4 DEF TypeOK
  <1>6. /\ plog' = [s \in Slots |-> {log'[s]}] /\ pmeta' = [a \in Addrs |-> {meta'[a]}]
        /\ hdr' \in phdr /\ phdr' = {hdr'} /\ txn' = [p \in Procs |-> Idle]
        /\ boots' = boots + 1 /\ boots < MaxBoot
    BY DEF Crash
  <1>7. /\ plog' \in [Slots -> SUBSET Entries] /\ pmeta' \in [Addrs -> SUBSET Vals]
        /\ txn' \in [Procs -> Transactions] /\ boots' \in 0 .. MaxBoot /\ hdr' \in Headers
        /\ hdr'.gen >= 1
    BY <1>1, <1>5, <1>6, Defaults, BoundsAssumption DEF TypeOK, GenValid
  <1>8. Shape'
    BY <1>1, <1>5, <1>6, <1>7, Defaults DEF Crash, Shape, TypeOK, OnMedia, GenValid
  <1> QED BY <1>2, <1>3, <1>6, <1>8

LEMMA TypeRecover ==
  ASSUME TypeInv, Recover, tainted' \in BOOLEAN
  PROVE  Shape'
  <1> USE DEF hdrVars, logVars, dataVars, bootVars, runVars
  <1>1. TypeOK /\ OnMedia /\ GenValid /\ rc \in RecoverState /\ hdr \in Headers
    BY DEF TypeInv, Shape, TypeOK
  <1>2. /\ rc.tail \in Slots /\ rc.gen \in Gens /\ prev_log_entry(rc.tail) \in Slots
        /\ prev_gen_id(rc.gen) \in Gens
    BY <1>1, Constants DEF RecoverState
  <1>3. ASSUME rc' \in RecoverState, log' \in [Slots -> Entries], plog' \in [Slots -> SUBSET Entries],
               \A s \in Slots : log'[s] \in plog'[s],
               meta' \in [Addrs -> Vals], pmeta' \in [Addrs -> SUBSET Vals],
               \A a \in Addrs : meta'[a] \in pmeta'[a],
               UNCHANGED <<hdrVars, runVars, mode, boots, stable>>
        PROVE  Shape'
    BY <1>1, <1>3 DEF Shape, TypeOK, OnMedia, GenValid
  <1>4. CASE RecoverStart
    <2>1. rc' \in RecoverState
      BY <1>1, <1>4, Defaults DEF RecoverStart, RecoverState, Headers
    <2> QED BY <1>1, <1>4, <2>1, Constants DEF RecoverStart, Shape, TypeOK, OnMedia, GenValid
  <1>5. CASE RecoverScan
    <2> DEFINE t == prev_log_entry(rc.tail)
               g == IF rc.tail = 0 THEN prev_gen_id(rc.gen) ELSE rc.gen
    <2>1. t \in Slots /\ g \in Gens
      BY <1>2
    <2>2. \/ /\ rc' = [rc EXCEPT !.pc = "walk", !.tail = t, !.gen = g, !.last = t,
                                 !.ended = FALSE, !.start = FALSE]
             /\ UNCHANGED logVars
          \/ /\ rc' = [rc EXCEPT !.tail = t, !.gen = g]
             /\ InvalidateSlots({t}, {}) \/ UNCHANGED logVars
      BY <1>5 DEF RecoverScan
    <2> HIDE DEF t, g
    <2>3. rc' \in RecoverState
      <3>1. CASE rc' = [rc EXCEPT !.pc = "walk", !.tail = t, !.gen = g, !.last = t,
                                  !.ended = FALSE, !.start = FALSE]
        <4>1. rc' = [pc |-> "walk", tail |-> t, gen |-> g, last |-> t, ended |-> FALSE, start |-> FALSE]
          BY <1>1, <3>1 DEF RecoverState
        <4> QED BY <2>1, <4>1 DEF RecoverState
      <3>2. CASE rc' = [rc EXCEPT !.tail = t, !.gen = g]
        BY <1>1, <2>1, <3>2 DEF RecoverState
      <3> QED BY <2>2, <3>1, <3>2
    <2>4. /\ log' \in [Slots -> Entries] /\ plog' \in [Slots -> SUBSET Entries]
          /\ \A s \in Slots : log'[s] \in plog'[s]
      BY <1>1, <2>2, InvalidateTypes DEF TypeOK, OnMedia
    <2> QED BY <1>1, <1>3, <1>5, <2>3, <2>4 DEF RecoverScan, TypeOK, OnMedia
  <1>6. CASE RecoverWalk
    <2>1. rc' \in RecoverState
      <3>1. rc.tail # 0 => rc.tail - 1 \in Slots
        BY <1>2, Constants DEF Slots
      <3> DEFINE e == log[rc.tail]
                 mine == e.gen = rc.gen
                 ended == rc.ended \/ (mine /\ Ends(e))
                 first == rc.tail = 0 \/ rc.tail = hdr.head
      <3>2. ended \in BOOLEAN /\ (mine /\ e.start) \in BOOLEAN
        BY <1>1, <1>2 DEF RecoverState, Ends, TypeOK, Entries
      <3>3. \/ rc' = [rc EXCEPT !.pc = "bug"]
            \/ rc' = [rc EXCEPT !.pc = "undo", !.ended = ended, !.start = mine /\ e.start]
            \/ rc' = [rc EXCEPT !.tail = rc.tail - 1, !.ended = ended] /\ rc.tail # 0
        BY <1>1, <1>6 DEF RecoverWalk, RecoverState
      <3> HIDE DEF mine, ended, e
      <3>4. CASE rc' = [rc EXCEPT !.pc = "bug"]
        BY <1>1, <3>4 DEF RecoverState
      <3>5. CASE rc' = [rc EXCEPT !.pc = "undo", !.ended = ended, !.start = mine /\ e.start]
        <4>1. rc' = [pc |-> "undo", tail |-> rc.tail, gen |-> rc.gen, last |-> rc.last,
                     ended |-> ended, start |-> mine /\ e.start]
          BY <1>1, <3>5 DEF RecoverState
        <4> QED BY <1>1, <3>2, <4>1 DEF RecoverState
      <3>6. CASE rc' = [rc EXCEPT !.tail = rc.tail - 1, !.ended = ended] /\ rc.tail # 0
        BY <1>1, <3>1, <3>2, <3>6 DEF RecoverState
      <3> QED BY <3>3, <3>4, <3>5, <3>6
    <2> QED BY <1>1, <1>3, <1>6, <2>1 DEF RecoverWalk, TypeOK, OnMedia
  <1>7. CASE RecoverUndo
    <2>1. rc.tail .. rc.last \subseteq Slots
      BY <1>1, Constants DEF RecoverState, Slots
    <2>2. /\ meta' \in [Addrs -> Vals] /\ pmeta' \in [Addrs -> SUBSET Vals]
          /\ \A a \in Addrs : meta'[a] \in pmeta'[a]
      <3>1. CASE rc.start /\ ~rc.ended
        <4>1. /\ meta' = pmfs_undo_transaction(rc.tail .. rc.last, rc.gen)
              /\ pmeta' = UndoMedia(rc.tail .. rc.last, rc.gen)
          BY <1>7, <3>1 DEF RecoverUndo
        <4> QED BY <1>1, <2>1, <4>1, UndoTypes
      <3>2. CASE ~(rc.start /\ ~rc.ended)
        BY <1>1, <1>7, <3>2 DEF RecoverUndo, TypeOK, OnMedia
      <3> QED BY <3>1, <3>2
    <2>3. rc' \in RecoverState
      BY <1>1, <1>7 DEF RecoverUndo, RecoverState
    <2> QED BY <1>1, <1>3, <1>7, <2>2, <2>3 DEF RecoverUndo, TypeOK, OnMedia
  <1>8. CASE RecoverInvalidate
    <2>1. /\ pmeta' \in [Addrs -> SUBSET Vals] /\ \A a \in Addrs : meta[a] \in pmeta'[a]
      BY <1>1, <1>8 DEF RecoverInvalidate, TypeOK, OnMedia
    <2>2. rc' \in RecoverState
      BY <1>1, <1>8 DEF RecoverInvalidate, RecoverState
    <2>3. /\ log' \in [Slots -> Entries] /\ plog' \in [Slots -> SUBSET Entries]
          /\ \A s \in Slots : log'[s] \in plog'[s]
      BY <1>1, <1>8, InvalidateTypes DEF RecoverInvalidate
    <2> QED BY <1>1, <1>3, <1>8, <2>1, <2>2, <2>3 DEF RecoverInvalidate, TypeOK
  <1>9. CASE InvalidateRest
    <2>1. rc' \in RecoverState
      BY <1>1, <1>9 DEF InvalidateRest, RecoverState
    <2>2. /\ log' \in [Slots -> Entries] /\ plog' \in [Slots -> SUBSET Entries]
          /\ \A s \in Slots : log'[s] \in plog'[s]
      BY <1>1, <1>9, InvalidateTypes DEF InvalidateRest, TypeOK, OnMedia
    <2> QED BY <1>1, <1>3, <1>9, <2>1, <2>2 DEF InvalidateRest, TypeOK, OnMedia
  <1>10. CASE ForwardJournal
    <2>1. hdr.gen \in Gens /\ next_gen_id(hdr.gen) \in Gens /\ next_gen_id(hdr.gen) >= 1
      BY <1>1, Constants DEF Headers
    <2>2. /\ hdr' = [hdr EXCEPT !.gen = next_gen_id(hdr.gen), !.head = hdr.tail]
          /\ phdr' = phdr \cup {[hdr EXCEPT !.gen = next_gen_id(hdr.gen)], hdr'}
      BY <1>1, <1>10 DEF ForwardJournal, Headers
    <2>3. hdr' \in Headers /\ hdr'.gen >= 1
      BY <1>1, <2>1, <2>2 DEF Headers
    <2>4. [hdr EXCEPT !.gen = next_gen_id(hdr.gen)] \in Headers
          /\ [hdr EXCEPT !.gen = next_gen_id(hdr.gen)].gen >= 1
      BY <1>1, <2>1 DEF Headers
    <2>5. phdr' \in SUBSET Headers /\ hdr' \in phdr' /\ \A h \in phdr' : h.gen >= 1
      BY <1>1, <2>2, <2>3, <2>4 DEF TypeOK, GenValid
    <2>6. rc' \in RecoverState
      BY <1>1, <1>10 DEF ForwardJournal, RecoverState
    <2>7. /\ plog' \in [Slots -> SUBSET Entries] /\ \A s \in Slots : log[s] \in plog'[s]
          /\ pmeta' \in [Addrs -> SUBSET Vals] /\ \A a \in Addrs : meta[a] \in pmeta'[a]
      BY <1>1, <1>10 DEF ForwardJournal, TypeOK
    <2> QED BY <1>1, <1>10, <2>3, <2>5, <2>6, <2>7 DEF ForwardJournal, Shape, TypeOK, OnMedia, GenValid
  <1>11. CASE RecoverDone \/ Mounted
    BY <1>1, <1>11, Defaults DEF RecoverDone, Mounted, Shape, TypeOK, OnMedia, GenValid
  <1> QED BY <1>4, <1>5, <1>6, <1>7, <1>8, <1>9, <1>10, <1>11 DEF Recover

LEMMA TypeStep ==
  ASSUME TypeInv, Next
  PROVE  Shape'
  <1> USE DEF hdrVars, logVars, dataVars, bootVars
  <1>1. tainted' \in BOOLEAN
    BY DEF Next, Mark, TypeInv, Shape, TypeOK
  <1>2. CASE CleanerRun
    BY <1>1, <1>2, CleanStartType DEF CleanerRun, TypeInv, Shape, TypeOK, OnMedia, GenValid
  <1>3. CASE Unmount
    <2>1. boots' \in 0 .. MaxBoot
      BY <1>3, BoundsAssumption DEF Unmount, TypeInv, Shape, TypeOK
    <2> QED BY <1>1, <1>3, <2>1, CleanStartType DEF Unmount, TypeInv, Shape, TypeOK, OnMedia, GenValid
  <1> QED BY <1>1, <1>2, <1>3, TypeTransact, TypeClean, TypeCrash, TypeRecover DEF Next, Step

\* The mutex, the locals that its holder uses, and the sizes of the reservations.
LEMMA LockStep ==
  ASSUME TypeInv, Next
  PROVE  Locking'
  <1> USE DEF hdrVars, logVars, dataVars, bootVars, Reserving
  <1>1. TypeOK /\ Locking /\ txn \in [Procs -> Transactions] /\ nt \in Requested /\ cl \in CleanState
    BY DEF TypeInv, Shape, TypeOK
  <1>2. /\ \A p \in Procs : p \notin {"free", "cleaner", "umount"}
        /\ \A p \in Procs : Live(p) => txn[p].pc \notin Reserving /\ txn[p].pc # "idle"
        /\ ClOff.pc = "off" /\ RcOff.pc = "off" /\ Idle.pc = "idle" /\ Idle.used = 0 /\ Idle.addrs = {}
        /\ CleanStart.pc = "scan"
    BY ProcsAssumption DEF Live, ClOff, RcOff, Idle, CleanStart
  <1>3. ASSUME NEW p \in Procs, NewTransaction(p)
        PROVE  Locking'
    <2>1. PICK m \in Requests : nt' = [NtOff EXCEPT !.head = hdr.head, !.tail = hdr.tail, !.n = m + 1]
      BY <1>3 DEF NewTransaction
    <2>2. nt'.tail = hdr.tail /\ nt'.n - 1 \in Requests
      BY <2>1, RequestsAssumption DEF NtOff
    <2>3. ntid \in 0 .. MaxTid /\ {"idle", "again"} \subseteq TxnPcs
      BY <1>1, TxnShape DEF TypeOK
    <2>4. txn'[p].pc = "again" /\ txn'[p].addrs = txn[p].addrs /\ txn'[p].used = txn[p].used
          /\ \A q \in Procs \ {p} : txn'[q] = txn[q]
      BY <1>1, <1>3, TxnShape DEF NewTransaction
    <2> QED BY <1>1, <1>2, <1>3, <2>2, <2>4 DEF NewTransaction, Locking, Live, TypeOK
  <1>4. ASSUME NEW p \in Procs, FreeLogentries(p)
        PROVE  Locking'
    <2>1. nt'.tail = nt.tail /\ nt'.n = nt.n
      BY <1>1, <1>4 DEF FreeLogentries, Requested
    <2>2. txn' = [txn EXCEPT ![p].pc = "clean"] /\ "clean" \in TxnPcs
      BY <1>4, TxnShape DEF FreeLogentries
    <2>3. /\ txn'[p].pc = "clean" /\ txn'[p].used = txn[p].used /\ txn'[p].addrs = txn[p].addrs
          /\ \A q \in Procs \ {p} : txn'[q] = txn[q]
      BY <1>1, <2>2, PcEffect
    <2> QED BY <1>1, <1>2, <1>4, <2>1, <2>3 DEF FreeLogentries, Locking, Live
  <1>5. ASSUME NEW p \in Procs, JournalFull(p)
        PROVE  Locking'
    BY <1>1, <1>2, <1>5 DEF JournalFull, Locking, Live
  <1>6. ASSUME NEW p \in Procs, WrapJournal(p)
        PROVE  Locking'
    <2>1. nt'.tail = 0 /\ nt'.n = nt.n /\ hdr'.tail = 0
      BY <1>1, <1>6 DEF WrapJournal, Requested, TypeOK, Headers
    <2>2. txn' = [txn EXCEPT ![p].pc = "again"] /\ "again" \in TxnPcs
      BY <1>6, TxnShape DEF WrapJournal
    <2>3. /\ txn'[p].pc = "again" /\ txn'[p].used = txn[p].used /\ txn'[p].addrs = txn[p].addrs
          /\ \A q \in Procs \ {p} : txn'[q] = txn[q]
      BY <1>1, <2>2, PcEffect
    <2> QED BY <1>1, <1>2, <1>6, <2>1, <2>3 DEF WrapJournal, HasRoom, Locking, Live
  <1>7. ASSUME NEW p \in Procs, ReserveEntries(p)
        PROVE  Locking'
    <2>1. /\ hdr.gen \in Gens /\ nt.tail \in Slots /\ nt.n \in 0 .. JSize /\ "run" \in TxnPcs
      BY <1>1, TxnShape DEF TypeOK, Headers, Requested
    <2>2. /\ txn'[p].pc = "run" /\ txn'[p].start = nt.tail /\ txn'[p].n = nt.n
          /\ txn'[p].used = txn[p].used /\ txn'[p].addrs = txn[p].addrs
          /\ \A q \in Procs \ {p} : txn'[q] = txn[q]
      <3>1. txn' = [txn EXCEPT ![p].pc = "run", ![p].gen = hdr.gen, ![p].start = nt.tail, ![p].n = nt.n]
        BY <1>7 DEF ReserveEntries
      <3> QED BY <1>1, <3>1, TxnShape
    <2>3. mutex = p /\ mutex' = "free" /\ nt.tail + nt.n < JSize /\ nt.n > 0
          /\ txn[p].used = 0 /\ cl.pc = "off" /\ mode' = mode /\ rc' = rc /\ cl' = cl /\ mode = "up"
      BY <1>1, <1>2, <1>7, <2>1, RequestsAssumption DEF ReserveEntries, HasRoom, Locking, Live
    <2> QED BY <1>1, <1>2, <2>2, <2>3 DEF Locking, Live
  <1>8. ASSUME NEW p \in Procs, NEW a \in Addrs, AddLogentry(p, a)
        PROVE  Locking'
    <2>1. txn' = [txn EXCEPT ![p].pc = "logging", ![p].used = txn[p].used + 1,
                            ![p].addrs = txn[p].addrs \cup {a}]
      BY <1>1, <1>8 DEF AddLogentry
    <2>2. txn[p].used + 1 \in 0 .. JSize /\ txn[p].addrs \cup {a} \in SUBSET Addrs /\ "logging" \in TxnPcs
      BY <1>1, <1>8, TxnShape, Constants DEF AddLogentry
    <2>3. /\ txn'[p].pc = "logging" /\ txn'[p].used = txn[p].used + 1
          /\ txn'[p].n = txn[p].n /\ txn'[p].start = txn[p].start
          /\ \A q \in Procs \ {p} : txn'[q] = txn[q]
      <3>1. PICK A \in SUBSET Addrs : A = txn[p].addrs \cup {a}
        BY <2>2
      <3>2. PICK u \in 0 .. JSize : u = txn[p].used + 1
        BY <2>2
      <3>3. txn' = [txn EXCEPT ![p].pc = "logging", ![p].used = u, ![p].addrs = A]
        BY <2>1, <3>1, <3>2
      <3> QED BY <1>1, <3>2, <3>3, TxnShape
    <2> QED BY <1>1, <1>2, <1>8, <2>3 DEF AddLogentry, Locking, Live, runVars, Idle
  <1>9. ASSUME NEW p \in Procs, LogFence(p) \/ CommitFlush(p) \/ AbortUndo(p)
        PROVE  Locking'
    <2>1. PICK x \in {"run", "flushed", "undone"} :
            txn' = [txn EXCEPT ![p].pc = x] /\ txn[p].pc \in {"run", "logging"}
      BY <1>9 DEF LogFence, CommitFlush, AbortUndo
    <2>2. /\ txn'[p].pc = x /\ txn'[p].used = txn[p].used
          /\ txn'[p].n = txn[p].n /\ txn'[p].start = txn[p].start
          /\ \A q \in Procs \ {p} : txn'[q] = txn[q]
      BY <1>1, <2>1, PcEffect, TxnShape
    <2>3. UNCHANGED <<hdr, mutex, nt, cl, rc, mode>>
      BY <1>9 DEF LogFence, CommitFlush, AbortUndo
    <2> QED BY <1>1, <1>2, <2>1, <2>2, <2>3 DEF Locking, Live, Idle
  <1>10. ASSUME NEW p \in Procs, CommitEntry(p) \/ AbortEntry(p)
         PROVE  Locking'
    <2>1. txn' = [txn EXCEPT ![p] = Idle] /\ txn[p].pc \in {"flushed", "undone"}
      BY <1>10 DEF CommitEntry, AbortEntry, EndRecord
    <2>2. UNCHANGED <<hdr, mutex, nt, cl, rc, mode>>
      BY <1>10 DEF CommitEntry, AbortEntry
    <2> QED BY <1>1, <1>2, <2>1, <2>2 DEF Locking, Live
  <1>11. ASSUME NEW p \in Procs, NEW a \in Addrs, NEW v \in Vals, Update(p, a, v)
         PROVE  Locking'
    BY <1>1, <1>11 DEF Update, runVars, Locking, Live
  <1>12. CASE CleanSkip \/ CleanEnter \/ CleanWalk
    <2>1. cl.pc # "off" /\ UNCHANGED <<hdr, mutex, nt, txn, rc, mode>>
      BY <1>12 DEF CleanSkip, CleanEnter, CleanWalk
    <2>2. cl'.pc # "off"
      BY <1>1, <1>12 DEF CleanSkip, CleanEnter, CleanWalk, MoveTo, CleanState
    <2> QED BY <1>1, <2>1, <2>2 DEF Locking, Live
  <1>13. CASE CleanFinish
    <2>1. cl.pc # "off" /\ cl'.pc = "off" /\ hdr'.tail = hdr.tail /\ mode = "up" /\ rc' = rc /\ mutex # "free"
      BY <1>1, <1>2, <1>13 DEF CleanFinish, TypeOK, Headers, Locking
    <2>2. CASE mutex \in Procs
      <3>1. txn' = [txn EXCEPT ![mutex].pc = "retry"] /\ nt' = [nt EXCEPT !.freed = @ + cl.total]
            /\ mutex' = mutex /\ mode' = mode /\ "retry" \in TxnPcs
        BY <1>2, <1>13, <2>2, TxnShape DEF CleanFinish
      <3>2. nt'.tail = nt.tail /\ nt'.n = nt.n
        BY <1>1, <3>1 DEF Requested
      <3>3. /\ txn'[mutex].pc = "retry" /\ txn'[mutex].used = txn[mutex].used
            /\ txn'[mutex].addrs = txn[mutex].addrs
            /\ \A q \in Procs \ {mutex} : txn'[q] = txn[q]
        BY <1>1, <2>2, <3>1, PcEffect
      <3> QED BY <1>1, <1>2, <2>1, <2>2, <3>1, <3>2, <3>3 DEF Locking, Live
    <2>3. CASE mutex = "cleaner"
      BY <1>1, <1>2, <1>13, <2>1, <2>3 DEF CleanFinish, Locking, Live
    <2>4. CASE mutex = "umount"
      <3>1. mutex' = "free" /\ mode' = "recover" /\ txn' = txn /\ nt' = nt
        BY <1>2, <1>13, <2>4 DEF CleanFinish
      <3> QED BY <1>1, <1>2, <1>13, <2>1, <2>4, <3>1 DEF Locking, Live
    <2> QED BY <1>1, <2>1, <2>2, <2>3, <2>4 DEF TypeOK
  <1>14. CASE CleanerRun \/ Unmount
    BY <1>1, <1>2, <1>14 DEF CleanerRun, Unmount, Locking, Live
  <1>15. CASE Crash
    BY <1>2, <1>15 DEF Crash, Locking, Live
  <1>16. CASE Recover
    <2>1. UNCHANGED <<mutex, txn, nt, cl>> /\ mode # "up"
      BY <1>1, <1>16 DEF Recover, RecoverStart, RecoverScan, RecoverWalk, RecoverUndo,
        RecoverInvalidate, InvalidateRest, ForwardJournal, RecoverDone, Mounted, runVars, Locking, RcOff
    <2>2. mode' # "recover" => rc'.pc = "off"
      BY <1>1, <1>16 DEF Recover, RecoverStart, RecoverScan, RecoverWalk, RecoverUndo,
        RecoverInvalidate, InvalidateRest, ForwardJournal, RecoverDone, Mounted, runVars, Locking, RcOff
    <2> QED BY <1>1, <1>2, <2>1, <2>2 DEF Locking, Live
  <1> QED BY <1>3, <1>4, <1>5, <1>6, <1>7, <1>8, <1>9, <1>10, <1>11, <1>12, <1>13, <1>14, <1>15, <1>16
    DEF Next, Step, Transact, Reserve, Clean

-----------------------------------------------------------------------------
(* Arithmetic of the ring.                                                 *)

LEMMA WindowIs ==
  ASSUME NEW h \in Headers
  PROVE  Window(h) = {s \in Slots : InW(h, s)}
  <1>1. \A s \in Slots : Dist(h.head, s) < Dist(h.head, h.tail) <=> InW(h, s)
    BY Constants DEF Headers, Slots, Dist, InW
  <1> QED BY <1>1 DEF Window

LEMMA Laps ==
  ASSUME NEW h \in Headers, h.gen >= 1
  PROVE  /\ \A s \in Slots : Lap(h, s) \in 1 .. MaxGen /\ Top(h, s) \in 0 .. MaxGen
         /\ \A u, v \in Slots : Lap(h, u) = Lap(h, v) <=> Side(h, u, v)
  <1>1. h.gen \in 1 .. MaxGen /\ prev_gen_id(h.gen) \in 1 .. MaxGen /\ prev_gen_id(h.gen) # h.gen
    BY Constants DEF Headers, Gens, prev_gen_id
  <1>2. h.head \in Int /\ h.tail \in Int /\ \A s \in Slots : s \in Int
    BY Constants DEF Headers, Slots
  <1>3. \A s \in Slots : Lap(h, s) \in 1 .. MaxGen
    BY <1>1 DEF Lap
  <1>4. \A s \in Slots : Top(h, s) \in 0 .. MaxGen
    <2> SUFFICES ASSUME NEW s \in Slots PROVE Top(h, s) \in 0 .. MaxGen
      OBVIOUS
    <2>1. Lap(h, s) \in 0 .. MaxGen /\ h.gen - 1 \in 0 .. MaxGen /\ h.gen \in 0 .. MaxGen /\ 0 \in 0 .. MaxGen
      BY <1>1, <1>3, Constants
    <2> QED BY <2>1 DEF Top
  <1>5. \A u, v \in Slots : Lap(h, u) = Lap(h, v) <=> Side(h, u, v)
    BY <1>1 DEF Lap, Side
  <1> QED BY <1>3, <1>4, <1>5

\* The cleaner does not pass the entries of a live transaction.
LEMMA NotPassed ==
  ASSUME TypeInv, Next, ~tainted'
  PROVE  /\ ~tainted /\ ~Overrun /\ ~Leap /\ ~PartialLastLap /\ ~HalfInvalidated /\ ~RestHalf
         /\ \A p \in Procs : Live(p)' => \A s \in Reserved(p)' : InW(Ahead', s) /\ s \in Slots
  <1>1. ~tainted /\ ~Passed' /\ ~Overrun /\ ~Leap /\ ~PartialLastLap /\ ~HalfInvalidated /\ ~RestHalf
    BY DEF Next, Mark
  <1>2. hdr' \in Headers /\ cl' \in CleanState
    BY TypeStep DEF Shape, TypeOK
  <1>3. Ahead' \in Headers
    BY <1>2 DEF Ahead, CleanPos, Headers, CleanState
  <1>4. Kept' = Window(Ahead')
    BY <1>2 DEF Kept, Ahead, CleanPos, Headers
  <1>5. ASSUME NEW p \in Procs, Live(p)'
        PROVE  Reserved(p)' \subseteq {s \in Slots : InW(Ahead', s)}
    BY <1>1, <1>3, <1>4, <1>5, WindowIs DEF Passed
  <1> QED BY <1>1, <1>5

\* Fewer candidates, or invalidated entries, do no harm.
LEMMA Fewer ==
  ASSUME TypeOK, NEW h \in Headers, h.gen >= 1,
         \A s \in Slots : \A e \in plog'[s] : e \in plog[s] \/ e = Invalid
  PROVE  /\ Bounded(h) => Bounded(h)'
         /\ Apart(h) => Apart(h)'
         /\ \A s \in Slots : \A e : Cand(h, s, e)' => Cand(h, s, e)
  <1>1. Invalid.gen = 0
    BY DEF Invalid
  <1>2. \A s \in Slots : \A e : Cand(h, s, e)' => Cand(h, s, e)
    <2>1. \A s \in Slots : Lap(h, s) \in 1 .. MaxGen
      BY Laps
    <2> QED BY <1>1, <2>1 DEF Cand
  <1>3. Bounded(h) => Bounded(h)'
    <2>1. \A s \in Slots : Top(h, s) \in 0 .. MaxGen
      BY Laps
    <2>2. \A s \in Slots : 0 <= Top(h, s)
      BY <2>1, Constants
    <2> QED BY <1>1, <2>2 DEF Bounded
  <1>4. Apart(h) => Apart(h)'
    <2>1. \A s \in Slots : \A e : Cand(h, s, e)' => e \in plog[s] /\ e \in plog'[s] /\ Cand(h, s, e)
      BY <1>2 DEF Cand
    <2>2. Single(h) => Single(h)'
      BY <2>1, Zenon DEF Single
    <2>3. Convex(h) => Convex(h)'
      <3> SUFFICES ASSUME Convex(h), NEW u \in Slots, NEW w \in Slots, NEW v \in Slots,
                          NEW e \in plog'[u], NEW d \in plog'[w], NEW f \in plog'[v],
                          u < w /\ w < v /\ Side(h, u, v) /\ Cand(h, u, e)' /\ Cand(h, w, d)' /\ Cand(h, v, f)',
                          e.tid = f.tid
                   PROVE  d.tid = e.tid
        BY DEF Convex
      <3> QED BY <2>1 DEF Convex
    <2>4. Ordered(h) => Ordered(h)'
      <3> SUFFICES ASSUME Ordered(h), NEW u \in Slots, NEW v \in Slots,
                          NEW e \in plog'[u], NEW f \in plog'[v],
                          u < v /\ Side(h, u, v) /\ Cand(h, u, e)' /\ Cand(h, v, f)', e.tid = f.tid
                   PROVE  ~f.start /\ ~Ends(e)
        BY DEF Ordered
      <3> QED BY <2>1 DEF Ordered
    <2> QED BY <2>2, <2>3, <2>4 DEF Apart
  <1> QED BY <1>2, <1>3, <1>4

\* What is durable stays so, and so does what has ended.
LEMMA StayCovered ==
  ASSUME NEW h, \A s \in Slots : plog[s] = {log[s]} /\ Match(h, s) => log'[s] = log[s] /\ plog'[s] = plog[s]
  PROVE  /\ \A st, r \in Slots : Chain(h, st, r) => Chain(h, st, r)' /\ log'[st] = log[st] /\ log'[r] = log[r]
         /\ \A u \in Slots : Covered(h, u) => Covered(h, u)'
  <1>1. ASSUME NEW st \in Slots, NEW r \in Slots, Chain(h, st, r)
        PROVE  Chain(h, st, r)' /\ log'[st] = log[st] /\ log'[r] = log[r]
    <2>1. st .. r \subseteq Slots /\ st \in st .. r /\ r \in st .. r
      BY <1>1, Constants DEF Slots, Chain
    <2>2. \A w \in st .. r : log'[w] = log[w] /\ plog'[w] = plog[w] /\ Match(h, w)
      BY <1>1, <2>1 DEF Chain
    <2>3. \A w \in st .. r : Match(h, w)'
      BY <2>2 DEF Match
    <2> QED BY <1>1, <2>1, <2>2, <2>3 DEF Chain
  <1>2. ASSUME NEW u \in Slots, Covered(h, u) PROVE Covered(h, u)'
    <2>1. PICK st \in Slots, r \in Slots : /\ st <= u /\ u <= r /\ Chain(h, st, r)
                                           /\ log[st].start /\ Ends(log[r])
      BY <1>2 DEF Covered
    <2>2. Chain(h, st, r)' /\ log'[st] = log[st] /\ log'[r] = log[r]
      BY <1>1, <2>1
    <2> QED BY <2>1, <2>2 DEF Covered
  <1> QED BY <1>1, <1>2

-----------------------------------------------------------------------------
(* Steps that leave the log and the words alone.                           *)

LEMMA QuietStep ==
  ASSUME TypeInv, UpInv, UNCHANGED <<hdr, phdr, log, plog, meta, pmeta, stable>>,
         \A q \in Procs : /\ Live(q)' = Live(q) /\ (Live(q) => txn'[q] = txn[q])
                          /\ txn'[q].addrs = txn[q].addrs
  PROVE  /\ HeaderOnMedia' /\ (\A h \in phdr : Bounded(h))' /\ Apart(hdr)' /\ Written' /\ Words'
         /\ Ahead' = Ahead => Reservations' /\ Owned'
         /\ \A s \in Slots : \A e : Cand(hdr, s, e)' <=> Cand(hdr, s, e)
  <1>1. \A q \in Procs : Live(q) => /\ Used(q)' = Used(q) /\ Reserved(q)' = Reserved(q)
                                    /\ txn'[q].pc = txn[q].pc /\ txn'[q].start = txn[q].start
                                    /\ txn'[q].gen = txn[q].gen /\ txn'[q].tid = txn[q].tid
    BY DEF Used, Reserved
  <1>2. /\ HeaderOnMedia' /\ (\A h \in phdr : Bounded(h))' /\ Apart(hdr)'
    <2>1. HeaderOnMedia'
      BY <1>1 DEF UpInv, HeaderOnMedia
    <2>2. (\A h \in phdr : Bounded(h))' /\ Apart(hdr)'
      BY DEF UpInv, Bounded, Apart, Single, Convex, Ordered, Cand
    <2> QED BY <2>1, <2>2
  <1>3. Written'
    BY <1>1 DEF UpInv, Written, WrittenBy
  <1>4. \A q \in Procs : \A a, m : Live(q) => (Logged(q, a, m)' <=> Logged(q, a, m))
    BY <1>1 DEF Logged
  <1>5. Words'
    <2>1. \A a \in Addrs : Dirty(a)' = Dirty(a)
      BY DEF Dirty
    <2>2. \A a \in Addrs : Dirty(a)' => DirtyLogged(a)'
      BY <1>4, <2>1 DEF UpInv, Words, DirtyLogged
    <2>3. \A p, q \in Procs : p # q => txn'[p].addrs \cap txn'[q].addrs = {}
      BY DEF UpInv, Words
    <2>4. ASSUME NEW p \in Procs, Live(p)'
          PROVE  HeldWords(p)'
      <3>1. Live(p) /\ txn'[p] = txn[p] /\ Used(p)' = Used(p)
        BY <1>1, <2>4
      <3>2. HeldWords(p)
        BY <3>1 DEF UpInv, Words
      <3>3. \A a, m : Logged(p, a, m)' <=> Logged(p, a, m)
        BY <1>4, <3>1
      <3> QED BY <3>1, <3>2, <3>3 DEF HeldWords
    <2> QED BY <2>2, <2>3, <2>4 DEF Words
  <1>6. \A s \in Slots : \A e : Cand(hdr, s, e)' <=> Cand(hdr, s, e)
    BY DEF Cand
  <1>7. ASSUME Ahead' = Ahead PROVE Reservations' /\ Owned'
    <2>1. Reservations'
      BY <1>1, <1>7 DEF UpInv, Reservations
    <2>2. \A s \in Slots : Covered(hdr, s)' <=> Covered(hdr, s)
      BY DEF Covered, Chain, Match
    <2>3. \A s \in Slots : Swept(s)' <=> Swept(s)
      BY <1>7 DEF Swept, Behind
    <2>4. Owned'
      <3> SUFFICES ASSUME NEW s \in Slots, NEW e \in plog[s], Cand(hdr, s, e)
                   PROVE  \/ \E p \in Procs : Live(p)' /\ s \in Used(p)'
                          \/ Covered(hdr, s)'
                          \/ Swept(s)'
        BY <1>6 DEF Owned
      <3>1. \/ \E p \in Procs : Live(p) /\ s \in Used(p)
            \/ Covered(hdr, s)
            \/ Swept(s)
        BY DEF UpInv, Owned
      <3> QED BY <1>1, <2>2, <2>3, <3>1
    <2> QED BY <2>1, <2>4
  <1> QED BY <1>2, <1>3, <1>5, <1>6, <1>7

\* A cleaning pass begins.
LEMMA CleanStarts ==
  ASSUME TypeInv, UpInv, cl.pc = "off", cl' = CleanStart, UNCHANGED <<hdr, plog, log>>
  PROVE  Ahead = hdr /\ Ahead' = hdr /\ Cleaning'
  <1>1. hdr \in Headers /\ hdr.head \in Int /\ hdr.tail \in Int
    BY Constants DEF TypeInv, Shape, TypeOK, Headers, Slots
  <1>2. /\ cl'.pc = "scan" /\ cl'.head = hdr.head /\ cl'.tail = hdr.tail /\ cl'.inv = {}
        /\ cl'.gen = IF hdr.tail < hdr.head THEN prev_gen_id(hdr.gen) ELSE hdr.gen
    BY DEF CleanStart, ClOff
  <1>3. Ahead = hdr /\ Ahead' = hdr
    BY <1>1, <1>2 DEF Ahead, CleanPos, Headers
  <1>4. hdr.head # hdr.tail => InW(hdr, hdr.head)
    BY <1>1 DEF InW
  <1>5. hdr.head # hdr.tail => cl'.gen = Lap(hdr, hdr.head)
    BY <1>1, <1>2 DEF Lap
  <1>6. \A s : ~Behind(s)'
    BY <1>3 DEF Behind
  <1> QED BY <1>2, <1>3, <1>4, <1>5, <1>6 DEF Cleaning

LEMMA QuietCleaning ==
  ASSUME TypeInv, UpInv, UNCHANGED <<hdr, plog, log, cl>>, mutex' # "umount"
  PROVE  Cleaning'
  <1>1. Ahead' = Ahead /\ \A s : Behind(s)' <=> Behind(s)
    BY DEF Ahead, CleanPos, Behind
  <1>2. \A s \in Slots : \A e : Cand(hdr, s, e)' <=> Cand(hdr, s, e)
    BY DEF Cand
  <1> QED BY <1>1, <1>2 DEF UpInv, Cleaning

LEMMA UpNewTransaction ==
  ASSUME TypeInv, TypeInv', UpInv, NEW p \in Procs, NewTransaction(p)
  PROVE  UpInv'
  <1> USE DEF hdrVars, logVars, dataVars, bootVars
  <1>1. txn \in [Procs -> Transactions] /\ Locking /\ ntid \in Int
    BY BoundsAssumption DEF TypeInv, Shape, TypeOK
  <1>2. /\ UNCHANGED <<hdr, phdr, log, plog, meta, pmeta, stable, cl>> /\ mutex' = p /\ ntid' = ntid + 1
        /\ txn[p].pc = "idle" /\ txn' = [txn EXCEPT ![p].pc = "again", ![p].tid = ntid]
    BY DEF NewTransaction
  <1>3. /\ txn'[p].pc = "again" /\ txn'[p].tid = ntid /\ txn'[p].addrs = txn[p].addrs
        /\ \A q \in Procs \ {p} : txn'[q] = txn[q]
    BY <1>1, <1>2, TxnShape
  <1>4. \A q \in Procs : /\ Live(q)' = Live(q) /\ (Live(q) => txn'[q] = txn[q])
                         /\ txn'[q].addrs = txn[q].addrs
    <2>2. \A q \in Procs \ {p} : Live(q)' = Live(q) /\ txn'[q] = txn[q]
      BY <1>3 DEF Live
    <2>3. ASSUME NEW q \in Procs
          PROVE  /\ Live(q)' = Live(q) /\ (Live(q) => txn'[q] = txn[q])
                 /\ txn'[q].addrs = txn[q].addrs
      <3>1. CASE q = p
        BY <1>2, <1>3, <3>1 DEF Live
      <3>2. CASE q # p
        BY <2>2, <3>2, Zenon
      <3> QED BY <3>1, <3>2
    <2> QED BY <2>3
  <1>5. Ahead' = Ahead
    BY <1>2 DEF Ahead, CleanPos
  <1>6. \A s \in Slots : \A e : Cand(hdr, s, e)' <=> Cand(hdr, s, e)
    BY <1>2 DEF Cand
  <1>7. Tids'
    <2>1. ASSUME NEW q \in Procs, NEW r \in Procs, txn'[q].pc # "idle", txn'[r].pc # "idle", q # r
          PROVE  txn'[q].tid < ntid' /\ txn'[q].tid # txn'[r].tid
      <3>1. \A x \in Procs : txn[x].tid \in Int
        BY <1>1, TxnShape, Constants
      <3> QED BY <1>1, <1>2, <1>3, <2>1, <3>1 DEF UpInv, Tids
    <2>2. ASSUME NEW q \in Procs, txn'[q].pc # "idle"
          PROVE  txn'[q].tid < ntid'
      <3>1. \A x \in Procs : txn[x].tid \in Int
        BY <1>1, TxnShape, Constants
      <3> QED BY <1>1, <1>2, <1>3, <2>2, <3>1 DEF UpInv, Tids
    <2>3. ASSUME NEW s \in Slots, NEW e \in plog[s], Cand(hdr, s, e)
          PROVE  /\ e.tid < ntid'
                 /\ \A q \in Procs : txn'[q].pc # "idle" /\ txn'[q].tid = e.tid
                                       => Live(q)' /\ s \in Used(q)'
      <3>1. e.tid \in Int
        BY Constants DEF TypeInv, Shape, TypeOK, Entries
      <3>2. /\ e.tid < ntid
            /\ \A q \in Procs : txn[q].pc # "idle" /\ txn[q].tid = e.tid
                                       => Live(q) /\ s \in Used(q)
        BY <2>3 DEF UpInv, Tids
      <3> QED BY <1>1, <1>2, <1>3, <1>4, <3>1, <3>2 DEF Used
    <2> QED BY <1>2, <1>6, <2>1, <2>2, <2>3 DEF Tids
  <1>8. mutex' # "umount"
    BY <1>2, ProcsAssumption
  <1> QED BY <1>2, <1>4, <1>5, <1>7, <1>8, QuietStep, QuietCleaning DEF UpInv

\* Tids when nobody gets a new one.
LEMMA SameTids ==
  ASSUME TypeInv, UpInv, UNCHANGED <<hdr, plog, ntid>>,
         \A q \in Procs : /\ Live(q)' = Live(q) /\ (Live(q) => txn'[q] = txn[q])
                          /\ txn'[q].pc # "idle" => txn[q].pc # "idle" /\ txn'[q].tid = txn[q].tid
  PROVE  Tids'
  <1>1. \A s \in Slots : \A e : Cand(hdr, s, e)' <=> Cand(hdr, s, e)
    BY DEF Cand
  <1>2. \A q \in Procs : Live(q) => Used(q)' = Used(q)
    BY DEF Used
  <1> QED BY <1>1, <1>2 DEF UpInv, Tids

LEMMA UpFreeLogentries ==
  ASSUME TypeInv, TypeInv', UpInv, NEW p \in Procs, FreeLogentries(p)
  PROVE  UpInv'
  <1> USE DEF hdrVars, logVars, dataVars, bootVars, Reserving
  <1>1. txn \in [Procs -> Transactions] /\ Locking
    BY DEF TypeInv, Shape, TypeOK
  <1>2. /\ UNCHANGED <<hdr, phdr, log, plog, meta, pmeta, stable, mutex, ntid>> /\ cl' = CleanStart
        /\ txn' = [txn EXCEPT ![p].pc = "clean"] /\ txn[p].pc \in {"again", "retry"} /\ mutex = p
    BY DEF FreeLogentries
  <1>3. cl.pc = "off"
    BY <1>1, <1>2 DEF Locking
  <1>4. \A q \in Procs : /\ Live(q)' = Live(q) /\ (Live(q) => txn'[q] = txn[q])
                         /\ txn'[q].addrs = txn[q].addrs
                         /\ txn'[q].pc # "idle" => txn[q].pc # "idle" /\ txn'[q].tid = txn[q].tid
    BY <1>1, <1>2, TxnShape, PcEffect DEF Live
  <1> QED BY <1>2, <1>3, <1>4, QuietStep, CleanStarts, SameTids DEF UpInv

LEMMA UpJournalFull ==
  ASSUME TypeInv, TypeInv', UpInv, NEW p \in Procs, JournalFull(p)
  PROVE  UpInv'
  <1> USE DEF hdrVars, logVars, dataVars, bootVars, Reserving
  <1>1. txn \in [Procs -> Transactions] /\ Locking
    BY DEF TypeInv, Shape, TypeOK
  <1>2. /\ UNCHANGED <<hdr, phdr, log, plog, meta, pmeta, stable, ntid, cl>> /\ mutex' = "free"
        /\ txn' = [txn EXCEPT ![p] = Idle] /\ txn[p].pc = "retry"
    BY DEF JournalFull
  <1>3. txn[p].addrs = {}
    BY <1>1, <1>2 DEF Locking, Live
  <1>4. \A q \in Procs : /\ Live(q)' = Live(q) /\ (Live(q) => txn'[q] = txn[q])
                         /\ txn'[q].addrs = txn[q].addrs
                         /\ txn'[q].pc # "idle" => txn[q].pc # "idle" /\ txn'[q].tid = txn[q].tid
    BY <1>1, <1>2, <1>3 DEF Live, Idle
  <1>5. Ahead' = Ahead
    BY <1>2 DEF Ahead, CleanPos
  <1> QED BY <1>2, <1>4, <1>5, QuietStep, QuietCleaning, SameTids DEF UpInv

LEMMA UpPassBegins ==
  ASSUME TypeInv, TypeInv', UpInv, CleanerRun \/ Unmount
  PROVE  UpInv'
  <1> USE DEF hdrVars, logVars, dataVars, bootVars
  <1>1. /\ UNCHANGED <<hdr, phdr, log, plog, meta, pmeta, stable, ntid, txn>> /\ cl' = CleanStart
        /\ mutex = "free"
    BY DEF CleanerRun, Unmount
  <1>2. cl.pc = "off"
    BY <1>1 DEF TypeInv, Locking
  <1>3. \A q \in Procs : Live(q)' = Live(q)
    BY <1>1 DEF Live
  <1> QED BY <1>1, <1>2, <1>3, QuietStep, CleanStarts, SameTids DEF UpInv

-----------------------------------------------------------------------------
(* Steps that move head or tail, or that leave fewer candidates.           *)

LEMMA ApartShrinks ==
  ASSUME NEW h, NEW k, Apart(h),
         \A s \in Slots : \A e \in plog'[s] : Cand(k, s, e)' => e \in plog[s] /\ Cand(h, s, e),
         \A u, v \in Slots : InW(h, u) /\ InW(h, v) /\ Side(k, u, v) => Side(h, u, v)
  PROVE  Apart(k)'
  <1>1. \A s, e : Cand(h, s, e) => InW(h, s)
    BY DEF Cand
  <1>2. Single(k)'
    <2> SUFFICES ASSUME NEW s \in Slots, NEW e \in plog'[s], NEW f \in plog'[s],
                        Cand(k, s, e)', Cand(k, s, f)'
                 PROVE  e = f
      BY DEF Single
    <2>1. e \in plog[s] /\ f \in plog[s] /\ Cand(h, s, e) /\ Cand(h, s, f)
      OBVIOUS
    <2> QED BY <2>1 DEF Apart, Single
  <1>3. Convex(k)'
    <2> SUFFICES ASSUME NEW u \in Slots, NEW w \in Slots, NEW v \in Slots,
                        NEW e \in plog'[u], NEW d \in plog'[w], NEW f \in plog'[v],
                        u < w /\ w < v /\ Side(k, u, v) /\ Cand(k, u, e)' /\ Cand(k, w, d)' /\ Cand(k, v, f)',
                        e.tid = f.tid
                 PROVE  d.tid = e.tid
      BY DEF Convex
    <2>1. /\ e \in plog[u] /\ d \in plog[w] /\ f \in plog[v]
          /\ Cand(h, u, e) /\ Cand(h, w, d) /\ Cand(h, v, f) /\ Side(h, u, v)
      BY <1>1
    <2> QED BY <2>1 DEF Apart, Convex
  <1>4. Ordered(k)'
    <2> SUFFICES ASSUME NEW u \in Slots, NEW v \in Slots, NEW e \in plog'[u], NEW f \in plog'[v],
                        u < v /\ Side(k, u, v) /\ Cand(k, u, e)' /\ Cand(k, v, f)', e.tid = f.tid
                 PROVE  ~f.start /\ ~Ends(e)
      BY DEF Ordered
    <2>1. e \in plog[u] /\ f \in plog[v] /\ Cand(h, u, e) /\ Cand(h, v, f) /\ Side(h, u, v)
      BY <1>1
    <2> QED BY <2>1 DEF Apart, Ordered
  <1> QED BY <1>2, <1>3, <1>4 DEF Apart

\* The header k shows the entries that h shows, and the slots are at least as many.
Extends(h, k) ==
  /\ \A s \in Slots : InW(h, s) => InW(k, s) /\ Lap(k, s) = Lap(h, s)
  /\ \A s \in Slots : \A e \in plog[s] : Cand(k, s, e) => InW(h, s)
  /\ \A u, v \in Slots : InW(h, u) /\ InW(h, v) => (Side(h, u, v) <=> Side(k, u, v))

LEMMA SameView ==
  ASSUME OnMedia, NEW h, NEW k, Extends(h, k)
  PROVE  /\ \A s \in Slots : \A e : Cand(k, s, e) <=> Cand(h, s, e)
         /\ \A s \in Slots : Match(k, s) <=> Match(h, s)
         /\ \A st, r \in Slots : Chain(h, st, r) => Chain(k, st, r)
         /\ \A u \in Slots : Covered(h, u) => Covered(k, u)
  <1>1. \A s \in Slots : \A e : Cand(k, s, e) <=> Cand(h, s, e)
    BY DEF Cand, Extends
  <1>2. \A s \in Slots : Match(k, s) <=> Match(h, s)
    BY <1>1 DEF Match, Cand, OnMedia
  <1>3. ASSUME NEW st \in Slots, NEW r \in Slots, Chain(h, st, r)
        PROVE  Chain(k, st, r)
    <2>1. st .. r \subseteq Slots /\ st \in st .. r /\ r \in st .. r
      BY <1>3, Constants DEF Slots, Chain
    <2>2. \A w \in st .. r : InW(h, w) /\ Match(k, w)
      BY <1>2, <1>3, <2>1 DEF Chain, Match
    <2>3. Side(k, st, r)
      BY <1>3, <2>1, <2>2 DEF Chain, Extends
    <2> QED BY <1>3, <2>2, <2>3 DEF Chain
  <1>4. ASSUME NEW u \in Slots, Covered(h, u) PROVE Covered(k, u)
    BY <1>3, <1>4 DEF Covered
  <1> QED BY <1>1, <1>2, <1>3, <1>4

LEMMA SameReservations ==
  ASSUME TypeInv, UpInv, UNCHANGED <<hdr, phdr>>,
         \A q \in Procs : Live(q)' => /\ Live(q) /\ Reserved(q)' = Reserved(q)
                                      /\ txn'[q].gen = txn[q].gen
  PROVE  HeaderOnMedia' /\ (Ahead' = Ahead => Reservations')
  BY DEF UpInv, HeaderOnMedia, Reservations

\* Outside the cleaner's passes nothing is behind it.
LEMMA NothingBehind ==
  ASSUME TypeInv, cl.pc = "off"
  PROVE  Ahead = hdr /\ \A s : ~Behind(s)
  <1>1. hdr \in Headers
    BY DEF TypeInv, Shape, TypeOK
  <1> QED BY <1>1 DEF Ahead, CleanPos, Headers, Behind

\* Steps that only move tail, under the mutex and outside a cleaning pass: what
\* they leave alone.
LEMMA TailMoves ==
  ASSUME TypeInv, TypeInv', UpInv, NEW p \in Procs, mutex = p, cl.pc = "off", cl' = cl,
         UNCHANGED <<log, plog, meta, pmeta, stable, ntid>>, mutex' # "umount",
         Extends(hdr, hdr'), ~Live(p), txn[p].pc # "idle", txn'[p].pc # "idle",
         txn'[p].tid = txn[p].tid, txn'[p].addrs = {}, txn'[p].used = 0,
         txn'[p].pc \notin {"flushed", "undone"},
         \A q \in Procs \ {p} : txn'[q] = txn[q]
  PROVE  /\ Apart(hdr)' /\ Tids' /\ Owned' /\ Cleaning' /\ Words'
         /\ \A q \in Procs \ {p} : Live(q)' => /\ Live(q) /\ Reserved(q)' = Reserved(q)
                                              /\ Used(q)' = Used(q)
         /\ Used(p)' = {}
  <1>1. TypeOK /\ OnMedia /\ Locking
    BY DEF TypeInv, Shape
  <1> PICK k : k = hdr'
    OBVIOUS
  <1>2. /\ \A s \in Slots : \A e : Cand(k, s, e) <=> Cand(hdr, s, e)
        /\ \A s \in Slots : Match(k, s) <=> Match(hdr, s)
        /\ \A u \in Slots : Covered(hdr, u) => Covered(k, u)
    BY <1>1, SameView
  <1>3. \A s \in Slots : \A e : Cand(hdr, s, e)' <=> Cand(hdr, s, e)
    <2>1. \A s, e : Cand(hdr, s, e)' <=> Cand(k, s, e)
      BY DEF Cand
    <2> QED BY <1>2, <2>1
  <1>4. Apart(hdr)'
    <2>1. \A s \in Slots : \A e \in plog'[s] : Cand(k, s, e)' => e \in plog[s] /\ Cand(hdr, s, e)
      <3>1. \A s, e : Cand(k, s, e)' <=> Cand(k, s, e)
        BY DEF Cand
      <3> QED BY <1>2, <3>1
    <2>2. Apart(k)'
      BY <2>1, ApartShrinks DEF Extends, UpInv
    <2>3. Apart(k)' <=> Apart(hdr)'
      BY DEF Apart, Single, Convex, Ordered, Cand
    <2> QED BY <2>2, <2>3
  <1>5. /\ ~Live(p)
        /\ \A q \in Procs \ {p} : /\ Live(q)' <=> Live(q)
                                  /\ Used(q)' = Used(q) /\ Reserved(q)' = Reserved(q)
    BY DEF Live, Used, Reserved
  <1>6. Used(p)' = {}
    <2>1. txn'[p].start \in Int
      BY TxnShape, Constants DEF TypeInv, Shape, TypeOK, Slots
    <2> QED BY <2>1 DEF Used
  <1>7. Tids'
    <2>1. ASSUME NEW s \in Slots, NEW e \in plog[s], Cand(hdr, s, e)
          PROVE  /\ e.tid < ntid
                 /\ \A q \in Procs : txn'[q].pc # "idle" /\ txn'[q].tid = e.tid
                                       => Live(q)' /\ s \in Used(q)'
      <3>1. /\ e.tid < ntid
            /\ \A q \in Procs : txn[q].pc # "idle" /\ txn[q].tid = e.tid
                                  => Live(q) /\ s \in Used(q)
        BY <2>1 DEF UpInv, Tids
      <3>2. txn[p].tid # e.tid
        BY <1>5, <3>1
      <3> QED BY <1>5, <3>1, <3>2
    <2>2. \A q, r \in Procs : txn'[q].pc # "idle" => 
             /\ txn'[q].tid < ntid
             /\ txn'[r].pc # "idle" /\ q # r => txn'[q].tid # txn'[r].tid
      <3>1. \A q \in Procs : /\ txn'[q].pc # "idle" => txn[q].pc # "idle"
                             /\ txn'[q].tid = txn[q].tid
        OBVIOUS
      <3> QED BY <3>1 DEF UpInv, Tids
    <2> QED BY <1>3, <2>1, <2>2 DEF Tids
  <1>8. (\A s : ~Behind(s)) /\ (\A s : ~Behind(s)')
    BY DEF TypeInv, Shape, TypeOK, Headers, Ahead, CleanPos, Behind
  <1>9. Owned'
    <2> SUFFICES ASSUME NEW s \in Slots, NEW e \in plog[s], Cand(hdr, s, e)
                 PROVE  \/ \E q \in Procs : Live(q)' /\ s \in Used(q)'
                        \/ Covered(hdr, s)'
      BY <1>3 DEF Owned
    <2>1. \/ \E q \in Procs : Live(q) /\ s \in Used(q)
          \/ Covered(hdr, s)
      BY <1>8 DEF UpInv, Owned, Swept
    <2>2. Covered(k, s) => Covered(hdr, s)'
      BY DEF Covered, Chain, Match
    <2> QED BY <1>2, <1>5, <2>1, <2>2
  <1>10. Cleaning'
    BY <1>8 DEF Cleaning
  <1>11. Words'
    <2>1. \A q \in Procs \ {p} : \A a, m : Logged(q, a, m)' <=> Logged(q, a, m)
      BY <1>5 DEF Logged
    <2>2. ASSUME NEW a \in Addrs, Dirty(a)' PROVE DirtyLogged(a)'
      <3>1. Dirty(a)
        BY <2>2 DEF Dirty
      <3>2. PICK q \in Procs, m \in Slots : Live(q) /\ Logged(q, a, m)
        BY <3>1 DEF UpInv, Words, DirtyLogged
      <3>3. q \in Procs \ {p}
        BY <3>2
      <3> QED BY <1>5, <2>1, <3>2, <3>3 DEF DirtyLogged
    <2>3. \A q, r \in Procs : q # r => txn'[q].addrs \cap txn'[r].addrs = {}
      BY DEF UpInv, Words
    <2>4. ASSUME NEW q \in Procs, Live(q)' PROVE HeldWords(q)'
      <3>1. CASE q = p
        <4>1. Used(q)' = {} /\ txn'[q].addrs = {} /\ txn'[q].pc # "flushed" /\ txn'[q].pc # "undone"
          BY <1>6, <3>1
        <4> QED BY <4>1 DEF HeldWords
      <3>2. CASE q # p
        <4>1. q \in Procs \ {p} /\ Live(q) /\ txn'[q] = txn[q] /\ Used(q)' = Used(q)
          BY <1>5, <2>4, <3>2
        <4>2. \A a, m : Logged(q, a, m)' <=> Logged(q, a, m)
          BY <2>1, <4>1
        <4>3. HeldWords(q)
          BY <4>1 DEF UpInv, Words
        <4> QED BY <4>1, <4>2, <4>3 DEF HeldWords
      <3> QED BY <3>1, <3>2
    <2> QED BY <2>2, <2>3, <2>4 DEF Words
  <1> QED BY <1>4, <1>5, <1>6, <1>7, <1>9, <1>10, <1>11

LEMMA UpWrapJournal ==
  ASSUME TypeInv, TypeInv', UpInv, NEW p \in Procs, WrapJournal(p), ~Overrun
  PROVE  UpInv'
  <1> USE DEF hdrVars, logVars, dataVars, bootVars, Reserving
  <1>1. TypeOK /\ OnMedia /\ GenValid /\ Locking /\ txn \in [Procs -> Transactions]
    BY DEF TypeInv, Shape, TypeOK
  <1>2. /\ UNCHANGED <<log, plog, meta, pmeta, stable, ntid, cl, boots>> /\ mutex' = mutex /\ mutex = p
        /\ txn' = [txn EXCEPT ![p].pc = "again"] /\ txn[p].pc \in {"again", "retry"}
        /\ hdr' = [hdr EXCEPT !.tail = 0, !.gen = next_gen_id(hdr.gen)]
        /\ phdr' = phdr \cup {hdr'} /\ nt.tail + nt.n >= JSize
    BY DEF WrapJournal, HasRoom
  <1>3. cl.pc = "off" /\ ~Live(p) /\ nt.tail = hdr.tail /\ nt.n - 1 \in Requests
        /\ txn[p].used = 0 /\ txn[p].addrs = {}
    BY <1>1, <1>2 DEF Locking, Live
  <1>4. /\ txn'[p].pc = "again" /\ txn'[p].tid = txn[p].tid /\ txn'[p].addrs = {} /\ txn'[p].used = 0
        /\ \A q \in Procs \ {p} : txn'[q] = txn[q]
    BY <1>1, <1>2, <1>3, TxnShape, PcEffect
  <1>5. /\ hdr.head \in 0 .. JSize - 1 /\ hdr.tail \in 0 .. JSize - 1 /\ hdr.gen \in 1 .. MaxGen
        /\ nt.n \in Nat /\ nt.n < JSize /\ JSize \in Nat
    <2>1. hdr \in Headers /\ hdr.gen >= 1 /\ nt \in Requested
      BY <1>1 DEF TypeOK, OnMedia, GenValid
    <2>2. nt.n - 1 >= 1 /\ 2 * (nt.n - 1 + 1) < JSize /\ nt.n - 1 \in Nat
      BY <1>3, RequestsAssumption
    <2> QED BY <2>1, <2>2, Constants DEF Headers, Slots, Gens, Requested
  <1>6. hdr'.tail = 0 /\ hdr'.head = hdr.head /\ hdr'.gen = next_gen_id(hdr.gen) /\ hdr.tail > 0
    BY <1>1, <1>2, <1>3, <1>5 DEF TypeOK, Headers
  <1>7. hdr.head <= hdr.tail /\ hdr.head > 0
    <2>1. Dist(hdr.head, hdr.tail) + nt.n < JSize
      BY <1>2, <1>5, <1>6 DEF Overrun, Dist
    <2> QED BY <1>2, <1>3, <1>5, <2>1 DEF Dist
  <1>8. /\ \A s \in Slots : InW(hdr, s) <=> hdr.head <= s /\ s < hdr.tail
        /\ \A s \in Slots : InW(hdr', s) <=> hdr.head <= s
        /\ \A s \in Slots : s < hdr.tail => Lap(hdr, s) = hdr.gen
        /\ \A s \in Slots : Lap(hdr', s) = hdr.gen
    <2>1. prev_gen_id(next_gen_id(hdr.gen)) = hdr.gen
      BY <1>5, Constants DEF prev_gen_id, next_gen_id
    <2> QED BY <1>5, <1>6, <1>7, <2>1 DEF InW, Lap, Slots
  <1>9. \A s \in Slots : Top(hdr', s) = Top(hdr, s) \/ hdr.tail <= s
    <2> SUFFICES ASSUME NEW s \in Slots, s < hdr.tail PROVE Top(hdr', s) = Top(hdr, s)
      BY <1>5 DEF Slots
    <2>1. s \in Nat /\ hdr'.tail <= s
      BY <1>5, <1>6 DEF Slots
    <2>2. CASE hdr.head <= s
      <3>1. InW(hdr, s) /\ InW(hdr', s) /\ Lap(hdr', s) = Lap(hdr, s)
        BY <1>8, <2>2
      <3> QED BY <3>1 DEF Top
    <2>3. CASE ~(hdr.head <= s)
      <3>1. ~InW(hdr, s) /\ ~InW(hdr', s)
        BY <1>8, <2>3
      <3>2. Top(hdr', s) = next_gen_id(hdr.gen) - 1
        BY <1>6, <2>1, <3>1 DEF Top
      <3>3. Top(hdr, s) = IF hdr.gen = MaxGen THEN 0 ELSE hdr.gen
        BY <1>5, <2>1, <3>1 DEF Top
      <3> QED BY <1>5, <3>2, <3>3, Constants DEF next_gen_id
    <2> QED BY <2>2, <2>3
  <1>10. \A s \in Slots : hdr.tail <= s => Top(hdr, s) = hdr.gen - 1 /\ Top(hdr', s) = hdr.gen
    BY <1>5, <1>6, <1>7, <1>8 DEF Top, Slots
  <1>11. Bounded(hdr)
    BY <1>1 DEF OnMedia, UpInv
  <1>12. \A s \in Slots : \A e \in plog[s] : e.gen \in Int
    BY <1>1, Constants DEF TypeOK, Entries, Gens
  <1>13. Extends(hdr, hdr')
    <2>1. ASSUME NEW s \in Slots, NEW e \in plog[s], Cand(hdr', s, e) PROVE InW(hdr, s)
      <3>1. e.gen = hdr.gen /\ hdr.head <= s
        BY <1>8, <2>1 DEF Cand
      <3>2. e.gen <= Top(hdr, s)
        BY <1>11 DEF Bounded
      <3>3. ~(hdr.tail <= s)
        BY <1>5, <1>10, <3>1, <3>2
      <3> QED BY <1>5, <1>8, <3>1, <3>3 DEF Slots
    <2>2. \A s \in Slots : InW(hdr, s) => InW(hdr', s) /\ Lap(hdr', s) = Lap(hdr, s)
      BY <1>8
    <2>3. \A u, v \in Slots : InW(hdr, u) /\ InW(hdr, v) => (Side(hdr, u, v) <=> Side(hdr', u, v))
      BY <1>5, <1>6, <1>8 DEF Side, Slots
    <2> QED BY <2>1, <2>2, <2>3 DEF Extends
  <1>14. mutex' # "umount"
    BY <1>2, ProcsAssumption
  <1>15. /\ Apart(hdr)' /\ Tids' /\ Owned' /\ Cleaning' /\ Words'
         /\ \A q \in Procs \ {p} : Live(q)' => Live(q) /\ Reserved(q)' = Reserved(q) /\ Used(q)' = Used(q)
    BY <1>2, <1>3, <1>4, <1>13, <1>14, TailMoves
  <1>16. ~Live(p)' /\ \A q \in Procs : Live(q)' => /\ Live(q) /\ Reserved(q)' = Reserved(q)
                                                  /\ Used(q)' = Used(q) /\ txn'[q] = txn[q]
    BY <1>4, <1>15 DEF Live
  <1>17. Ahead = hdr /\ Ahead' = hdr'
    BY <1>1, <1>2, <1>3 DEF Ahead, CleanPos, TypeOK, Headers, TypeInv, Shape
  <1>18. \A q \in Procs : Live(q)' => \A s \in Reserved(q) : s \in Slots /\ InW(hdr, s)
    <2> SUFFICES ASSUME NEW q \in Procs, Live(q)', NEW s \in Reserved(q)
                 PROVE  s \in Slots /\ InW(hdr, s)
      OBVIOUS
    <2>1. Live(q)
      BY <1>16
    <2>2. InW(hdr, s)
      BY <1>17, <2>1 DEF UpInv, Reservations
    <2>3. txn[q].start + txn[q].n < JSize /\ txn[q].start \in Nat /\ txn[q].n \in Nat
      BY <1>1, <2>1, TxnShape, Constants DEF Locking, Slots
    <2> QED BY <1>5, <2>2, <2>3 DEF Reserved, Slots
  <1>19. HeaderOnMedia'
    <2>1. phdr = {hdr}
      BY <1>6 DEF UpInv, HeaderOnMedia
    <2>2. prev_gen_id(next_gen_id(hdr.gen)) = hdr.gen
      BY <1>5, Constants DEF prev_gen_id, next_gen_id
    <2>3. \A q \in Procs : Live(q)' => \A s \in Reserved(q)' : s < hdr.tail
      BY <1>8, <1>16, <1>18
    <2> QED BY <1>2, <1>6, <1>7, <2>1, <2>2, <2>3 DEF HeaderOnMedia
  <1>20. (\A h \in phdr : Bounded(h))'
    <2>1. Bounded(hdr')
      <3> SUFFICES ASSUME NEW s \in Slots, NEW e \in plog[s] PROVE e.gen <= Top(hdr', s)
        BY DEF Bounded
      <3>1. e.gen <= Top(hdr, s)
        BY <1>11 DEF Bounded
      <3> QED BY <1>5, <1>9, <1>10, <1>12, <3>1
    <2>2. \A h : Bounded(h)' <=> Bounded(h)
      BY <1>2 DEF Bounded
    <2> QED BY <1>2, <2>1, <2>2 DEF UpInv
  <1>21. Reservations'
    <2>1. \A q \in Procs : Live(q)' => \A s \in Reserved(q)' : InW(hdr', s) /\ Lap(hdr', s) = txn'[q].gen
      <3> SUFFICES ASSUME NEW q \in Procs, Live(q)', NEW s \in Reserved(q)
                   PROVE  InW(hdr', s) /\ Lap(hdr', s) = txn[q].gen
        BY <1>16
      <3>1. Lap(hdr, s) = txn[q].gen
        BY <1>16 DEF UpInv, Reservations
      <3> QED BY <1>8, <1>18, <3>1
    <2>2. \A q, r \in Procs : Live(q)' /\ Live(r)' /\ q # r => Reserved(q)' \cap Reserved(r)' = {}
      BY <1>16 DEF UpInv, Reservations
    <2> QED BY <1>17, <2>1, <2>2 DEF Reservations
  <1>22. Written'
    BY <1>2, <1>16 DEF UpInv, Written, WrittenBy
  <1> QED BY <1>15, <1>19, <1>20, <1>21, <1>22 DEF UpInv

LEMMA UpReserveEntries ==
  ASSUME TypeInv, TypeInv', UpInv, NEW p \in Procs, ReserveEntries(p), ~Overrun
  PROVE  UpInv'
  <1> USE DEF hdrVars, logVars, dataVars, bootVars, Reserving
  <1>1. TypeOK /\ OnMedia /\ GenValid /\ Locking /\ txn \in [Procs -> Transactions]
    BY DEF TypeInv, Shape, TypeOK
  <1>2. /\ UNCHANGED <<log, plog, meta, pmeta, stable, ntid, cl, boots>> /\ mutex' = "free" /\ mutex = p
        /\ txn' = [txn EXCEPT ![p].pc = "run", ![p].gen = hdr.gen, ![p].start = nt.tail, ![p].n = nt.n]
        /\ txn[p].pc \in {"again", "retry"}
        /\ hdr' = [hdr EXCEPT !.tail = nt.tail + nt.n]
        /\ phdr' = {hdr'} /\ nt.tail + nt.n < JSize
    BY DEF ReserveEntries, HasRoom
  <1>3. cl.pc = "off" /\ ~Live(p) /\ nt.tail = hdr.tail /\ nt.n - 1 \in Requests
        /\ txn[p].used = 0 /\ txn[p].addrs = {}
    BY <1>1, <1>2 DEF Locking, Live
  <1>4. /\ txn'[p].pc = "run" /\ txn'[p].tid = txn[p].tid /\ txn'[p].addrs = {} /\ txn'[p].used = 0
        /\ txn'[p].start = hdr.tail /\ txn'[p].n = nt.n /\ txn'[p].gen = hdr.gen
        /\ \A q \in Procs \ {p} : txn'[q] = txn[q]
    BY <1>1, <1>2, <1>3, TxnShape
  <1>5. /\ hdr.head \in 0 .. JSize - 1 /\ hdr.tail \in 0 .. JSize - 1 /\ hdr.gen \in 1 .. MaxGen
        /\ nt.n \in Nat /\ nt.n >= 2 /\ nt.n < JSize /\ JSize \in Nat
    <2>1. hdr \in Headers /\ hdr.gen >= 1 /\ nt \in Requested
      BY <1>1 DEF TypeOK, OnMedia, GenValid
    <2>2. nt.n - 1 >= 1 /\ 2 * (nt.n - 1 + 1) < JSize /\ nt.n - 1 \in Nat
      BY <1>3, RequestsAssumption
    <2> QED BY <2>1, <2>2, Constants DEF Headers, Slots, Gens, Requested
  <1>6. hdr'.tail = hdr.tail + nt.n /\ hdr'.head = hdr.head /\ hdr'.gen = hdr.gen
    BY <1>1, <1>2, <1>3, <1>5 DEF TypeOK, Headers
  <1>7. hdr.head > hdr.tail => hdr.tail + nt.n < hdr.head
    <2>1. Dist(hdr.head, hdr.tail) + nt.n < JSize
      BY <1>2, <1>5, <1>6 DEF Overrun, Dist
    <2> QED BY <1>5, <2>1 DEF Dist
  <1> DEFINE New(s) == hdr.tail <= s /\ s < hdr.tail + nt.n
  <1>8. /\ \A s \in Slots : InW(hdr', s) <=> InW(hdr, s) \/ New(s)
        /\ \A s \in Slots : New(s) => ~InW(hdr, s) /\ Lap(hdr', s) = hdr.gen
        /\ \A s \in Slots : ~New(s) => Lap(hdr', s) = Lap(hdr, s)
        /\ \A s \in Slots : ~New(s) => (s < hdr'.tail <=> s < hdr.tail)
    <2>1. \A s \in Slots : s \in Int
      BY <1>5 DEF Slots
    <2>2. \A s \in Slots : s < hdr'.tail <=> s < hdr.tail \/ New(s)
      BY <1>5, <1>6, <2>1
    <2> QED BY <1>5, <1>6, <1>7, <2>1, <2>2 DEF InW, Lap
  <1>9. /\ \A s \in Slots : New(s) => Top(hdr, s) = hdr.gen - 1 /\ Top(hdr', s) = hdr.gen
        /\ \A s \in Slots : ~New(s) => Top(hdr', s) = Top(hdr, s)
    <2>1. \A s \in Slots : s \in Int
      BY <1>5 DEF Slots
    <2>2. ASSUME NEW s \in Slots, New(s)
          PROVE  Top(hdr, s) = hdr.gen - 1 /\ Top(hdr', s) = hdr.gen
      BY <1>5, <1>8, <2>1, <2>2 DEF Top
    <2>3. ASSUME NEW s \in Slots, ~New(s)
          PROVE  Top(hdr', s) = Top(hdr, s)
      <3>1. /\ InW(hdr', s) <=> InW(hdr, s)
            /\ Lap(hdr', s) = Lap(hdr, s)
            /\ hdr'.tail <= s <=> hdr.tail <= s
        BY <1>5, <1>6, <1>8, <2>1, <2>3
      <3> HIDE DEF New
      <3> QED BY <1>6, <3>1 DEF Top
    <2> QED BY <2>2, <2>3
  <1> HIDE DEF New
  <1>11. Bounded(hdr)
    BY <1>1 DEF OnMedia, UpInv
  <1>12. \A s \in Slots : \A e \in plog[s] : e.gen \in Int
    BY <1>1, Constants DEF TypeOK, Entries, Gens
  <1>10. \A s \in Slots : New(s) => \A e \in plog[s] : e.gen # hdr.gen
    <2> SUFFICES ASSUME NEW s \in Slots, New(s), NEW e \in plog[s] PROVE e.gen # hdr.gen
      OBVIOUS
    <2>1. e.gen <= hdr.gen - 1
      BY <1>9, <1>11 DEF Bounded
    <2> QED BY <1>5, <1>12, <2>1
  <1>13. Extends(hdr, hdr')
    <2>1. ASSUME NEW s \in Slots, NEW e \in plog[s], Cand(hdr', s, e) PROVE InW(hdr, s)
      BY <1>8, <1>10, <2>1 DEF Cand
    <2>2. \A s \in Slots : InW(hdr, s) => ~New(s)
      BY <1>8
    <2>3. \A s \in Slots : InW(hdr, s) => InW(hdr', s) /\ Lap(hdr', s) = Lap(hdr, s)
      BY <1>8, <2>2
    <2>4. \A u, v \in Slots : InW(hdr, u) /\ InW(hdr, v) => (Side(hdr, u, v) <=> Side(hdr', u, v))
      <3> SUFFICES ASSUME NEW u \in Slots, NEW v \in Slots, InW(hdr, u), InW(hdr, v)
                   PROVE  Side(hdr, u, v) <=> Side(hdr', u, v)
        OBVIOUS
      <3>1. (u < hdr'.tail <=> u < hdr.tail) /\ (v < hdr'.tail <=> v < hdr.tail)
        BY <1>8, <2>2
      <3> QED BY <3>1 DEF Side
    <2> QED BY <2>1, <2>3, <2>4 DEF Extends
  <1>15. /\ Apart(hdr)' /\ Tids' /\ Owned' /\ Cleaning' /\ Words' /\ Used(p)' = {}
         /\ \A q \in Procs \ {p} : Live(q)' => Live(q) /\ Reserved(q)' = Reserved(q) /\ Used(q)' = Used(q)
    BY <1>2, <1>3, <1>4, <1>13, TailMoves
  <1>17. Ahead = hdr /\ Ahead' = hdr'
    BY <1>1, <1>2, <1>3 DEF Ahead, CleanPos, TypeOK, Headers, TypeInv, Shape
  <1>18. \A q \in Procs \ {p} : Live(q)' => \A s \in Reserved(q) : s \in Slots /\ InW(hdr, s)
    <2> SUFFICES ASSUME NEW q \in Procs \ {p}, Live(q)', NEW s \in Reserved(q)
                 PROVE  s \in Slots /\ InW(hdr, s)
      OBVIOUS
    <2>1. Live(q)
      BY <1>15
    <2>2. InW(hdr, s)
      BY <1>17, <2>1 DEF UpInv, Reservations
    <2>3. txn[q].start + txn[q].n < JSize /\ txn[q].start \in Nat /\ txn[q].n \in Nat
      BY <1>1, <2>1, TxnShape, Constants DEF Locking, Slots
    <2> QED BY <1>5, <2>2, <2>3 DEF Reserved, Slots
  <1>19. \A s \in Reserved(p)' : s \in Slots /\ New(s)
    BY <1>2, <1>3, <1>4, <1>5 DEF Reserved, New, Slots
  <1>20. (\A h \in phdr : Bounded(h))'
    <2>1. Bounded(hdr')
      <3> SUFFICES ASSUME NEW s \in Slots, NEW e \in plog[s] PROVE e.gen <= Top(hdr', s)
        BY DEF Bounded
      <3>1. e.gen <= Top(hdr, s)
        BY <1>11 DEF Bounded
      <3> QED BY <1>5, <1>9, <1>12, <3>1
    <2>2. \A h : Bounded(h)' <=> Bounded(h)
      BY <1>2 DEF Bounded
    <2> QED BY <1>2, <2>1, <2>2
  <1>21. Reservations'
    <2>1. ASSUME NEW q \in Procs, Live(q)', NEW s \in Reserved(q)'
          PROVE  InW(hdr', s) /\ Lap(hdr', s) = txn'[q].gen
      <3>1. CASE q = p
        BY <1>4, <1>8, <1>19, <2>1, <3>1
      <3>2. CASE q # p
        <4>1. q \in Procs \ {p} /\ s \in Reserved(q) /\ Live(q) /\ txn'[q] = txn[q]
          BY <1>4, <1>15, <2>1, <3>2
        <4>2. Lap(hdr, s) = txn[q].gen
          BY <4>1 DEF UpInv, Reservations
        <4> QED BY <1>8, <1>18, <2>1, <4>1, <4>2
      <3> QED BY <3>1, <3>2
    <2>2. ASSUME NEW q \in Procs \ {p}, Live(q)', NEW s \in Reserved(p)' \cap Reserved(q)'
          PROVE  FALSE
      BY <1>8, <1>15, <1>18, <1>19, <2>2
    <2>3. ASSUME NEW q \in Procs, NEW r \in Procs, Live(q)', Live(r)', q # r
          PROVE Reserved(q)' \cap Reserved(r)' = {}
      <3>1. CASE q = p
        BY <2>2, <2>3, <3>1
      <3>2. CASE r = p
        BY <2>2, <2>3, <3>2
      <3>3. CASE q # p /\ r # p
        BY <1>15, <2>3, <3>3 DEF UpInv, Reservations
      <3> QED BY <3>1, <3>2, <3>3
    <2> QED BY <1>17, <2>1, <2>3 DEF Reservations
  <1>22. Written'
    <2> SUFFICES ASSUME NEW q \in Procs, Live(q)' PROVE WrittenBy(q)'
      BY DEF Written
    <2>1. CASE q = p
      <3>1. \A s \in Reserved(q)' : \A e \in plog'[s] : e.gen # txn'[q].gen
        BY <1>2, <1>4, <1>10, <1>19, <2>1
      <3>2. Used(q)' = {}
        BY <1>15, <2>1
      <3> QED BY <3>1, <3>2 DEF WrittenBy
    <2>2. CASE q # p
      <3>1. q \in Procs \ {p} /\ Live(q) /\ Reserved(q)' = Reserved(q) /\ Used(q)' = Used(q) /\ txn'[q] = txn[q]
        BY <1>4, <1>15, <2>2
      <3>2. WrittenBy(q)
        BY <3>1 DEF UpInv, Written
      <3>3. /\ txn'[q].gen = txn[q].gen /\ txn'[q].tid = txn[q].tid /\ txn'[q].start = txn[q].start
            /\ txn'[q].addrs = txn[q].addrs /\ txn'[q].pc = txn[q].pc
            /\ Reserved(q)' = Reserved(q) /\ Used(q)' = Used(q) /\ log' = log /\ plog' = plog
        BY <1>2, <3>1
      <3> QED BY <3>2, <3>3 DEF WrittenBy
    <2> QED BY <2>1, <2>2
  <1> QED BY <1>2, <1>15, <1>20, <1>21, <1>22 DEF UpInv, HeaderOnMedia

-----------------------------------------------------------------------------
(* The window as the cleaner goes through it.                              *)

LEMMA Passing ==
  ASSUME NEW h \in Headers, h.gen >= 1, NEW c \in Slots, c = h.tail \/ InW(h, c),
         NEW k, k = [h EXCEPT !.head = c]
  PROVE  /\ \A s \in Slots : InW(k, s) => InW(h, s)
         /\ \A u, v \in Slots : u < v /\ Side(h, u, v) /\ InW(h, u) /\ InW(h, v) /\ ~InW(k, v)
                                  => ~InW(k, u)
         /\ k.tail = h.tail /\ k.head = c /\ k.gen = h.gen /\ k \in Headers
         /\ \A s \in Slots : Lap(k, s) = Lap(h, s)
         /\ c # h.tail => InW(k, c)
         /\ \A s \in Slots : InW(k, s) /\ c <= s => Side(h, c, s)
         /\ \A s \in Slots : InW(h, s) /\ Side(h, s, c) /\ s < c => ~InW(k, s)
         /\ \A s \in Slots : InW(k, s) /\ Side(h, s, c) => c <= s
  <1>1. k.tail = h.tail /\ k.head = c /\ k.gen = h.gen /\ k \in Headers
    BY DEF Headers
  <1>2. c \in Int /\ h.head \in Int /\ h.tail \in Int /\ \A s \in Slots : s \in Int
    BY Constants DEF Headers, Slots
  <1>3. \A s \in Slots : InW(k, s) => InW(h, s)
    BY <1>1, <1>2 DEF InW
  <1>4. \A u, v \in Slots : u < v /\ Side(h, u, v) /\ InW(h, u) /\ InW(h, v) /\ ~InW(k, v)
                              => ~InW(k, u)
    BY <1>1, <1>2 DEF InW, Side
  <1>5. \A s \in Slots : Lap(k, s) = Lap(h, s)
    BY <1>1 DEF Lap
  <1>6. /\ c # h.tail => InW(k, c)
        /\ \A s \in Slots : InW(k, s) /\ c <= s => Side(h, c, s)
        /\ \A s \in Slots : InW(h, s) /\ Side(h, s, c) /\ s < c => ~InW(k, s)
        /\ \A s \in Slots : InW(k, s) /\ Side(h, s, c) => c <= s
    BY <1>1, <1>2 DEF InW, Side
  <1> QED BY <1>1, <1>3, <1>4, <1>5, <1>6

LEMMA Advance ==
  ASSUME NEW h \in Headers, h.gen >= 1, NEW c \in Slots, InW(h, c),
         NEW n, n = next_log_entry(c)
  PROVE  /\ n \in Slots
         /\ n = h.tail \/ InW(h, n)
         /\ n # h.tail => Lap(h, n) = IF n = 0 THEN next_gen_id(Lap(h, c)) ELSE Lap(h, c)
         /\ \A s \in Slots : InW([h EXCEPT !.head = n], s) <=> InW([h EXCEPT !.head = c], s) /\ s # c
         /\ n # h.tail /\ n # 0 => n = c + 1 /\ Side(h, c, n)
  <1>1. c \in Int /\ h.head \in Int /\ h.tail \in Int /\ h.tail >= 0 /\ h.tail < JSize
        /\ \A s \in Slots : s \in Int /\ 0 <= s /\ s < JSize
    BY Constants DEF Headers, Slots
  <1>2. n \in Slots /\ n = IF c + 1 = JSize THEN 0 ELSE c + 1
    BY <1>1, Constants DEF next_log_entry, Slots
  <1>3. h.gen \in 1 .. MaxGen /\ next_gen_id(prev_gen_id(h.gen)) = h.gen
    BY Constants DEF Headers, Gens, next_gen_id, prev_gen_id
  <1>4. n = h.tail \/ InW(h, n)
    BY <1>1, <1>2 DEF InW
  <1>5. n # h.tail /\ n = 0 => Lap(h, n) = next_gen_id(Lap(h, c))
    BY <1>1, <1>2, <1>3 DEF Lap, InW
  <1>6. n # h.tail /\ n # 0 => n = c + 1 /\ Side(h, c, n) /\ Lap(h, n) = Lap(h, c)
    BY <1>1, <1>2 DEF Lap, Side
  <1>7. \A s \in Slots : InW([h EXCEPT !.head = n], s) <=> InW([h EXCEPT !.head = c], s) /\ s # c
    <2> DEFINE k == [h EXCEPT !.head = c]
               m == [h EXCEPT !.head = n]
    <2>1. k.head = c /\ k.tail = h.tail /\ m.head = n /\ m.tail = h.tail
      BY DEF Headers
    <2> HIDE DEF k, m
    <2> SUFFICES ASSUME NEW s \in Slots PROVE InW(m, s) <=> InW(k, s) /\ s # c
      BY DEF k, m
    <2> QED BY <1>1, <1>2, <2>1 DEF InW
  <1> QED BY <1>2, <1>4, <1>5, <1>6, <1>7

\* Where the cleaner is.
LEMMA CleanerAt ==
  ASSUME TypeInv, UpInv
  PROVE  /\ hdr \in Headers /\ hdr.gen >= 1 /\ CleanPos \in Slots
         /\ CleanPos = hdr.tail \/ InW(hdr, CleanPos)
         /\ Ahead = [hdr EXCEPT !.head = CleanPos] /\ Ahead \in Headers
         /\ \A s \in Slots : InW(Ahead, s) <=> InW(hdr, s) /\ ~Behind(s)
         /\ \A u, v \in Slots : u < v /\ Side(hdr, u, v) /\ InW(hdr, u) /\ Behind(v) => Behind(u)
  <1>1. hdr \in Headers /\ hdr.gen >= 1 /\ CleanPos \in Slots
    BY DEF TypeInv, Shape, TypeOK, OnMedia, GenValid, CleanPos, Headers, CleanState
  <1>2. CleanPos = hdr.tail \/ InW(hdr, CleanPos)
    <2>1. CASE cl.pc = "off"
      <3>1. hdr.head \in Int /\ hdr.tail \in Int
        BY <1>1, Constants DEF Headers, Slots
      <3> QED BY <2>1, <3>1 DEF CleanPos, InW
    <2>2. CASE cl.pc # "off"
      BY <2>2 DEF CleanPos, UpInv, Cleaning
    <2> QED BY <2>1, <2>2
  <1>3. Ahead = [hdr EXCEPT !.head = CleanPos]
    BY DEF Ahead
  <1>4. /\ \A s \in Slots : InW(Ahead, s) => InW(hdr, s)
        /\ \A u, v \in Slots : u < v /\ Side(hdr, u, v) /\ InW(hdr, u) /\ InW(hdr, v) /\ ~InW(Ahead, v)
                                 => ~InW(Ahead, u)
        /\ Ahead \in Headers
    BY <1>1, <1>2, <1>3, Passing
  <1> QED BY <1>1, <1>2, <1>3, <1>4 DEF Behind

\* The slots of a live transaction.
LEMMA LiveSlots ==
  ASSUME TypeInv, UpInv, NEW p \in Procs, Live(p)
  PROVE  /\ \A s \in Reserved(p) : s \in Slots /\ InW(hdr, s) /\ ~Behind(s) /\ Lap(hdr, s) = txn[p].gen
         /\ \A s \in Used(p) : s \in Reserved(p) /\ s < NextSlot(p)
         /\ \A s \in Reserved(p) \ Used(p) : \A e : ~Cand(hdr, s, e)
         /\ NextSlot(p) \in Reserved(p) \ Used(p)
         /\ \A s \in Reserved(p) : s < NextSlot(p) => s \in Used(p)
         /\ \A u, v \in Reserved(p) : Side(hdr, u, v)
         /\ txn[p] \in Transactions /\ txn[p].start \in Nat /\ txn[p].used \in Nat /\ txn[p].n \in Nat
         /\ txn[p].used < txn[p].n
  <1>1. /\ txn[p] \in Transactions /\ txn[p].start \in Nat /\ txn[p].used \in Nat /\ txn[p].n \in Nat
        /\ txn[p].used < txn[p].n /\ txn[p].start + txn[p].n < JSize
    BY TxnShape, Constants DEF TypeInv, TypeOK, Locking, Slots
  <1>2. /\ \A s \in Used(p) : s \in Reserved(p) /\ s < NextSlot(p)
        /\ NextSlot(p) \in Reserved(p) \ Used(p)
        /\ \A s \in Reserved(p) : s < NextSlot(p) => s \in Used(p)
        /\ Reserved(p) \subseteq Slots
    BY <1>1, Constants DEF Used, Reserved, NextSlot, Slots
  <1>3. \A s \in Reserved(p) : InW(Ahead, s) /\ Lap(hdr, s) = txn[p].gen
    BY DEF UpInv, Reservations
  <1>4. \A s \in Reserved(p) : s \in Slots /\ InW(hdr, s) /\ ~Behind(s) /\ Lap(hdr, s) = txn[p].gen
    BY <1>2, <1>3, CleanerAt
  <1>5. \A s \in Reserved(p) \ Used(p) : \A e : ~Cand(hdr, s, e)
    BY <1>3 DEF UpInv, Written, WrittenBy, Cand
  <1>6. \A u, v \in Reserved(p) : Side(hdr, u, v)
    BY <1>4, CleanerAt, Laps
  <1> QED BY <1>1, <1>2, <1>4, <1>5, <1>6

-----------------------------------------------------------------------------
(* A transaction writes an entry.                                          *)

\* Thread p, with a live transaction, writes entry e0 into its next slot.
Writes(p, e0) ==
  /\ Live(p) /\ e0 \in Entries
  /\ e0.gen = txn[p].gen /\ e0.tid = txn[p].tid /\ e0.start = (txn[p].used = 0)
  /\ \A s \in Slots : s # NextSlot(p) => log'[s] = log[s] /\ plog'[s] = plog[s]
  /\ log'[NextSlot(p)] = e0 /\ e0 \in plog'[NextSlot(p)]
  /\ \A e \in plog'[NextSlot(p)] : e \in plog[NextSlot(p)] \/ e = e0
  /\ UNCHANGED <<hdr, phdr, cl, ntid, mutex>>
  /\ \A q \in Procs \ {p} : txn'[q] = txn[q]

\* Two entries of an ended or a swept transaction around a reserved slot that was
\* not written yet.
LEMMA NoneAround ==
  ASSUME TypeInv, UpInv, NEW p \in Procs, Live(p), NEW x, x = NextSlot(p),
         NEW u \in Slots, NEW v \in Slots, NEW e \in plog[u], NEW f \in plog[v],
         u < x, x < v, Side(hdr, u, v), Cand(hdr, u, e), Cand(hdr, v, f)
  PROVE  e.tid # f.tid
  <1> SUFFICES ASSUME e.tid = f.tid PROVE FALSE
    OBVIOUS
  <1>1. /\ x \in Slots /\ InW(hdr, x) /\ ~Behind(x) /\ x \in Reserved(p) /\ x \notin Used(p)
        /\ \A d : ~Cand(hdr, x, d)
    BY LiveSlots
  <1>2. u \in Int /\ v \in Int /\ x \in Int /\ \A w \in Slots : w \in Int
    BY <1>1, Constants DEF Slots
  <1>3. Side(hdr, u, x) /\ Side(hdr, x, v)
    <2>1. hdr.tail \in Int
      BY CleanerAt, Constants DEF Headers, Slots
    <2> QED BY <1>2, <2>1 DEF Side
  <1>4. ASSUME NEW q \in Procs, Live(q), u \in Used(q) \/ v \in Used(q)
        PROVE  FALSE
    <2>1. e.gen = Lap(hdr, u) /\ f.gen = Lap(hdr, v)
      BY DEF Cand
    <2>2. txn[q].tid = e.tid
      <3>1. CASE u \in Used(q)
        <4>1. e = log[u] /\ log[u].tid = txn[q].tid
          BY <1>4, <2>1, <3>1, LiveSlots DEF UpInv, Written, WrittenBy
        <4> QED BY <4>1
      <3>2. CASE v \in Used(q)
        <4>1. f = log[v] /\ log[v].tid = txn[q].tid
          BY <1>4, <2>1, <3>2, LiveSlots DEF UpInv, Written, WrittenBy
        <4> QED BY <4>1
      <3> QED BY <1>4, <3>1, <3>2
    <2>3. txn[q].pc # "idle"
      BY <1>4 DEF Live
    <2>4. u \in Used(q) /\ v \in Used(q)
      BY <2>2, <2>3 DEF UpInv, Tids
    <2>5. x \in Used(q)
      BY <1>2, <1>4, <2>4, LiveSlots DEF Used
    <2>6. q = p
      BY <1>1, <1>4, <2>5, LiveSlots DEF UpInv, Reservations
    <2> QED BY <1>1, <2>5, <2>6
  <1>5. ~Swept(u) /\ ~Swept(v)
    <2>1. ~Behind(v)
      <3>1. Behind(v) => Behind(x)
        BY <1>1, <1>3, CleanerAt
      <3> QED BY <1>1, <3>1
    <2>2. ~Behind(u)
      BY <2>1 DEF UpInv, Cleaning
    <2> QED BY <2>1, <2>2 DEF Swept
  <1>6. Covered(hdr, u)
    BY <1>4, <1>5 DEF UpInv, Owned
  <1>7. PICK st \in Slots, r \in Slots : /\ st <= u /\ u <= r /\ Chain(hdr, st, r)
                                         /\ log[st].start /\ Ends(log[r])
    BY <1>6 DEF Covered
  <1>8. /\ u \in st .. r /\ r \in st .. r /\ Match(hdr, u) /\ Match(hdr, r)
        /\ log[u].tid = log[r].tid /\ log[u] = e
    BY <1>2, <1>7 DEF Chain
  <1>9. CASE x <= r
    <2>1. x \in st .. r /\ Match(hdr, x) /\ log[x] \in plog[x]
      BY <1>2, <1>7, <1>9 DEF Chain
    <2> QED BY <1>1, <2>1 DEF Match, Cand
  <1>10. CASE ~(x <= r)
    <2>1. r < v /\ Side(hdr, r, v)
      <3>1. Side(hdr, st, r) /\ hdr.tail \in Int
        BY <1>7, CleanerAt, Constants DEF Chain, Headers, Slots
      <3>2. st \in Int /\ r \in Int /\ u \in Int /\ v \in Int /\ x \in Int
        BY <1>2
      <3>3. st <= u /\ u <= r /\ r < x /\ x < v
        BY <1>7, <1>10, <3>2
      <3>4. r < v /\ (u < hdr.tail <=> v < hdr.tail) /\ (st < hdr.tail <=> r < hdr.tail)
        BY <3>1, <3>2, <3>3 DEF Side
      <3>5. r < hdr.tail <=> v < hdr.tail
        <4> DEFINE tl == hdr.tail
        <4>1. tl \in Int /\ (u < tl <=> v < tl) /\ (st < tl <=> r < tl)
          BY <3>1, <3>4
        <4> HIDE DEF tl
        <4>2. r < tl <=> v < tl
          BY <3>2, <3>3, <4>1
        <4> QED BY <4>2 DEF tl
      <3> QED BY <3>4, <3>5 DEF Side
    <2>2. log[r] \in plog[r] /\ Cand(hdr, r, log[r]) /\ log[r].tid = f.tid
      BY <1>8 DEF TypeInv, OnMedia, Match, Cand
    <2> QED BY <1>7, <2>1, <2>2 DEF UpInv, Apart, Ordered
  <1> QED BY <1>9, <1>10

LEMMA EntryWritten ==
  ASSUME TypeInv, UpInv, NEW p \in Procs, NEW e0, Writes(p, e0)
  PROVE  /\ \A s \in Slots : \A e : Cand(hdr, s, e)' <=>
               (Cand(hdr, s, e) /\ e \in plog'[s]) \/ (s = NextSlot(p) /\ e = e0)
         /\ (\A h \in phdr : Bounded(h))' /\ Apart(hdr)'
         /\ Cleaning' /\ Ahead' = Ahead
         /\ \A s \in Slots : Covered(hdr, s) => Covered(hdr, s)'
         /\ \A s \in Slots : Swept(s) => Swept(s)'
         /\ NextSlot(p) \in Slots
  <1> DEFINE x == NextSlot(p)
  <1>0. Live(p)
    BY DEF Writes
  <1>1. /\ x \in Slots /\ InW(hdr, x) /\ ~Behind(x) /\ x \in Reserved(p) /\ x \notin Used(p)
        /\ \A d : ~Cand(hdr, x, d)
        /\ Lap(hdr, x) = txn[p].gen
    BY <1>0, LiveSlots
  <1>2. /\ e0.gen = txn[p].gen /\ e0.tid = txn[p].tid /\ e0.start = (txn[p].used = 0)
        /\ \A s \in Slots : s # x => log'[s] = log[s] /\ plog'[s] = plog[s]
        /\ log'[x] = e0 /\ e0 \in plog'[x]
        /\ \A e \in plog'[x] : e \in plog[x] \/ e = e0
        /\ UNCHANGED <<hdr, phdr, cl, ntid, mutex>>
    BY DEF Writes
  <1>3. \A u, v \in Slots : u \in Int /\ v \in Int
    BY Constants DEF Slots
  <1> HIDE DEF x
  <1>4. \A s \in Slots : \A e : Cand(hdr, s, e)' <=> (Cand(hdr, s, e) /\ e \in plog'[s]) \/ (s = x /\ e = e0)
    BY <1>1, <1>2 DEF Cand
  <1>5. \A s \in Slots : \A e : Cand(hdr, s, e)' => Cand(hdr, s, e) \/ (s = x /\ e = e0)
    BY <1>4
  <1>6. (\A h \in phdr : Bounded(h))'
    <2> SUFFICES ASSUME NEW h \in phdr, NEW s \in Slots, NEW e \in plog'[s]
                 PROVE  e.gen <= Top(h, s)
      BY <1>2 DEF Bounded
    <2>1. CASE e \in plog[s]
      BY <2>1 DEF UpInv, Bounded
    <2>2. CASE e \notin plog[s]
      <3>1. s = x /\ e = e0 /\ e.gen = txn[p].gen /\ e.gen \in Int
        <4>1. txn[p].gen \in Int
          BY <1>0, LiveSlots, TxnShape, Constants DEF Gens
        <4> QED BY <1>2, <2>2, <4>1
      <3>2. CASE h = hdr
        BY <1>1, <3>1, <3>2 DEF Top
      <3>3. CASE h # hdr
        <4>1. /\ hdr.tail = 0 /\ h.head = hdr.head /\ h.head <= h.tail /\ h.gen = prev_gen_id(hdr.gen)
              /\ x < h.tail
          BY <1>1, <3>3 DEF UpInv, HeaderOnMedia, Writes
        <4>2. h.head <= x /\ Lap(hdr, x) = prev_gen_id(hdr.gen)
          <5>1. hdr.head \in Int /\ hdr.head >= 0
            BY CleanerAt, Constants DEF Headers, Slots
          <5>2. x >= 0 /\ x \in Int
            BY <1>1, Constants DEF Slots
          <5> QED BY <1>1, <4>1, <5>1, <5>2 DEF InW, Lap
        <4>3. Top(h, x) = h.gen
          BY <4>1, <4>2 DEF Top, Lap, InW
        <4> QED BY <1>1, <3>1, <4>1, <4>2, <4>3
      <3> QED BY <3>2, <3>3
    <2> QED BY <2>1, <2>2
  <1>7. \A s \in Slots : \A e : Cand(hdr, s, e) /\ e.tid = txn[p].tid
                   => /\ s < x /\ s \in Used(p) /\ e = log[s] /\ e.kind = "data" /\ txn[p].used # 0
    <2> SUFFICES ASSUME NEW s \in Slots, NEW e, Cand(hdr, s, e), e.tid = txn[p].tid
                 PROVE  s < x /\ s \in Used(p) /\ e = log[s] /\ e.kind = "data" /\ txn[p].used # 0
      OBVIOUS
    <2>1. s \in Used(p)
      BY DEF UpInv, Tids, Cand, Writes, Live
    <2>2. s < x /\ txn[p].used # 0
      <3>1. txn[p].start \in Nat /\ txn[p].used \in Nat
        BY LiveSlots DEF Writes
      <3> QED BY <2>1, <3>1 DEF Used, NextSlot, x
    <2>3. e = log[s] /\ e.kind = "data"
      BY <2>1, LiveSlots DEF UpInv, Written, WrittenBy, Cand, Writes
    <2> QED BY <2>1, <2>2, <2>3
  <1>8. Apart(hdr)'
    <2>1. Single(hdr)'
      <3> SUFFICES ASSUME NEW s \in Slots, NEW e \in plog'[s], NEW f \in plog'[s],
                          Cand(hdr, s, e)', Cand(hdr, s, f)'
                   PROVE  e = f
        BY <1>2 DEF Single
      <3>1. CASE s = x
        BY <1>1, <1>5, <3>1
      <3>2. CASE s # x
        <4>1. Cand(hdr, s, e) /\ Cand(hdr, s, f) /\ e \in plog[s] /\ f \in plog[s]
          BY <1>2, <1>5, <3>2
        <4> QED BY <4>1 DEF UpInv, Apart, Single
      <3> QED BY <3>1, <3>2
    <2>2. Convex(hdr)'
      <3> SUFFICES ASSUME NEW u \in Slots, NEW w \in Slots, NEW v \in Slots,
                          NEW e \in plog'[u], NEW d \in plog'[w], NEW f \in plog'[v],
                          u < w /\ w < v /\ Side(hdr, u, v),
                          Cand(hdr, u, e)', Cand(hdr, w, d)', Cand(hdr, v, f)', e.tid = f.tid
                   PROVE  d.tid = e.tid
        BY <1>2 DEF Convex
      <3>1. u \in Int /\ v \in Int /\ w \in Int /\ x \in Int
        BY <1>1, <1>3
      <3>2. CASE v = x
        <4>1. f = e0 /\ u # x /\ w # x
          BY <1>1, <1>5, <3>1, <3>2
        <4>2. Cand(hdr, u, e) /\ Cand(hdr, w, d) /\ e.tid = txn[p].tid
          BY <1>2, <1>5, <4>1
        <4>3. u \in Used(p)
          BY <1>7, <4>2
        <4>4. w \in Used(p)
          <5>1. txn[p].start \in Int /\ txn[p].used \in Int
            BY <1>0, LiveSlots
          <5> QED BY <3>1, <3>2, <4>3, <5>1 DEF Used, NextSlot, x
        <4>5. log[w].tid = txn[p].tid /\ d = log[w]
          BY <4>2, <4>4, LiveSlots DEF UpInv, Written, WrittenBy, Cand, Writes
        <4> QED BY <4>2, <4>5
      <3>3. CASE u = x
        <4>1. e = e0 /\ v # x
          BY <1>1, <1>5, <3>1, <3>3
        <4>2. Cand(hdr, v, f) /\ f.tid = txn[p].tid
          BY <1>2, <1>5, <4>1
        <4> QED BY <1>7, <3>1, <3>3, <4>2
      <3>4. CASE w = x
        <4>1. u # x /\ v # x
          BY <3>1, <3>4
        <4>2. Cand(hdr, u, e) /\ Cand(hdr, v, f) /\ e \in plog[u] /\ f \in plog[v]
          BY <1>2, <1>5, <4>1
        <4> QED BY <3>4, <4>2, NoneAround DEF Writes, x
      <3>5. CASE u # x /\ v # x /\ w # x
        <4>1. /\ Cand(hdr, u, e) /\ Cand(hdr, v, f) /\ Cand(hdr, w, d)
              /\ e \in plog[u] /\ f \in plog[v] /\ d \in plog[w]
          BY <1>2, <1>5, <3>5
        <4> QED BY <4>1 DEF UpInv, Apart, Convex
      <3> QED BY <3>2, <3>3, <3>4, <3>5
    <2>3. Ordered(hdr)'
      <3> SUFFICES ASSUME NEW u \in Slots, NEW v \in Slots, NEW e \in plog'[u], NEW f \in plog'[v],
                          u < v /\ Side(hdr, u, v), Cand(hdr, u, e)', Cand(hdr, v, f)', e.tid = f.tid
                   PROVE  ~f.start /\ ~Ends(e)
        BY <1>2 DEF Ordered
      <3>1. u \in Int /\ v \in Int /\ x \in Int
        BY <1>1, <1>3
      <3>2. CASE v = x
        <4>1. f = e0 /\ u # x
          BY <1>1, <1>5, <3>1, <3>2
        <4>2. Cand(hdr, u, e) /\ e.tid = txn[p].tid
          BY <1>2, <1>5, <4>1
        <4>3. e.kind = "data" /\ txn[p].used # 0
          BY <1>7, <4>2
        <4> QED BY <1>2, <4>1, <4>3 DEF Ends
      <3>3. CASE u = x
        <4>1. e = e0 /\ v # x
          BY <1>1, <1>5, <3>1, <3>3
        <4>2. Cand(hdr, v, f) /\ f.tid = txn[p].tid
          BY <1>2, <1>5, <4>1
        <4> QED BY <1>7, <3>1, <3>3, <4>2
      <3>4. CASE u # x /\ v # x
        <4>1. /\ Cand(hdr, u, e) /\ Cand(hdr, v, f) /\ e \in plog[u] /\ f \in plog[v]
          BY <1>2, <1>5, <3>4
        <4> QED BY <4>1 DEF UpInv, Apart, Ordered
      <3> QED BY <3>2, <3>3, <3>4
    <2> QED BY <2>1, <2>2, <2>3 DEF Apart
  <1>9. Ahead' = Ahead /\ \A s : Behind(s)' <=> Behind(s)
    BY <1>2 DEF Ahead, CleanPos, Behind
  <1>10. Cleaning'
    <2>1. \A s \in Slots : Behind(s) => log'[s] = log[s]
      BY <1>1, <1>2
    <2>2. ASSUME NEW u \in Slots, NEW v \in Slots, NEW e \in plog'[u], NEW f \in plog'[v],
                 Cand(hdr, u, e)', Cand(hdr, v, f)', Side(hdr, u, v), Behind(u), ~Behind(v)
          PROVE  e.tid # f.tid
      <3>1. Cand(hdr, u, e) /\ e \in plog[u]
        BY <1>1, <1>2, <1>5, <2>2
      <3>2. CASE v = x
        <4>1. f.tid = txn[p].tid
          BY <1>1, <1>2, <1>5, <2>2, <3>2
        <4>2. u \notin Used(p)
          BY <2>2, LiveSlots DEF Writes
        <4> QED BY <1>7, <3>1, <4>1, <4>2
      <3>3. CASE v # x
        <4>1. Cand(hdr, v, f) /\ f \in plog[v]
          BY <1>2, <1>5, <2>2, <3>3
        <4> QED BY <2>2, <3>1, <4>1 DEF UpInv, Cleaning
      <3> QED BY <3>2, <3>3
    <2>3. mutex' # "umount"
      BY <1>2 DEF TypeInv, Locking, Writes, Live
    <2> QED BY <1>2, <1>9, <2>1, <2>2, <2>3 DEF UpInv, Cleaning
  <1>11. \A s \in Slots : Covered(hdr, s) => Covered(hdr, s)'
    <2>1. ~Match(hdr, x)
      BY <1>1 DEF Match, Cand, TypeInv, OnMedia
    <2>2. \A s \in Slots : plog[s] = {log[s]} /\ Match(hdr, s) => log'[s] = log[s] /\ plog'[s] = plog[s]
      BY <1>2, <2>1
    <2> PICK h : h = hdr
      OBVIOUS
    <2>3. \A s \in Slots : Covered(h, s) => Covered(h, s)'
      BY <2>2, StayCovered
    <2>4. \A s : Covered(h, s)' <=> Covered(hdr, s)'
      BY <1>2 DEF Covered, Chain, Match
    <2> QED BY <2>3, <2>4
  <1>12. \A s \in Slots : Swept(s) => Swept(s)'
    BY <1>1, <1>2, <1>9 DEF Swept
  <1> QED BY <1>1, <1>4, <1>6, <1>8, <1>9, <1>10, <1>11, <1>12 DEF x

\* A transaction that another one's step leaves alone.
LEMMA SameWritten ==
  ASSUME NEW q \in Procs, WrittenBy(q), txn'[q] = txn[q],
         \A s \in Reserved(q) \cup Used(q) : log'[s] = log[s] /\ plog'[s] = plog[s]
  PROVE  WrittenBy(q)'
  <1>1. /\ txn'[q].gen = txn[q].gen /\ txn'[q].tid = txn[q].tid /\ txn'[q].start = txn[q].start
        /\ txn'[q].addrs = txn[q].addrs /\ txn'[q].pc = txn[q].pc
        /\ Reserved(q)' = Reserved(q) /\ Used(q)' = Used(q)
    BY DEF Reserved, Used
  <1> QED BY <1>1 DEF WrittenBy

LEMMA SameHeld ==
  ASSUME NEW q \in Procs, HeldWords(q), txn'[q] = txn[q], txn[q].start \in Nat, txn[q].used \in Nat,
         \A s \in Used(q) : log'[s] = log[s] /\ plog'[s] = plog[s] /\ log[s].addr \in txn[q].addrs,
         \A a \in txn[q].addrs : stable'[a] = stable[a] /\ meta'[a] = meta[a] /\ pmeta'[a] = pmeta[a]
  PROVE  HeldWords(q)' /\ \A a, m : Logged(q, a, m) => Logged(q, a, m)'
  <1>1. txn'[q].addrs = txn[q].addrs /\ txn'[q].pc = txn[q].pc /\ Used(q)' = Used(q)
        /\ txn'[q].start = txn[q].start
    BY DEF Used
  <1>2. ASSUME NEW a, NEW m, Logged(q, a, m)
        PROVE  Logged(q, a, m)'
    <2>1. m \in txn[q].start .. txn[q].start + txn[q].used - 1
      BY <1>2 DEF Logged, Used
    <2>2. \A w \in txn[q].start .. m : w \in Used(q)
      BY <2>1 DEF Used
    <2> QED BY <1>1, <1>2, <2>2 DEF Logged
  <1>3. ASSUME NEW u \in Used(q)
        PROVE  \/ log'[u].old = stable'[log'[u].addr]
               \/ \E m \in Slots : m < u /\ Logged(q, log[u].addr, m)'
    <2>1. log'[u] = log[u] /\ log[u].addr \in txn[q].addrs /\ stable'[log[u].addr] = stable[log[u].addr]
      OBVIOUS
    <2>2. \/ log[u].old = stable[log[u].addr]
          \/ \E m \in Slots : m < u /\ Logged(q, log[u].addr, m)
      BY DEF HeldWords
    <2>3. ASSUME NEW m \in Slots, m < u, Logged(q, log[u].addr, m)
          PROVE  Logged(q, log[u].addr, m)'
      <3>1. PICK a : a = log[u].addr
        OBVIOUS
      <3>2. Logged(q, a, m)'
        BY <1>2, <2>3, <3>1
      <3> QED BY <2>1, <3>1, <3>2 DEF Logged
    <2> QED BY <2>1, <2>2, <2>3
  <1> QED BY <1>1, <1>2, <1>3 DEF HeldWords

\* What goes for the other transactions when p has written an entry.
LEMMA OthersWritten ==
  ASSUME TypeInv, UpInv, NEW p \in Procs, NEW e0, Writes(p, e0), NEW q \in Procs, q # p, Live(q)
  PROVE  /\ WrittenBy(q)' /\ Reserved(q)' = Reserved(q) /\ Used(q)' = Used(q) /\ Live(q)'
         /\ \A s \in Used(q) : /\ s \in Slots /\ log'[s] = log[s] /\ plog'[s] = plog[s]
                               /\ log[s].addr \in txn[q].addrs
         /\ txn[q].start \in Nat /\ txn[q].used \in Nat
  <1>1. txn'[q] = txn[q]
    BY DEF Writes
  <1>2. Live(p) /\ NextSlot(p) \in Reserved(p)
    BY LiveSlots DEF Writes
  <1>3. \A s \in Reserved(q) \cup Used(q) : s \in Slots /\ s # NextSlot(p)
    BY <1>2, LiveSlots DEF UpInv, Reservations
  <1>4. \A s \in Reserved(q) \cup Used(q) : s \in Slots /\ log'[s] = log[s] /\ plog'[s] = plog[s]
    BY <1>3 DEF Writes
  <1>5. WrittenBy(q)
    BY DEF UpInv, Written
  <1>6. WrittenBy(q)'
    BY <1>1, <1>4, <1>5, SameWritten
  <1>7. \A s \in Used(q) : log[s].addr \in txn[q].addrs
    BY <1>5 DEF WrittenBy
  <1>8. Reserved(q)' = Reserved(q) /\ Used(q)' = Used(q) /\ Live(q)'
    BY <1>1 DEF Reserved, Used, Live
  <1> QED BY <1>4, <1>6, <1>7, <1>8, LiveSlots

LEMMA UpAddLogentry ==
  ASSUME TypeInv, TypeInv', UpInv, NEW p \in Procs, NEW a \in Addrs, AddLogentry(p, a)
  PROVE  UpInv'
  <1> USE DEF hdrVars, logVars, dataVars, bootVars, Reserving
  <1>1. TypeOK /\ OnMedia /\ GenValid /\ Locking /\ txn \in [Procs -> Transactions]
    BY DEF TypeInv, Shape, TypeOK
  <1>2. Live(p) /\ txn[p].pc \in {"run", "logging"}
    BY DEF AddLogentry, Live
  <1> DEFINE x == NextSlot(p)
             e0 == Record(p, "data", a, meta[a])
  <1>3. /\ e0.gen = txn[p].gen /\ e0.tid = txn[p].tid /\ e0.start = (txn[p].used = 0)
        /\ e0.kind = "data" /\ e0.addr = a /\ e0.old = meta[a]
    BY DEF Record
  <1>4. e0 \in Entries
    BY <1>1, TxnShape DEF Record, Entries, TypeOK
  <1>5. x \in Reserved(p) \ Used(p) /\ x \in Slots /\ Reserved(p) \subseteq Slots /\ Used(p) \subseteq Reserved(p)
    BY <1>2, LiveSlots
  <1> HIDE DEF x, e0
  <1>6. /\ log' = [log EXCEPT ![x] = e0] /\ plog' = [plog EXCEPT ![x] = @ \cup {log'[x]}]
        /\ UNCHANGED <<hdr, phdr, meta, pmeta, stable, cl, ntid, mutex>>
        /\ \A q \in Procs \ {p} : a \notin txn[q].addrs
    BY DEF AddLogentry, x, e0
  <1>7. /\ log'[x] = e0 /\ plog'[x] = plog[x] \cup {e0}
        /\ \A s \in Slots : s # x => log'[s] = log[s] /\ plog'[s] = plog[s]
    BY <1>1, <1>5, <1>6 DEF TypeOK
  <1>8. /\ txn'[p].pc = "logging" /\ txn'[p].used = txn[p].used + 1 /\ txn'[p].gen = txn[p].gen
        /\ txn'[p].n = txn[p].n /\ txn'[p].start = txn[p].start /\ txn'[p].tid = txn[p].tid
        /\ txn'[p].addrs = txn[p].addrs \cup {a}
        /\ \A q \in Procs \ {p} : txn'[q] = txn[q]
    <2>1. txn' = [txn EXCEPT ![p].pc = "logging", ![p].used = txn[p].used + 1,
                            ![p].addrs = txn[p].addrs \cup {a}]
      BY <1>1 DEF AddLogentry
    <2> QED BY <1>1, <2>1, TxnShape
  <1>9. Writes(p, e0)
    BY <1>2, <1>3, <1>4, <1>6, <1>7, <1>8 DEF Writes, x
  <1>10. /\ \A s \in Slots : \A e : Cand(hdr, s, e)' => Cand(hdr, s, e) \/ (s = x /\ e = e0)
         /\ (\A h \in phdr : Bounded(h))' /\ Apart(hdr)'
         /\ Cleaning' /\ Ahead' = Ahead
         /\ \A s \in Slots : Covered(hdr, s) => Covered(hdr, s)'
         /\ \A s \in Slots : Swept(s) => Swept(s)'
    BY <1>9, EntryWritten DEF x
  <1>11. \A q \in Procs : /\ Live(q)' <=> Live(q)
                          /\ Reserved(q)' = Reserved(q) /\ txn'[q].gen = txn[q].gen
                          /\ txn'[q].tid = txn[q].tid
                          /\ txn'[q].pc = "idle" <=> txn[q].pc = "idle"
    <2> SUFFICES ASSUME NEW q \in Procs
                 PROVE  /\ Live(q)' <=> Live(q)
                        /\ Reserved(q)' = Reserved(q) /\ txn'[q].gen = txn[q].gen
                        /\ txn'[q].tid = txn[q].tid
                        /\ txn'[q].pc = "idle" <=> txn[q].pc = "idle"
      OBVIOUS
    <2>1. CASE q = p
      BY <1>2, <1>8, <2>1 DEF Live, Reserved
    <2>2. CASE q # p
      BY <1>8, <2>2 DEF Live, Reserved
    <2> QED BY <2>1, <2>2
  <1>12. txn[p].start \in Nat /\ txn[p].used \in Nat
    BY <1>2, LiveSlots
  <1>13. Used(p)' = Used(p) \cup {x}
    BY <1>8, <1>12 DEF Used, x, NextSlot
  <1>14. \A q \in Procs : q # p /\ Live(q) =>
           /\ WrittenBy(q)' /\ Used(q)' = Used(q)
           /\ \A s \in Used(q) : /\ s \in Slots /\ log'[s] = log[s] /\ plog'[s] = plog[s]
                                 /\ log[s].addr \in txn[q].addrs
           /\ txn[q].start \in Nat /\ txn[q].used \in Nat
    BY <1>9, OthersWritten
  <1>15. HeaderOnMedia' /\ Reservations'
    BY <1>6, <1>10, <1>11, SameReservations
  <1>16. Tids'
    <2>1. ASSUME NEW s \in Slots, NEW e \in plog'[s], Cand(hdr, s, e)'
          PROVE  /\ e.tid < ntid
                 /\ \A q \in Procs : txn[q].pc # "idle" /\ txn[q].tid = e.tid
                                       => Live(q) /\ s \in Used(q)'
      <3>1. CASE Cand(hdr, s, e)
        <4>1. /\ e.tid < ntid
              /\ \A q \in Procs : txn[q].pc # "idle" /\ txn[q].tid = e.tid
                                    => Live(q) /\ s \in Used(q)
          BY <3>1 DEF UpInv, Tids, Cand
        <4>2. \A q \in Procs : Live(q) => Used(q) \subseteq Used(q)'
          BY <1>13, <1>14
        <4> QED BY <4>1, <4>2
      <3>2. CASE s = x /\ e = e0
        <4>1. e.tid = txn[p].tid /\ txn[p].pc # "idle"
          BY <1>2, <1>3, <3>2 DEF Live
        <4>2. e.tid < ntid /\ \A q \in Procs : txn[q].pc # "idle" /\ txn[q].tid = e.tid => q = p
          BY <4>1 DEF UpInv, Tids
        <4> QED BY <1>2, <1>13, <3>2, <4>2
      <3> QED BY <1>10, <2>1, <3>1, <3>2
    <2>2. /\ \A q \in Procs : txn'[q].pc # "idle" => txn'[q].tid < ntid
          /\ \A q, r \in Procs : txn'[q].pc # "idle" /\ txn'[r].pc # "idle" /\ q # r
                                   => txn'[q].tid # txn'[r].tid
      BY <1>11 DEF UpInv, Tids
    <2>3. \A q \in Procs : txn'[q].pc # "idle" => txn[q].pc # "idle"
      BY <1>11
    <2> QED BY <1>6, <1>11, <2>1, <2>2, <2>3 DEF Tids
  <1>17. WrittenBy(p)
    BY <1>2 DEF UpInv, Written
  <1>18. Written'
    <2>1. WrittenBy(p)'
      <3>1. \A s \in Reserved(p) \ Used(p)' : \A e \in plog'[s] : e.gen # txn[p].gen
        BY <1>5, <1>7, <1>13, <1>17 DEF WrittenBy
      <3>2. ASSUME NEW s \in Used(p)'
            PROVE  /\ log'[s].gen = txn[p].gen /\ log'[s].tid = txn[p].tid
                   /\ log'[s].start = (s = txn[p].start) /\ log'[s].kind = "data"
                   /\ log'[s].addr \in txn'[p].addrs
                   /\ \A e \in plog'[s] : e.gen = txn[p].gen => e = log'[s]
        <4>1. CASE s = x
          <5>1. (s = txn[p].start) <=> (txn[p].used = 0)
            BY <1>12, <4>1 DEF x, NextSlot
          <5>2. \A e \in plog[x] : e.gen # txn[p].gen
            BY <1>5, <1>17 DEF WrittenBy
          <5>3. (txn[p].used = 0) = (s = txn[p].start)
            BY <5>1
          <5> QED BY <1>3, <1>7, <1>8, <4>1, <5>2, <5>3
        <4>2. CASE s # x
          <5>1. s \in Used(p) /\ log'[s] = log[s] /\ plog'[s] = plog[s]
            BY <1>5, <1>7, <1>13, <4>2
          <5> QED BY <1>8, <1>17, <5>1 DEF WrittenBy
        <4> QED BY <4>1, <4>2
      <3> QED BY <1>8, <1>11, <3>1, <3>2 DEF WrittenBy
    <2> QED BY <1>11, <1>14, <2>1 DEF Written
  <1>19. Owned'
    <2> SUFFICES ASSUME NEW s \in Slots, NEW e \in plog'[s], Cand(hdr, s, e)'
                 PROVE  \/ \E q \in Procs : Live(q)' /\ s \in Used(q)'
                        \/ Covered(hdr, s)'
                        \/ Swept(s)'
      BY DEF Owned
    <2>1. CASE Cand(hdr, s, e)
      <3>1. \/ \E q \in Procs : Live(q) /\ s \in Used(q)
            \/ Covered(hdr, s)
            \/ Swept(s)
        BY <2>1 DEF UpInv, Owned, Cand
      <3>2. \A q \in Procs : Live(q) => Used(q) \subseteq Used(q)'
        BY <1>13, <1>14
      <3> QED BY <1>10, <1>11, <3>1, <3>2
    <2>2. CASE s = x
      BY <1>2, <1>11, <1>13, <2>2
    <2> QED BY <1>10, <2>1, <2>2
  <1>20. Words'
    <2>1. \A q \in Procs \ {p} : Live(q) => HeldWords(q)' /\ \A b, m : Logged(q, b, m) => Logged(q, b, m)'
      <3> SUFFICES ASSUME NEW q \in Procs \ {p}, Live(q)
                   PROVE  HeldWords(q)' /\ \A b, m : Logged(q, b, m) => Logged(q, b, m)'
        OBVIOUS
      <3>1. HeldWords(q) /\ txn'[q] = txn[q]
        BY <1>8 DEF UpInv, Words
      <3>2. /\ txn[q].start \in Nat /\ txn[q].used \in Nat
            /\ \A s \in Used(q) : log'[s] = log[s] /\ plog'[s] = plog[s] /\ log[s].addr \in txn[q].addrs
        BY <1>14
      <3>3. \A b \in txn[q].addrs : stable'[b] = stable[b] /\ meta'[b] = meta[b] /\ pmeta'[b] = pmeta[b]
        BY <1>6
      <3> QED BY <3>1, <3>2, <3>3, SameHeld
    <2>2. ASSUME NEW b, NEW m, Logged(p, b, m) PROVE Logged(p, b, m)'
      <3>1. m \in Used(p) /\ log[m].addr = b /\ \A w \in txn[p].start .. m : plog[w] = {log[w]}
        BY <2>2 DEF Logged
      <3>2. \A w \in txn[p].start .. m : w \in Used(p)
        BY <1>12, <3>1 DEF Used
      <3>3. \A w \in Used(p) : w \in Slots /\ w # x
        BY <1>5
      <3> QED BY <1>7, <1>8, <1>13, <3>1, <3>2, <3>3 DEF Logged
    <2>3. \A b \in Addrs : Dirty(b)' => DirtyLogged(b)'
      <3> SUFFICES ASSUME NEW b \in Addrs, Dirty(b)' PROVE DirtyLogged(b)'
        OBVIOUS
      <3>1. Dirty(b)
        BY <1>6 DEF Dirty
      <3>2. PICK q \in Procs, m \in Slots : Live(q) /\ Logged(q, b, m)
        BY <3>1 DEF UpInv, Words, DirtyLogged
      <3>3. Logged(q, b, m)'
        <4>1. CASE q = p
          BY <2>2, <3>2, <4>1
        <4>2. CASE q # p
          BY <2>1, <3>2, <4>2
        <4> QED BY <4>1, <4>2
      <3> QED BY <1>11, <3>2, <3>3 DEF DirtyLogged
    <2>4. \A q, r \in Procs : q # r => txn'[q].addrs \cap txn'[r].addrs = {}
      <3> SUFFICES ASSUME NEW q \in Procs, NEW r \in Procs, q # r
                   PROVE  txn'[q].addrs \cap txn'[r].addrs = {}
        OBVIOUS
      <3>1. txn[q].addrs \cap txn[r].addrs = {}
        BY DEF UpInv, Words
      <3>2. /\ q # p => txn'[q].addrs = txn[q].addrs /\ a \notin txn[q].addrs
            /\ r # p => txn'[r].addrs = txn[r].addrs /\ a \notin txn[r].addrs
        BY <1>6, <1>8
      <3> QED BY <1>8, <3>1, <3>2
    <2>5. HeldWords(p)
      BY <1>2 DEF UpInv, Words
    <2>6. HeldWords(p)'
      <3>1. ASSUME NEW b \in txn'[p].addrs PROVE \E s \in Used(p)' : log'[s].addr = b
        <4>1. CASE b = a
          BY <1>3, <1>7, <1>13, <4>1
        <4>2. CASE b # a
          <5>1. b \in txn[p].addrs
            BY <1>8, <4>2
          <5>2. PICK s \in Used(p) : log[s].addr = b
            BY <2>5, <5>1 DEF HeldWords
          <5>3. s \in Slots /\ s # x
            BY <1>5
          <5> QED BY <1>7, <1>13, <5>2, <5>3
        <4> QED BY <4>1, <4>2
      <3>2. ASSUME NEW u \in Used(p)'
            PROVE  \/ log'[u].old = stable'[log'[u].addr]
                   \/ \E m \in Slots : m < u /\ Logged(p, log[u].addr, m)'
        <4>1. CASE u = x
          <5>1. log'[u].addr = a /\ log'[u].old = meta[a] /\ stable' = stable
            BY <1>3, <1>6, <1>7, <4>1
          <5>2. CASE meta[a] = stable[a]
            BY <5>1, <5>2
          <5>3. CASE meta[a] # stable[a]
            <6>1. PICK q \in Procs, m \in Slots : Live(q) /\ Logged(q, a, m)
              BY <5>3 DEF UpInv, Words, DirtyLogged, Dirty
            <6>2. m \in Used(q) /\ log[m].addr = a
              BY <6>1 DEF Logged
            <6>3. q = p
              BY <1>6, <1>14, <6>1, <6>2
            <6>4. Logged(p, a, m)' /\ m < u
              BY <1>2, <2>2, <4>1, <6>1, <6>2, <6>3, LiveSlots DEF x
            <6>5. Logged(p, log[u].addr, m)'
              BY <5>1, <6>4 DEF Logged
            <6> QED BY <6>4, <6>5
          <5> QED BY <5>2, <5>3
        <4>2. CASE u # x
          <5>1. u \in Used(p) /\ u \in Slots
            BY <1>5, <1>13, <4>2
          <5>2. log'[u] = log[u] /\ stable' = stable
            BY <1>6, <1>7, <4>2, <5>1
          <5>3. \/ log[u].old = stable[log[u].addr]
                \/ \E m \in Slots : m < u /\ Logged(p, log[u].addr, m)
            BY <2>5, <5>1 DEF HeldWords
          <5>4. ASSUME NEW m \in Slots, m < u, Logged(p, log[u].addr, m)
                PROVE  Logged(p, log[u].addr, m)'
            <6>1. PICK b : b = log[u].addr
              OBVIOUS
            <6>2. Logged(p, b, m)'
              BY <2>2, <5>4, <6>1
            <6> QED BY <5>2, <6>1, <6>2 DEF Logged
          <5> QED BY <5>2, <5>3, <5>4
        <4> QED BY <4>1, <4>2
      <3> QED BY <1>8, <3>1, <3>2 DEF HeldWords
    <2>7. \A q \in Procs : Live(q)' => HeldWords(q)'
      BY <1>11, <2>1, <2>6
    <2> QED BY <2>3, <2>4, <2>7 DEF Words
  <1> QED BY <1>10, <1>15, <1>16, <1>18, <1>19, <1>20 DEF UpInv

\* The record that ends transaction p: its words have their last committed values.
LEMMA UpEndRecord ==
  ASSUME TypeInv, TypeInv', UpInv, NEW p \in Procs, Live(p), txn[p].pc # "logging",
         NEW kind \in {"commit", "abort"}, EndRecord(p, kind),
         UNCHANGED <<hdr, phdr, cl, ntid, mutex, meta>>,
         \A a \in txn[p].addrs : ~Dirty(a)',
         \A a \in Addrs \ txn[p].addrs : stable'[a] = stable[a] /\ pmeta'[a] = pmeta[a]
  PROVE  UpInv'
  <1>1. TypeOK /\ OnMedia /\ GenValid /\ Locking /\ txn \in [Procs -> Transactions]
    BY DEF TypeInv, Shape, TypeOK
  <1>2. PICK x : x = NextSlot(p)
    OBVIOUS
  <1> DEFINE e0 == Record(p, kind, NoAddr, InitVal)
  <1>3. /\ e0.gen = txn[p].gen /\ e0.tid = txn[p].tid /\ e0.start = (txn[p].used = 0)
        /\ e0.kind = kind
    BY DEF Record
  <1>4. e0 \in Entries
    BY <1>1, TxnShape, ValsAssumption DEF Record, Entries, TypeOK
  <1>5. x \in Reserved(p) \ Used(p) /\ x \in Slots /\ Reserved(p) \subseteq Slots /\ Used(p) \subseteq Reserved(p)
    BY <1>2, LiveSlots
  <1> HIDE DEF e0
  <1>6. /\ log' = [log EXCEPT ![x] = e0] /\ plog' = [plog EXCEPT ![x] = {log'[x]}]
        /\ txn' = [txn EXCEPT ![p] = Idle]
    BY <1>2 DEF EndRecord, e0
  <1>7. /\ log'[x] = e0 /\ plog'[x] = {e0}
        /\ \A s \in Slots : s # x => log'[s] = log[s] /\ plog'[s] = plog[s]
    BY <1>1, <1>5, <1>6 DEF TypeOK
  <1>8. txn'[p] = Idle /\ ~Live(p)' /\ txn'[p].pc = "idle" /\ txn'[p].addrs = {}
        /\ \A q \in Procs \ {p} : txn'[q] = txn[q]
    BY <1>1, <1>6 DEF Idle, Live
  <1>9. Writes(p, e0)
    BY <1>2, <1>3, <1>4, <1>7, <1>8 DEF Writes
  <1>10. /\ \A s \in Slots : \A e : Cand(hdr, s, e)' => Cand(hdr, s, e) \/ (s = x /\ e = e0)
         /\ (\A h \in phdr : Bounded(h))' /\ Apart(hdr)'
         /\ Cleaning' /\ Ahead' = Ahead
         /\ \A s \in Slots : Covered(hdr, s) => Covered(hdr, s)'
         /\ \A s \in Slots : Swept(s) => Swept(s)'
    BY <1>2, <1>9, EntryWritten
  <1>12. txn[p].start \in Nat /\ txn[p].used \in Nat
    BY LiveSlots
  <1>14. \A q \in Procs : q # p /\ Live(q) =>
           /\ WrittenBy(q)' /\ Used(q)' = Used(q) /\ Reserved(q)' = Reserved(q) /\ Live(q)'
           /\ \A s \in Used(q) : /\ s \in Slots /\ log'[s] = log[s] /\ plog'[s] = plog[s]
                                 /\ log[s].addr \in txn[q].addrs
           /\ txn[q].start \in Nat /\ txn[q].used \in Nat
    BY <1>9, OthersWritten
  <1>11. \A q \in Procs : Live(q)' => q # p /\ Live(q) /\ txn'[q] = txn[q] /\ Reserved(q)' = Reserved(q)
    <2> SUFFICES ASSUME NEW q \in Procs, Live(q)'
                 PROVE  q # p /\ Live(q) /\ txn'[q] = txn[q] /\ Reserved(q)' = Reserved(q)
      OBVIOUS
    <2>1. q # p
      BY <1>8 DEF Live
    <2> QED BY <1>8, <2>1 DEF Live, Reserved
  <1>15. HeaderOnMedia' /\ Reservations'
    BY <1>10, <1>11, SameReservations
  <1>16. Tids'
    <2>1. ASSUME NEW s \in Slots, NEW e \in plog'[s], Cand(hdr, s, e)'
          PROVE  /\ e.tid < ntid
                 /\ \A q \in Procs : txn'[q].pc # "idle" /\ txn'[q].tid = e.tid
                                       => Live(q)' /\ s \in Used(q)'
      <3>0. \A q \in Procs : txn'[q].pc # "idle" => q # p /\ txn'[q] = txn[q]
        BY <1>8
      <3>1. CASE Cand(hdr, s, e)
        <4>1. /\ e.tid < ntid
              /\ \A q \in Procs : txn[q].pc # "idle" /\ txn[q].tid = e.tid
                                    => Live(q) /\ s \in Used(q)
          BY <3>1 DEF UpInv, Tids, Cand
        <4> QED BY <1>14, <3>0, <4>1
      <3>2. CASE s = x /\ e = e0
        <4>1. e.tid = txn[p].tid /\ txn[p].pc # "idle"
          BY <1>3, <3>2 DEF Live
        <4>2. e.tid < ntid /\ \A q \in Procs : txn[q].pc # "idle" /\ txn[q].tid = e.tid => q = p
          BY <4>1 DEF UpInv, Tids
        <4> QED BY <3>0, <4>2
      <3> QED BY <1>10, <2>1, <3>1, <3>2
    <2>3. \A q \in Procs : txn'[q].pc # "idle" => txn[q].pc # "idle" /\ txn'[q].tid = txn[q].tid
      BY <1>8
    <2>2. /\ \A q \in Procs : txn'[q].pc # "idle" => txn'[q].tid < ntid
          /\ \A q, r \in Procs : txn'[q].pc # "idle" /\ txn'[r].pc # "idle" /\ q # r
                                   => txn'[q].tid # txn'[r].tid
      BY <2>3 DEF UpInv, Tids
    <2> QED BY <2>1, <2>2 DEF Tids
  <1>17. WrittenBy(p)
    BY DEF UpInv, Written
  <1>18. Written'
    BY <1>11, <1>14 DEF Written
  <1>19. Owned'
    <2> SUFFICES ASSUME NEW s \in Slots, NEW e \in plog'[s], Cand(hdr, s, e)'
                 PROVE  \/ \E q \in Procs : Live(q)' /\ s \in Used(q)'
                        \/ Covered(hdr, s)'
                        \/ Swept(s)'
      BY DEF Owned
    <2>0. PICK st : st = txn[p].start
      OBVIOUS
    <2>1. /\ st \in Slots /\ st \in st .. x /\ x \in st .. x /\ st <= x /\ Side(hdr, st, x)
          /\ \A w \in st .. x : w \in Slots /\ w \in Reserved(p) /\ (w = x \/ w \in Used(p))
      <3>1. \A w \in st .. x : w \in Reserved(p) /\ (w = x \/ w \in Used(p))
        BY <1>2, <1>5, <1>12, <2>0 DEF Used, Reserved, NextSlot
      <3>2. st \in st .. x /\ x \in st .. x /\ st <= x
        BY <1>2, <1>12, <2>0 DEF NextSlot
      <3>3. st \in Slots /\ Side(hdr, st, x)
        BY <1>5, <3>1, <3>2, LiveSlots
      <3> QED BY <1>5, <3>1, <3>2, <3>3
    <2>2. ASSUME NEW w \in st .. x
          PROVE  Match(hdr, w)' /\ log'[w].tid = txn[p].tid /\ plog'[w] = {log'[w]}
      <3>1. w \in Slots /\ InW(hdr, w) /\ Lap(hdr, w) = txn[p].gen
        BY <2>1, LiveSlots
      <3>2. CASE w = x
        BY <1>3, <1>7, <3>1, <3>2 DEF Match
      <3>3. CASE w # x
        <4>1. w \in Used(p) /\ log'[w] = log[w] /\ plog'[w] = plog[w]
          BY <1>7, <2>1, <3>1, <3>3
        <4>2. log[w].gen = txn[p].gen /\ log[w].tid = txn[p].tid /\ plog[w] = {log[w]}
          BY <1>17, <4>1 DEF WrittenBy
        <4> QED BY <3>1, <4>1, <4>2 DEF Match
      <3> QED BY <3>2, <3>3
    <2>3. log'[st].start /\ Ends(log'[x])
      <3>1. CASE st = x
        <4>1. txn[p].used = 0
          BY <1>2, <1>12, <2>0, <3>1 DEF NextSlot
        <4> QED BY <1>3, <1>7, <3>1, <4>1 DEF Ends
      <3>2. CASE st # x
        <4>1. st \in Used(p) /\ log'[st] = log[st]
          BY <1>7, <2>1, <3>2
        <4>2. log[st].start = (st = txn[p].start)
          BY <1>17, <4>1 DEF WrittenBy
        <4> QED BY <1>3, <1>7, <2>0, <4>1, <4>2 DEF Ends
      <3> QED BY <3>1, <3>2
    <2>4. Chain(hdr, st, x)'
      <3>1. log'[st].tid = txn[p].tid
        BY <2>1, <2>2
      <3> QED BY <2>1, <2>2, <3>1 DEF Chain
    <2>5. ASSUME NEW u \in st .. x PROVE Covered(hdr, u)'
      <3>1. st <= u /\ u <= x
        BY <2>1, <2>5, Constants DEF Slots
      <3> QED BY <1>5, <2>1, <2>3, <2>4, <3>1 DEF Covered
    <2>6. Used(p) \subseteq st .. x
      BY <1>2, <1>12, <2>0 DEF Used, NextSlot
    <2>7. CASE Cand(hdr, s, e)
      <3>1. \/ \E q \in Procs : Live(q) /\ s \in Used(q)
            \/ Covered(hdr, s)
            \/ Swept(s)
        BY <2>7 DEF UpInv, Owned, Cand
      <3>2. ASSUME NEW q \in Procs, Live(q), s \in Used(q)
            PROVE  Covered(hdr, s)' \/ (Live(q)' /\ s \in Used(q)')
        <4>1. CASE q = p
          BY <2>5, <2>6, <3>2, <4>1
        <4>2. CASE q # p
          BY <1>14, <3>2, <4>2
        <4> QED BY <4>1, <4>2
      <3> QED BY <1>10, <3>1, <3>2
    <2>8. CASE s = x
      BY <2>1, <2>5, <2>8
    <2> QED BY <1>10, <2>7, <2>8
  <1>20. Words'
    <2>0. \A q \in Procs \ {p} : txn[q].addrs \subseteq Addrs \ txn[p].addrs
      <3>1. \A q \in Procs : txn[q].addrs \subseteq Addrs
        BY <1>1, TxnShape
      <3> QED BY <3>1 DEF UpInv, Words
    <2>1. \A q \in Procs \ {p} : Live(q) => HeldWords(q)' /\ \A b, m : Logged(q, b, m) => Logged(q, b, m)'
      <3> SUFFICES ASSUME NEW q \in Procs \ {p}, Live(q)
                   PROVE  HeldWords(q)' /\ \A b, m : Logged(q, b, m) => Logged(q, b, m)'
        OBVIOUS
      <3>1. HeldWords(q) /\ txn'[q] = txn[q]
        BY <1>8 DEF UpInv, Words
      <3>2. /\ txn[q].start \in Nat /\ txn[q].used \in Nat
            /\ \A s \in Used(q) : log'[s] = log[s] /\ plog'[s] = plog[s] /\ log[s].addr \in txn[q].addrs
        BY <1>14
      <3>3. \A b \in txn[q].addrs : stable'[b] = stable[b] /\ meta'[b] = meta[b] /\ pmeta'[b] = pmeta[b]
        BY <2>0
      <3> QED BY <3>1, <3>2, <3>3, SameHeld
    <2>3. \A b \in Addrs : Dirty(b)' => DirtyLogged(b)'
      <3> SUFFICES ASSUME NEW b \in Addrs, Dirty(b)' PROVE DirtyLogged(b)'
        OBVIOUS
      <3>1. b \notin txn[p].addrs
        <4>1. ASSUME b \in txn[p].addrs PROVE FALSE
          <5>1. PICK c \in txn[p].addrs : c = b
            BY <4>1
          <5>2. ~Dirty(c)'
            OBVIOUS
          <5> QED BY <5>1, <5>2 DEF Dirty
        <4> QED BY <4>1
      <3>2. Dirty(b)
        BY <3>1 DEF Dirty
      <3>3. PICK q \in Procs, m \in Slots : Live(q) /\ Logged(q, b, m)
        BY <3>2 DEF UpInv, Words, DirtyLogged
      <3>4. q # p
        <4>1. m \in Used(q) /\ log[m].addr = b
          BY <3>3 DEF Logged
        <4> QED BY <1>17, <3>1, <4>1 DEF WrittenBy
      <3>5. Logged(q, b, m)' /\ Live(q)'
        BY <1>14, <2>1, <3>3, <3>4
      <3> QED BY <3>5 DEF DirtyLogged
    <2>4. \A q, r \in Procs : q # r => txn'[q].addrs \cap txn'[r].addrs = {}
      BY <1>8 DEF UpInv, Words
    <2>5. \A q \in Procs : Live(q)' => HeldWords(q)'
      BY <1>11, <2>1
    <2> QED BY <2>3, <2>4, <2>5 DEF Words
  <1> QED BY <1>10, <1>15, <1>16, <1>18, <1>19, <1>20 DEF UpInv

-----------------------------------------------------------------------------
(* Fences, updates and the undo of an abort.                               *)

\* A live transaction goes on: only its pc changes. Fewer values are on the media.
GoesOn(p, x) ==
  /\ UNCHANGED <<hdr, phdr, log, cl, ntid, mutex>>
  /\ txn' = [txn EXCEPT ![p].pc = x]
  /\ Live(p) /\ x \in {"run", "flushed", "undone"}
  /\ \A s \in Slots : log[s] \in plog'[s] /\ \A e \in plog'[s] : e \in plog[s]
  /\ \A s \in Used(p) : plog'[s] = {log[s]}

LEMMA GoingOn ==
  ASSUME TypeInv, TypeInv', UpInv, NEW p \in Procs, NEW x, GoesOn(p, x)
  PROVE  /\ HeaderOnMedia' /\ (\A h \in phdr : Bounded(h))' /\ Apart(hdr)' /\ Reservations'
         /\ Tids' /\ Written' /\ Owned' /\ Cleaning'
         /\ \A q \in Procs : /\ Live(q)' <=> Live(q)
                             /\ Used(q)' = Used(q) /\ txn'[q].addrs = txn[q].addrs
                             /\ txn'[q].start = txn[q].start
         /\ \A q \in Procs \ {p} : txn'[q] = txn[q]
         /\ txn'[p].pc = x
         /\ \A q \in Procs : \A a, m : Logged(q, a, m) => Logged(q, a, m)'
  <1>1. TypeOK /\ OnMedia /\ Locking /\ txn \in [Procs -> Transactions] /\ hdr \in Headers /\ hdr.gen >= 1
    BY DEF TypeInv, Shape, TypeOK, OnMedia, GenValid
  <1>2. /\ txn'[p].pc = x /\ txn'[p].tid = txn[p].tid /\ txn'[p].gen = txn[p].gen
        /\ txn'[p].start = txn[p].start /\ txn'[p].n = txn[p].n
        /\ txn'[p].used = txn[p].used /\ txn'[p].addrs = txn[p].addrs
        /\ \A q \in Procs \ {p} : txn'[q] = txn[q]
    <2>1. x \in TxnPcs /\ txn' = [txn EXCEPT ![p].pc = x]
      BY TxnShape DEF GoesOn
    <2> QED BY <1>1, <2>1, PcEffect
  <1>3. \A q \in Procs : /\ Live(q)' <=> Live(q)
                         /\ Used(q)' = Used(q) /\ Reserved(q)' = Reserved(q)
                         /\ txn'[q].gen = txn[q].gen /\ txn'[q].tid = txn[q].tid
                         /\ txn'[q].start = txn[q].start /\ txn'[q].addrs = txn[q].addrs
                         /\ txn'[q].pc = "idle" <=> txn[q].pc = "idle"
                         /\ q # p => txn'[q].pc = txn[q].pc
    <2> SUFFICES ASSUME NEW q \in Procs
                 PROVE  /\ Live(q)' <=> Live(q)
                        /\ Used(q)' = Used(q) /\ Reserved(q)' = Reserved(q)
                        /\ txn'[q].gen = txn[q].gen /\ txn'[q].tid = txn[q].tid
                        /\ txn'[q].start = txn[q].start /\ txn'[q].addrs = txn[q].addrs
                        /\ txn'[q].pc = "idle" <=> txn[q].pc = "idle"
                        /\ q # p => txn'[q].pc = txn[q].pc
      OBVIOUS
    <2>1. CASE q = p
      BY <1>2, <2>1 DEF Live, Used, Reserved, GoesOn
    <2>2. CASE q # p
      BY <1>2, <2>2 DEF Live, Used, Reserved
    <2> QED BY <2>1, <2>2
  <1>4. /\ UNCHANGED <<hdr, phdr, log, cl, ntid, mutex>>
        /\ \A s \in Slots : \A e \in plog'[s] : e \in plog[s]
        /\ \A s \in Slots : log[s] \in plog'[s]
    BY DEF GoesOn
  <1>5. \A h \in phdr : h \in Headers /\ h.gen >= 1
    BY DEF TypeInv, Shape, TypeOK, GenValid
  <1>6. \A s \in Slots : \A e : Cand(hdr, s, e)' => Cand(hdr, s, e)
    BY <1>4 DEF Cand
  <1>7. (\A h \in phdr : Bounded(h))' /\ Apart(hdr)'
    <2>1. (\A h \in phdr : Bounded(h))'
      BY <1>4 DEF UpInv, Bounded
    <2> PICK h : h = hdr
      OBVIOUS
    <2>2. Apart(h)'
      <3>1. \A s \in Slots : \A e \in plog'[s] : Cand(h, s, e)' => e \in plog[s] /\ Cand(h, s, e)
        BY <1>4 DEF Cand
      <3> QED BY <3>1, ApartShrinks DEF UpInv
    <2>3. Apart(h)' <=> Apart(hdr)'
      BY <1>4 DEF Apart, Single, Convex, Ordered, Cand
    <2> QED BY <2>1, <2>2, <2>3
  <1>8. Ahead' = Ahead /\ \A s : Behind(s)' <=> Behind(s)
    BY <1>4 DEF Ahead, CleanPos, Behind
  <1>9. HeaderOnMedia' /\ Reservations'
    BY <1>3, <1>4, <1>8, SameReservations
  <1>10. Tids'
    <2>1. /\ \A q \in Procs : txn'[q].pc # "idle" => txn'[q].tid < ntid
          /\ \A q, r \in Procs : txn'[q].pc # "idle" /\ txn'[r].pc # "idle" /\ q # r
                                   => txn'[q].tid # txn'[r].tid
      BY <1>3 DEF UpInv, Tids
    <2>2. ASSUME NEW s \in Slots, NEW e \in plog'[s], Cand(hdr, s, e)'
          PROVE  /\ e.tid < ntid
                 /\ \A q \in Procs : txn'[q].pc # "idle" /\ txn'[q].tid = e.tid
                                       => Live(q)' /\ s \in Used(q)'
      <3>1. Cand(hdr, s, e) /\ e \in plog[s]
        BY <1>4, <1>6, <2>2
      <3>2. /\ e.tid < ntid
            /\ \A q \in Procs : txn[q].pc # "idle" /\ txn[q].tid = e.tid
                                  => Live(q) /\ s \in Used(q)
        BY <3>1 DEF UpInv, Tids
      <3> QED BY <1>3, <3>2
    <2> QED BY <1>4, <2>1, <2>2 DEF Tids
  <1>11. Written'
    <2> SUFFICES ASSUME NEW q \in Procs, Live(q)' PROVE WrittenBy(q)'
      BY DEF Written
    <2>1. Live(q) /\ WrittenBy(q)
      BY <1>3 DEF UpInv, Written
    <2>2. \A s \in Reserved(q) \cup Used(q) : s \in Slots
      BY <2>1, LiveSlots
    <2>3. \A s \in Reserved(q) \ Used(q) : \A e \in plog'[s] : e.gen # txn[q].gen
      BY <1>4, <2>1, <2>2 DEF WrittenBy
    <2>4. ASSUME NEW s \in Used(q)
          PROVE  /\ log[s].gen = txn[q].gen /\ log[s].tid = txn[q].tid
                 /\ log[s].start = (s = txn[q].start) /\ log[s].kind = "data"
                 /\ log[s].addr \in txn[q].addrs
                 /\ \A e \in plog'[s] : e.gen = txn[q].gen => e = log[s]
                 /\ txn'[q].pc # "logging" => plog'[s] = {log[s]}
      <3>1. /\ log[s].gen = txn[q].gen /\ log[s].tid = txn[q].tid
            /\ log[s].start = (s = txn[q].start) /\ log[s].kind = "data"
            /\ log[s].addr \in txn[q].addrs
            /\ \A e \in plog'[s] : e.gen = txn[q].gen => e = log[s]
        BY <1>4, <2>1, <2>2 DEF WrittenBy
      <3>2. CASE q = p
        BY <3>1, <3>2 DEF GoesOn
      <3>3. CASE q # p
        <4>1. txn[q].pc # "logging" => plog[s] = {log[s]}
          BY <2>1 DEF WrittenBy
        <4>2. plog[s] = {log[s]} => plog'[s] = {log[s]}
          <5>1. s \in Slots /\ plog'[s] \in SUBSET Entries
            BY <2>2 DEF TypeInv, Shape, TypeOK
          <5> QED BY <1>4, <5>1
        <4> QED BY <1>3, <3>1, <3>3, <4>1, <4>2
      <3> QED BY <3>2, <3>3
    <2> QED BY <1>3, <1>4, <2>3, <2>4 DEF WrittenBy
  <1>12. \A s \in Slots : plog[s] = {log[s]} => plog'[s] = plog[s] /\ log'[s] = log[s]
    <2>1. \A s \in Slots : plog'[s] \in SUBSET Entries
      BY DEF TypeInv, Shape, TypeOK
    <2> QED BY <1>4, <2>1
  <1>13. Owned'
    <2>1. \A s \in Slots : Covered(hdr, s) => Covered(hdr, s)'
      <3> PICK h : h = hdr
        OBVIOUS
      <3>1. \A s \in Slots : Covered(h, s) => Covered(h, s)'
        BY <1>12, StayCovered
      <3>2. \A s : Covered(h, s)' <=> Covered(hdr, s)'
        BY <1>4 DEF Covered, Chain, Match
      <3> QED BY <3>1, <3>2
    <2>2. \A s \in Slots : Swept(s) => Swept(s)'
      BY <1>4, <1>8 DEF Swept
    <2> SUFFICES ASSUME NEW s \in Slots, NEW e \in plog'[s], Cand(hdr, s, e)'
                 PROVE  \/ \E q \in Procs : Live(q)' /\ s \in Used(q)'
                        \/ Covered(hdr, s)'
                        \/ Swept(s)'
      BY DEF Owned
    <2>3. e \in plog[s] /\ Cand(hdr, s, e)
      BY <1>4, <1>6
    <2>4. \/ \E q \in Procs : Live(q) /\ s \in Used(q)
          \/ Covered(hdr, s)
          \/ Swept(s)
      BY <2>3 DEF UpInv, Owned
    <2> QED BY <1>3, <2>1, <2>2, <2>4
  <1>14. Cleaning'
    <2>1. mutex' # "umount"
      BY <1>1, <1>4 DEF Locking, GoesOn, Live
    <2>2. \A u, v \in Slots : \A e \in plog'[u], f \in plog'[v] :
            /\ Cand(hdr, u, e)' /\ Cand(hdr, v, f)' /\ Side(hdr, u, v)
            /\ Behind(u) /\ ~Behind(v)
            => e.tid # f.tid
      <3>1. \A s \in Slots : \A e \in plog'[s] : Cand(hdr, s, e)' => e \in plog[s] /\ Cand(hdr, s, e)
        BY <1>4, <1>6
      <3> QED BY <3>1 DEF UpInv, Cleaning
    <2> QED BY <1>4, <1>8, <2>1, <2>2 DEF UpInv, Cleaning
  <1>15. ASSUME NEW q \in Procs, NEW a, NEW m, Logged(q, a, m)
         PROVE  Logged(q, a, m)'
    <2>1. m \in Used(q) /\ log[m].addr = a /\ \A w \in txn[q].start .. m : plog[w] = {log[w]}
      BY <1>15 DEF Logged
    <2>2. \A w \in txn[q].start .. m : w \in Slots
      <3>1. Live(q)
        BY <1>1, <2>1, TxnShape, Constants DEF Locking, Used, Slots
      <3>2. \A w \in Used(q) : w \in Slots
        BY <3>1, LiveSlots
      <3>3. txn[q].start \in Nat /\ txn[q].used \in Nat
        BY <3>1, LiveSlots
      <3> QED BY <2>1, <3>2, <3>3 DEF Used
    <2>3. \A w \in txn[q].start .. m : plog'[w] = {log'[w]}
      BY <1>12, <2>1, <2>2
    <2> QED BY <1>3, <1>4, <2>1, <2>3 DEF Logged
  <1> QED BY <1>2, <1>3, <1>7, <1>9, <1>10, <1>11, <1>13, <1>14, <1>15

LEMMA UpLogFence ==
  ASSUME TypeInv, TypeInv', UpInv, NEW p \in Procs, LogFence(p)
  PROVE  UpInv'
  <1> USE DEF hdrVars, logVars, dataVars, bootVars
  <1>1. TypeOK /\ OnMedia /\ GenValid /\ Locking
    BY DEF TypeInv, Shape
  <1>2. GoesOn(p, "run") /\ UNCHANGED <<meta, pmeta, stable>>
    <2>1. Live(p)
      BY DEF LogFence, Live
    <2>2. Used(p) \subseteq Slots
      BY <2>1, LiveSlots
    <2>3. \A s \in Slots : log[s] \in plog[s]
      BY <1>1 DEF OnMedia
    <2> QED BY <2>1, <2>2, <2>3 DEF LogFence, GoesOn
  <1>3. /\ HeaderOnMedia' /\ (\A h \in phdr : Bounded(h))' /\ Apart(hdr)' /\ Reservations'
        /\ Tids' /\ Written' /\ Owned' /\ Cleaning'
        /\ \A q \in Procs : /\ Live(q)' <=> Live(q)
                            /\ Used(q)' = Used(q) /\ txn'[q].addrs = txn[q].addrs
                            /\ txn'[q].start = txn[q].start
        /\ \A q \in Procs \ {p} : txn'[q] = txn[q]
        /\ txn'[p].pc = "run"
        /\ \A q \in Procs : \A a, m : Logged(q, a, m) => Logged(q, a, m)'
    BY <1>2, GoingOn
  <1>4. Words'
    <2>1. ASSUME NEW q \in Procs, Live(q)' PROVE HeldWords(q)'
      <3>1. HeldWords(q) /\ log' = log /\ stable' = stable /\ meta' = meta /\ pmeta' = pmeta
        BY <1>2, <1>3, <2>1 DEF UpInv, Words, GoesOn
      <3>2. \A u \in Used(q) : \/ log[u].old = stable[log[u].addr]
                               \/ \E m \in Slots : m < u /\ Logged(q, log[u].addr, m)'
        <4> SUFFICES ASSUME NEW u \in Used(q), NEW m \in Slots, m < u, Logged(q, log[u].addr, m)
                     PROVE  Logged(q, log[u].addr, m)'
          BY <3>1 DEF HeldWords
        <4>1. PICK a : a = log[u].addr
          OBVIOUS
        <4>2. Logged(q, a, m)'
          BY <1>3, <4>1
        <4> QED BY <3>1, <4>1, <4>2 DEF Logged
      <3>3. txn'[q].pc \in {"flushed", "undone"} => txn'[q].pc = txn[q].pc
        BY <1>3
      <3> QED BY <1>3, <3>1, <3>2, <3>3 DEF HeldWords
    <2>2. \A a \in Addrs : Dirty(a)' => DirtyLogged(a)'
      BY <1>2, <1>3 DEF UpInv, Words, Dirty, DirtyLogged
    <2>3. \A q, r \in Procs : q # r => txn'[q].addrs \cap txn'[r].addrs = {}
      BY <1>3 DEF UpInv, Words
    <2> QED BY <2>1, <2>2, <2>3 DEF Words
  <1> QED BY <1>3, <1>4 DEF UpInv

\* The words of p change, in cache or on media.
LEMMA WordsChange ==
  ASSUME TypeInv, TypeInv', UpInv, NEW p \in Procs, Live(p),
         UNCHANGED <<log, stable>>,
         \A q \in Procs : /\ Live(q)' <=> Live(q)
                          /\ Used(q)' = Used(q) /\ txn'[q].addrs = txn[q].addrs
                          /\ txn'[q].start = txn[q].start
         ,
         \A q \in Procs \ {p} : txn'[q] = txn[q],
         \A q \in Procs : \A a, m : Logged(q, a, m) => Logged(q, a, m)',
         \A a \in Addrs \ txn[p].addrs : meta'[a] = meta[a] /\ pmeta'[a] = pmeta[a],
         \A a \in txn[p].addrs : Dirty(a)' => \E m \in Slots : Logged(p, a, m),
         txn'[p].pc = "flushed" => \A a \in txn[p].addrs : pmeta'[a] = {meta'[a]},
         txn'[p].pc = "undone" => \A a \in txn[p].addrs : meta'[a] = stable[a]
  PROVE  Words'
  <1>1. ASSUME NEW q \in Procs, Live(q)' PROVE HeldWords(q)'
    <2>1. HeldWords(q)
      BY <1>1 DEF UpInv, Words
    <2>2. \A u \in Used(q) : \/ log[u].old = stable[log[u].addr]
                             \/ \E m \in Slots : m < u /\ Logged(q, log[u].addr, m)'
      <3> SUFFICES ASSUME NEW u \in Used(q), NEW m \in Slots, m < u, Logged(q, log[u].addr, m)
                   PROVE  Logged(q, log[u].addr, m)'
        BY <2>1 DEF HeldWords
      <3>1. PICK a : a = log[u].addr
        OBVIOUS
      <3>2. Logged(q, a, m)'
        BY <3>1
      <3> QED BY <3>1, <3>2 DEF Logged
    <2>3. /\ txn'[q].pc = "flushed" => \A a \in txn[q].addrs : pmeta'[a] = {meta'[a]}
          /\ txn'[q].pc = "undone" => \A a \in txn[q].addrs : meta'[a] = stable[a]
      <3>1. CASE q = p
        BY <3>1
      <3>2. CASE q # p
        <4>1. txn'[q].pc = txn[q].pc /\ \A a \in txn[q].addrs : a \in Addrs \ txn[p].addrs
          <5>1. txn[q].addrs \subseteq Addrs
            BY TxnShape DEF TypeInv, Shape, TypeOK
          <5> QED BY <3>2, <5>1 DEF UpInv, Words
        <4>2. \A a \in txn[q].addrs : meta'[a] = meta[a] /\ pmeta'[a] = pmeta[a]
          BY <4>1
        <4> QED BY <2>1, <4>1, <4>2 DEF HeldWords
      <3> QED BY <3>1, <3>2
    <2> QED BY <2>1, <2>2, <2>3 DEF HeldWords
  <1>2. ASSUME NEW a \in Addrs, Dirty(a)' PROVE DirtyLogged(a)'
    <2>1. CASE a \in txn[p].addrs
      <3>1. PICK b \in txn[p].addrs : b = a
        BY <2>1
      <3>2. Dirty(b)'
        BY <1>2, <3>1 DEF Dirty
      <3>3. PICK m \in Slots : Logged(p, b, m)
        BY <3>2
      <3>4. Logged(p, b, m)' /\ Live(p)'
        BY <3>3
      <3>5. Logged(p, a, m)'
        BY <3>1, <3>4 DEF Logged
      <3> QED BY <3>4, <3>5 DEF DirtyLogged
    <2>2. CASE a \notin txn[p].addrs
      <3>1. Dirty(a)
        BY <1>2, <2>2 DEF Dirty
      <3> QED BY <3>1 DEF UpInv, Words, DirtyLogged
    <2> QED BY <2>1, <2>2
  <1>3. \A q, r \in Procs : q # r => txn'[q].addrs \cap txn'[r].addrs = {}
    BY DEF UpInv, Words
  <1> QED BY <1>1, <1>2, <1>3 DEF Words

\* All entries of a transaction outside pmfs_add_logentry are durable.
LEMMA AllLogged ==
  ASSUME TypeInv, UpInv, NEW p \in Procs, Live(p), txn[p].pc # "logging"
  PROVE  /\ \A m \in Used(p) : m \in Slots /\ Logged(p, log[m].addr, m)
         /\ \A a \in txn[p].addrs : a \in Addrs /\ \E m \in Slots : Logged(p, a, m)
  <1>1. \A m \in Used(p) : m \in Slots /\ plog[m] = {log[m]}
    BY LiveSlots DEF UpInv, Written, WrittenBy
  <1>2. \A m \in Used(p) : \A w \in txn[p].start .. m : w \in Used(p)
    <2>1. txn[p].start \in Nat /\ txn[p].used \in Nat
      BY LiveSlots
    <2> QED BY <2>1 DEF Used
  <1>3. \A m \in Used(p) : Logged(p, log[m].addr, m)
    BY <1>1, <1>2 DEF Logged
  <1>4. \A a \in txn[p].addrs : \E m \in Used(p) : log[m].addr = a
    BY DEF UpInv, Words, HeldWords
  <1>5. txn[p].addrs \subseteq Addrs
    BY TxnShape DEF TypeInv, Shape, TypeOK
  <1> QED BY <1>1, <1>3, <1>4, <1>5

LEMMA UpUpdate ==
  ASSUME TypeInv, TypeInv', UpInv, NEW p \in Procs, NEW a \in Addrs, NEW v \in Vals, Update(p, a, v)
  PROVE  UpInv'
  <1> USE DEF hdrVars, logVars, dataVars, bootVars, runVars
  <1>1. TypeOK /\ OnMedia /\ GenValid /\ Locking
    BY DEF TypeInv, Shape
  <1>2. /\ UNCHANGED <<hdr, phdr, log, plog, cl, ntid, mutex, txn, stable>>
        /\ txn[p].pc = "run" /\ a \in txn[p].addrs
        /\ meta' = [meta EXCEPT ![a] = v] /\ pmeta' = [pmeta EXCEPT ![a] = @ \cup {v}]
    BY DEF Update
  <1>3. Live(p) /\ \A q \in Procs : Live(q)' <=> Live(q)
    BY <1>2 DEF Live
  <1>4. Words'
    <2>1. \A q \in Procs : Used(q)' = Used(q) /\ txn'[q].addrs = txn[q].addrs /\ txn'[q].start = txn[q].start
                           /\ txn'[q] = txn[q]
      BY <1>2 DEF Used
    <2>2. \A q \in Procs : \A b, m : Logged(q, b, m) => Logged(q, b, m)'
      BY <1>2, <2>1 DEF Logged
    <2>3. \A b \in Addrs \ txn[p].addrs : meta'[b] = meta[b] /\ pmeta'[b] = pmeta[b]
      BY <1>1, <1>2 DEF TypeOK
    <2>4. \A b \in txn[p].addrs : \E m \in Slots : Logged(p, b, m)
      BY <1>2, <1>3, AllLogged
    <2>5. txn'[p].pc = "run"
      BY <1>2
    <2> QED BY <1>2, <1>3, <2>1, <2>2, <2>3, <2>4, <2>5, WordsChange
  <1>5. Ahead' = Ahead
    BY <1>2 DEF Ahead, CleanPos
  <1>6. HeaderOnMedia' /\ Reservations'
    BY <1>2, <1>3, <1>5, SameReservations DEF Reserved
  <1>7. (\A h \in phdr : Bounded(h))' /\ Apart(hdr)'
    BY <1>2 DEF UpInv, Bounded, Apart, Single, Convex, Ordered, Cand
  <1>8. Tids'
    BY <1>2, <1>3, SameTids DEF Live
  <1>9. Written'
    BY <1>2, <1>3 DEF UpInv, Written, WrittenBy, Reserved, Used
  <1>10. Owned'
    <2>1. \A s \in Slots : Covered(hdr, s)' <=> Covered(hdr, s)
      BY <1>2 DEF Covered, Chain, Match
    <2>2. \A s \in Slots : Swept(s)' <=> Swept(s)
      BY <1>2, <1>5 DEF Swept, Behind
    <2>3. \A q \in Procs : Used(q)' = Used(q)
      BY <1>2 DEF Used
    <2>4. \A s \in Slots : \A e : Cand(hdr, s, e)' <=> Cand(hdr, s, e)
      BY <1>2 DEF Cand
    <2> QED BY <1>2, <1>3, <2>1, <2>2, <2>3, <2>4 DEF UpInv, Owned
  <1>11. Cleaning'
    <2>1. mutex' # "umount"
      BY <1>1, <1>2 DEF Locking
    <2> QED BY <1>2, <2>1, QuietCleaning
  <1> QED BY <1>4, <1>6, <1>7, <1>8, <1>9, <1>10, <1>11 DEF UpInv

LEMMA UpCommitFlush ==
  ASSUME TypeInv, TypeInv', UpInv, NEW p \in Procs, CommitFlush(p)
  PROVE  UpInv'
  <1> USE DEF hdrVars, logVars, dataVars, bootVars
  <1>1. TypeOK /\ OnMedia /\ GenValid /\ Locking
    BY DEF TypeInv, Shape
  <1>2. Live(p) /\ txn[p].pc # "logging"
    BY DEF CommitFlush, Live
  <1>3. GoesOn(p, "flushed") /\ UNCHANGED <<meta, stable>>
    <2>1. \A s \in Slots : log[s] \in plog[s]
      BY <1>1 DEF OnMedia
    <2>2. \A s \in Used(p) : plog[s] = {log[s]}
      BY <1>2 DEF UpInv, Written, WrittenBy
    <2> QED BY <1>2, <2>1, <2>2 DEF CommitFlush, GoesOn
  <1>4. /\ HeaderOnMedia' /\ (\A h \in phdr : Bounded(h))' /\ Apart(hdr)' /\ Reservations'
        /\ Tids' /\ Written' /\ Owned' /\ Cleaning'
        /\ \A q \in Procs : /\ Live(q)' <=> Live(q)
                            /\ Used(q)' = Used(q) /\ txn'[q].addrs = txn[q].addrs
                            /\ txn'[q].start = txn[q].start
        /\ \A q \in Procs \ {p} : txn'[q] = txn[q]
        /\ txn'[p].pc = "flushed"
        /\ \A q \in Procs : \A a, m : Logged(q, a, m) => Logged(q, a, m)'
    BY <1>3, GoingOn
  <1>5. \A a \in txn[p].addrs : a \in Addrs /\ \E m \in Slots : Logged(p, a, m)
    BY <1>2, AllLogged
  <1>6. \A a \in txn[p].addrs : pmeta'[a] = {meta'[a]}
    <2>1. \A a \in txn[p].addrs : \E s \in Used(p) : log[s].addr = a
      BY <1>2 DEF UpInv, Words, HeldWords
    <2> QED BY <1>3, <1>5, <2>1 DEF CommitFlush
  <1>7. \A a \in Addrs \ txn[p].addrs : meta'[a] = meta[a] /\ pmeta'[a] = pmeta[a]
    <2>1. \A s \in Used(p) : log[s].addr \in txn[p].addrs
      BY <1>2 DEF UpInv, Written, WrittenBy
    <2> QED BY <1>3, <2>1 DEF CommitFlush
  <1>8. Words'
    <2>1. UNCHANGED <<log, stable>> /\ txn'[p].pc # "undone"
      BY <1>3, <1>4 DEF GoesOn
    <2>2. \A a \in txn[p].addrs : \E m \in Slots : Logged(p, a, m)
      BY <1>5
    <2> QED BY <1>2, <1>4, <1>6, <1>7, <2>1, <2>2, WordsChange
  <1> QED BY <1>4, <1>8 DEF UpInv

LEMMA UpCommitEntry ==
  ASSUME TypeInv, TypeInv', UpInv, NEW p \in Procs, CommitEntry(p)
  PROVE  UpInv'
  <1> USE DEF hdrVars, logVars, dataVars, bootVars
  <1>1. Live(p) /\ txn[p].pc # "logging" /\ txn[p].pc = "flushed" /\ EndRecord(p, "commit")
    BY DEF CommitEntry, Live
  <1>2. /\ UNCHANGED <<hdr, phdr, cl, ntid, mutex, meta, pmeta>>
        /\ stable' = [a \in Addrs |-> IF a \in txn[p].addrs THEN meta[a] ELSE stable[a]]
    BY DEF CommitEntry
  <1>3. \A a \in txn[p].addrs : a \in Addrs /\ pmeta[a] = {meta[a]}
    <2>1. txn[p].addrs \subseteq Addrs
      BY TxnShape DEF TypeInv, Shape, TypeOK
    <2> QED BY <1>1, <2>1 DEF UpInv, Words, HeldWords
  <1>4. \A a \in txn[p].addrs : ~Dirty(a)'
    BY <1>2, <1>3 DEF Dirty
  <1>5. \A a \in Addrs \ txn[p].addrs : stable'[a] = stable[a] /\ pmeta'[a] = pmeta[a]
    BY <1>2
  <1> QED BY <1>1, <1>2, <1>4, <1>5, UpEndRecord

LEMMA UpAbortUndo ==
  ASSUME TypeInv, TypeInv', UpInv, NEW p \in Procs, AbortUndo(p)
  PROVE  UpInv'
  <1> USE DEF hdrVars, logVars, dataVars, bootVars
  <1>1. TypeOK /\ OnMedia /\ GenValid /\ Locking
    BY DEF TypeInv, Shape
  <1>2. Live(p) /\ txn[p].pc # "logging"
    BY DEF AbortUndo, Live
  <1>3. /\ GoesOn(p, "undone") /\ stable' = stable
        /\ meta' = pmfs_undo_transaction(Used(p), txn[p].gen)
        /\ pmeta' = UndoMedia(Used(p), txn[p].gen)
    <2>1. \A s \in Slots : log[s] \in plog[s]
      BY <1>1 DEF OnMedia
    <2>2. \A s \in Used(p) : plog[s] = {log[s]}
      BY <1>2 DEF UpInv, Written, WrittenBy
    <2> QED BY <1>2, <2>1, <2>2 DEF AbortUndo, GoesOn
  <1>4. /\ HeaderOnMedia' /\ (\A h \in phdr : Bounded(h))' /\ Apart(hdr)' /\ Reservations'
        /\ Tids' /\ Written' /\ Owned' /\ Cleaning'
        /\ \A q \in Procs : /\ Live(q)' <=> Live(q)
                            /\ Used(q)' = Used(q) /\ txn'[q].addrs = txn[q].addrs
                            /\ txn'[q].start = txn[q].start
        /\ \A q \in Procs \ {p} : txn'[q] = txn[q]
        /\ txn'[p].pc = "undone"
        /\ \A q \in Procs : \A a, m : Logged(q, a, m) => Logged(q, a, m)'
    BY <1>3, GoingOn
  <1>5. \A a \in txn[p].addrs : a \in Addrs /\ \E m \in Slots : Logged(p, a, m)
    BY <1>2, AllLogged
  <1>6. Used(p) \subseteq Slots /\ WrittenBy(p) /\ HeldWords(p)
    BY <1>2, LiveSlots DEF UpInv, Written, Words
  <1>7. \A a \in Addrs \ txn[p].addrs : meta'[a] = meta[a] /\ pmeta'[a] = pmeta[a]
    <2> SUFFICES ASSUME NEW a \in Addrs \ txn[p].addrs
                 PROVE  meta'[a] = meta[a] /\ pmeta'[a] = pmeta[a]
      OBVIOUS
    <2>1. UndoEntries(Used(p), txn[p].gen, a) = {}
      BY <1>6 DEF UndoEntries, WrittenBy
    <2>2. meta'[a] = meta[a]
      BY <1>3, <1>6, <2>1, UndoValue
    <2>3. pmeta'[a] = pmeta[a]
      BY <1>1, <1>3, <2>1 DEF UndoMedia, TypeOK
    <2> QED BY <2>2, <2>3
  <1>8. \A a \in txn[p].addrs : meta'[a] = stable[a]
    <2> SUFFICES ASSUME NEW a \in txn[p].addrs PROVE meta'[a] = stable[a]
      OBVIOUS
    <2>1. PICK m \in Used(p) : log[m].addr = a
      BY <1>6 DEF HeldWords
    <2>2. m \in UndoEntries(Used(p), txn[p].gen, a)
      BY <1>6, <2>1 DEF UndoEntries, WrittenBy
    <2>3. PICK s \in UndoEntries(Used(p), txn[p].gen, a) :
            /\ \A t \in UndoEntries(Used(p), txn[p].gen, a) : s <= t
            /\ pmfs_undo_transaction(Used(p), txn[p].gen)[a] = log[s].old
      BY <1>5, <1>6, <2>2, UndoValue
    <2>4. s \in Used(p) /\ log[s].addr = a /\ s \in Nat
      BY <1>6, <2>3, Constants DEF UndoEntries, Slots
    <2>5. log[s].old = stable[a]
      <3>1. ASSUME NEW k \in Slots, k < s, Logged(p, a, k) PROVE FALSE
        <4>1. k \in UndoEntries(Used(p), txn[p].gen, a) /\ k \in Nat
          BY <1>6, <3>1, Constants DEF Logged, UndoEntries, WrittenBy, Slots
        <4>2. s <= k
          BY <2>3, <4>1
        <4> QED BY <2>4, <3>1, <4>1, <4>2
      <3> QED BY <1>6, <2>4, <3>1 DEF HeldWords
    <2> QED BY <1>3, <2>3, <2>5
  <1>9. Words'
    <2>1. UNCHANGED <<log, stable>> /\ txn'[p].pc # "flushed"
      BY <1>3, <1>4 DEF GoesOn
    <2>2. \A a \in txn[p].addrs : \E m \in Slots : Logged(p, a, m)
      BY <1>5
    <2> QED BY <1>2, <1>4, <1>7, <1>8, <2>1, <2>2, WordsChange
  <1> QED BY <1>4, <1>9 DEF UpInv

LEMMA UpAbortEntry ==
  ASSUME TypeInv, TypeInv', UpInv, NEW p \in Procs, AbortEntry(p)
  PROVE  UpInv'
  <1> USE DEF hdrVars, logVars, dataVars, bootVars
  <1>1. Live(p) /\ txn[p].pc # "logging" /\ txn[p].pc = "undone" /\ EndRecord(p, "abort")
    BY DEF AbortEntry, Live
  <1>2. /\ UNCHANGED <<hdr, phdr, cl, ntid, mutex, meta, stable>>
        /\ pmeta' = [a \in Addrs |-> IF a \in txn[p].addrs THEN {meta[a]} ELSE pmeta[a]]
    BY DEF AbortEntry
  <1>3. \A a \in txn[p].addrs : a \in Addrs /\ meta[a] = stable[a]
    <2>1. txn[p].addrs \subseteq Addrs
      BY TxnShape DEF TypeInv, Shape, TypeOK
    <2> QED BY <1>1, <2>1 DEF UpInv, Words, HeldWords
  <1>4. \A a \in txn[p].addrs : ~Dirty(a)'
    BY <1>2, <1>3 DEF Dirty
  <1>5. \A a \in Addrs \ txn[p].addrs : stable'[a] = stable[a] /\ pmeta'[a] = pmeta[a]
    BY <1>2
  <1> QED BY <1>1, <1>2, <1>4, <1>5, UpEndRecord

-----------------------------------------------------------------------------
(* The cleaner.                                                            *)

\* In front of the cleaner every candidate is the entry that is seen.
LEMMA SeenAhead ==
  ASSUME TypeInv, UpInv, NEW s \in Slots, NEW e \in plog[s], Cand(hdr, s, e), InW(Ahead, s)
  PROVE  /\ Match(hdr, s) /\ e = log[s] /\ log[s] \in plog[s]
         /\ (\E p \in Procs : Live(p) /\ s \in Used(p)) \/ Covered(hdr, s)
  <1>1. log[s] \in plog[s]
    BY DEF TypeInv, OnMedia
  <1>2. (\E p \in Procs : Live(p) /\ s \in Used(p)) \/ Covered(hdr, s)
    BY DEF UpInv, Owned, Swept, Behind
  <1>3. Match(hdr, s)
    <2>1. CASE \E p \in Procs : Live(p) /\ s \in Used(p)
      <3>1. PICK p \in Procs : Live(p) /\ s \in Used(p)
        BY <2>1
      <3>2. Lap(hdr, s) = txn[p].gen
        BY <3>1, LiveSlots
      <3>3. log[s].gen = txn[p].gen
        BY <3>1 DEF UpInv, Written, WrittenBy
      <3> QED BY <3>2, <3>3 DEF Match, Cand
    <2>2. CASE Covered(hdr, s)
      <3>1. PICK st \in Slots, r \in Slots : st <= s /\ s <= r /\ Chain(hdr, st, r)
        BY <2>2 DEF Covered
      <3>2. s \in st .. r
        BY <3>1, Constants DEF Slots
      <3> QED BY <3>1, <3>2 DEF Chain
    <2> QED BY <1>2, <2>1, <2>2
  <1>4. e = log[s]
    BY <1>1, <1>3 DEF Match, Cand, UpInv, Apart, Single
  <1> QED BY <1>1, <1>2, <1>3, <1>4

\* A slot of a chain.
LEMMA InChain ==
  ASSUME OnMedia, NEW h, NEW st \in Slots, NEW r \in Slots, Chain(h, st, r), NEW w \in st .. r
  PROVE  /\ w \in Slots /\ Match(h, w) /\ log[w] \in plog[w] /\ Cand(h, w, log[w])
         /\ plog[w] = {log[w]} /\ log[w].tid = log[st].tid
         /\ st \in st .. r /\ r \in st .. r
  <1>1. w \in Slots /\ st \in st .. r /\ r \in st .. r
    BY Constants DEF Slots, Chain
  <1>2. Match(h, w) /\ plog[w] = {log[w]} /\ log[w].tid = log[st].tid
    BY DEF Chain
  <1> QED BY <1>1, <1>2 DEF Match, Cand

LEMMA ChainSide ==
  ASSUME NEW h \in Headers, NEW st \in Slots, NEW r \in Slots, Chain(h, st, r)
  PROVE  \A w, x \in st .. r : Side(h, w, x)
  <1>1. st < h.tail <=> r < h.tail
    BY DEF Chain, Side
  <1>2. st \in Int /\ r \in Int /\ h.tail \in Int
    BY Constants DEF Headers, Slots
  <1> QED BY <1>1, <1>2 DEF Side

\* The cleaner invalidates entries that it passes, those of the slots R.
Sweeps(R) ==
  /\ UNCHANGED <<hdr, phdr, meta, pmeta, stable, ntid, txn, mutex>>
  /\ R \subseteq Slots
  /\ \A s \in Slots \ R : log'[s] = log[s] /\ plog'[s] = plog[s]
  /\ \A s \in R : log'[s] = Invalid /\ \A e \in plog'[s] : e \in plog[s] \/ e = Invalid
  /\ \A s \in R : ~InW(Ahead', s)

LEMMA Sweeping ==
  ASSUME TypeInv, TypeInv', UpInv, Next, ~tainted', NEW R, Sweeps(R)
  PROVE  /\ HeaderOnMedia' /\ (\A h \in phdr : Bounded(h))' /\ Apart(hdr)' /\ Reservations'
         /\ Tids' /\ Written' /\ Words'
         /\ \A s \in Slots : \A e : Cand(hdr, s, e)' => e \in plog[s] /\ Cand(hdr, s, e)
         /\ \A s \in Slots : \A p \in Procs : Live(p) /\ s \in Reserved(p) => InW(Ahead', s)
  <1>1. TypeOK /\ OnMedia /\ GenValid /\ txn \in [Procs -> Transactions]
    BY DEF TypeInv, Shape, TypeOK
  <1>2. UNCHANGED <<hdr, phdr, meta, pmeta, stable, ntid, txn, mutex>>
    BY DEF Sweeps
  <1>3. \A p \in Procs : /\ Live(p)' <=> Live(p)
                         /\ Reserved(p)' = Reserved(p) /\ Used(p)' = Used(p) /\ txn'[p] = txn[p]
    BY <1>2 DEF Live, Reserved, Used
  <1>4. \A p \in Procs : Live(p) => \A s \in Reserved(p) : InW(Ahead', s) /\ s \in Slots /\ s \notin R
    BY <1>3, NotPassed DEF Sweeps
  <1>5. \A p \in Procs : Live(p) => \A s \in Reserved(p) \cup Used(p) :
                           s \in Slots /\ log'[s] = log[s] /\ plog'[s] = plog[s]
    BY <1>4, LiveSlots DEF Sweeps
  <1>6. \A s \in Slots : \A e \in plog'[s] : e \in plog[s] \/ e = Invalid
    BY DEF Sweeps
  <1>7. PICK h0 : h0 = hdr
    OBVIOUS
  <1>8. /\ (\A h \in phdr : Bounded(h))' /\ Apart(hdr)'
        /\ \A s \in Slots : \A e : Cand(hdr, s, e)' => e \in plog[s] /\ Cand(hdr, s, e)
    <2>1. \A h \in phdr : h \in Headers /\ h.gen >= 1
      BY <1>1 DEF TypeOK, GenValid
    <2>2. \A h \in phdr : Bounded(h) => Bounded(h)'
      BY <1>1, <1>6, <2>1, Fewer
    <2>3. h0 \in Headers /\ h0.gen >= 1
      BY <1>1, <1>7, <2>1 DEF OnMedia
    <2>4. (Apart(h0) => Apart(h0)') /\ \A s \in Slots : \A e : Cand(h0, s, e)' => Cand(h0, s, e)
      BY <1>1, <1>6, <2>3, Fewer
    <2>5. Apart(hdr)' <=> Apart(h0)'
      BY <1>2, <1>7 DEF Apart, Single, Convex, Ordered, Cand
    <2>6. \A s \in Slots : \A e : Cand(hdr, s, e)' => e \in plog[s] /\ Cand(hdr, s, e)
      BY <1>2, <1>7, <2>4 DEF Cand
    <2> QED BY <1>2, <1>7, <2>2, <2>4, <2>5, <2>6 DEF UpInv
  <1>9. HeaderOnMedia' /\ Reservations'
    <2>1. HeaderOnMedia'
      BY <1>2, <1>3 DEF UpInv, HeaderOnMedia
    <2> QED BY <1>2, <1>3, <1>4, <2>1 DEF UpInv, Reservations
  <1>10. Tids'
    BY <1>2, <1>3, <1>8 DEF UpInv, Tids, Cand
  <1>11. Written'
    <2> SUFFICES ASSUME NEW p \in Procs, Live(p) PROVE WrittenBy(p)'
      BY <1>3 DEF Written
    <2>1. WrittenBy(p)
      BY DEF UpInv, Written
    <2> QED BY <1>3, <1>5, <2>1, SameWritten
  <1>12. Words'
    <2>1. ASSUME NEW p \in Procs, Live(p)
          PROVE  HeldWords(p)' /\ \A a, m : Logged(p, a, m) => Logged(p, a, m)'
      <3>1. HeldWords(p) /\ WrittenBy(p)
        BY <2>1 DEF UpInv, Words, Written
      <3>2. txn[p].start \in Nat /\ txn[p].used \in Nat
        BY <2>1, LiveSlots
      <3>3. \A s \in Used(p) : log'[s] = log[s] /\ plog'[s] = plog[s] /\ log[s].addr \in txn[p].addrs
        BY <1>5, <2>1, <3>1 DEF WrittenBy
      <3> QED BY <1>2, <1>3, <3>1, <3>2, <3>3, SameHeld
    <2>2. \A a \in Addrs : Dirty(a)' => DirtyLogged(a)'
      <3> SUFFICES ASSUME NEW a \in Addrs, Dirty(a)' PROVE DirtyLogged(a)'
        OBVIOUS
      <3>1. Dirty(a)
        BY <1>2 DEF Dirty
      <3>2. PICK p \in Procs, m \in Slots : Live(p) /\ Logged(p, a, m)
        BY <3>1 DEF UpInv, Words, DirtyLogged
      <3>3. Logged(p, a, m)' /\ Live(p)'
        BY <1>3, <2>1, <3>2
      <3> QED BY <3>3 DEF DirtyLogged
    <2> QED BY <1>2, <1>3, <2>1, <2>2 DEF UpInv, Words
  <1>13. \A s \in Slots : \A p \in Procs : Live(p) /\ s \in Reserved(p) => InW(Ahead', s)
    BY <1>4
  <1> QED BY <1>8, <1>9, <1>10, <1>11, <1>12, <1>13

\* Where a pass that looks at the entry at head is.
LEMMA PassAt ==
  ASSUME TypeInv, UpInv, cl.pc # "off", cl.head # hdr.tail
  PROVE  /\ cl.head \in Slots /\ cl.head \in Int /\ \A s \in Slots : s \in Int
         /\ InW(hdr, cl.head) /\ InW(Ahead, cl.head)
         /\ Ahead = [hdr EXCEPT !.head = cl.head] /\ Ahead.tail = hdr.tail /\ Ahead.gen = hdr.gen
         /\ cl.gen = Lap(hdr, cl.head) /\ cl.tail = hdr.tail /\ cl \in CleanState
         /\ \A s \in Slots : Lap(Ahead, s) = Lap(hdr, s) /\ (\A u \in Slots : Side(Ahead, s, u) <=> Side(hdr, s, u))
         /\ \A s \in Slots : InW(Ahead, s) /\ cl.head <= s => Side(hdr, cl.head, s)
         /\ \A s \in Slots : InW(hdr, s) /\ Side(hdr, s, cl.head) /\ s < cl.head => Behind(s)
         /\ \A s \in Slots : InW(Ahead, s) /\ Side(hdr, s, cl.head) => cl.head <= s
         /\ \A s \in Slots : InW(Ahead, s) => InW(hdr, s) /\ ~Behind(s)
  <1>1. cl.head \in Slots /\ cl \in CleanState /\ \A s \in Slots : s \in Int
    BY Constants DEF TypeInv, Shape, TypeOK, CleanState, Slots
  <1>2. CleanPos = cl.head /\ cl.tail = hdr.tail /\ cl.gen = Lap(hdr, cl.head) /\ InW(hdr, cl.head)
    BY DEF CleanPos, UpInv, Cleaning
  <1>3. hdr \in Headers /\ hdr.gen >= 1 /\ Ahead = [hdr EXCEPT !.head = cl.head]
        /\ \A s \in Slots : InW(Ahead, s) <=> InW(hdr, s) /\ ~Behind(s)
    BY <1>2, CleanerAt
  <1>4. /\ Ahead.tail = hdr.tail /\ Ahead.gen = hdr.gen /\ InW(Ahead, cl.head)
        /\ \A s \in Slots : Lap(Ahead, s) = Lap(hdr, s)
        /\ \A s \in Slots : InW(Ahead, s) /\ cl.head <= s => Side(hdr, cl.head, s)
        /\ \A s \in Slots : InW(hdr, s) /\ Side(hdr, s, cl.head) /\ s < cl.head => ~InW(Ahead, s)
        /\ \A s \in Slots : InW(Ahead, s) /\ Side(hdr, s, cl.head) => cl.head <= s
    BY <1>1, <1>2, <1>3, Passing
  <1>5. \A s, u \in Slots : Side(Ahead, s, u) <=> Side(hdr, s, u)
    BY <1>4 DEF Side
  <1> QED BY <1>1, <1>2, <1>3, <1>4, <1>5

\* The scan moves from cl.head past slot n.
Passes(n) ==
  /\ cl.pc # "off" /\ cl.head # hdr.tail /\ n \in Slots /\ InW(Ahead, n) /\ cl.head <= n
  /\ hdr' = hdr /\ cl'.pc = "scan" /\ cl'.head = next_log_entry(n) /\ cl'.tail = cl.tail
  /\ cl'.gen = IF next_log_entry(n) = 0 THEN next_gen_id(cl.gen) ELSE cl.gen

LEMMA PassRange ==
  ASSUME TypeInv, UpInv, NEW n, Passes(n)
  PROVE  /\ \A s \in Slots : InW(Ahead', s) <=> InW(Ahead, s) /\ ~(cl.head <= s /\ s <= n)
         /\ \A s \in Slots : Behind(s)' <=> Behind(s) \/ (cl.head <= s /\ s <= n)
         /\ cl.head .. n \subseteq Slots /\ Side(hdr, cl.head, n)
         /\ \A s \in cl.head .. n : Side(hdr, cl.head, s) /\ Lap(hdr, s) = cl.gen
                                    /\ InW(hdr, s) /\ InW(Ahead, s) /\ ~Behind(s)
         /\ cl'.tail = hdr'.tail /\ (cl'.head = hdr'.tail \/ InW(hdr', cl'.head))
         /\ cl'.head # hdr'.tail => cl'.gen = Lap(hdr', cl'.head)
  <1>1. /\ cl.pc # "off" /\ cl.head # hdr.tail /\ n \in Slots /\ InW(Ahead, n) /\ cl.head <= n
        /\ hdr' = hdr /\ cl'.pc = "scan" /\ cl'.head = next_log_entry(n) /\ cl'.tail = cl.tail
        /\ cl'.gen = IF next_log_entry(n) = 0 THEN next_gen_id(cl.gen) ELSE cl.gen
    BY DEF Passes
  <1>2. /\ hdr \in Headers /\ hdr.gen >= 1 /\ hdr.head \in Int /\ hdr.tail \in Int
        /\ \A s \in Slots : InW(Ahead, s) <=> InW(hdr, s) /\ ~Behind(s)
    BY CleanerAt, Constants DEF Headers, Slots
  <1>3. /\ cl.head \in Slots /\ cl.head \in Int /\ \A s \in Slots : s \in Int
        /\ InW(hdr, cl.head) /\ cl.gen = Lap(hdr, cl.head) /\ cl.tail = hdr.tail
        /\ Ahead = [hdr EXCEPT !.head = cl.head]
        /\ InW(hdr, n) /\ Side(hdr, cl.head, n)
    BY <1>1, PassAt
  <1>4. Lap(hdr, n) = cl.gen
    BY <1>1, <1>2, <1>3, Laps
  <1>5. PICK m : m = next_log_entry(n)
    OBVIOUS
  <1>6. /\ m \in Slots /\ (m = hdr.tail \/ InW(hdr, m))
        /\ m # hdr.tail => Lap(hdr, m) = IF m = 0 THEN next_gen_id(Lap(hdr, n)) ELSE Lap(hdr, n)
        /\ \A s \in Slots : InW([hdr EXCEPT !.head = m], s) <=> InW([hdr EXCEPT !.head = n], s) /\ s # n
    BY <1>1, <1>2, <1>3, <1>5, Advance
  <1>7. Ahead' = [hdr EXCEPT !.head = m]
    BY <1>1, <1>5 DEF Ahead, CleanPos
  <1>8. \A s \in Slots : InW([hdr EXCEPT !.head = n], s)
                            <=> InW(Ahead, s) /\ ~(cl.head <= s /\ s < n)
    <2> DEFINE k == [hdr EXCEPT !.head = n]
    <2>1. k.head = n /\ k.tail = hdr.tail /\ Ahead.head = cl.head /\ Ahead.tail = hdr.tail
      BY <1>2, <1>3 DEF Headers
    <2> HIDE DEF k
    <2> SUFFICES ASSUME NEW s \in Slots PROVE InW(k, s) <=> InW(Ahead, s) /\ ~(cl.head <= s /\ s < n)
      BY DEF k
    <2>2. cl.head < hdr.tail <=> n < hdr.tail
      BY <1>3 DEF Side
    <2> QED BY <1>1, <1>2, <1>3, <2>1, <2>2 DEF InW
  <1>9. \A s \in Slots : InW(Ahead', s) <=> InW(Ahead, s) /\ ~(cl.head <= s /\ s <= n)
    BY <1>1, <1>3, <1>6, <1>7, <1>8
  <1>10. \A s \in Slots : cl.head <= s /\ s <= n => InW(Ahead, s) /\ Side(hdr, cl.head, s)
    <2>1. Ahead.head = cl.head /\ Ahead.tail = hdr.tail
      BY <1>2, <1>3 DEF Headers
    <2>2. cl.head < hdr.tail <=> n < hdr.tail
      BY <1>3 DEF Side
    <2> QED BY <1>1, <1>2, <1>3, <2>1, <2>2 DEF InW, Side
  <1>11. \A s \in Slots : Behind(s)' <=> Behind(s) \/ (cl.head <= s /\ s <= n)
    <2> SUFFICES ASSUME NEW s \in Slots
                 PROVE  Behind(s)' <=> Behind(s) \/ (cl.head <= s /\ s <= n)
      OBVIOUS
    <2>1. Behind(s)' <=> InW(hdr, s) /\ ~InW(Ahead', s)
      BY <1>1 DEF Behind
    <2>2. Behind(s) <=> InW(hdr, s) /\ ~InW(Ahead, s)
      BY DEF Behind
    <2>3. InW(Ahead', s) <=> InW(Ahead, s) /\ ~(cl.head <= s /\ s <= n)
      BY <1>9
    <2>4. (cl.head <= s /\ s <= n) => InW(hdr, s)
      BY <1>2, <1>10
    <2> QED BY <2>1, <2>2, <2>3, <2>4
  <1>12. cl.head .. n \subseteq Slots
    BY <1>1, <1>3, Constants DEF Slots
  <1>13. \A s \in cl.head .. n : Side(hdr, cl.head, s) /\ Lap(hdr, s) = cl.gen
                                    /\ InW(hdr, s) /\ InW(Ahead, s) /\ ~Behind(s)
    <2> SUFFICES ASSUME NEW s \in cl.head .. n
                 PROVE  Side(hdr, cl.head, s) /\ Lap(hdr, s) = cl.gen
                        /\ InW(hdr, s) /\ InW(Ahead, s) /\ ~Behind(s)
      OBVIOUS
    <2>1. s \in Slots /\ cl.head <= s /\ s <= n
      BY <1>3, <1>12
    <2>2. Side(hdr, cl.head, s) /\ InW(Ahead, s)
      BY <1>10, <2>1
    <2>3. Lap(hdr, s) = Lap(hdr, cl.head)
      BY <1>2, <1>3, <2>1, <2>2, Laps
    <2> QED BY <1>2, <1>3, <2>1, <2>2, <2>3
  <1>14. cl'.head # hdr'.tail => cl'.gen = Lap(hdr', cl'.head)
    BY <1>1, <1>4, <1>5, <1>6
  <1> QED BY <1>1, <1>3, <1>5, <1>6, <1>9, <1>11, <1>12, <1>13, <1>14

\* The slots from cl.head to n hold whole transactions or no candidates.
Whole(n) ==
  \A u \in cl.head .. n : \A v \in Slots : \A e \in plog[u], f \in plog[v] :
     /\ Cand(hdr, u, e) /\ Cand(hdr, v, f) /\ Side(hdr, u, v)
     /\ v \notin cl.head .. n
     => e.tid # f.tid

\* The scan passes the slots from cl.head to n and invalidates those of R.
LEMMA PassOver ==
  ASSUME TypeInv, TypeInv', UpInv, Next, ~tainted', NEW n, Passes(n), Whole(n), NEW R, Sweeps(R),
         R = {} \/ R = cl.head .. n, R = {} => cl.gen # MaxGen,
         cl'.inv = cl.inv \cup R,
         \A s \in R : \A e \in plog'[s] : Cand(hdr, s, e)' => \A d \in plog'[s] : d.start => Ends(d)
  PROVE  UpInv'
  <1>1. /\ hdr' = hdr /\ cl.head # hdr.tail /\ cl.pc # "off" /\ cl'.pc = "scan"
        /\ txn' = txn
        /\ \A s \in Slots \ R : log'[s] = log[s] /\ plog'[s] = plog[s]
        /\ \A s \in R : log'[s] = Invalid /\ \A e \in plog'[s] : e \in plog[s] \/ e = Invalid
    BY DEF Passes, Sweeps
  <1>2. /\ HeaderOnMedia' /\ (\A h \in phdr : Bounded(h))' /\ Apart(hdr)' /\ Reservations'
        /\ Tids' /\ Written' /\ Words'
        /\ \A s \in Slots : \A e : Cand(hdr, s, e)' => e \in plog[s] /\ Cand(hdr, s, e)
        /\ \A s \in Slots : \A p \in Procs : Live(p) /\ s \in Reserved(p) => InW(Ahead', s)
    BY Sweeping
  <1>3. /\ \A s \in Slots : InW(Ahead', s) <=> InW(Ahead, s) /\ ~(cl.head <= s /\ s <= n)
        /\ \A s \in Slots : Behind(s)' <=> Behind(s) \/ (cl.head <= s /\ s <= n)
        /\ cl.head .. n \subseteq Slots
        /\ \A s \in cl.head .. n : Side(hdr, cl.head, s) /\ Lap(hdr, s) = cl.gen
                                   /\ InW(hdr, s) /\ InW(Ahead, s) /\ ~Behind(s)
        /\ cl'.tail = hdr'.tail /\ (cl'.head = hdr'.tail \/ InW(hdr', cl'.head))
        /\ cl'.head # hdr'.tail => cl'.gen = Lap(hdr', cl'.head)
    BY PassRange
  <1>4. \A s \in Slots : s \in Int /\ (s \in cl.head .. n <=> cl.head <= s /\ s <= n)
    BY PassAt, <1>1 DEF Passes
  <1>5. hdr \in Headers /\ hdr.gen >= 1
    BY CleanerAt
  <1>6. OnMedia
    BY DEF TypeInv
  <1>7. ASSUME NEW u \in Slots, NEW v \in Slots, NEW e \in plog[u], NEW f \in plog[v],
               Cand(hdr, u, e), Cand(hdr, v, f), Side(hdr, u, v), Behind(u)', ~Behind(v)'
        PROVE  e.tid # f.tid
    <2>1. CASE Behind(u)
      BY <1>3, <1>7, <2>1 DEF UpInv, Cleaning
    <2>2. CASE ~Behind(u)
      <3>1. u \in cl.head .. n /\ v \notin cl.head .. n
        BY <1>3, <1>4, <1>7, <2>2
      <3> QED BY <1>7, <3>1 DEF Whole
    <2> QED BY <2>1, <2>2
  <1>8. Cleaning'
    <2>1. ASSUME NEW s \in Slots, Behind(s)', Lap(hdr, s) = MaxGen
          PROVE  s \in cl'.inv /\ log'[s] = Invalid
      <3>1. CASE s \in R
        BY <1>1, <3>1
      <3>2. CASE s \notin R
        <4>1. Behind(s)
          BY <1>3, <1>4, <2>1, <3>2
        <4>2. s \in cl.inv /\ log[s] = Invalid
          BY <2>1, <4>1 DEF UpInv, Cleaning
        <4> QED BY <1>1, <3>2, <4>2
      <3> QED BY <3>1, <3>2
    <2>2. \A s : Lap(hdr, s)' = Lap(hdr, s)
      BY <1>1 DEF Lap
    <2>3. ASSUME NEW u \in Slots, NEW v \in Slots, NEW e \in plog'[u], NEW f \in plog'[v],
                 Cand(hdr, u, e)', Cand(hdr, v, f)', Side(hdr, u, v)', Behind(u)', ~Behind(v)'
          PROVE  e.tid # f.tid
      <3>1. e \in plog[u] /\ f \in plog[v] /\ Cand(hdr, u, e) /\ Cand(hdr, v, f) /\ Side(hdr, u, v)
        BY <1>1, <1>2, <2>3 DEF Side
      <3> QED BY <1>7, <2>3, <3>1
    <2> QED BY <1>1, <1>3, <2>1, <2>2, <2>3 DEF Cleaning
  <1>9. ASSUME NEW s \in Slots, s \notin R, Covered(hdr, s)
        PROVE  Covered(hdr, s)'
    <2>1. PICK st \in Slots, r \in Slots : /\ st <= s /\ s <= r /\ Chain(hdr, st, r)
                                           /\ log[st].start /\ Ends(log[r])
      BY <1>9 DEF Covered
    <2>2. s \in st .. r
      BY <1>4, <2>1
    <2>3. \A w \in st .. r : /\ w \in Slots /\ Match(hdr, w) /\ Cand(hdr, w, log[w])
                             /\ log[w] \in plog[w] /\ plog[w] = {log[w]} /\ log[w].tid = log[s].tid
      <3>1. \A w \in st .. r : /\ w \in Slots /\ Match(hdr, w) /\ Cand(hdr, w, log[w])
                               /\ log[w] \in plog[w] /\ plog[w] = {log[w]} /\ log[w].tid = log[st].tid
        BY <1>6, <2>1, InChain
      <3> QED BY <2>2, <3>1
    <2>4. ASSUME NEW w \in st .. r, w \in R PROVE FALSE
      <3>1. w \in cl.head .. n /\ s \notin cl.head .. n
        BY <1>9, <2>4
      <3>2. Side(hdr, w, s)
        BY <1>5, <2>1, <2>2, ChainSide
      <3> QED BY <2>2, <2>3, <3>1, <3>2 DEF Whole
    <2>5. \A w \in st .. r : log'[w] = log[w] /\ plog'[w] = plog[w] /\ Match(hdr, w)'
      BY <1>1, <2>3, <2>4 DEF Match, Lap
    <2>6. st \in st .. r /\ r \in st .. r
      BY <1>4, <2>1
    <2>7. Chain(hdr, st, r)'
      BY <1>1, <2>1, <2>3, <2>5, <2>6 DEF Chain, Side
    <2> QED BY <2>1, <2>5, <2>6, <2>7 DEF Covered
  <1>10. Owned'
    <2> SUFFICES ASSUME NEW s \in Slots, NEW e \in plog'[s], Cand(hdr, s, e)'
                 PROVE  \/ \E p \in Procs : Live(p)' /\ s \in Used(p)'
                        \/ Covered(hdr, s)'
                        \/ Swept(s)'
      BY DEF Owned
    <2>1. e \in plog[s] /\ Cand(hdr, s, e)
      BY <1>2
    <2>2. CASE s \in R
      <3>1. Behind(s)'
        BY <1>3, <1>4, <2>2
      <3>2. log'[s] = Invalid /\ \A d \in plog'[s] : d.start => Ends(d)
        BY <1>1, <2>2
      <3> QED BY <3>1, <3>2 DEF Swept
    <2>3. CASE s \notin R
      <3>1. CASE \E p \in Procs : Live(p) /\ s \in Used(p)
        BY <1>1, <3>1 DEF Live, Used
      <3>2. CASE Covered(hdr, s)
        BY <1>9, <2>3, <3>2
      <3>3. CASE Swept(s)
        BY <1>1, <1>3, <2>3, <3>3 DEF Swept
      <3> QED BY <2>1, <3>1, <3>2, <3>3 DEF UpInv, Owned
    <2> QED BY <2>2, <2>3
  <1> QED BY <1>2, <1>8, <1>10 DEF UpInv

LEMMA UpCleanSkip ==
  ASSUME TypeInv, TypeInv', UpInv, Next, ~tainted', CleanSkip
  PROVE  UpInv'
  <1> USE DEF hdrVars, logVars, dataVars, bootVars
  <1>1. TypeOK /\ OnMedia /\ cl \in CleanState
    BY DEF TypeInv, Shape, TypeOK
  <1>2. /\ cl.pc = "scan" /\ cl.head # cl.tail /\ log[cl.head].gen # cl.gen
        /\ UNCHANGED <<hdr, phdr, meta, pmeta, stable, ntid, txn, mutex>>
    BY DEF CleanSkip
  <1>3. cl.head # hdr.tail
    BY <1>2 DEF UpInv, Cleaning
  <1>4. /\ cl.head \in Slots /\ cl.head \in Int /\ InW(hdr, cl.head) /\ InW(Ahead, cl.head)
        /\ cl.gen = Lap(hdr, cl.head)
    BY <1>2, <1>3, PassAt
  <1>5. next_log_entry(cl.head) \in Slots /\ 0 \in Nat /\ {} \in SUBSET Slots /\ {cl.head} \in SUBSET Slots
    BY <1>4, Constants
  <1>6. PICK c \in Slots : c = cl.head
    BY <1>4
  <1>7. \A e : ~Cand(hdr, c, e)
    <2> SUFFICES ASSUME NEW e, Cand(hdr, c, e) PROVE FALSE
      OBVIOUS
    <2>1. e \in plog[c]
      BY DEF Cand
    <2>2. Match(hdr, c)
      BY <1>4, <1>6, <2>1, SeenAhead
    <2> QED BY <1>2, <1>4, <1>6, <2>2 DEF Match
  <1>8. Whole(c) /\ cl.head .. c = {c}
    <2>1. cl.head .. c = {c}
      BY <1>4, <1>6
    <2> QED BY <1>7, <2>1 DEF Whole
  <1>9. CASE cl.gen = MaxGen
    <2>1. InvalidateSlots({cl.head}, {}) /\ MoveTo(next_log_entry(cl.head), 0, {cl.head})
      BY <1>2, <1>9 DEF CleanSkip
    <2>2. /\ cl'.pc = "scan" /\ cl'.head = next_log_entry(cl.head) /\ cl'.tail = cl.tail
          /\ cl'.inv = cl.inv \cup {cl.head}
          /\ cl'.gen = IF next_log_entry(cl.head) = 0 THEN next_gen_id(cl.gen) ELSE cl.gen
      BY <1>1, <1>5, <2>1, MoveEffect
    <2>3. Passes(c)
      BY <1>2, <1>3, <1>4, <1>6, <2>2 DEF Passes
    <2>4. \A s \in Slots : InW(Ahead', s) <=> InW(Ahead, s) /\ ~(cl.head <= s /\ s <= c)
      BY <2>3, PassRange
    <2>5. \A s \in Slots : /\ log'[s] = IF s \in {c} THEN Invalid ELSE log[s]
                           /\ s \notin {c} => plog'[s] = plog[s]
                           /\ s \in {c} \ {} => plog'[s] = plog[s] \cup {Invalid}
      BY <1>1, <1>6, <2>1, InvalidateTypes
    <2>6. Sweeps({c})
      BY <1>2, <1>4, <1>6, <2>4, <2>5 DEF Sweeps
    <2>7. \A e : ~Cand(hdr, c, e)'
      BY <1>7, <2>6, Sweeping
    <2>8. cl'.inv = cl.inv \cup {c}
      BY <1>6, <2>2
    <2> QED BY <1>8, <2>3, <2>6, <2>7, <2>8, PassOver
  <1>10. CASE cl.gen # MaxGen
    <2>1. MoveTo(next_log_entry(cl.head), 0, {}) /\ UNCHANGED <<log, plog>>
      BY <1>2, <1>10 DEF CleanSkip
    <2>2. /\ cl'.pc = "scan" /\ cl'.head = next_log_entry(cl.head) /\ cl'.tail = cl.tail
          /\ cl'.inv = cl.inv \cup {}
          /\ cl'.gen = IF next_log_entry(cl.head) = 0 THEN next_gen_id(cl.gen) ELSE cl.gen
      BY <1>1, <1>5, <2>1, MoveEffect
    <2>3. Passes(c)
      BY <1>2, <1>3, <1>4, <1>6, <2>2 DEF Passes
    <2>4. Sweeps({})
      BY <1>2, <2>1 DEF Sweeps
    <2> QED BY <1>8, <1>10, <2>2, <2>3, <2>4, PassOver
  <1> QED BY <1>9, <1>10

\* The cleaner stays where it is: only its program counter and its walk move.
LEMMA PassStays ==
  ASSUME TypeInv, TypeInv', UpInv, cl.pc # "off", cl'.pc \in {"walk", "finish"},
         UNCHANGED <<hdr, phdr, log, plog, meta, pmeta, stable, ntid, txn, mutex>>,
         cl'.head = cl.head, cl'.tail = cl.tail, cl'.gen = cl.gen, cl'.inv = cl.inv,
         cl'.pc = "walk" => cl.head # hdr.tail /\ InW(Ahead, cl'.new),
         mutex = "umount" =>
            /\ cl'.pc = "walk" /\ Chain(hdr, cl.head, cl'.new) /\ log[cl.head].start
            /\ \A w \in cl.head .. cl'.new - 1 : ~Ends(log[w])
  PROVE  UpInv'
  <1>1. \A q \in Procs : Live(q)' = Live(q)
    BY DEF Live
  <1>2. Ahead' = Ahead
    BY DEF Ahead, CleanPos
  <1>3. /\ HeaderOnMedia' /\ (\A h \in phdr : Bounded(h))' /\ Apart(hdr)' /\ Written' /\ Words'
        /\ Reservations' /\ Owned'
        /\ \A s \in Slots : \A e : Cand(hdr, s, e)' <=> Cand(hdr, s, e)
    BY <1>1, <1>2, QuietStep
  <1>4. Tids'
    BY <1>1, SameTids
  <1>5. Cleaning'
    <2>1. \A s : Behind(s)' <=> Behind(s)
      BY <1>2 DEF Behind
    <2>2. \A s : Lap(hdr, s)' = Lap(hdr, s)
      BY DEF Lap
    <2>3. /\ cl'.tail = hdr'.tail /\ (cl'.head = hdr'.tail \/ InW(hdr', cl'.head))
          /\ cl'.head # hdr'.tail => cl'.gen = Lap(hdr', cl'.head)
      BY DEF UpInv, Cleaning
    <2>4. \A s \in Slots : Behind(s)' /\ Lap(hdr, s)' = MaxGen => s \in cl'.inv /\ log'[s] = Invalid
      BY <2>1, <2>2 DEF UpInv, Cleaning
    <2>5. ASSUME NEW u \in Slots, NEW v \in Slots, NEW e \in plog'[u], NEW f \in plog'[v],
                 Cand(hdr, u, e)', Cand(hdr, v, f)', Side(hdr, u, v)', Behind(u)', ~Behind(v)'
          PROVE  e.tid # f.tid
      <3>1. /\ e \in plog[u] /\ f \in plog[v] /\ Cand(hdr, u, e) /\ Cand(hdr, v, f) /\ Side(hdr, u, v)
            /\ Behind(u) /\ ~Behind(v)
        BY <1>3, <2>1, <2>5 DEF Side
      <3> QED BY <3>1 DEF UpInv, Cleaning
    <2>6. PICK c, n : c = cl.head /\ n = cl'.new
      OBVIOUS
    <2>7. Chain(hdr, c, n)' <=> Chain(hdr, c, n)
      BY DEF Chain, Side, Match, Lap
    <2>8. mutex' = "umount" => /\ cl'.pc # "finish" /\ Chain(hdr, c, n)' /\ log'[c].start
                               /\ \A w \in c .. n - 1 : ~Ends(log'[w])
      BY <2>6, <2>7
    <2>9. Chain(hdr, c, n)' <=> Chain(hdr, cl.head, cl.new)'
      BY <2>6 DEF Chain
    <2>10. cl'.pc = "walk" => cl'.head # hdr'.tail /\ InW(Ahead', cl'.new)
      BY <1>2
    <2> QED BY <2>3, <2>4, <2>5, <2>6, <2>8, <2>9, <2>10 DEF Cleaning
  <1> QED BY <1>3, <1>4, <1>5 DEF UpInv

LEMMA UpCleanEnter ==
  ASSUME TypeInv, TypeInv', UpInv, Next, ~tainted', CleanEnter
  PROVE  UpInv'
  <1> USE DEF hdrVars, logVars, dataVars, bootVars
  <1>1. TypeOK /\ OnMedia /\ cl \in CleanState
    BY DEF TypeInv, Shape, TypeOK
  <1>2. /\ cl.pc = "scan" /\ cl.head # cl.tail /\ log[cl.head].gen = cl.gen
        /\ UNCHANGED <<hdr, phdr, log, plog, meta, pmeta, stable, ntid, txn, mutex>>
    BY DEF CleanEnter
  <1>3. cl.head # hdr.tail
    BY <1>2 DEF UpInv, Cleaning
  <1>4. PICK c \in Slots : c = cl.head
    BY <1>2, <1>3, PassAt
  <1>5. /\ c \in Int /\ InW(hdr, c) /\ InW(Ahead, c) /\ cl.gen = Lap(hdr, c) /\ ~Behind(c)
        /\ \A s \in Slots : InW(hdr, s) /\ Side(hdr, s, c) /\ s < c => Behind(s)
        /\ \A s \in Slots : s \in Int
    BY <1>2, <1>3, <1>4, PassAt
  <1>6. Match(hdr, c) /\ log[c] \in plog[c] /\ Cand(hdr, c, log[c])
    BY <1>1, <1>2, <1>4, <1>5 DEF Match, Cand, OnMedia
  <1>7. (\E p \in Procs : Live(p) /\ c \in Used(p)) \/ Covered(hdr, c)
    BY <1>5, <1>6, SeenAhead
  <1>8. CASE log[cl.head].start
    <2>1. cl' = [cl EXCEPT !.pc = "walk", !.new = cl.head]
      BY <1>2, <1>8 DEF CleanEnter
    <2>2. /\ cl'.pc = "walk" /\ cl'.new = c /\ cl'.head = cl.head /\ cl'.tail = cl.tail
          /\ cl'.gen = cl.gen /\ cl'.inv = cl.inv
      BY <1>1, <1>4, <2>1 DEF CleanState
    <2>3. ASSUME mutex = "umount" PROVE Chain(hdr, c, c)
      <3>1. \A p \in Procs : ~Live(p)
        BY <2>3 DEF TypeInv, Locking, Live
      <3>2. PICK st \in Slots, r \in Slots : st <= c /\ c <= r /\ Chain(hdr, st, r)
        BY <1>7, <3>1 DEF Covered
      <3>3. c \in st .. r
        BY <1>5, <3>2
      <3>4. plog[c] = {log[c]}
        BY <3>2, <3>3 DEF Chain
      <3> QED BY <1>5, <1>6, <3>4 DEF Chain, Side
    <2>4. c .. c - 1 = {}
      BY <1>5
    <2>5. mutex = "umount" =>
            /\ cl'.pc = "walk" /\ Chain(hdr, cl.head, cl'.new) /\ log[cl.head].start
            /\ \A w \in cl.head .. cl'.new - 1 : ~Ends(log[w])
      BY <1>4, <1>8, <2>2, <2>3, <2>4
    <2>6. cl.head # hdr.tail /\ InW(Ahead, cl'.new) /\ cl.pc # "off"
      BY <1>2, <1>3, <1>5, <2>2
    <2> QED BY <1>2, <2>2, <2>5, <2>6, PassStays
  <1>9. CASE ~log[cl.head].start
    <2>1. MoveTo(next_log_entry(cl.head), 0, {})
      BY <1>2, <1>9 DEF CleanEnter
    <2>2. next_log_entry(cl.head) \in Slots /\ 0 \in Nat /\ {} \in SUBSET Slots
      BY <1>4, Constants
    <2>3. /\ cl'.pc = "scan" /\ cl'.head = next_log_entry(cl.head) /\ cl'.tail = cl.tail
          /\ cl'.gen = IF next_log_entry(cl.head) = 0 THEN next_gen_id(cl.gen) ELSE cl.gen
      BY <1>1, <2>1, <2>2, MoveEffect
    <2>4. Passes(c)
      BY <1>2, <1>3, <1>4, <1>5, <2>3 DEF Passes
    <2>5. ~InW(Ahead', c)
      BY <1>4, <1>5, <2>4, PassRange
    <2>6. Sweeps({})
      BY <1>2 DEF Sweeps
    <2>7. ~\E p \in Procs : Live(p) /\ c \in Used(p)
      BY <2>5, <2>6, LiveSlots, Sweeping
    <2>8. PICK st \in Slots, r \in Slots : st <= c /\ c <= r /\ Chain(hdr, st, r) /\ log[st].start
      BY <1>7, <2>7 DEF Covered
    <2>9. c \in st .. r /\ st \in st .. r /\ st # c
      BY <1>4, <1>5, <1>9, <2>8
    <2>10. /\ Match(hdr, st) /\ Cand(hdr, st, log[st]) /\ log[st] \in plog[st] /\ log[c].tid = log[st].tid
      BY <1>1, <2>8, <2>9, InChain
    <2>11. Side(hdr, st, c)
      BY <2>8, <2>9, ChainSide, CleanerAt
    <2>12. Behind(st)
      BY <1>5, <2>8, <2>9, <2>10, <2>11 DEF Match
    <2> QED BY <1>5, <1>6, <2>10, <2>11, <2>12 DEF UpInv, Cleaning
  <1> QED BY <1>8, <1>9

\* The unmount's pass walks over a whole transaction.
LEMMA WalkUnmounting ==
  ASSUME TypeInv, UpInv, mutex = "umount", cl.pc = "walk", ~(log[cl.new].gen = cl.gen /\ Ends(log[cl.new])),
         NEW n, n = next_log_entry(cl.new)
  PROVE  /\ n # cl.tail /\ ~log[n].start
         /\ Chain(hdr, cl.head, n) /\ log[cl.head].start
         /\ \A w \in cl.head .. n - 1 : ~Ends(log[w])
  <1>1. OnMedia /\ hdr \in Headers /\ hdr.gen >= 1 /\ hdr.tail \in Int /\ hdr.head \in Int /\ JSize \in Nat
        /\ \A s \in Slots : s \in Int /\ 0 <= s /\ s < JSize
    BY CleanerAt, Constants DEF TypeInv, Headers, Slots
  <1>2. /\ cl.head # hdr.tail /\ cl.tail = hdr.tail /\ Chain(hdr, cl.head, cl.new) /\ log[cl.head].start
        /\ \A w \in cl.head .. cl.new - 1 : ~Ends(log[w])
    BY DEF UpInv, Cleaning
  <1>3. PICK c \in Slots, m \in Slots : c = cl.head /\ m = cl.new
    BY DEF TypeInv, TypeOK, CleanState
  <1>4. /\ InW(Ahead, c) /\ cl.gen = Lap(hdr, c)
    BY <1>2, <1>3, PassAt
  <1>5. /\ Chain(hdr, c, m) /\ c <= m /\ c \in c .. m /\ m \in c .. m
    BY <1>1, <1>2, <1>3 DEF Chain
  <1>6. Cand(hdr, c, log[c]) /\ log[c] \in plog[c]
    BY <1>1, <1>5, InChain
  <1>7. \A p \in Procs : ~Live(p)
    BY DEF TypeInv, Locking, Live
  <1>8. PICK st \in Slots, r \in Slots : /\ st <= c /\ c <= r /\ Chain(hdr, st, r)
                                         /\ log[st].start /\ Ends(log[r])
    BY <1>4, <1>6, <1>7, SeenAhead DEF Covered
  <1>9. /\ st \in st .. r /\ c \in st .. r /\ r \in st .. r
        /\ \A w \in st .. r : /\ w \in Slots /\ Match(hdr, w) /\ log[w] \in plog[w] /\ Cand(hdr, w, log[w])
                              /\ plog[w] = {log[w]} /\ log[w].tid = log[st].tid
    <2>1. st \in st .. r /\ c \in st .. r /\ r \in st .. r
      BY <1>1, <1>8
    <2> QED BY <1>1, <1>8, <2>1, InChain
  <1>10. \A w, x \in st .. r : Side(hdr, w, x)
    BY <1>1, <1>8, ChainSide
  <1>11. \A w, x \in st .. r : w < x => ~log[x].start /\ ~Ends(log[w])
    BY <1>9, <1>10 DEF UpInv, Apart, Ordered
  <1>12. st = c
    BY <1>1, <1>2, <1>3, <1>8, <1>9, <1>11
  <1>13. Lap(hdr, m) = Lap(hdr, c) /\ log[m].gen = Lap(hdr, m)
    BY <1>1, <1>5, Laps DEF Chain, Match
  <1>14. ~Ends(log[m])
    BY <1>3, <1>4, <1>13
  <1>15. m < r
    <2>1. ASSUME r < m PROVE FALSE
      BY <1>1, <1>2, <1>3, <1>8, <2>1
    <2>2. r # m
      BY <1>8, <1>14
    <2> QED BY <1>1, <2>1, <2>2
  <1>16. n = m + 1 /\ m + 1 \in st .. r
    BY <1>1, <1>3, <1>5, <1>12, <1>15 DEF next_log_entry
  <1>17. n # hdr.tail
    <2>1. InW(hdr, n)
      BY <1>9, <1>16 DEF Match
    <2> QED BY <1>1, <1>9, <1>16, <2>1 DEF InW
  <1>18. ~log[n].start
    BY <1>1, <1>5, <1>9, <1>11, <1>12, <1>16
  <1>19. Chain(hdr, c, n)
    <2>1. \A w \in c .. n : w \in st .. r
      BY <1>1, <1>12, <1>16
    <2>2. Side(hdr, c, n) /\ c <= n
      BY <1>1, <1>5, <1>9, <1>10, <1>16
    <2> QED BY <1>9, <1>12, <2>1, <2>2 DEF Chain
  <1>20. \A w \in c .. n - 1 : ~Ends(log[w])
    <2>1. \A w \in c .. n - 1 : w \in c .. m - 1 \/ w = m
      BY <1>1, <1>16
    <2> QED BY <1>2, <1>3, <1>14, <2>1
  <1> QED BY <1>2, <1>3, <1>17, <1>18, <1>19, <1>20

LEMMA UpCleanWalk ==
  ASSUME TypeInv, TypeInv', UpInv, Next, ~tainted', CleanWalk
  PROVE  UpInv'
  <1> USE DEF hdrVars, logVars, dataVars, bootVars
  <1>1. TypeOK /\ OnMedia /\ cl \in CleanState /\ ~Leap
    BY NotPassed DEF TypeInv, Shape, TypeOK
  <1>2. /\ cl.pc = "walk" /\ cl.pc # "off"
        /\ UNCHANGED <<hdr, phdr, meta, pmeta, stable, ntid, txn, mutex>>
    BY DEF CleanWalk
  <1>3. cl.head # hdr.tail /\ InW(Ahead, cl.new) /\ cl.tail = hdr.tail
    BY <1>2 DEF UpInv, Cleaning
  <1>4. PICK c \in Slots, n \in Slots : c = cl.head /\ n = cl.new
    BY <1>1 DEF CleanState
  <1>5. /\ c \in Int /\ n \in Int /\ InW(hdr, c) /\ InW(Ahead, c) /\ cl.gen = Lap(hdr, c)
        /\ Ahead.tail = hdr.tail /\ Ahead.gen = hdr.gen
        /\ \A s \in Slots : InW(Ahead, s) /\ Side(hdr, s, c) => c <= s
        /\ \A s \in Slots : InW(Ahead, s) => InW(hdr, s) /\ ~Behind(s)
        /\ \A s \in Slots : s \in Int
    BY <1>2, <1>3, <1>4, PassAt
  <1>6. next_log_entry(cl.new) \in Slots /\ next_log_entry(n) \in Slots
        /\ {} \in SUBSET Slots /\ Dist(cl.head, cl.new) + 1 \in Nat
    BY <1>4, Constants, DistNat
  <1>7. CASE log[cl.new].gen = cl.gen /\ Ends(log[cl.new])
    <2>1. \/ /\ cl.gen = MaxGen
             /\ InvalidateSlots(cl.head .. cl.new, Fenced(cl.head .. cl.new))
             /\ MoveTo(next_log_entry(cl.new), Dist(cl.head, cl.new) + 1, cl.head .. cl.new)
          \/ /\ cl.gen # MaxGen /\ UNCHANGED <<log, plog>>
             /\ MoveTo(next_log_entry(cl.new), Dist(cl.head, cl.new) + 1, {})
      BY <1>7 DEF CleanWalk
    <2>2. cl.head .. cl.new = c .. n /\ c .. n \in SUBSET Slots
      BY <1>4, Constants DEF Slots
    <2>3. /\ cl'.pc = "scan" /\ cl'.head = next_log_entry(cl.new) /\ cl'.tail = cl.tail
          /\ cl'.gen = IF next_log_entry(cl.new) = 0 THEN next_gen_id(cl.gen) ELSE cl.gen
          /\ cl'.inv = IF cl.gen = MaxGen THEN cl.inv \cup (c .. n) ELSE cl.inv \cup {}
      BY <1>1, <1>6, <2>1, <2>2, MoveEffect
    <2>4. c <= n
      BY <1>1, <1>2, <1>4, <1>5, <2>3 DEF Leap
    <2>5. Passes(n)
      BY <1>2, <1>3, <1>4, <2>3, <2>4 DEF Passes
    <2>6. /\ \A s \in Slots : InW(Ahead', s) <=> InW(Ahead, s) /\ ~(c <= s /\ s <= n)
          /\ Side(hdr, c, n)
          /\ \A s \in c .. n : Side(hdr, c, s) /\ Lap(hdr, s) = cl.gen
                               /\ InW(hdr, s) /\ InW(Ahead, s) /\ ~Behind(s)
      BY <1>4, <2>5, PassRange
    <2>7. n \in c .. n /\ Cand(hdr, n, log[n]) /\ log[n] \in plog[n] /\ Ends(log[n])
      <3>1. n \in c .. n
        BY <1>5, <2>4
      <3> QED BY <1>1, <1>4, <1>7, <2>6, <3>1 DEF Cand, OnMedia
    <2>8. Whole(n)
      <3> SUFFICES ASSUME NEW u \in c .. n, NEW v \in Slots, NEW e \in plog[u], NEW f \in plog[v],
                          Cand(hdr, u, e), Cand(hdr, v, f), Side(hdr, u, v), v \notin c .. n,
                          e.tid = f.tid
                   PROVE  FALSE
        BY <2>2, <1>4 DEF Whole
      <3>1. u \in Slots /\ ~Behind(u) /\ InW(Ahead, u) /\ Side(hdr, c, u)
        BY <2>2, <2>6
      <3>2. Side(hdr, v, u) /\ Side(hdr, v, c) /\ Side(hdr, n, v)
        BY <2>6, <3>1 DEF Side
      <3>3. ~Behind(v)
        BY <3>1, <3>2 DEF UpInv, Cleaning
      <3>4. InW(Ahead, v)
        BY <3>3 DEF Behind, Cand
      <3>5. n < v /\ u <= n
        BY <1>5, <3>2, <3>4
      <3>6. log[n].tid = f.tid
        <4>1. CASE u = n
          BY <2>7, <3>1, <4>1, SeenAhead
        <4>2. CASE u # n
          <5>1. u < n
            BY <1>5, <3>1, <3>5, <4>2
          <5> QED BY <2>7, <3>1, <3>5, <5>1 DEF UpInv, Apart, Convex
        <4> QED BY <4>1, <4>2
      <3> QED BY <2>7, <3>2, <3>5, <3>6 DEF UpInv, Apart, Ordered
    <2>9. CASE cl.gen = MaxGen
      <3>1. InvalidateSlots(cl.head .. cl.new, Fenced(cl.head .. cl.new))
        BY <2>1, <2>9
      <3>2. PICK R, F : R = c .. n /\ F = Fenced(c .. n)
        OBVIOUS
      <3>3. InvalidateSlots(R, F)
        BY <2>2, <3>1, <3>2
      <3>4. \A s \in Slots : /\ log'[s] = IF s \in R THEN Invalid ELSE log[s]
                             /\ s \notin R => plog'[s] = plog[s]
                             /\ s \in R \cap F => plog'[s] = {Invalid}
                             /\ s \in R \ F => plog'[s] = plog[s] \cup {Invalid}
        BY <1>1, <3>3, InvalidateTypes
      <3>5. \A s \in R : s \in Slots /\ ~InW(Ahead', s) /\ InW(Ahead, s)
        BY <1>5, <2>2, <2>6, <3>2
      <3>6. Sweeps(R)
        BY <1>2, <2>2, <3>2, <3>4, <3>5 DEF Sweeps
      <3>7. ASSUME NEW s \in R, NEW e \in plog'[s], Cand(hdr, s, e)', NEW d \in plog'[s], d.start
            PROVE  Ends(d)
        <4>1. s \in Slots /\ ~InW(Ahead', s) /\ InW(Ahead, s)
          BY <3>5
        <4>2. e \in plog[s] /\ Cand(hdr, s, e)
          BY <3>6, <3>7, <4>1, Sweeping
        <4>3. ~\E p \in Procs : Live(p) /\ s \in Used(p)
          BY <3>6, <4>1, LiveSlots, Sweeping
        <4>4. Covered(hdr, s)
          BY <4>1, <4>2, <4>3, SeenAhead
        <4>5. PICK st \in Slots, r \in Slots : st <= s /\ s <= r /\ Chain(hdr, st, r)
          BY <4>4 DEF Covered
        <4>6. plog[s] = {log[s]}
          <5>1. s \in st .. r
            BY <1>5, <4>1, <4>5
          <5> QED BY <4>5, <5>1 DEF Chain
        <4>7. s \notin F /\ d = log[s]
          BY <3>4, <3>7, <4>1, <4>6 DEF Invalid
        <4> QED BY <3>2, <3>7, <4>7 DEF Fenced
      <3>8. cl'.inv = cl.inv \cup R /\ R = cl.head .. n
        BY <2>2, <1>4, <2>3, <2>9, <3>2
      <3>9. R # {}
        BY <2>7, <3>2
      <3> QED BY <2>5, <2>8, <3>6, <3>7, <3>8, <3>9, PassOver
    <2>10. CASE cl.gen # MaxGen
      <3>1. UNCHANGED <<log, plog>> /\ cl'.inv = cl.inv \cup {}
        BY <2>1, <2>3, <2>10
      <3>2. Sweeps({})
        BY <1>2, <3>1 DEF Sweeps
      <3> QED BY <2>5, <2>8, <2>10, <3>1, <3>2, PassOver
    <2> QED BY <2>9, <2>10
  <1>8. CASE ~(log[cl.new].gen = cl.gen /\ Ends(log[cl.new]))
    <2>1. PICK m \in Slots : m = next_log_entry(cl.new)
      BY <1>6
    <2>2. /\ IF m = cl.tail \/ (log[m].gen = cl.gen /\ log[m].start)
             THEN cl' = [cl EXCEPT !.pc = "finish", !.total = @ + (Dist(cl.head, cl.new) + 1)]
             ELSE cl' = [cl EXCEPT !.new = m]
          /\ UNCHANGED <<log, plog>>
      BY <1>8, <2>1 DEF CleanWalk
    <2>3. /\ cl'.head = cl.head /\ cl'.tail = cl.tail /\ cl'.gen = cl.gen /\ cl'.inv = cl.inv
          /\ cl'.pc \in {"walk", "finish"}
          /\ cl'.pc = "walk" => m # cl.tail /\ cl'.new = m
          /\ m # cl.tail /\ ~log[m].start => cl'.pc = "walk"
      <3> DEFINE x == Dist(cl.head, cl.new) + 1
                 stops == m = cl.tail \/ (log[m].gen = cl.gen /\ log[m].start)
      <3>1. stops => cl' = [cl EXCEPT !.pc = "finish", !.total = @ + x]
        BY <2>2
      <3>2. ~stops => cl' = [cl EXCEPT !.new = m]
        BY <2>2
      <3>3. (m = cl.tail => stops) /\ (m # cl.tail /\ ~log[m].start => ~stops)
        OBVIOUS
      <3> HIDE DEF x, stops
      <3>4. CASE stops
        <4>1. cl' = [[cl EXCEPT !.pc = "finish"] EXCEPT !.total = cl.total + x]
          BY <3>1, <3>4
        <4>2. /\ cl'.head = cl.head /\ cl'.tail = cl.tail /\ cl'.gen = cl.gen /\ cl'.inv = cl.inv
              /\ cl'.pc = "finish"
          BY <1>1, <4>1 DEF CleanState
        <4> QED BY <3>3, <3>4, <4>2
      <3>5. CASE ~stops
        <4>1. /\ cl'.head = cl.head /\ cl'.tail = cl.tail /\ cl'.gen = cl.gen /\ cl'.inv = cl.inv
              /\ cl'.pc = cl.pc /\ cl'.new = m
          BY <1>1, <3>2, <3>5 DEF CleanState
        <4> QED BY <1>2, <3>3, <3>5, <4>1
      <3> QED BY <3>4, <3>5
    <2>4. cl'.pc = "walk" => cl.head # hdr.tail /\ InW(Ahead, cl'.new)
      <3>1. Ahead \in Headers /\ Ahead.gen >= 1
        BY <1>5, CleanerAt
      <3>2. m = Ahead.tail \/ InW(Ahead, m)
        BY <1>3, <1>4, <2>1, <3>1, Advance
      <3> QED BY <1>3, <1>5, <2>3, <3>2
    <2>5. mutex = "umount" =>
             /\ cl'.pc = "walk" /\ Chain(hdr, cl.head, cl'.new) /\ log[cl.head].start
             /\ \A w \in cl.head .. cl'.new - 1 : ~Ends(log[w])
      <3> SUFFICES ASSUME mutex = "umount"
                   PROVE  /\ cl'.pc = "walk" /\ Chain(hdr, cl.head, cl'.new) /\ log[cl.head].start
                          /\ \A w \in cl.head .. cl'.new - 1 : ~Ends(log[w])
        OBVIOUS
      <3>1. /\ m # cl.tail /\ ~log[m].start
            /\ Chain(hdr, cl.head, m) /\ log[cl.head].start
            /\ \A w \in cl.head .. m - 1 : ~Ends(log[w])
        BY <1>2, <1>8, <2>1, WalkUnmounting
      <3> QED BY <2>3, <3>1
    <2> QED BY <1>2, <2>2, <2>3, <2>4, <2>5, PassStays
  <1> QED BY <1>7, <1>8

\* The pass is over: what goes for the log, whoever made it.
LEMMA Finishing ==
  ASSUME TypeInv, TypeInv', UpInv, CleanFinish
  PROVE  /\ hdr' = Ahead /\ phdr' = {hdr'} /\ hdr'.tail = hdr.tail /\ hdr'.gen = hdr.gen
         /\ UNCHANGED <<log, meta, pmeta, stable, ntid, rc>> /\ cl'.pc = "off"
         /\ \A s \in Slots : /\ log[s] \in plog'[s] /\ \A e \in plog'[s] : e \in plog[s]
                             /\ plog[s] = {log[s]} => plog'[s] = {log[s]}
         /\ (\A h \in phdr : Bounded(h))' /\ Apart(hdr)'
         /\ \A s \in Slots : \A e : Cand(hdr, s, e)' => /\ e \in plog[s] /\ Cand(hdr, s, e)
                                                       /\ InW(hdr', s) /\ ~Behind(s)
         /\ \A s \in Slots : Lap(hdr', s) = Lap(hdr, s) /\ (InW(hdr', s) <=> InW(hdr, s) /\ ~Behind(s))
         /\ \A u, v \in Slots : Side(hdr', u, v) <=> Side(hdr, u, v)
  <1> USE DEF hdrVars, logVars, dataVars, bootVars
  <1>1. TypeOK /\ OnMedia /\ GenValid
    BY DEF TypeInv
  <1>2. /\ cl.pc # "off" /\ hdr' = [hdr EXCEPT !.head = cl.head] /\ phdr' = {hdr'}
        /\ plog' = [s \in Slots |-> IF s \in cl.inv THEN {log[s]} ELSE plog[s]]
        /\ UNCHANGED <<log, meta, pmeta, stable, ntid, rc>> /\ cl'.pc = "off"
    BY DEF CleanFinish, ClOff
  <1>3. hdr' = Ahead
    BY <1>2 DEF Ahead, CleanPos
  <1>4. /\ hdr \in Headers /\ hdr.gen >= 1 /\ hdr.gen \in 1 .. MaxGen
        /\ \A s \in Slots : InW(hdr', s) <=> InW(hdr, s) /\ ~Behind(s)
    BY <1>3, CleanerAt, Constants DEF Headers, Gens
  <1>5. hdr'.tail = hdr.tail /\ hdr'.gen = hdr.gen
    BY <1>2, <1>4 DEF Headers
  <1>6. \A s \in Slots : /\ log[s] \in plog'[s] /\ \A e \in plog'[s] : e \in plog[s]
                         /\ plog[s] = {log[s]} => plog'[s] = {log[s]}
    BY <1>1, <1>2 DEF OnMedia
  <1>7. \A s \in Slots : Lap(hdr', s) = Lap(hdr, s)
    BY <1>5 DEF Lap
  <1>8. \A u, v \in Slots : Side(hdr', u, v) <=> Side(hdr, u, v)
    BY <1>5 DEF Side
  <1>9. \A s \in Slots : \A e : Cand(hdr, s, e)' => /\ e \in plog[s] /\ Cand(hdr, s, e)
                                                    /\ InW(hdr', s) /\ ~Behind(s)
    BY <1>4, <1>6, <1>7 DEF Cand
  <1>10. Apart(hdr)'
    <2>1. PICK h, k : h = hdr /\ k = hdr'
      OBVIOUS
    <2>2. Apart(h)
      BY <2>1 DEF UpInv
    <2>3. \A s \in Slots : \A e \in plog'[s] : Cand(k, s, e)' => e \in plog[s] /\ Cand(h, s, e)
      BY <1>9, <2>1 DEF Cand
    <2>4. \A u, v \in Slots : InW(h, u) /\ InW(h, v) /\ Side(k, u, v) => Side(h, u, v)
      BY <1>8, <2>1
    <2>5. Apart(k)'
      BY <2>2, <2>3, <2>4, ApartShrinks
    <2>6. Apart(k)' <=> Apart(hdr)'
      BY <2>1 DEF Apart, Single, Convex, Ordered, Cand
    <2> QED BY <2>5, <2>6
  <1>11. (\A h \in phdr : Bounded(h))'
    <2> SUFFICES ASSUME NEW s \in Slots, NEW e \in plog'[s] PROVE e.gen <= Top(hdr', s)
      BY <1>2 DEF Bounded
    <2>1. e \in plog[s] /\ e.gen <= Top(hdr, s)
      BY <1>1, <1>6 DEF OnMedia, UpInv, Bounded
    <2>2. CASE ~Behind(s)
      <3>1. Top(hdr', s) = Top(hdr, s)
        BY <1>4, <1>5, <1>7, <2>2 DEF Top
      <3> QED BY <2>1, <3>1
    <2>3. CASE Behind(s)
      <3>1. InW(hdr, s) /\ ~InW(hdr', s) /\ Top(hdr, s) = Lap(hdr, s)
        BY <1>3, <2>3 DEF Behind, Top
      <3>2. CASE Lap(hdr, s) = MaxGen
        <4>1. s \in cl.inv /\ log[s] = Invalid
          BY <2>3, <3>2 DEF UpInv, Cleaning
        <4>2. e.gen = 0
          BY <1>2, <4>1 DEF Invalid
        <4>3. Top(hdr', s) \in 0 .. MaxGen
          BY <1>1, <1>2, Laps DEF TypeInv, Shape, TypeOK, OnMedia, GenValid
        <4>4. 0 <= Top(hdr', s)
          BY <4>3, Constants
        <4> QED BY <4>2, <4>4
      <3>3. CASE Lap(hdr, s) # MaxGen
        <4>1. CASE s < hdr.tail
          <5>1. hdr.gen # MaxGen /\ Lap(hdr, s) = hdr.gen /\ ~(hdr'.tail <= s)
            BY <1>4, <1>5, <3>3, <4>1, Constants DEF Lap, Headers, Slots
          <5>2. Top(hdr', s) = hdr.gen
            BY <1>5, <3>1, <5>1 DEF Top
          <5> QED BY <2>1, <3>1, <5>1, <5>2
        <4>2. CASE ~(s < hdr.tail)
          <5>1. Lap(hdr, s) = prev_gen_id(hdr.gen) /\ hdr'.tail <= s
            BY <1>4, <1>5, <4>2, Constants DEF Lap, Headers, Slots
          <5>2. prev_gen_id(hdr.gen) = hdr.gen - 1
            BY <1>4, <3>3, <5>1, Constants DEF prev_gen_id
          <5>3. Top(hdr', s) = hdr.gen - 1
            BY <1>5, <3>1, <5>1 DEF Top
          <5> QED BY <2>1, <3>1, <5>1, <5>2, <5>3
        <4> QED BY <4>1, <4>2
      <3> QED BY <3>2, <3>3
    <2> QED BY <2>2, <2>3
  <1> QED BY <1>2, <1>3, <1>4, <1>5, <1>6, <1>7, <1>8, <1>9, <1>10, <1>11

LEMMA UpCleanFinish ==
  ASSUME TypeInv, TypeInv', UpInv, CleanFinish, mutex # "umount"
  PROVE  UpInv'
  <1> USE DEF hdrVars, logVars, dataVars, bootVars
  <1>1. TypeOK /\ OnMedia /\ Locking /\ txn \in [Procs -> Transactions] /\ OnMedia'
    BY DEF TypeInv, Shape, TypeOK
  <1>2. /\ hdr' = Ahead /\ phdr' = {hdr'} /\ hdr'.tail = hdr.tail /\ hdr'.gen = hdr.gen
        /\ UNCHANGED <<log, meta, pmeta, stable, ntid>> /\ cl'.pc = "off"
        /\ \A s \in Slots : /\ log[s] \in plog'[s] /\ \A e \in plog'[s] : e \in plog[s]
                            /\ plog[s] = {log[s]} => plog'[s] = {log[s]}
        /\ (\A h \in phdr : Bounded(h))' /\ Apart(hdr)'
        /\ \A s \in Slots : \A e : Cand(hdr, s, e)' => /\ e \in plog[s] /\ Cand(hdr, s, e)
                                                      /\ InW(hdr', s) /\ ~Behind(s)
        /\ \A s \in Slots : Lap(hdr', s) = Lap(hdr, s) /\ (InW(hdr', s) <=> InW(hdr, s) /\ ~Behind(s))
        /\ \A u, v \in Slots : Side(hdr', u, v) <=> Side(hdr, u, v)
    BY Finishing
  <1>3. /\ \A q \in Procs : /\ Live(q)' <=> Live(q)
                            /\ Live(q) => txn'[q] = txn[q]
                            /\ txn'[q].addrs = txn[q].addrs /\ txn'[q].tid = txn[q].tid
                            /\ txn'[q].pc # "idle" => txn[q].pc # "idle"
        /\ mutex' # "umount"
    <2>1. CASE mutex \in Procs
      <3>1. txn' = [txn EXCEPT ![mutex].pc = "retry"] /\ mutex' = mutex
        BY <2>1, ProcsAssumption DEF CleanFinish
      <3>2. txn[mutex].pc = "clean"
        BY <1>1, <2>1 DEF Locking, CleanFinish
      <3>3. PICK m \in Procs : m = mutex
        BY <2>1
      <3>4. txn' = [txn EXCEPT ![m].pc = "retry"] /\ txn[m].pc = "clean"
        BY <3>1, <3>2, <3>3
      <3>5. /\ txn'[m].pc = "retry" /\ txn'[m].tid = txn[m].tid /\ txn'[m].addrs = txn[m].addrs
            /\ \A q \in Procs \ {m} : txn'[q] = txn[q]
        BY <1>1, <3>4, PcEffect, TxnShape
      <3>6. ~Live(m) /\ ~Live(m)'
        BY <3>4, <3>5 DEF Live
      <3>7. \A q \in Procs \ {m} : Live(q)' <=> Live(q)
        BY <3>5 DEF Live
      <3> QED BY <2>1, <3>1, <3>4, <3>5, <3>6, <3>7, ProcsAssumption
    <2>2. CASE mutex \notin Procs
      <3>1. txn' = txn /\ mutex' = "free"
        BY <2>2 DEF CleanFinish
      <3> QED BY <3>1 DEF Live
    <2> QED BY <2>1, <2>2
  <1>4. \A q \in Procs : Live(q) => /\ Reserved(q)' = Reserved(q) /\ Used(q)' = Used(q)
                                    /\ \A s \in Reserved(q) \cup Used(q) : s \in Slots
    <2>1. \A q \in Procs : Live(q) => /\ Reserved(q)' = Reserved(q) /\ Used(q)' = Used(q)
      BY <1>3 DEF Reserved, Used
    <2> QED BY <2>1, LiveSlots
  <1>5. HeaderOnMedia'
    BY <1>2 DEF HeaderOnMedia
  <1>6. Ahead' = hdr' /\ \A s : ~Behind(s)'
    <2>1. TypeInv' /\ cl'.pc = "off" /\ hdr' \in Headers
      BY <1>2 DEF TypeInv, Shape, TypeOK
    <2> QED BY <2>1 DEF Ahead, CleanPos, Behind, Headers
  <1>7. Reservations'
    <2>1. \A q \in Procs : Live(q)' => \A s \in Reserved(q)' : InW(Ahead', s) /\ Lap(hdr', s) = txn'[q].gen
      BY <1>2, <1>3, <1>4, <1>6 DEF UpInv, Reservations
    <2>2. \A p, q \in Procs : Live(p)' /\ Live(q)' /\ p # q => Reserved(p)' \cap Reserved(q)' = {}
      BY <1>3, <1>4 DEF UpInv, Reservations
    <2> QED BY <2>1, <2>2 DEF Reservations
  <1>8. Tids'
    BY <1>2, <1>3, <1>4 DEF UpInv, Tids, Cand
  <1>9. Written'
    <2> SUFFICES ASSUME NEW q \in Procs, Live(q) PROVE WrittenBy(q)'
      BY <1>3 DEF Written
    <2>1. WrittenBy(q) /\ txn'[q] = txn[q]
      BY <1>3 DEF UpInv, Written
    <2> QED BY <1>2, <1>4, <2>1 DEF WrittenBy
  <1>10. Words'
    <2>1. ASSUME NEW p \in Procs, Live(p), NEW a, NEW m, Logged(p, a, m)
          PROVE  Logged(p, a, m)'
      <3>1. txn[p].start \in Nat /\ txn[p].used \in Nat
        BY <2>1, LiveSlots
      <3>2. m \in Used(p) /\ log[m].addr = a /\ \A w \in txn[p].start .. m : plog[w] = {log[w]} /\ w \in Used(p)
        BY <2>1, <3>1 DEF Logged, Used
      <3>3. \A w \in txn[p].start .. m : w \in Slots /\ plog'[w] = {log[w]}
        BY <1>2, <1>4, <2>1, <3>2
      <3> QED BY <1>2, <1>3, <1>4, <2>1, <3>2, <3>3 DEF Logged
    <2>2. ASSUME NEW p \in Procs, Live(p) PROVE HeldWords(p)'
      <3>1. HeldWords(p) /\ txn'[p] = txn[p] /\ Used(p)' = Used(p)
        BY <1>3, <1>4, <2>2 DEF UpInv, Words
      <3>2. \A u \in Used(p) : \/ log[u].old = stable[log[u].addr]
                               \/ \E m \in Slots : m < u /\ Logged(p, log[u].addr, m)'
        <4> SUFFICES ASSUME NEW u \in Used(p), NEW m \in Slots, m < u, Logged(p, log[u].addr, m)
                     PROVE  Logged(p, log[u].addr, m)'
          BY <3>1 DEF HeldWords
        <4>1. PICK a : a = log[u].addr
          OBVIOUS
        <4>2. Logged(p, a, m)'
          BY <2>1, <2>2, <4>1
        <4> QED BY <1>2, <4>1, <4>2 DEF Logged
      <3>3. \A u \in Used(p) : \/ log'[u].old = stable'[log'[u].addr]
                               \/ \E m \in Slots : m < u /\ Logged(p, log[u].addr, m)'
        BY <1>2, <3>2
      <3> QED BY <1>2, <3>1, <3>3 DEF HeldWords
    <2>3. ASSUME NEW a \in Addrs, Dirty(a)' PROVE DirtyLogged(a)'
      <3>1. Dirty(a)
        BY <1>2, <2>3 DEF Dirty
      <3>2. PICK p \in Procs, m \in Slots : Live(p) /\ Logged(p, a, m)
        BY <3>1 DEF UpInv, Words, DirtyLogged
      <3>3. Logged(p, a, m)' /\ Live(p)'
        BY <1>3, <2>1, <3>2
      <3> QED BY <3>3 DEF DirtyLogged
    <2> QED BY <1>3, <2>2, <2>3 DEF UpInv, Words
  <1>11. ASSUME NEW s \in Slots, Covered(hdr, s), ~Behind(s) PROVE Covered(hdr, s)'
    <2>1. PICK st \in Slots, r \in Slots : /\ st <= s /\ s <= r /\ Chain(hdr, st, r)
                                           /\ log[st].start /\ Ends(log[r])
      BY <1>11 DEF Covered
    <2>2. s \in st .. r
      BY <2>1, Constants DEF Slots
    <2>3. \A w \in st .. r : /\ w \in Slots /\ Match(hdr, w) /\ log[w] \in plog[w] /\ Cand(hdr, w, log[w])
                             /\ plog[w] = {log[w]} /\ log[w].tid = log[st].tid
      <3>1. OnMedia /\ Chain(hdr, st, r)
        BY <1>1, <2>1
      <3> QED BY <3>1, InChain
    <2>4. \A w \in st .. r : Side(hdr, w, s)
      BY <2>1, <2>2, ChainSide, CleanerAt
    <2>5. \A w \in st .. r : ~Behind(w)
      <3> SUFFICES ASSUME NEW w \in st .. r, Behind(w) PROVE FALSE
        OBVIOUS
      <3>1. log[w].tid = log[s].tid
        BY <2>2, <2>3
      <3> QED BY <1>11, <2>2, <2>3, <2>4, <3>1 DEF UpInv, Cleaning
    <2>6. \A w \in st .. r : Match(hdr, w)' /\ plog'[w] = {log[w]}
      BY <1>2, <2>3, <2>5 DEF Match
    <2>7. Chain(hdr, st, r)'
      BY <1>2, <2>1, <2>3, <2>6 DEF Chain
    <2> QED BY <1>2, <2>1, <2>7 DEF Covered
  <1>12. Owned'
    <2> SUFFICES ASSUME NEW s \in Slots, NEW e \in plog'[s], Cand(hdr, s, e)'
                 PROVE  \/ \E p \in Procs : Live(p)' /\ s \in Used(p)'
                        \/ Covered(hdr, s)'
      BY DEF Owned
    <2>1. e \in plog[s] /\ Cand(hdr, s, e) /\ ~Behind(s)
      BY <1>2
    <2>2. (\E p \in Procs : Live(p) /\ s \in Used(p)) \/ Covered(hdr, s)
      BY <2>1 DEF UpInv, Owned, Swept
    <2> QED BY <1>3, <1>4, <1>11, <2>1, <2>2
  <1>13. Cleaning'
    BY <1>2, <1>3, <1>6 DEF Cleaning
  <1> QED BY <1>2, <1>5, <1>7, <1>8, <1>9, <1>10, <1>12, <1>13 DEF UpInv

\* An unmount leaves an empty journal and settled words.
LEMMA UnmountEnds ==
  ASSUME TypeInv, TypeInv', UpInv, CleanFinish, mutex = "umount"
  PROVE  RecoverInv' /\ hdr'.head = hdr'.tail
  <1> USE DEF hdrVars, logVars, dataVars, bootVars
  <1>1. /\ hdr' = Ahead /\ phdr' = {hdr'} /\ hdr'.tail = hdr.tail
        /\ UNCHANGED <<log, meta, pmeta, stable, rc>>
        /\ (\A h \in phdr : Bounded(h))' /\ Apart(hdr)'
    BY Finishing
  <1>2. hdr'.head = hdr'.tail
    <2>1. cl.head = cl.tail /\ cl.tail = hdr.tail /\ hdr'.head = cl.head
      BY CleanerAt DEF CleanFinish, UpInv, Cleaning, Headers
    <2> QED BY <1>1, <2>1
  <1>3. rc'.pc = "off" /\ mode' = "recover"
    <2>1. mode = "up"
      BY DEF TypeInv, Locking
    <2> QED BY <1>1, <2>1, ProcsAssumption DEF TypeInv, Locking, CleanFinish
  <1>4. \A s \in Slots : ~InW(hdr', s)
    <2>1. hdr'.tail \in Int /\ \A s \in Slots : s \in Int
      BY Constants DEF TypeInv, Shape, TypeOK, Headers, Slots
    <2> QED BY <1>2, <2>1 DEF InW
  <1>5. \A a \in Addrs : ~Dirty(a)'
    <2>1. \A p \in Procs : ~Live(p)
      BY DEF TypeInv, Locking, Live
    <2>2. \A a \in Addrs : ~Dirty(a)
      BY <2>1 DEF UpInv, Words, DirtyLogged
    <2> QED BY <1>1, <2>2 DEF Dirty
  <1>6. /\ \A s \in Slots : ~Match(hdr, s)' /\ ~Done(s)'
        /\ \A s \in Slots : \A e : ~Cand(hdr, s, e)'
    BY <1>4 DEF Match, Cand, Done
  <1>7. (\A h \in phdr : Bounded(h) /\ Apart(h) /\ Classified(h))'
    <2>1. Classified(hdr)'
      BY <1>6 DEF Classified
    <2>2. PICK h : h = hdr'
      OBVIOUS
    <2>3. Apart(h)' /\ Classified(h)' /\ Bounded(h)'
      BY <1>1, <2>1, <2>2 DEF Apart, Single, Convex, Ordered, Classified, Cand, Match, Bounded
    <2> QED BY <1>1, <2>2, <2>3
  <1>8. Scanning' /\ Cut' /\ Invalidated' /\ Stored' /\ Repairs'
    BY <1>3, <1>4, <1>5, <1>6 DEF Scanning, Cut, Invalidated, Stored, Repairs
  <1> QED BY <1>1, <1>2, <1>3, <1>7, <1>8 DEF RecoverInv

\* The steps of the mounted volume, a crash and the end of an unmount aside.
LEMMA UpStep ==
  ASSUME TypeInv, TypeInv', UpInv, Next, ~tainted', mode = "up", ~Crash
  PROVE  IF mode' = "up" THEN UpInv' ELSE RecoverInv' /\ hdr'.head = hdr'.tail
  <1> USE DEF hdrVars, logVars, dataVars, bootVars, runVars
  <1>1. ~Overrun
    BY NotPassed
  <1>2. ASSUME NEW p \in Procs, Transact(p) PROVE UpInv' /\ mode' = "up"
    <2>1. mode' = "up"
      BY <1>2 DEF Transact, Reserve, NewTransaction, FreeLogentries, JournalFull, WrapJournal, ReserveEntries,
                  AddLogentry, LogFence, Update, CommitFlush, CommitEntry, AbortUndo, AbortEntry
    <2>2. ASSUME Reserve(p) PROVE UpInv'
      BY <1>1, <2>2, UpFreeLogentries, UpJournalFull, UpWrapJournal, UpReserveEntries DEF Reserve
    <2>3. ASSUME NEW a \in Addrs, AddLogentry(p, a) PROVE UpInv'
      BY <2>3, UpAddLogentry
    <2>4. ASSUME NEW a \in Addrs, NEW v \in Vals, Update(p, a, v) PROVE UpInv'
      BY <2>4, UpUpdate
    <2>5. CASE NewTransaction(p)
      BY <2>1, <2>5, UpNewTransaction
    <2>6. CASE LogFence(p) \/ CommitFlush(p) \/ CommitEntry(p) \/ AbortUndo(p) \/ AbortEntry(p)
      BY <2>1, <2>6, UpLogFence, UpCommitFlush, UpCommitEntry, UpAbortUndo, UpAbortEntry
    <2> QED BY <1>2, <2>1, <2>2, <2>3, <2>4, <2>5, <2>6 DEF Transact
  <1>3. CASE CleanSkip \/ CleanEnter \/ CleanWalk
    <2>1. mode' = "up"
      BY <1>3 DEF CleanSkip, CleanEnter, CleanWalk
    <2> QED BY <1>3, <2>1, UpCleanSkip, UpCleanEnter, UpCleanWalk
  <1>4. CASE CleanFinish
    <2>1. CASE mutex = "umount"
      <3>1. mode' # "up"
        BY <1>4, <2>1, ProcsAssumption DEF CleanFinish
      <3> QED BY <1>4, <2>1, <3>1, UnmountEnds
    <2>2. CASE mutex # "umount"
      <3>1. mode' = "up"
        BY <1>4, <2>2 DEF CleanFinish
      <3> QED BY <1>4, <2>2, <3>1, UpCleanFinish
    <2> QED BY <2>1, <2>2
  <1>5. CASE CleanerRun \/ Unmount
    <2>1. mode' = "up"
      BY <1>5 DEF CleanerRun, Unmount
    <2> QED BY <1>5, <2>1, UpPassBegins
  <1>6. ~Recover
    <2>1. rc.pc = "off"
      BY DEF TypeInv, Locking
    <2> QED BY <2>1 DEF Recover, RecoverStart, RecoverScan, RecoverWalk, RecoverUndo, RecoverInvalidate,
                        InvalidateRest, ForwardJournal, RecoverDone, Mounted
  <1> QED BY <1>2, <1>3, <1>4, <1>5, <1>6 DEF Next, Step, Clean
=============================================================================
