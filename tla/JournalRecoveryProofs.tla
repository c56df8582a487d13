----------------------- MODULE JournalRecoveryProofs -----------------------
(***************************************************************************)
(* Proofs about Journal, continued: power failures, the recovery of the    *)
(* journal at mount, and the theorems of the specification.                *)
(***************************************************************************)
EXTENDS JournalProofs

-----------------------------------------------------------------------------
(* The window as the recovery goes back through it.                        *)

LEMMA Retreat ==
  ASSUME NEW h \in Headers, h.gen >= 1, NEW c \in Slots, c = h.tail \/ InW(h, c),
         NEW k, k = [h EXCEPT !.tail = c]
  PROVE  /\ \A s \in Slots : InW(k, s) => InW(h, s)
         /\ c = h.head => \A s \in Slots : ~InW(k, s)
         /\ c # h.tail => /\ \A s \in Slots : InW(k, s) /\ Side(h, s, c) => s < c
                          /\ \A s \in Slots : InW(h, s) /\ Side(h, s, c) /\ s < c => InW(k, s)
         /\ c # h.head =>
              \E t \in Slots :
                /\ t = prev_log_entry(c)
                /\ InW(h, t) /\ InW(k, t) /\ t # h.tail
                /\ Lap(h, t) = IF c = 0 THEN prev_gen_id(h.gen)
                               ELSE IF c <= h.tail THEN h.gen ELSE prev_gen_id(h.gen)
                /\ \A s \in Slots : InW([h EXCEPT !.tail = t], s) <=> InW(k, s) /\ s # t
                /\ c # 0 => t = c - 1
                /\ c # 0 /\ c # h.tail => Side(h, t, c)
  <1>1. k.tail = c /\ k.head = h.head
    BY DEF Headers
  <1>2. /\ c \in Int /\ h.head \in Int /\ h.tail \in Int /\ JSize \in Int
        /\ h.head >= 0 /\ h.head < JSize /\ h.tail >= 0 /\ h.tail < JSize
        /\ \A s \in Slots : s \in Int /\ 0 <= s /\ s < JSize
    BY Constants DEF Headers, Slots
  <1>3. /\ \A s \in Slots : InW(k, s) => InW(h, s)
        /\ c = h.head => \A s \in Slots : ~InW(k, s)
    BY <1>1, <1>2 DEF InW
  <1>4. c # h.tail => /\ \A s \in Slots : InW(k, s) /\ Side(h, s, c) => s < c
                      /\ \A s \in Slots : InW(h, s) /\ Side(h, s, c) /\ s < c => InW(k, s)
    BY <1>1, <1>2 DEF InW, Side
  <1>5. ASSUME c # h.head
        PROVE  \E t \in Slots :
                /\ t = prev_log_entry(c)
                /\ InW(h, t) /\ InW(k, t) /\ t # h.tail
                /\ Lap(h, t) = IF c = 0 THEN prev_gen_id(h.gen)
                               ELSE IF c <= h.tail THEN h.gen ELSE prev_gen_id(h.gen)
                /\ \A s \in Slots : InW([h EXCEPT !.tail = t], s) <=> InW(k, s) /\ s # t
                /\ c # 0 => t = c - 1
                /\ c # 0 /\ c # h.tail => Side(h, t, c)
    <2>1. PICK t \in Slots : t = prev_log_entry(c)
      BY Constants
    <2>2. t = IF c = 0 THEN JSize - 1 ELSE c - 1
      BY <2>1 DEF prev_log_entry
    <2>3. InW(h, t) /\ InW(k, t)
      BY <1>1, <1>2, <1>5, <2>2 DEF InW
    <2>4. t # h.tail
      BY <1>2, <2>3 DEF InW
    <2>5. Lap(h, t) = IF c = 0 THEN prev_gen_id(h.gen)
                      ELSE IF c <= h.tail THEN h.gen ELSE prev_gen_id(h.gen)
      BY <1>2, <2>2 DEF Lap
    <2>6. \A s \in Slots : InW([h EXCEPT !.tail = t], s) <=> InW(k, s) /\ s # t
      <3> DEFINE m == [h EXCEPT !.tail = t]
      <3>1. m.head = h.head /\ m.tail = t
        BY DEF Headers
      <3> HIDE DEF m
      <3> SUFFICES ASSUME NEW s \in Slots PROVE InW(m, s) <=> InW(k, s) /\ s # t
        BY DEF m
      <3> QED BY <1>1, <1>2, <1>5, <2>2, <3>1 DEF InW
    <2>7. c # 0 /\ c # h.tail => Side(h, t, c)
      BY <1>2, <2>2 DEF Side
    <2> QED BY <2>1, <2>2, <2>3, <2>4, <2>5, <2>6, <2>7
  <1> QED BY <1>3, <1>4, <1>5

\* Before the recovery and while it scans, nothing is pending in what is left.
LEMMA RemAhead ==
  ASSUME TypeInv, RecoverInv, rc.pc # "sync"
  PROVE  /\ hdr \in Headers /\ hdr.gen >= 1 /\ phdr = {hdr} /\ rc \in RecoverState
         /\ \A s \in Slots : Rem(s) => InW(hdr, s)
         /\ \A s \in Slots : InW(hdr, s) /\ ~Done(s) => plog[s] = {log[s]}
         /\ \A s \in Slots : InW(hdr, s) => Rem(s) \/ Range_(s) \/ Done(s)
         /\ rc.pc = "off" => \A s \in Slots : Rem(s) <=> InW(hdr, s)
         /\ \A s \in Slots : Done(s) => InW(hdr, s) /\ ~Rem(s) /\ ~Range_(s)
         /\ \A s \in Slots : Lap(hdr, s) \in 1 .. MaxGen
  <1>1. hdr \in Headers /\ hdr.gen >= 1 /\ phdr = {hdr} /\ rc \in RecoverState
    BY DEF TypeInv, Shape, TypeOK, OnMedia, GenValid, RecoverInv
  <1>2. \A s \in Slots : Rem(s) => InW(hdr, s)
    <2>1. CASE rc.pc = "off"
      BY <2>1 DEF Rem
    <2>2. CASE rc.pc # "off"
      <3>1. rc.pc \in {"scan", "walk", "undo", "invalidate", "forward"}
        BY <1>1, <2>2 DEF RecoverState, RecoverInv
      <3>2. rc.tail \in Slots /\ (rc.tail = hdr.tail \/ InW(hdr, rc.tail))
        BY <1>1, <3>1 DEF RecoverState, RecoverInv, Scanning
      <3>3. \A s \in Slots : InW([hdr EXCEPT !.tail = rc.tail], s) => InW(hdr, s)
        BY <1>1, <3>2, Retreat
      <3> QED BY <2>2, <3>3 DEF Rem
    <2> QED BY <2>1, <2>2
  <1>3. \A s \in Slots : InW(hdr, s) /\ ~Done(s) => plog[s] = {log[s]}
    BY DEF RecoverInv, Stored, Pending
  <1>4. \A s \in Slots : Lap(hdr, s) \in 1 .. MaxGen
    BY <1>1, Laps
  <1> QED BY <1>1, <1>2, <1>3, <1>4 DEF Done, Rem

-----------------------------------------------------------------------------
(* What stays true of the entries that still count.                        *)

LEMMA StillClassified ==
  ASSUME NEW h \in Headers, TypeInv, stable' = stable,
         \A s \in Slots : Match(h, s)' => /\ Match(h, s) /\ log'[s] = log[s]
                                          /\ plog[s] = {log[s]} => plog'[s] = {log[s]},
         \A s, r \in Slots : Match(h, s)' /\ Match(h, r) /\ Side(h, s, r) /\ log[r].tid = log[s].tid
                               => Match(h, r)'
  PROVE  /\ Classified(h) => Classified(h)'
         /\ \A st, m \in Slots : Chain(h, st, m) /\ (\E w \in st .. m : Match(h, w)') => Chain(h, st, m)'
         /\ \A t \in Slots : OpenStart(h, t)' => OpenStart(h, t)
         /\ \A t \in Slots : OpenStart(h, t) /\ Match(h, t)' => OpenStart(h, t)'
  <1>0. OnMedia
    BY DEF TypeInv
  <1>1. ASSUME NEW st \in Slots, NEW m \in Slots, Chain(h, st, m), NEW w \in st .. m, Match(h, w)'
        PROVE  /\ Chain(h, st, m)'
               /\ \A x \in st .. m : Match(h, x)' /\ log'[x] = log[x]
    <2>1. \A x \in st .. m : x \in Slots /\ Match(h, x) /\ plog[x] = {log[x]} /\ log[x].tid = log[st].tid
      BY <1>0, <1>1, InChain
    <2>2. \A x \in st .. m : Side(h, w, x)
      BY <1>1, ChainSide
    <2>3. \A x \in st .. m : Match(h, x)'
      <3>1. \A x \in st .. m : log[x].tid = log[w].tid
        BY <2>1
      <3> QED BY <1>1, <2>1, <2>2, <3>1
    <2>4. \A x \in st .. m : log'[x] = log[x] /\ plog'[x] = {log[x]}
      BY <2>1, <2>3
    <2>5. st \in st .. m
      BY <1>1, Constants DEF Chain, Slots
    <2>6. \A x \in st .. m : Match(h, x)' /\ log'[x].tid = log'[st].tid /\ plog'[x] = {log'[x]}
      BY <2>1, <2>3, <2>4, <2>5
    <2> QED BY <1>1, <2>3, <2>4, <2>6 DEF Chain
  <1>2. \A t \in Slots : OpenStart(h, t)' => OpenStart(h, t)
    <2> SUFFICES ASSUME NEW t \in Slots, OpenStart(h, t)', NEW r \in Slots, Match(h, r), Side(h, t, r),
                        log[r].tid = log[t].tid
                 PROVE  Match(h, t) /\ log[t].start /\ ~Ends(log[r])
      BY DEF OpenStart
    <2>1. Match(h, t)' /\ log'[t].start /\ Match(h, t) /\ log'[t] = log[t]
      BY DEF OpenStart
    <2>2. Match(h, r)' /\ log'[r] = log[r]
      BY <2>1
    <2> QED BY <2>1, <2>2 DEF OpenStart
  <1>3. \A t \in Slots : OpenStart(h, t) /\ Match(h, t)' => OpenStart(h, t)'
    <2> SUFFICES ASSUME NEW t \in Slots, OpenStart(h, t), Match(h, t)', NEW r \in Slots, Match(h, r)',
                        Side(h, t, r), log'[r].tid = log'[t].tid
                 PROVE  log'[t].start /\ ~Ends(log'[r])
      BY DEF OpenStart
    <2>1. log'[t] = log[t] /\ log'[r] = log[r] /\ Match(h, r)
      OBVIOUS
    <2> QED BY <2>1 DEF OpenStart
  <1>4. ASSUME Classified(h), NEW u \in Slots, Match(h, u)'
        PROVE  Orphan(h, u)' \/ Covered(h, u)' \/ Harmless(h, u)'
    <2>1. Match(h, u) /\ log'[u] = log[u] /\ \A s \in Slots : s \in Int
      BY <1>4, Constants DEF Slots
    <2>2. CASE Orphan(h, u)
      BY <1>2, <2>2 DEF Orphan
    <2>3. CASE Covered(h, u)
      <3>1. PICK st \in Slots, r \in Slots : /\ st <= u /\ u <= r /\ Chain(h, st, r)
                                             /\ log[st].start /\ Ends(log[r])
        BY <2>3 DEF Covered
      <3>2. u \in st .. r /\ st \in st .. r /\ r \in st .. r
        BY <2>1, <3>1
      <3>3. Chain(h, st, r)' /\ log'[st] = log[st] /\ log'[r] = log[r]
        BY <1>1, <1>4, <3>1, <3>2
      <3> QED BY <3>1, <3>3 DEF Covered
    <2>4. CASE Harmless(h, u)
      <3>1. CASE log[u].addr \in Addrs => log[u].old = stable[log[u].addr]
        BY <2>1, <2>4, <3>1 DEF Harmless
      <3>2. CASE ~(log[u].addr \in Addrs => log[u].old = stable[log[u].addr])
        <4>1. PICK st \in Slots, m \in Slots :
                /\ st <= m /\ m < u /\ Chain(h, st, m) /\ log[st].start
                /\ log[st].tid = log[u].tid /\ Side(h, m, u) /\ log[m].addr = log[u].addr
          BY <2>4, <3>2 DEF Harmless
        <4>2. m \in st .. m /\ st \in st .. m
          BY <2>1, <4>1
        <4>3. Match(h, m) /\ log[m].tid = log[u].tid
          BY <1>0, <4>1, <4>2, InChain
        <4>4. Side(h, u, m)
          BY <4>1 DEF Side
        <4>5. Match(h, m)'
          BY <1>4, <4>3, <4>4
        <4>6. Chain(h, st, m)' /\ log'[st] = log[st] /\ log'[m] = log[m]
          BY <1>1, <4>1, <4>2, <4>5
        <4>7. ~Ends(log'[u])
          BY <2>1, <2>4 DEF Harmless
        <4>8. /\ st <= m /\ m < u /\ Chain(h, st, m)' /\ log'[st].start
              /\ log'[st].tid = log'[u].tid /\ Side(h, m, u)' /\ log'[m].addr = log'[u].addr
          BY <2>1, <4>1, <4>6 DEF Side
        <4> QED BY <4>7, <4>8 DEF Harmless
      <3> QED BY <3>1, <3>2
    <2> QED BY <1>4, <2>1, <2>2, <2>3, <2>4 DEF Classified
  <1> QED BY <1>1, <1>2, <1>3, <1>4 DEF Classified

-----------------------------------------------------------------------------
(* Power fails.                                                            *)

\* Of several possible states the media keep one, which is seen again.
LEMMA Restarted ==
  ASSUME TypeInv', rc' = RcOff, mode' = "recover", phdr' = {hdr'},
         \A s \in Slots : plog'[s] = {log'[s]},
         Bounded(hdr)', Apart(hdr)', Classified(hdr)',
         \A a \in Addrs : Dirty(a)' =>
           \E st, m \in Slots : /\ st <= m /\ Chain(hdr, st, m)' /\ OpenStart(hdr, st)'
                                /\ log'[m].addr = a
  PROVE  RecoverInv'
  <1>1. rc'.pc = "off"
    BY DEF RcOff
  <1>2. \A s \in Slots : (Rem(s)' <=> InW(hdr', s)) /\ ~Range_(s)' /\ ~Done(s)'
    BY <1>1 DEF Rem, Range_, Done
  <1>3. \A s \in Slots : s \in Int
    BY Constants DEF Slots
  <1>4. Repairs'
    <2> SUFFICES ASSUME NEW a \in Addrs, Dirty(a)' PROVE Undoable(a)'
      BY DEF Repairs
    <2>1. PICK st \in Slots, m \in Slots : /\ st <= m /\ Chain(hdr, st, m)' /\ OpenStart(hdr, st)'
                                           /\ log'[m].addr = a
      OBVIOUS
    <2>2. m \in st .. m
      BY <1>3, <2>1
    <2>3. Rem(m)'
      BY <1>2, <2>1, <2>2 DEF Chain, Match
    <2> QED BY <2>1, <2>3 DEF Undoable
  <1>5. Scanning' /\ Cut' /\ Invalidated' /\ Stored'
    BY <1>1, <1>2 DEF Scanning, Cut, Invalidated, Stored
  <1>6. (\A h \in phdr : Bounded(h) /\ Apart(h) /\ Classified(h))'
    OBVIOUS
  <1> QED BY <1>1, <1>4, <1>5, <1>6 DEF RecoverInv

\* The header on the media sees the same entries as the cached one.
LEMMA OldHeader ==
  ASSUME TypeInv, UpInv, NEW h \in phdr
  PROVE  /\ h \in Headers /\ h.gen >= 1 /\ Bounded(h) /\ Extends(h, hdr) /\ Apart(h)
         /\ \A s \in Slots : \A e : Cand(hdr, s, e) <=> Cand(h, s, e)
         /\ \A st, r \in Slots : Chain(hdr, st, r) => Chain(h, st, r)
  <1>1. h \in Headers /\ h.gen >= 1 /\ hdr \in Headers /\ hdr.gen >= 1 /\ OnMedia
    BY DEF TypeInv, TypeOK, GenValid, OnMedia
  <1>2. Bounded(h) /\ Bounded(hdr)
    BY <1>1 DEF UpInv, OnMedia
  <1>3. /\ \A s \in Slots : s \in Int /\ 0 <= s
        /\ \A s \in Slots : \A e \in plog[s] : e.gen \in Int
        /\ h.head \in Slots /\ h.tail \in Slots /\ h.gen \in Int
    BY <1>1, Constants DEF Slots, TypeInv, TypeOK, Entries, Headers, Gens
  <1>4. Extends(h, hdr)
    <2>1. CASE h = hdr
      BY <2>1 DEF Extends, Cand
    <2>2. CASE h # hdr
      <3>1. /\ hdr.tail = 0 /\ h.head = hdr.head /\ h.head # 0 /\ h.head <= h.tail
            /\ h.gen = prev_gen_id(hdr.gen)
        BY <2>2 DEF UpInv, HeaderOnMedia
      <3>2. \A s \in Slots : /\ InW(hdr, s) <=> h.head <= s
                             /\ InW(h, s) <=> h.head <= s /\ s < h.tail
                             /\ Lap(hdr, s) = h.gen
                             /\ s < h.tail => Lap(h, s) = h.gen
                             /\ h.tail <= s => Top(h, s) = h.gen - 1
        BY <1>3, <3>1 DEF InW, Lap, Top
      <3>3. \A s \in Slots : \A e \in plog[s] : Cand(hdr, s, e) => InW(h, s)
        BY <1>2, <1>3, <3>2 DEF Cand, Bounded
      <3>4. \A u, v \in Slots : InW(h, u) /\ InW(h, v) => (Side(h, u, v) <=> Side(hdr, u, v))
        BY <1>3, <3>1, <3>2 DEF Side
      <3> QED BY <3>2, <3>3, <3>4 DEF Extends
    <2> QED BY <2>1, <2>2
  <1>5. /\ \A s \in Slots : \A e : Cand(hdr, s, e) <=> Cand(h, s, e)
        /\ \A s \in Slots : Match(hdr, s) <=> Match(h, s)
    BY <1>1, <1>4, SameView
  <1>6. \A st, r \in Slots : Chain(hdr, st, r) => Chain(h, st, r)
    <2> SUFFICES ASSUME NEW st \in Slots, NEW r \in Slots, Chain(hdr, st, r) PROVE Chain(h, st, r)
      OBVIOUS
    <2>1. st \in st .. r /\ r \in st .. r
      BY Constants DEF Chain, Slots
    <2>2. \A w \in st .. r : w \in Slots
      BY Constants DEF Slots
    <2>3. \A w \in st .. r : Match(h, w)
      BY <1>5, <2>2 DEF Chain
    <2>4. Side(h, st, r)
      BY <1>4, <2>1, <2>3 DEF Chain, Extends, Match
    <2> QED BY <2>3, <2>4 DEF Chain
  <1>7. Apart(h)
    <2>1. Apart(hdr)
      BY DEF UpInv
    <2>2. \A s \in Slots : \A e : Cand(h, s, e) => InW(h, s)
      BY DEF Cand
    <2>3. Single(h)
      BY <1>5, <2>1 DEF Apart, Single
    <2>4. \A u, v \in Slots : \A e, f : Cand(h, u, e) /\ Cand(h, v, f) /\ Side(h, u, v) => Side(hdr, u, v)
      BY <1>4, <2>2 DEF Extends
    <2>5. Convex(h)
      <3> SUFFICES ASSUME NEW u \in Slots, NEW w \in Slots, NEW v \in Slots,
                          NEW e \in plog[u], NEW d \in plog[w], NEW f \in plog[v],
                          u < w /\ w < v /\ Side(h, u, v),
                          Cand(h, u, e) /\ Cand(h, w, d) /\ Cand(h, v, f) /\ e.tid = f.tid
                   PROVE  d.tid = e.tid
        BY DEF Convex
      <3>1. Side(hdr, u, v) /\ Cand(hdr, u, e) /\ Cand(hdr, w, d) /\ Cand(hdr, v, f)
        BY <1>5, <2>4
      <3> QED BY <2>1, <3>1 DEF Apart, Convex
    <2>6. Ordered(h)
      <3> SUFFICES ASSUME NEW u \in Slots, NEW v \in Slots, NEW e \in plog[u], NEW f \in plog[v],
                          u < v /\ Side(h, u, v),
                          Cand(h, u, e) /\ Cand(h, v, f) /\ e.tid = f.tid
                   PROVE  ~f.start /\ ~Ends(e)
        BY DEF Ordered
      <3>1. Side(hdr, u, v) /\ Cand(hdr, u, e) /\ Cand(hdr, v, f)
        BY <1>5, <2>4
      <3> QED BY <2>1, <3>1 DEF Apart, Ordered
    <2> QED BY <2>3, <2>5, <2>6 DEF Apart
  <1> QED BY <1>1, <1>2, <1>4, <1>5, <1>6, <1>7

\* The entries of a live transaction up to a durable one.
LEMMA LiveChain ==
  ASSUME TypeInv, UpInv, NEW p \in Procs, Live(p), NEW a, NEW m, Logged(p, a, m)
  PROVE  /\ m \in Slots /\ txn[p].start \in Slots /\ txn[p].start <= m
         /\ Chain(hdr, txn[p].start, m) /\ log[m].addr = a
         /\ log[txn[p].start].start /\ log[txn[p].start].tid = txn[p].tid
  <1>1. /\ \A s \in Reserved(p) : s \in Slots /\ InW(hdr, s) /\ Lap(hdr, s) = txn[p].gen
        /\ \A s \in Used(p) : s \in Reserved(p)
        /\ \A u, v \in Reserved(p) : Side(hdr, u, v)
        /\ txn[p] \in Transactions /\ txn[p].start \in Nat /\ txn[p].used \in Nat
    BY LiveSlots
  <1>2. WrittenBy(p)
    BY DEF UpInv, Written
  <1>3. PICK st : st = txn[p].start
    OBVIOUS
  <1>4. m \in Used(p) /\ log[m].addr = a /\ \A w \in st .. m : plog[w] = {log[w]}
    BY <1>3 DEF Logged
  <1>5. m \in Slots /\ m \in Int /\ st \in Nat /\ st <= m /\ m < st + txn[p].used
    BY <1>1, <1>3, <1>4, Constants DEF Used, Slots
  <1>6. \A w \in st .. m : w \in Used(p)
    BY <1>1, <1>3, <1>5 DEF Used
  <1>7. st \in Used(p) /\ st \in Slots
    BY <1>1, <1>5, <1>6
  <1>8. \A w \in st .. m : Match(hdr, w) /\ log[w].tid = txn[p].tid
    BY <1>1, <1>2, <1>6 DEF WrittenBy, Match
  <1>9. Chain(hdr, st, m)
    BY <1>1, <1>2, <1>4, <1>5, <1>7, <1>8 DEF Chain, WrittenBy
  <1>10. log[st].start /\ log[st].tid = txn[p].tid
    BY <1>2, <1>3, <1>7 DEF WrittenBy
  <1> QED BY <1>3, <1>4, <1>5, <1>7, <1>9, <1>10

\* Where an operation was under way.
LEMMA UpCrash ==
  ASSUME TypeInv, TypeInv', UpInv, Crash
  PROVE  RecoverInv'
  <1>1. /\ hdr' \in phdr /\ phdr' = {hdr'} /\ stable' = stable /\ rc' = RcOff /\ mode' = "recover"
        /\ \A s \in Slots : log'[s] \in plog[s] /\ plog'[s] = {log'[s]}
        /\ \A a \in Addrs : meta'[a] \in pmeta[a] /\ pmeta'[a] = {meta'[a]}
    BY TypeCrash DEF Crash, TypeInv, TypeOK
  <1>2. PICK h \in phdr : hdr' = h
    BY <1>1
  <1>3. /\ h \in Headers /\ h.gen >= 1 /\ Bounded(h) /\ Extends(h, hdr) /\ Apart(h)
        /\ \A s \in Slots : \A e : Cand(hdr, s, e) <=> Cand(h, s, e)
        /\ \A st, r \in Slots : Chain(hdr, st, r) => Chain(h, st, r)
    BY OldHeader
  <1>4. OnMedia /\ TypeOK /\ \A s \in Slots : s \in Int
    BY Constants DEF TypeInv, Slots
  <1>5. Bounded(h)' /\ Apart(h)'
    BY <1>1, <1>3, <1>4, Fewer
  <1>6. \A s \in Slots : /\ Match(h, s)' => Cand(hdr, s, log'[s]) /\ InW(h, s)
                         /\ plog[s] = {log[s]} => log'[s] = log[s]
    BY <1>1, <1>3 DEF Match, Cand
  <1>7. ASSUME NEW st \in Slots, NEW r \in Slots, Chain(hdr, st, r)
        PROVE  /\ Chain(h, st, r)' /\ st \in st .. r /\ r \in st .. r
               /\ \A w \in st .. r : log'[w] = log[w] /\ Match(h, w)'
    <2>1. Chain(h, st, r)
      BY <1>3, <1>7
    <2>2. \A w \in st .. r : w \in Slots
      BY Constants DEF Slots
    <2>3. \A w \in st .. r : log'[w] = log[w] /\ plog'[w] = {log'[w]}
      BY <1>1, <1>6, <2>1, <2>2 DEF Chain
    <2>4. \A w \in st .. r : Match(h, w)'
      BY <2>1, <2>3 DEF Chain, Match
    <2>5. st \in st .. r /\ r \in st .. r
      BY <1>4, <2>1 DEF Chain
    <2>6. Chain(h, st, r)'
      BY <2>1, <2>3, <2>4, <2>5 DEF Chain
    <2> QED BY <2>3, <2>4, <2>5, <2>6
  <1>8. ASSUME NEW u \in Slots, Covered(hdr, u)
        PROVE  /\ Covered(h, u)'
               /\ Match(h, u)' /\ \E r \in Slots : /\ Match(h, r)' /\ log'[r].tid = log'[u].tid
                                                   /\ Side(h, u, r) /\ Ends(log'[r])
    <2>1. PICK st \in Slots, r \in Slots : /\ st <= u /\ u <= r /\ Chain(hdr, st, r)
                                           /\ log[st].start /\ Ends(log[r])
      BY <1>8 DEF Covered
    <2>2. u \in st .. r
      BY <1>4, <2>1
    <2>3. /\ Chain(h, st, r)' /\ st \in st .. r /\ r \in st .. r
          /\ \A w \in st .. r : log'[w] = log[w] /\ Match(h, w)'
      BY <1>7, <2>1
    <2>4. log'[r].tid = log'[u].tid
      BY <2>2, <2>3 DEF Chain
    <2>5. Side(h, u, r)
      BY <1>3, <2>1, <2>2, <2>3, ChainSide
    <2>6. log'[st].start /\ Ends(log'[r])
      BY <2>1, <2>3
    <2>7. Covered(h, u)'
      BY <2>1, <2>3, <2>6 DEF Covered
    <2> QED BY <2>2, <2>3, <2>4, <2>5, <2>6, <2>7
  <1>9. ASSUME NEW p \in Procs, Live(p), NEW u \in Used(p)
        PROVE  /\ u \in Slots /\ InW(hdr, u) /\ ~Behind(u) /\ log[u].tid = txn[p].tid /\ log[u].kind = "data"
               /\ Cand(hdr, u, log'[u]) => log'[u] = log[u]
    <2>1. u \in Slots /\ InW(hdr, u) /\ ~Behind(u) /\ Lap(hdr, u) = txn[p].gen
      BY <1>9, LiveSlots
    <2>2. WrittenBy(p)
      BY <1>9 DEF UpInv, Written
    <2> QED BY <1>1, <1>9, <2>1, <2>2 DEF WrittenBy, Cand
  <1>10. ASSUME NEW p \in Procs, Live(p), NEW u \in Used(p), Match(h, u)'
         PROVE  Harmless(h, u)'
    <2>1. u \in Slots /\ InW(hdr, u) /\ log[u].tid = txn[p].tid /\ log[u].kind = "data" /\ log'[u] = log[u]
      BY <1>6, <1>9, <1>10
    <2>2. ~Ends(log'[u])
      BY <2>1 DEF Ends
    <2>3. log[u].old = stable[log[u].addr] \/ \E m \in Slots : m < u /\ Logged(p, log[u].addr, m)
      BY <1>10 DEF UpInv, Words, HeldWords
    <2>4. CASE log[u].old = stable[log[u].addr]
      BY <1>1, <2>1, <2>2, <2>4 DEF Harmless
    <2>5. ASSUME NEW m \in Slots, m < u, Logged(p, log[u].addr, m)
          PROVE  Harmless(h, u)'
      <3>1. PICK st \in Slots : st = txn[p].start
        BY <1>10, <2>5, LiveChain
      <3>2. /\ st <= m /\ Chain(hdr, st, m) /\ log[m].addr = log[u].addr
            /\ log[st].start /\ log[st].tid = txn[p].tid
        BY <1>10, <2>5, <3>1, LiveChain
      <3>3. Chain(h, st, m)' /\ log'[st] = log[st] /\ log'[m] = log[m] /\ Match(h, m)'
        BY <1>7, <3>2
      <3>4. Side(hdr, m, u)
        <4>1. m \in Reserved(p) /\ u \in Reserved(p)
          BY <1>10, <2>5, LiveSlots DEF Logged
        <4> QED BY <1>10, <4>1, LiveSlots
      <3>5. Side(h, m, u)
        BY <1>3, <1>6, <1>10, <2>1, <3>3, <3>4 DEF Extends
      <3>6. /\ log'[st].start /\ log'[st].tid = log'[u].tid
            /\ log'[m].addr = log'[u].addr /\ st <= m /\ m < u
        BY <2>1, <2>5, <3>2, <3>3
      <3> QED BY <2>2, <3>3, <3>5, <3>6 DEF Harmless, Side
    <2> QED BY <2>3, <2>4, <2>5
  <1>11. ASSUME NEW u \in Slots, Swept(u)
         PROVE  Orphan(h, u)'
    <2> SUFFICES ASSUME NEW t \in Slots, t <= u, Side(h, t, u), OpenStart(h, t)'
                 PROVE  FALSE
      BY DEF Orphan, Side
    <2>1. Match(h, t)' /\ log'[t].start /\ Cand(hdr, t, log'[t])
      BY <1>6 DEF OpenStart
    <2>2. ~Ends(log'[t])
      BY <2>1 DEF OpenStart, Side
    <2>3. InW(hdr, t) /\ InW(hdr, u) /\ Behind(u)
      BY <1>11, <2>1 DEF Swept, Behind, Cand
    <2>4. Side(hdr, t, u) \/ t = u
      <3>1. \/ h = hdr
            \/ hdr.tail = 0
        BY DEF UpInv, HeaderOnMedia
      <3>2. hdr.tail = 0 => Side(hdr, t, u)
        BY <1>4, Constants DEF Side, Slots
      <3> QED BY <3>1, <3>2
    <2>5. Behind(t)
      BY <1>4, <2>3, <2>4, CleanerAt
    <2>6. CASE \E p \in Procs : Live(p) /\ t \in Used(p)
      BY <1>9, <2>5, <2>6
    <2>7. CASE Covered(hdr, t)
      <3>1. PICK r \in Slots : Match(h, r)' /\ log'[r].tid = log'[t].tid /\ Side(h, t, r) /\ Ends(log'[r])
        BY <1>8, <2>7
      <3> QED BY <3>1 DEF OpenStart, Side
    <2>8. CASE Swept(t)
      BY <1>1, <2>1, <2>2, <2>8 DEF Swept
    <2> QED BY <1>1, <2>1, <2>6, <2>7, <2>8 DEF UpInv, Owned
  <1>12. Classified(h)'
    <2> SUFFICES ASSUME NEW u \in Slots, Match(h, u)'
                 PROVE  Orphan(h, u)' \/ Covered(h, u)' \/ Harmless(h, u)'
      BY DEF Classified
    <2>1. \/ \E p \in Procs : Live(p) /\ u \in Used(p)
          \/ Covered(hdr, u)
          \/ Swept(u)
      BY <1>1, <1>6 DEF UpInv, Owned
    <2> QED BY <1>8, <1>10, <1>11, <2>1
  <1>13. ASSUME NEW a \in Addrs, Dirty(a)'
         PROVE  \E st, m \in Slots : /\ st <= m /\ Chain(h, st, m)' /\ OpenStart(h, st)'
                                     /\ log'[m].addr = a
    <2>1. Dirty(a)
      BY <1>1, <1>13 DEF Dirty
    <2>2. PICK p \in Procs, m \in Slots : Live(p) /\ Logged(p, a, m)
      BY <2>1 DEF UpInv, Words, DirtyLogged
    <2>3. PICK st \in Slots : st = txn[p].start
      BY <2>2, LiveChain
    <2>4. st <= m /\ Chain(hdr, st, m) /\ log[m].addr = a /\ log[st].start /\ log[st].tid = txn[p].tid
      BY <2>2, <2>3, LiveChain
    <2>5. Chain(h, st, m)' /\ log'[st] = log[st] /\ log'[m] = log[m] /\ Match(h, st)'
      BY <1>7, <2>4
    <2>6. ASSUME NEW r \in Slots, Match(h, r)', log'[r].tid = log'[st].tid
          PROVE  ~Ends(log'[r])
      <3>1. Cand(hdr, r, log'[r]) /\ log'[r] \in plog[r] /\ log'[r].tid = txn[p].tid
        BY <1>1, <1>6, <2>4, <2>5, <2>6
      <3>2. txn[p].pc # "idle"
        BY <2>2 DEF Live
      <3>3. r \in Used(p)
        BY <3>1, <3>2 DEF UpInv, Tids
      <3>4. log'[r] = log[r] /\ log[r].kind = "data"
        BY <1>9, <2>2, <3>1, <3>3
      <3> QED BY <3>4 DEF Ends
    <2>7. OpenStart(h, st)'
      BY <2>4, <2>5, <2>6 DEF OpenStart
    <2> QED BY <2>4, <2>5, <2>7
  <1>14. Bounded(hdr)' /\ Apart(hdr)' /\ Classified(hdr)'
    BY <1>2, <1>5, <1>12
  <1>15. \A a \in Addrs : Dirty(a)' =>
           \E st, m \in Slots : /\ st <= m /\ Chain(hdr, st, m)' /\ OpenStart(hdr, st)'
                                /\ log'[m].addr = a
    BY <1>2, <1>13
  <1> QED BY <1>1, <1>14, <1>15, Restarted

\* Where the journal was being recovered.
LEMMA RecoverCrash ==
  ASSUME TypeInv, TypeInv', RecoverInv, Next, ~tainted', Crash
  PROVE  RecoverInv'
  <1>1. /\ hdr' \in phdr /\ phdr' = {hdr'} /\ stable' = stable /\ rc' = RcOff /\ mode' = "recover"
        /\ boots' = boots + 1 /\ boots \in Nat
        /\ \A s \in Slots : log'[s] \in plog[s] /\ plog'[s] = {log'[s]}
        /\ \A a \in Addrs : meta'[a] \in pmeta[a] /\ pmeta'[a] = {meta'[a]}
    BY TypeCrash, BoundsAssumption DEF Crash, TypeInv, TypeOK
  <1>2. PICK h \in phdr : hdr' = h
    BY <1>1
  <1>3. /\ h \in Headers /\ h.gen >= 1 /\ Bounded(h) /\ Apart(h) /\ Classified(h)
        /\ TypeOK /\ OnMedia /\ hdr \in Headers
    BY DEF TypeInv, TypeOK, GenValid, RecoverInv
  <1>4. Bounded(h)' /\ Apart(h)'
    BY <1>1, <1>3, Fewer
  <1>5. boots' # boots
    BY <1>1
  <1>6. ~HalfInvalidated /\ ~RestHalf
    BY NotPassed
  <1>7. \A s \in Slots : Match(h, s)' => Cand(h, s, log'[s])
    BY <1>1 DEF Match, Cand
  <1>8. \A a \in Addrs : Dirty(a)' => Dirty(a)
    BY <1>1 DEF Dirty
  <1>9. CASE rc.pc = "sync"
    <2>1. Settled /\ \A s \in Slots : plog[s] = {log[s]}
      BY <1>9 DEF RecoverInv
    <2>2. \A s \in Slots : log'[s] = log[s] /\ plog'[s] = {log'[s]}
      BY <1>1, <2>1
    <2>3. \A s \in Slots : Match(h, s)' <=> Match(h, s)
      BY <2>2 DEF Match
    <2>4. Classified(h)'
      BY <1>1, <1>3, <2>2, <2>3, StillClassified
    <2>5. \A a \in Addrs : ~Dirty(a)'
      BY <1>8, <2>1 DEF Settled
    <2> QED BY <1>1, <1>2, <1>4, <2>4, <2>5, Restarted
  <1>10. CASE rc.pc # "sync"
    <2>1. h = hdr /\ Cut /\ Invalidated /\ Stored /\ Repairs
      BY <1>2, <1>10 DEF RecoverInv
    <2>2. \A s \in Slots : Lap(h, s) \in 1 .. MaxGen
      BY <1>3, Laps
    <2>3. \A u, v \in Slots : Lap(h, u) = Lap(h, v) <=> Side(h, u, v)
      BY <1>3, Laps
    \* What comes back is the rest of a transaction that was being invalidated.
    <2>4. ASSUME NEW s \in Slots, Match(h, s)', plog[s] # {log[s]}
          PROVE  /\ log[s].gen = 0 /\ Done(s) /\ Lap(h, s) = MaxGen /\ log'[s].gen = MaxGen
                 /\ log'[s].start => Ends(log'[s])
      <3>1. InW(h, s) /\ log'[s].gen = Lap(h, s) /\ log'[s] \in plog[s]
        BY <1>1, <2>4 DEF Match
      <3>2. Pending(s)
        BY <2>1, <2>4, <3>1 DEF Stored
      <3>3. ~(rc.pc = "forward" /\ hdr.gen = MaxGen /\ hdr.tail <= s)
        <4>1. s \in Window(hdr)
          BY <1>3, <2>1, <3>1, WindowIs
        <4>2. s \in Int /\ hdr.tail \in Int
          BY <1>3, Constants DEF Slots, Headers
        <4> QED BY <1>5, <1>6, <2>4, <4>1, <4>2 DEF RestHalf
      <3> QED BY <2>1, <3>1, <3>2, <3>3 DEF Pending
    <2>5. ASSUME NEW s \in Slots, plog[s] = {log[s]}
          PROVE  log'[s] = log[s] /\ (Match(h, s)' <=> Match(h, s)) /\ plog'[s] = {log'[s]}
      BY <1>1, <2>5 DEF Match
    <2>6. ASSUME NEW s \in Slots, Match(h, s) PROVE plog[s] = {log[s]}
      <3>1. log[s].gen # 0 /\ InW(h, s)
        BY <2>2, <2>6 DEF Match
      <3> QED BY <2>1, <3>1 DEF Stored, Pending
    <2>7. ASSUME NEW st \in Slots, NEW r \in Slots, Chain(h, st, r)
          PROVE  Chain(h, st, r)' /\ log'[st] = log[st] /\ log'[r] = log[r]
      <3>1. \A s \in Slots : plog[s] = {log[s]} /\ Match(h, s) => log'[s] = log[s] /\ plog'[s] = plog[s]
        BY <2>5
      <3> QED BY <2>7, <3>1, StayCovered
    <2>8. \A s \in Slots : Match(h, s) => Match(h, s)' /\ log'[s] = log[s]
      BY <2>5, <2>6
    <2>9. ASSUME NEW u \in Slots, NEW t \in Slots, Match(h, u)', t <= u, Side(h, t, u),
                 OpenStart(h, t)', OpenStart(h, t) => plog[t] # {log[t]} \/ plog[u] # {log[u]}
          PROVE  FALSE
      <3>1. Match(h, t)' /\ log'[t].start /\ ~Ends(log'[t])
        BY <2>9 DEF OpenStart, Side
      <3>2. plog[t] = {log[t]}
        BY <2>4, <3>1
      <3>3. Match(h, t) /\ log[t] = log'[t]
        BY <2>5, <3>1, <3>2
      <3>4. CASE plog[u] = {log[u]}
        <4>1. ~OpenStart(h, t)
          BY <2>9, <3>2, <3>4
        <4>2. PICK r \in Slots : Match(h, r) /\ Side(h, t, r) /\ log[r].tid = log[t].tid /\ Ends(log[r])
          BY <3>1, <3>3, <4>1 DEF OpenStart
        <4>3. Match(h, r)' /\ log'[r] = log[r]
          BY <2>8, <4>2
        <4> QED BY <2>9, <3>3, <4>2, <4>3 DEF OpenStart, Side
      <3>5. CASE plog[u] # {log[u]}
        <4>1. /\ log[u].gen = 0 /\ Done(u) /\ Lap(h, u) = MaxGen /\ log'[u].gen = MaxGen
              /\ log'[u].start => Ends(log'[u])
          BY <2>4, <2>9, <3>5
        <4>2. t # u /\ t \in Int /\ u \in Int
          BY <3>1, <4>1, Constants DEF Slots
        <4>3. mode = "recover"
          <5>1. rc.pc # "off"
            BY <4>1 DEF Done, Rem
          <5>2. Locking
            BY DEF TypeInv
          <5>3. mode \in {"up", "recover", "recovered"}
            BY <1>3 DEF TypeOK
          <5> QED BY <5>1, <5>2 DEF Locking
        <4>4. log'[t].gen = MaxGen /\ Lap(h, t) = MaxGen
          BY <2>3, <2>9, <3>1, <4>1 DEF Match
        <4>5. ASSUME NEW r \in Slots, log'[r].gen = MaxGen, log'[r].tid = log'[t].tid
              PROVE  ~Ends(log'[r])
          <5>1. log'[r].gen <= Top(h, r)
            BY <1>1, <1>3 DEF Bounded
          <5>2. h.gen \in 1 .. MaxGen /\ MaxGen \in Nat /\ MaxGen > 1
            BY <1>3, Constants DEF Headers, Gens
          <5>3. InW(h, r)
            BY <4>5, <5>1, <5>2 DEF Top
          <5>4. Lap(h, r) = MaxGen
            BY <2>2, <4>5, <5>1, <5>2, <5>3 DEF Top
          <5>5. Match(h, r)' /\ Side(h, t, r)
            BY <2>3, <4>4, <4>5, <5>3, <5>4 DEF Match, InW, Lap
          <5> QED BY <2>9, <4>5, <5>5 DEF OpenStart, Side
        <4>6. Unended(log', t)
          BY <3>1, <4>4, <4>5 DEF Unended
        <4> QED BY <1>5, <1>6, <2>9, <4>1, <4>2, <4>3, <4>4, <4>6 DEF HalfInvalidated
      <3> QED BY <3>4, <3>5
    <2>10. Classified(h)'
      <3> SUFFICES ASSUME NEW u \in Slots, Match(h, u)'
                   PROVE  Orphan(h, u)' \/ Covered(h, u)' \/ Harmless(h, u)'
        BY DEF Classified
      <3>1. CASE plog[u] # {log[u]}
        BY <2>9, <3>1 DEF Orphan, Side
      <3>2. CASE plog[u] = {log[u]}
        <4>1. Match(h, u) /\ log'[u] = log[u]
          BY <2>5, <3>2
        <4>2. CASE Orphan(h, u)
          <5>1. \A t \in Slots : t <= u /\ Side(h, t, u) => ~OpenStart(h, t)'
            BY <2>9, <4>2 DEF Orphan
          <5> QED BY <5>1 DEF Orphan, Side
        <4>3. CASE Covered(h, u)
          <5>1. PICK st \in Slots, r \in Slots : /\ st <= u /\ u <= r /\ Chain(h, st, r)
                                                 /\ log[st].start /\ Ends(log[r])
            BY <4>3 DEF Covered
          <5>2. Chain(h, st, r)' /\ log'[st] = log[st] /\ log'[r] = log[r]
            BY <2>7, <5>1
          <5> QED BY <5>1, <5>2 DEF Covered
        <4>4. CASE Harmless(h, u)
          <5>1. ~Ends(log'[u])
            BY <4>1, <4>4 DEF Harmless
          <5>2. CASE log[u].addr \in Addrs => log[u].old = stable[log[u].addr]
            BY <1>1, <4>1, <5>1, <5>2 DEF Harmless
          <5>3. CASE ~(log[u].addr \in Addrs => log[u].old = stable[log[u].addr])
            <6>1. PICK st \in Slots, m \in Slots :
                     /\ st <= m /\ m < u /\ Chain(h, st, m) /\ log[st].start
                     /\ log[st].tid = log[u].tid /\ Side(h, m, u) /\ log[m].addr = log[u].addr
              BY <4>4, <5>3 DEF Harmless
            <6>2. Chain(h, st, m)' /\ log'[st] = log[st] /\ log'[m] = log[m]
              BY <2>7, <6>1
            <6> QED BY <4>1, <5>1, <6>1, <6>2 DEF Harmless, Side
          <5> QED BY <5>2, <5>3
        <4> QED BY <1>3, <4>1, <4>2, <4>3, <4>4 DEF Classified
      <3> QED BY <3>1, <3>2
    <2>11. ASSUME NEW a \in Addrs, Dirty(a)'
           PROVE  \E st, m \in Slots : /\ st <= m /\ Chain(h, st, m)' /\ OpenStart(h, st)'
                                       /\ log'[m].addr = a
      <3>1. ~HalfRest \/ hdr.gen # MaxGen
        <4>1. \A s \in Slots : InW(hdr, s) => s \in Window(hdr) /\ s \in Int /\ hdr.tail \in Int
          BY <1>3, WindowIs, Constants DEF Slots, Headers
        <4> QED BY <1>5, <1>6, <4>1 DEF HalfRest, RestHalf
      <3>2. Undoable(a)
        BY <1>8, <2>1, <2>11, <3>1 DEF Repairs
      <3>3. PICK st \in Slots, m \in Slots : /\ st <= m /\ Chain(h, st, m) /\ OpenStart(h, st)
                                             /\ log[m].addr = a
        BY <2>1, <3>2 DEF Undoable
      <3>4. Chain(h, st, m)' /\ log'[st] = log[st] /\ log'[m] = log[m]
        BY <2>7, <3>3
      <3>5. Match(h, st) /\ Match(h, st)' /\ log[st].start
        BY <2>8, <3>3 DEF OpenStart
      <3>6. ASSUME NEW r \in Slots, Match(h, r)', Side(h, st, r), log'[r].tid = log'[st].tid
            PROVE  ~Ends(log'[r])
        <4>1. CASE plog[r] = {log[r]}
          BY <2>5, <3>3, <3>4, <3>6, <4>1 DEF OpenStart
        <4>2. CASE plog[r] # {log[r]}
          <5>1. Done(r) /\ Lap(h, r) = MaxGen
            BY <2>4, <3>6, <4>2
          <5>2. Lap(h, st) = MaxGen /\ log[st].gen # 0
            BY <2>2, <2>3, <3>5, <3>6, <5>1 DEF Match
          <5>3. ~Done(st)
            BY <2>1, <5>2 DEF Invalidated
          <5>4. Cand(h, r, log'[r]) /\ log'[r] \in plog[r]
            BY <1>1, <1>7, <3>6
          <5>5. Cand(h, st, log[st]) /\ log[st] \in plog[st]
            BY <1>3, <3>5 DEF Cand, Match, OnMedia
          <5>6. log[st].tid # log'[r].tid
            BY <2>1, <3>6, <5>1, <5>3, <5>4, <5>5 DEF Cut
          <5> QED BY <3>4, <3>6, <5>6
        <4> QED BY <4>1, <4>2
      <3>7. OpenStart(h, st)'
        BY <3>4, <3>5, <3>6 DEF OpenStart, Side
      <3> QED BY <3>3, <3>4, <3>7
    <2> QED BY <1>1, <1>2, <1>4, <2>10, <2>11, Restarted
  <1> QED BY <1>9, <1>10

-----------------------------------------------------------------------------
(* The steps of the recovery.                                              *)

\* What a step before pmfs_forward_journal has to keep.
LEMMA GoesBack ==
  ASSUME TypeInv, TypeInv', RecoverInv, UNCHANGED <<hdr, phdr, stable>>,
         rc.pc # "sync", rc'.pc \notin {"sync", "bug", "forward"},
         mode' = "recovered" => hdr.head = hdr.tail,
         \A s \in Slots : \A e \in plog'[s] : e \in plog[s] \/ e = Invalid,
         \A s \in Slots : Match(hdr, s)' => /\ Match(hdr, s) /\ log'[s] = log[s]
                                            /\ plog[s] = {log[s]} => plog'[s] = {log[s]},
         \A s, r \in Slots : Match(hdr, s)' /\ Match(hdr, r) /\ Side(hdr, s, r)
                             /\ log[r].tid = log[s].tid => Match(hdr, r)',
         \A s \in Slots : Done(s)' /\ Lap(hdr, s) = MaxGen => log'[s].gen = 0,
         \A s \in Slots : InW(hdr, s) => plog'[s] = {log'[s]} \/ Pending(s)',
         Scanning', Cut', \A a \in Addrs : Dirty(a)' => Undoable(a)'
  PROVE  RecoverInv'
  <1>1. PICK h \in Headers : h = hdr
    BY DEF TypeInv, TypeOK
  <1>2. /\ h.gen >= 1 /\ phdr = {h} /\ Bounded(h) /\ Apart(h) /\ Classified(h) /\ TypeOK
        /\ hdr' = h /\ phdr' = {h}
    BY <1>1, RemAhead DEF RecoverInv, TypeInv
  <1>3. Bounded(h)' /\ Apart(h)'
    BY <1>2, Fewer
  <1>4. /\ \A s \in Slots : Match(h, s)' => /\ Match(h, s) /\ log'[s] = log[s]
                                            /\ plog[s] = {log[s]} => plog'[s] = {log[s]}
        /\ \A s, r \in Slots : Match(h, s)' /\ Match(h, r) /\ Side(h, s, r)
                               /\ log[r].tid = log[s].tid => Match(h, r)'
    BY <1>1, <1>2
  <1>5. Classified(h)'
    BY <1>2, <1>4, StillClassified
  <1>6. (\A k \in phdr : Bounded(k) /\ Apart(k) /\ Classified(k))'
    BY <1>2, <1>3, <1>5
  <1>7. \A s \in Slots : Lap(hdr, s)' = Lap(hdr, s) /\ (InW(hdr, s)' <=> InW(hdr, s))
    BY <1>1, <1>2 DEF Lap, InW
  <1>8. Invalidated' /\ Stored' /\ Repairs'
    BY <1>7 DEF Invalidated, Stored, Repairs
  <1> QED BY <1>1, <1>2, <1>6, <1>8 DEF RecoverInv

\* The same, for a step that leaves the log alone.
LEMMA LooksBack ==
  ASSUME TypeInv, TypeInv', RecoverInv, UNCHANGED <<hdr, phdr, log, plog, stable>>,
         rc.pc \notin {"sync", "forward"}, rc'.pc \notin {"sync", "bug", "forward"},
         mode' = "recovered" => hdr.head = hdr.tail,
         \A s \in Slots : Done(s) => Done(s)',
         \A s \in Slots : Done(s)' /\ ~Done(s) => Lap(hdr, s) # MaxGen,
         Scanning', Cut', \A a \in Addrs : Dirty(a)' => Undoable(a)'
  PROVE  RecoverInv'
  <1>1. \A s \in Slots : /\ Lap(hdr, s)' = Lap(hdr, s) /\ (InW(hdr, s)' <=> InW(hdr, s))
                         /\ Match(hdr, s)' <=> Match(hdr, s)
    BY DEF Lap, InW, Match
  <1>2. Invalidated /\ Stored
    BY DEF RecoverInv
  <1>3. \A s \in Slots : Done(s)' /\ Lap(hdr, s) = MaxGen => log'[s].gen = 0
    BY <1>2 DEF Invalidated
  <1>4. \A s \in Slots : InW(hdr, s) => plog'[s] = {log'[s]} \/ Pending(s)'
    BY <1>1, <1>2 DEF Stored, Pending
  <1> QED BY <1>1, <1>3, <1>4, GoesBack

LEMMA InRecoverStart ==
  ASSUME TypeInv, TypeInv', RecoverInv, RecoverStart
  PROVE  RecoverInv'
  <1> USE DEF hdrVars, logVars, dataVars
  <1>1. /\ UNCHANGED <<hdr, phdr, log, plog, stable, meta, pmeta>> /\ rc.pc = "off"
        /\ IF hdr.head = hdr.tail
           THEN mode' = "recovered" /\ rc' = rc
           ELSE /\ rc' = [RcOff EXCEPT !.pc = "scan", !.tail = hdr.tail, !.gen = hdr.gen]
                /\ mode' = mode /\ mode = "recover"
    BY DEF RecoverStart
  <1>2. hdr \in Headers /\ Repairs /\ \A s \in Slots : Match(hdr, s)' <=> Match(hdr, s)
    BY <1>1 DEF TypeInv, TypeOK, RecoverInv, Match, InW, Lap
  <1>3. /\ rc'.pc \in {"off", "scan"}
        /\ rc'.pc = "scan" => rc'.tail = hdr.tail /\ rc'.gen = hdr.gen
        /\ mode' = "recovered" => hdr.head = hdr.tail
    BY <1>1 DEF RcOff
  <1>4. \A s \in Slots : /\ Rem(s) <=> InW(hdr, s)
                         /\ Rem(s)' <=> InW(hdr, s)
                         /\ ~Done(s) /\ ~Done(s)'
    <2> SUFFICES ASSUME NEW s \in Slots
                 PROVE  (Rem(s) <=> InW(hdr, s)) /\ (Rem(s)' <=> InW(hdr, s))
      BY <1>1 DEF Done, InW
    <2>1. [hdr EXCEPT !.tail = hdr.tail] = hdr
      BY <1>2 DEF Headers
    <2> QED BY <1>1, <1>3, <2>1 DEF Rem, InW
  <1>5. Scanning'
    <2>1. hdr.tail <= hdr.tail
      BY <1>2, Constants DEF Headers, Slots
    <2> QED BY <1>1, <1>3, <2>1 DEF Scanning
  <1>6. Cut'
    BY <1>3, <1>4 DEF Cut
  <1>7. ASSUME NEW a \in Addrs, Dirty(a)' PROVE Undoable(a)'
    <2>1. Undoable(a)
      BY <1>1, <1>2, <1>7 DEF Repairs, HalfRest, Dirty
    <2>2. PICK st \in Slots, m \in Slots :
            st <= m /\ Chain(hdr, st, m) /\ OpenStart(hdr, st) /\ log[m].addr = a /\ (meta[a] # stable[a] => Rem(m))
      BY <1>1, <2>1 DEF Undoable
    <2>3. Chain(hdr, st, m)' /\ OpenStart(hdr, st)' /\ log'[m].addr = a
      BY <1>1, <2>2 DEF Chain, OpenStart, Match, Side, InW, Lap
    <2> QED BY <1>1, <1>4, <2>2, <2>3 DEF Undoable
  <1> QED BY <1>1, <1>3, <1>4, <1>5, <1>6, <1>7, LooksBack

\* The entry before the place that the scan has come to.
LEMMA StepBack ==
  ASSUME TypeInv, RecoverInv, rc.pc = "scan", rc.tail # hdr.head,
         NEW t, t = prev_log_entry(rc.tail),
         NEW g, g = IF rc.tail = 0 THEN prev_gen_id(rc.gen) ELSE rc.gen
  PROVE  /\ t \in Slots /\ InW(hdr, t) /\ Rem(t) /\ t # hdr.tail /\ g \in Gens
         /\ g = Lap(hdr, t) /\ g = IF t <= hdr.tail THEN hdr.gen ELSE prev_gen_id(hdr.gen)
         /\ \A s \in Slots : InW([hdr EXCEPT !.tail = t], s) <=> Rem(s) /\ s # t
         /\ \A s \in Slots : Done(s) <=> InW(hdr, s) /\ ~Rem(s)
         /\ \A s \in Slots : ~Range_(s)
  <1>1. /\ hdr \in Headers /\ hdr.gen >= 1 /\ rc \in RecoverState
        /\ \A s \in Slots : Lap(hdr, s) \in 1 .. MaxGen
    BY RemAhead
  <1>2. PICK c \in Slots : c = rc.tail
    BY <1>1 DEF RecoverState
  <1>3. /\ c = hdr.tail \/ InW(hdr, c)
        /\ c # hdr.head
        /\ rc.gen = IF c <= hdr.tail THEN hdr.gen ELSE prev_gen_id(hdr.gen)
    BY <1>2 DEF RecoverInv, Scanning
  <1>4. PICK k : k = [hdr EXCEPT !.tail = c]
    OBVIOUS
  <1>5. \A s \in Slots : Rem(s) <=> InW(k, s)
    BY <1>2, <1>4 DEF Rem
  <1>6. PICK u \in Slots :
          /\ u = prev_log_entry(c)
          /\ InW(hdr, u) /\ InW(k, u) /\ u # hdr.tail
          /\ Lap(hdr, u) = IF c = 0 THEN prev_gen_id(hdr.gen)
                           ELSE IF c <= hdr.tail THEN hdr.gen ELSE prev_gen_id(hdr.gen)
          /\ \A s \in Slots : InW([hdr EXCEPT !.tail = u], s) <=> InW(k, s) /\ s # u
    BY <1>1, <1>3, <1>4, Retreat
  <1>7. t = u
    BY <1>2, <1>6
  <1>8. /\ hdr.tail \in Int /\ hdr.tail >= 0 /\ u \in Int /\ c \in Int /\ c >= 0
    BY <1>1, <1>6, Constants DEF Headers, Slots
  <1>9. g = Lap(hdr, u)
    BY <1>2, <1>3, <1>6, <1>8
  <1>10. g = IF u <= hdr.tail THEN hdr.gen ELSE prev_gen_id(hdr.gen)
    BY <1>6, <1>8, <1>9 DEF Lap
  <1>11. g \in Gens
    BY <1>1, <1>9, Constants DEF Gens
  <1> QED BY <1>5, <1>6, <1>7, <1>9, <1>10, <1>11 DEF Done, Range_

LEMMA InRecoverScan ==
  ASSUME TypeInv, TypeInv', RecoverInv, RecoverScan
  PROVE  RecoverInv'
  <1> USE DEF hdrVars, logVars, dataVars, runVars
  <1> DEFINE t0 == prev_log_entry(rc.tail)
             g0 == IF rc.tail = 0 THEN prev_gen_id(rc.gen) ELSE rc.gen
  <1>1. /\ rc.pc = "scan" /\ rc.tail # hdr.head /\ UNCHANGED <<hdr, phdr, meta, pmeta, stable, mode>>
        /\ IF log[t0].gen = g0
           THEN /\ rc' = [rc EXCEPT !.pc = "walk", !.tail = t0, !.gen = g0, !.last = t0,
                                    !.ended = FALSE, !.start = FALSE]
                /\ log' = log /\ plog' = plog
           ELSE /\ rc' = [rc EXCEPT !.tail = t0, !.gen = g0]
                /\ IF g0 = MaxGen THEN InvalidateSlots({t0}, {}) ELSE log' = log /\ plog' = plog
    BY DEF RecoverScan
  <1>2. PICK t : t = t0
    OBVIOUS
  <1>3. PICK g : g = g0
    OBVIOUS
  <1>4. /\ t \in Slots /\ InW(hdr, t) /\ Rem(t) /\ t # hdr.tail /\ g \in Gens
        /\ g = Lap(hdr, t) /\ g = IF t <= hdr.tail THEN hdr.gen ELSE prev_gen_id(hdr.gen)
        /\ \A s \in Slots : InW([hdr EXCEPT !.tail = t], s) <=> Rem(s) /\ s # t
        /\ \A s \in Slots : Done(s) <=> InW(hdr, s) /\ ~Rem(s)
        /\ \A s \in Slots : ~Range_(s)
    BY <1>1, <1>2, <1>3, StepBack
  <1> HIDE DEF t0, g0
  <1>5. /\ hdr \in Headers /\ rc \in RecoverState /\ Repairs /\ Cut /\ Invalidated /\ Stored /\ TypeOK /\ OnMedia
        /\ mode' = "recovered" => hdr.head = hdr.tail
    BY <1>1 DEF TypeInv, TypeOK, RecoverInv
  <1>6. /\ \A s \in Slots : s \in Int
        /\ \A s \in Slots : Lap(hdr, s)' = Lap(hdr, s) /\ (InW(hdr, s)' <=> InW(hdr, s))
        /\ \A s, r \in Slots : Side(hdr, s, r)' <=> Side(hdr, s, r)
        /\ \A s \in Slots : Lap(hdr, s) \in 1 .. MaxGen
    BY <1>1, RemAhead, Constants DEF Lap, InW, Slots, Side
  <1>7. ASSUME NEW a \in Addrs, Dirty(a)' PROVE Undoable(a)
    BY <1>1, <1>5, <1>7 DEF Repairs, HalfRest, Dirty
  <1>8. CASE log[t].gen = g
    <2>1. rc' = [rc EXCEPT !.pc = "walk", !.tail = t, !.gen = g, !.last = t,
                           !.ended = FALSE, !.start = FALSE]
          /\ log' = log /\ plog' = plog
      BY <1>1, <1>2, <1>3, <1>8
    <2>2. /\ rc'.pc = "walk" /\ rc'.tail = t /\ rc'.gen = g /\ rc'.last = t /\ rc'.ended = FALSE
      BY <1>5, <2>1 DEF RecoverState
    <2>3. \A s \in Slots : /\ Rem(s)' <=> Rem(s) /\ s # t
                           /\ Range_(s)' <=> s = t
                           /\ Done(s)' <=> Done(s)
      BY <1>1, <1>4, <1>6, <2>2 DEF Rem, Range_, Done
    <2>4. Scanning'
      <3>1. ~(t < t) /\ t <= t /\ Side(hdr, t, t)
        BY <1>4, <1>6 DEF Side
      <3>2. \A w \in t + 1 .. t : FALSE
        BY <1>4, <1>6
      <3>3. \A w \in t .. t - 1 : FALSE
        BY <1>4, <1>6
      <3>4. hdr'.tail = hdr.tail /\ hdr'.gen = hdr.gen /\ InW(hdr', t) /\ log'[t].gen = g /\ Side(hdr', t, t)
        BY <1>1, <1>4, <1>8, <2>1, <3>1
      <3> QED BY <1>4, <2>2, <3>1, <3>2, <3>3, <3>4 DEF Scanning
    <2>5. Cut'
      BY <1>1, <1>5, <2>1, <2>2, <2>3 DEF Cut, Cand, InW, Lap, Side
    <2>6. ASSUME NEW a \in Addrs, Dirty(a)' PROVE Undoable(a)'
      <3>1. PICK st \in Slots, m \in Slots :
              st <= m /\ Chain(hdr, st, m) /\ OpenStart(hdr, st) /\ log[m].addr = a /\ (meta[a] # stable[a] => Rem(m))
        BY <1>1, <1>7, <2>6 DEF Undoable
      <3>2. Chain(hdr, st, m)' /\ OpenStart(hdr, st)' /\ log'[m].addr = a
        BY <1>1, <2>1, <3>1 DEF Chain, OpenStart, Match, Side, InW, Lap
      <3> QED BY <1>1, <2>2, <2>3, <3>1, <3>2 DEF Undoable
    <2> QED BY <1>1, <1>5, <2>1, <2>2, <2>3, <2>4, <2>5, <2>6, LooksBack
  <1>9. CASE log[t].gen # g
    <2>1. /\ rc' = [rc EXCEPT !.tail = t, !.gen = g]
          /\ IF g = MaxGen THEN InvalidateSlots({t}, {}) ELSE log' = log /\ plog' = plog
      BY <1>1, <1>2, <1>3, <1>9
    <2>2. /\ rc'.pc = "scan" /\ rc'.tail = t /\ rc'.gen = g
      BY <1>1, <1>5, <2>1 DEF RecoverState
    <2>3. \A s \in Slots : /\ Rem(s)' <=> Rem(s) /\ s # t
                           /\ ~Range_(s)'
                           /\ Done(s)' <=> Done(s) \/ s = t
      BY <1>1, <1>4, <1>6, <2>2 DEF Rem, Range_, Done
    <2>4. /\ \A s \in Slots : s # t => log'[s] = log[s] /\ plog'[s] = plog[s]
          /\ g = MaxGen => log'[t] = Invalid /\ plog'[t] = plog[t] \cup {Invalid}
          /\ g # MaxGen => log'[t] = log[t] /\ plog'[t] = plog[t]
      <3>1. CASE g = MaxGen
        BY <1>4, <1>5, <2>1, <3>1, InvalidateTypes
      <3>2. CASE g # MaxGen
        BY <2>1, <3>2
      <3> QED BY <3>1, <3>2
    <2>5. plog[t] = {log[t]}
      <3>1. ~Done(t)
        BY <1>4
      <3> QED BY <1>1, <1>4, <3>1, RemAhead
    <2>6. /\ Invalid.gen = 0
          /\ ~Match(hdr, t) /\ ~Match(hdr, t)'
          /\ \A e \in plog'[t] : ~Cand(hdr, t, e)' /\ e.gen # g
          /\ \A s \in Slots : s # t => /\ Match(hdr, s)' <=> Match(hdr, s)
                                       /\ \A e : Cand(hdr, s, e)' <=> Cand(hdr, s, e)
      <3>1. Invalid.gen = 0
        BY DEF Invalid
      <3>2. g # 0 /\ \A e \in plog'[t] : e.gen # g
        <4>1. g \in 1 .. MaxGen
          BY <1>4, <1>6
        <4>2. \A e \in plog'[t] : e = log[t] \/ e = Invalid
          BY <2>4, <2>5
        <4> QED BY <1>9, <3>1, <4>1, <4>2
      <3>3. log'[t].gen # g
        BY <1>4, <1>6, <1>9, <2>4, <3>1
      <3> QED BY <1>1, <1>4, <1>6, <1>9, <2>4, <3>1, <3>2, <3>3 DEF Match, Cand
    <2>7. Scanning'
      BY <1>1, <1>4, <2>2 DEF Scanning
    <2>8. Cut'
      <3> SUFFICES ASSUME NEW u \in Slots, NEW v \in Slots, NEW e \in plog'[u], NEW f \in plog'[v],
                          Cand(hdr, u, e)', Cand(hdr, v, f)', Side(hdr, u, v)', ~Done(u)' /\ Done(v)'
                   PROVE  e.tid # f.tid
        BY <2>2 DEF Cut
      <3>1. u # t /\ v # t
        BY <2>6
      <3>2. /\ e \in plog[u] /\ f \in plog[v] /\ Cand(hdr, u, e) /\ Cand(hdr, v, f) /\ Side(hdr, u, v)
            /\ ~Done(u) /\ Done(v)
        BY <1>6, <2>3, <2>4, <2>6, <3>1
      <3> QED BY <1>5, <3>2 DEF Cut
    <2>9. \A s \in Slots : Match(hdr, s)' => /\ Match(hdr, s) /\ log'[s] = log[s]
                                             /\ plog[s] = {log[s]} => plog'[s] = {log[s]}
      BY <2>4, <2>6
    <2>10. \A s, r \in Slots : Match(hdr, s)' /\ Match(hdr, r) /\ Side(hdr, s, r)
                               /\ log[r].tid = log[s].tid => Match(hdr, r)'
      BY <2>6
    <2>11. ASSUME NEW a \in Addrs, Dirty(a)' PROVE Undoable(a)'
      <3>1. PICK st \in Slots, m \in Slots :
              st <= m /\ Chain(hdr, st, m) /\ OpenStart(hdr, st) /\ log[m].addr = a /\ (meta[a] # stable[a] => Rem(m))
        BY <1>1, <1>7, <2>11 DEF Undoable
      <3>2. m \in st .. m /\ Match(hdr, m)
        BY <1>6, <3>1 DEF Chain
      <3>3. m # t /\ Match(hdr, m)' /\ log'[m] = log[m]
        BY <2>4, <2>6, <3>2
      <3>4. PICK h \in Headers : h = hdr
        BY <1>5
      <3>5. hdr' = h
        BY <1>1, <3>4
      <3>6. /\ \A x, y \in Slots : Chain(h, x, y) /\ (\E w \in x .. y : Match(h, w)') => Chain(h, x, y)'
            /\ \A x \in Slots : OpenStart(h, x) /\ Match(h, x)' => OpenStart(h, x)'
        <4>1. /\ \A s \in Slots : Match(h, s)' => /\ Match(h, s) /\ log'[s] = log[s]
                                                  /\ plog[s] = {log[s]} => plog'[s] = {log[s]}
              /\ \A s, r \in Slots : Match(h, s)' /\ Match(h, r) /\ Side(h, s, r)
                                     /\ log[r].tid = log[s].tid => Match(h, r)'
          BY <2>9, <2>10, <3>4, <3>5
        <4>2. stable' = stable
          BY <1>1
        <4> QED BY <4>1, <4>2, StillClassified
      <3>7. Chain(h, st, m)'
        BY <3>1, <3>2, <3>3, <3>4, <3>5, <3>6
      <3>8. Match(h, st) /\ st # t
        BY <2>6, <3>1, <3>4 DEF OpenStart
      <3>9. Match(h, st)'
        BY <2>6, <3>4, <3>5, <3>8
      <3>10. OpenStart(h, st)'
        BY <3>1, <3>4, <3>6, <3>9
      <3> QED BY <1>1, <2>3, <3>1, <3>3, <3>5, <3>7, <3>10 DEF Undoable
    <2>12. \A s \in Slots : \A e \in plog'[s] : e \in plog[s] \/ e = Invalid
      BY <2>4
    <2>13. \A s \in Slots : Done(s)' /\ Lap(hdr, s) = MaxGen => log'[s].gen = 0
      BY <1>4, <1>5, <2>3, <2>4, <2>6 DEF Invalidated
    <2>14. ASSUME NEW s \in Slots, InW(hdr, s)
           PROVE  plog'[s] = {log'[s]} \/ Pending(s)'
      <3>1. CASE s = t
        BY <1>4, <1>6, <2>3, <2>4, <2>5, <2>6, <3>1 DEF Pending
      <3>2. CASE s # t
        <4>1. plog[s] = {log[s]} \/ Pending(s)
          BY <1>5, <2>14 DEF Stored
        <4> QED BY <1>1, <1>6, <2>3, <2>4, <3>2, <4>1 DEF Pending
      <3> QED BY <3>1, <3>2
    <2> QED BY <1>1, <1>5, <2>2, <2>7, <2>8, <2>9, <2>10, <2>11, <2>12, <2>13, <2>14, GoesBack
  <1> QED BY <1>8, <1>9

\* The transaction at hand, from the last entry back to the place of the walk.
LEMMA AtHand ==
  ASSUME TypeInv, RecoverInv, rc.pc \in {"walk", "undo", "invalidate"}
  PROVE  /\ hdr \in Headers /\ hdr.gen >= 1 /\ rc \in RecoverState /\ phdr = {hdr}
         /\ rc.tail \in Slots /\ rc.last \in Slots /\ rc.tail <= rc.last
         /\ InW(hdr, rc.tail) /\ InW(hdr, rc.last) /\ rc.gen \in 1 .. MaxGen
         /\ rc.tail # hdr.tail /\ rc.gen = IF rc.tail <= hdr.tail THEN hdr.gen ELSE prev_gen_id(hdr.gen)
         /\ \A w \in rc.tail .. rc.last :
               /\ w \in Slots /\ InW(hdr, w) /\ Lap(hdr, w) = rc.gen /\ plog[w] = {log[w]}
               /\ Range_(w) /\ ~Rem(w) /\ ~Done(w) /\ Side(hdr, w, rc.tail) /\ Side(hdr, rc.tail, w)
         /\ \A s \in Slots : Range_(s) <=> s \in rc.tail .. rc.last
         /\ \A s \in Slots : Rem(s) /\ Side(hdr, s, rc.tail) => s < rc.tail
         /\ \A s \in Slots : InW(hdr, s) /\ Side(hdr, s, rc.tail) /\ s < rc.tail => Rem(s)
         /\ rc.tail = hdr.head => \A s \in Slots : ~Rem(s)
         /\ rc.tail # 0 /\ rc.tail # hdr.head =>
               /\ rc.tail - 1 \in Slots /\ InW(hdr, rc.tail - 1) /\ Rem(rc.tail - 1)
               /\ rc.tail - 1 # hdr.tail /\ Side(hdr, rc.tail - 1, rc.tail) /\ Lap(hdr, rc.tail - 1) = rc.gen
               /\ plog[rc.tail - 1] = {log[rc.tail - 1]}
               /\ \A s \in Slots : InW([hdr EXCEPT !.tail = rc.tail - 1], s) <=> Rem(s) /\ s # rc.tail - 1
  <1>1. /\ hdr \in Headers /\ hdr.gen >= 1 /\ rc \in RecoverState /\ phdr = {hdr}
        /\ \A s \in Slots : Lap(hdr, s) \in 1 .. MaxGen
        /\ \A s \in Slots : Rem(s) => InW(hdr, s)
        /\ \A s \in Slots : InW(hdr, s) /\ ~Done(s) => plog[s] = {log[s]}
        /\ \A s \in Slots : Done(s) => ~Rem(s) /\ ~Range_(s)
    BY RemAhead
  <1>2. PICK x \in Slots : x = rc.tail
    BY <1>1 DEF RecoverState
  <1>3. PICK l \in Slots : l = rc.last
    BY <1>1 DEF RecoverState
  <1>4. /\ InW(hdr, x) /\ x # hdr.tail /\ x <= l /\ InW(hdr, l) /\ Side(hdr, x, l)
        /\ rc.gen = IF x <= hdr.tail THEN hdr.gen ELSE prev_gen_id(hdr.gen)
    BY <1>2, <1>3 DEF RecoverInv, Scanning
  <1>5. /\ hdr.tail \in Int /\ hdr.head \in Int /\ hdr.tail \in 0 .. JSize - 1 /\ hdr.head \in 0 .. JSize - 1
        /\ \A s \in Slots : s \in Int /\ 0 <= s /\ s < JSize
        /\ JSize \in Nat
    BY <1>1, Constants DEF Headers, Slots
  <1>6. rc.gen = Lap(hdr, x)
    BY <1>4, <1>5 DEF Lap
  <1>7. PICK k : k = [hdr EXCEPT !.tail = x]
    OBVIOUS
  <1>8. \A s \in Slots : Rem(s) <=> InW(k, s)
    BY <1>2, <1>7 DEF Rem
  <1>9. /\ x = hdr.head => \A s \in Slots : ~InW(k, s)
        /\ \A s \in Slots : InW(k, s) /\ Side(hdr, s, x) => s < x
        /\ \A s \in Slots : InW(hdr, s) /\ Side(hdr, s, x) /\ s < x => InW(k, s)
    BY <1>1, <1>4, <1>7, Retreat
  <1>10. \A s \in Slots : Range_(s) <=> s \in x .. l
    BY <1>2, <1>3, <1>5 DEF Range_
  <1>11. ASSUME NEW w \in x .. l
         PROVE  /\ w \in Slots /\ InW(hdr, w) /\ Lap(hdr, w) = rc.gen /\ plog[w] = {log[w]}
                /\ Range_(w) /\ ~Rem(w) /\ ~Done(w) /\ Side(hdr, w, x) /\ Side(hdr, x, w)
    <2>1. w \in Slots /\ x <= w
      BY <1>5 DEF Slots
    <2>2. InW(hdr, w) /\ Side(hdr, w, x) /\ Side(hdr, x, w)
      BY <1>4, <1>5, <2>1 DEF InW, Side
    <2>3. Lap(hdr, w) = rc.gen
      BY <1>6, <2>1, <2>2, Laps, <1>1
    <2>4. Range_(w) /\ ~Rem(w) /\ ~Done(w)
      BY <1>5, <1>8, <1>9, <1>10, <2>1, <2>2 DEF Done
    <2> QED BY <1>1, <2>1, <2>2, <2>3, <2>4
  <1>12. ASSUME x # 0, x # hdr.head
         PROVE  /\ x - 1 \in Slots /\ InW(hdr, x - 1) /\ Rem(x - 1)
                /\ x - 1 # hdr.tail /\ Side(hdr, x - 1, x) /\ Lap(hdr, x - 1) = rc.gen
                /\ plog[x - 1] = {log[x - 1]}
                /\ \A s \in Slots : InW([hdr EXCEPT !.tail = x - 1], s) <=> Rem(s) /\ s # x - 1
    <2>1. PICK t \in Slots :
            /\ InW(hdr, t) /\ InW(k, t) /\ t # hdr.tail
            /\ \A s \in Slots : InW([hdr EXCEPT !.tail = t], s) <=> InW(k, s) /\ s # t
            /\ t = x - 1 /\ Side(hdr, t, x)
      BY <1>1, <1>4, <1>7, <1>12, Retreat
    <2>2. Lap(hdr, t) = rc.gen
      BY <1>1, <1>6, <2>1, Laps
    <2>3. Rem(t) /\ plog[t] = {log[t]}
      BY <1>1, <1>8, <2>1
    <2> QED BY <1>8, <2>1, <2>2, <2>3
  <1>13. rc.gen \in 1 .. MaxGen
    BY <1>1, <1>6
  <1> QED BY <1>1, <1>2, <1>3, <1>4, <1>8, <1>9, <1>10, <1>11, <1>12, <1>13

LEMMA InRecoverWalk ==
  ASSUME TypeInv, TypeInv', RecoverInv, RecoverWalk
  PROVE  RecoverInv'
  <1> USE DEF hdrVars, logVars, dataVars, runVars
  <1>1. rc.pc = "walk" /\ UNCHANGED <<hdr, phdr, log, plog, meta, pmeta, stable, mode>>
    BY DEF RecoverWalk
  <1>2. PICK x \in Slots : x = rc.tail
    BY <1>1, AtHand
  <1>3. PICK l \in Slots : l = rc.last
    BY <1>1, AtHand
  <1>4. /\ hdr \in Headers /\ hdr.gen >= 1 /\ rc \in RecoverState /\ phdr = {hdr}
        /\ InW(hdr, x) /\ InW(hdr, l) /\ x # hdr.tail
        /\ rc.gen = IF x <= hdr.tail THEN hdr.gen ELSE prev_gen_id(hdr.gen)
        /\ \A w \in x .. l :
              /\ w \in Slots /\ InW(hdr, w) /\ Lap(hdr, w) = rc.gen /\ plog[w] = {log[w]}
              /\ Range_(w) /\ ~Rem(w) /\ ~Done(w) /\ Side(hdr, w, x) /\ Side(hdr, x, w)
        /\ \A s \in Slots : Range_(s) <=> s \in x .. l
        /\ \A s \in Slots : Rem(s) /\ Side(hdr, s, x) => s < x
        /\ x = hdr.head => \A s \in Slots : ~Rem(s)
    BY <1>1, <1>2, <1>3, AtHand
  <1>5. x # 0 /\ x # hdr.head =>
           /\ x - 1 \in Slots /\ InW(hdr, x - 1) /\ Rem(x - 1)
           /\ x - 1 # hdr.tail /\ Side(hdr, x - 1, x) /\ Lap(hdr, x - 1) = rc.gen
           /\ plog[x - 1] = {log[x - 1]}
           /\ \A s \in Slots : InW([hdr EXCEPT !.tail = x - 1], s) <=> Rem(s) /\ s # x - 1
    BY <1>1, <1>2, AtHand
  <1>6. /\ \A s \in Slots : s \in Int /\ s >= 0
        /\ \A s \in Slots : /\ Lap(hdr, s)' = Lap(hdr, s) /\ (InW(hdr, s)' <=> InW(hdr, s))
                            /\ (Match(hdr, s)' <=> Match(hdr, s))
                            /\ \A e : Cand(hdr, s, e)' <=> Cand(hdr, s, e)
        /\ \A s, r \in Slots : Side(hdr, s, r)' <=> Side(hdr, s, r)
        /\ hdr.tail \in Int /\ hdr'.tail = hdr.tail /\ hdr'.gen = hdr.gen
    BY <1>1, <1>4, Constants DEF Lap, InW, Slots, Side, Match, Cand, Headers
  <1>7. /\ Cut /\ Repairs /\ Apart(hdr) /\ OnMedia
        /\ mode' = "recovered" => hdr.head = hdr.tail
    BY <1>1, <1>4 DEF TypeInv, RecoverInv
  <1>8. /\ x <= l /\ Side(hdr, x, l) /\ log[l].gen = rc.gen
        /\ \A w \in x + 1 .. l : Match(hdr, w) => ~log[w].start
        /\ \A w \in x .. l - 1 : Match(hdr, w) => ~Ends(log[w])
        /\ rc.ended = (x < l /\ Ends(log[l]))
    BY <1>1, <1>2, <1>3, <1>7 DEF RecoverInv, Scanning
  <1>9. x \in x .. l /\ l \in x .. l /\ rc.gen = Lap(hdr, x) /\ rc.gen = Lap(hdr, l)
    BY <1>4, <1>6, <1>8
  <1>10. PICK mine \in BOOLEAN : mine = (log[x].gen = rc.gen)
    OBVIOUS
  <1>11. PICK ended \in BOOLEAN : ended = (rc.ended \/ (mine /\ Ends(log[x])))
    BY <1>4 DEF RecoverState
  <1>12. PICK first \in BOOLEAN : first = (x = 0 \/ x = hdr.head)
    OBVIOUS
  <1>13. PICK other \in BOOLEAN : other = (~first /\ log[x - 1].gen = rc.gen /\ Ends(log[x - 1]))
    BY <1>12
  <1>14. IF ~(mine /\ log[x].start) /\ other /\ log[x - 1].tid = log[l].tid
         THEN rc' = [rc EXCEPT !.pc = "bug"]
         ELSE IF (mine /\ log[x].start) \/ first \/ other
         THEN rc' = [rc EXCEPT !.pc = "undo", !.ended = ended, !.start = mine /\ log[x].start]
         ELSE rc' = [rc EXCEPT !.tail = x - 1, !.ended = ended]
    BY <1>1, <1>2, <1>3, <1>10, <1>11, <1>12, <1>13 DEF RecoverWalk
  <1>15. ended = Ends(log[l])
    <2>1. rc.ended \in BOOLEAN
      BY <1>4 DEF RecoverState
    <2>2. mine <=> log[x].gen = rc.gen
      BY <1>10
    <2>3. ended <=> rc.ended \/ (mine /\ Ends(log[x]))
      BY <1>11, <2>1
    <2>4. rc.ended <=> x < l /\ Ends(log[l])
      BY <1>8, <2>1
    <2>5. CASE x = l
      <3>1. mine /\ ~(x < l)
        BY <1>6, <1>8, <2>2, <2>5
      <3>2. ended <=> Ends(log[l])
        BY <2>3, <2>4, <2>5, <3>1
      <3> QED BY <3>2 DEF Ends
    <2>6. CASE x # l
      <3>1. x < l /\ x \in x .. l - 1
        BY <1>6, <1>8, <2>6
      <3>2. mine => ~Ends(log[x])
        BY <1>4, <1>8, <1>9, <2>2, <3>1 DEF Match
      <3>3. ended <=> Ends(log[l])
        BY <2>3, <2>4, <3>1, <3>2
      <3> QED BY <3>3 DEF Ends
    <2> QED BY <2>5, <2>6
  \* The candidates seen in the log.
  <1>16. \A s \in Slots : InW(hdr, s) /\ Lap(hdr, s) = rc.gen /\ log[s].gen = rc.gen =>
            Cand(hdr, s, log[s]) /\ log[s] \in plog[s]
    BY <1>7 DEF Cand, OnMedia
  <1>17. other => /\ x - 1 \in Slots /\ Cand(hdr, x - 1, log[x - 1]) /\ log[x - 1] \in plog[x - 1]
                  /\ Ends(log[x - 1]) /\ plog[x - 1] = {log[x - 1]} /\ Side(hdr, x - 1, x) /\ Side(hdr, x, x - 1)
    BY <1>5, <1>12, <1>13, <1>16 DEF Side
  <1>18. ~(other /\ log[x - 1].tid = log[l].tid)
    <2> SUFFICES ASSUME other, log[x - 1].tid = log[l].tid PROVE FALSE
      OBVIOUS
    <2>1. Cand(hdr, l, log[l]) /\ log[l] \in plog[l]
      BY <1>4, <1>8, <1>9, <1>16
    <2>2. x - 1 < l /\ Side(hdr, x - 1, l)
      BY <1>6, <1>8, <1>17 DEF Side
    <2> QED BY <1>7, <1>17, <2>1, <2>2 DEF Apart, Ordered
  <1>19. ASSUME NEW a \in Addrs, Dirty(a)' PROVE Undoable(a)
    BY <1>1, <1>7, <1>19 DEF Repairs, HalfRest, Dirty
  <1>20. CASE (mine /\ log[x].start) \/ first \/ other
    <2>1. rc' = [rc EXCEPT !.pc = "undo", !.ended = ended, !.start = mine /\ log[x].start]
      BY <1>14, <1>18, <1>20
    <2>2. /\ rc'.pc = "undo" /\ rc'.tail = x /\ rc'.last = l /\ rc'.gen = rc.gen /\ rc'.ended = ended
          /\ rc'.start = (mine /\ log[x].start)
      BY <1>2, <1>3, <1>4, <2>1 DEF RecoverState
    <2>3. \A s \in Slots : /\ Rem(s)' <=> Rem(s)
                           /\ Range_(s)' <=> Range_(s)
                           /\ Done(s)' <=> Done(s)
      <3>1. [hdr' EXCEPT !.tail = rc'.tail] = [hdr EXCEPT !.tail = rc.tail]
        BY <1>1, <1>2, <2>2
      <3>2. \A s \in Slots : (Rem(s)' <=> Rem(s)) /\ (Range_(s)' <=> Range_(s))
        BY <1>1, <1>2, <1>3, <2>2, <3>1 DEF Rem, Range_, InW
      <3> QED BY <1>6, <3>2 DEF Done
    <2>4. Scanning'
      <3>1. \A w \in x .. l : w \in Slots
        BY <1>4
      <3>2. \A w \in x + 1 .. l : Match(hdr, w)' => ~log'[w].start
        BY <1>1, <1>6, <1>8 DEF Match, InW, Lap
      <3>3. \A w \in x .. l - 1 : Match(hdr, w)' => ~Ends(log'[w])
        BY <1>1, <1>6, <1>8 DEF Match, InW, Lap
      <3>4. /\ InW(hdr', x) /\ InW(hdr', l) /\ Side(hdr', x, l) /\ log'[l].gen = rc'.gen
            /\ rc'.ended = Ends(log'[l]) /\ rc'.start = (log'[x].gen = rc'.gen /\ log'[x].start)
        BY <1>1, <1>4, <1>8, <1>10, <1>15, <2>2
      <3> QED BY <1>4, <1>6, <1>8, <2>2, <3>2, <3>3, <3>4 DEF Scanning
    <2>5. Cut'
      <3> SUFFICES ASSUME NEW u \in Slots, NEW v \in Slots, NEW e \in plog[u], NEW f \in plog[v],
                          Cand(hdr, u, e) /\ Cand(hdr, v, f) /\ Side(hdr, u, v),
                          (~Done(u) /\ Done(v)) \/ (Rem(u) /\ ~Rem(v)), e.tid = f.tid
                   PROVE  FALSE
        BY <1>1, <1>6, <2>3 DEF Cut
      <3>1. CASE ~Done(u) /\ Done(v)
        BY <1>7, <3>1 DEF Cut
      <3>2. CASE Rem(u) /\ ~Rem(v) /\ ~Done(v)
        <4>1. v \in x .. l
          BY <1>4, <3>2 DEF Done, Cand
        <4>2. Side(hdr, u, x) /\ u < x /\ x <= v /\ Side(hdr, u, v)
          BY <1>4, <1>6, <3>2, <4>1 DEF Side
        <4>3. CASE mine /\ log[x].start
          <5>1. Cand(hdr, x, log[x]) /\ log[x] \in plog[x] /\ plog[x] = {log[x]}
            BY <1>4, <1>9, <1>10, <1>16, <4>3
          <5>2. CASE v = x
            BY <1>7, <4>2, <4>3, <5>1, <5>2 DEF Apart, Ordered
          <5>3. CASE v # x
            <6>1. x < v
              BY <1>6, <4>2, <5>3
            <6>2. log[x].tid = e.tid
              BY <1>7, <4>2, <5>1, <6>1 DEF Apart, Convex
            <6> QED BY <1>7, <4>2, <4>3, <5>1, <6>2 DEF Apart, Ordered
          <5> QED BY <5>2, <5>3
        <4>4. CASE first
          <5>1. u >= 0 /\ u \in Int /\ u < x
            BY <1>6, <4>2
          <5>2. x # 0
            BY <5>1
          <5> QED BY <1>4, <1>12, <3>2, <4>4, <5>2
        <4>5. CASE other
          <5>1. Side(hdr, u, x - 1) /\ Side(hdr, x - 1, v) /\ x - 1 < v /\ u <= x - 1 /\ x - 1 \in Slots
            BY <1>6, <1>17, <4>2, <4>5 DEF Side
          <5>2. CASE u = x - 1
            BY <1>7, <1>17, <4>5, <5>1, <5>2 DEF Apart, Ordered
          <5>3. CASE u # x - 1
            <6>1. u < x - 1
              BY <1>6, <5>1, <5>3
            <6>2. log[x - 1].tid = e.tid
              BY <1>7, <1>17, <4>2, <4>5, <5>1, <6>1 DEF Apart, Convex
            <6> QED BY <1>7, <1>17, <4>5, <5>1, <6>2 DEF Apart, Ordered
          <5> QED BY <5>2, <5>3
        <4> QED BY <1>20, <4>3, <4>4, <4>5
      <3>3. Done(v) => InW(hdr, v) /\ ~Rem(v)
        BY DEF Done
      <3>4. Rem(u) => ~Done(u)
        BY DEF Done
      <3> QED BY <3>1, <3>2, <3>4
    <2>6. ASSUME NEW a \in Addrs, Dirty(a)' PROVE Undoable(a)'
      <3>1. PICK st \in Slots, m \in Slots :
              /\ st <= m /\ Chain(hdr, st, m) /\ OpenStart(hdr, st) /\ log[m].addr = a
              /\ meta[a] # stable[a] => Rem(m) \/ Range_(m)
        BY <1>1, <1>19, <2>6 DEF Undoable
      <3>2. Chain(hdr, st, m)' /\ OpenStart(hdr, st)' /\ log'[m].addr = a
        BY <1>1, <3>1 DEF Chain, OpenStart, Match, Side, InW, Lap
      <3> QED BY <1>1, <2>2, <2>3, <3>1, <3>2 DEF Undoable
    <2> QED BY <1>1, <1>7, <2>2, <2>3, <2>4, <2>5, <2>6, LooksBack
  <1>21. CASE ~((mine /\ log[x].start) \/ first \/ other)
    <2>1. rc' = [rc EXCEPT !.tail = x - 1, !.ended = ended]
      BY <1>14, <1>18, <1>21
    <2>2. PICK y \in Slots : y = x - 1
      BY <1>5, <1>12, <1>21
    <2>3. /\ rc'.pc = "walk" /\ rc'.tail = y /\ rc'.last = l /\ rc'.gen = rc.gen /\ rc'.ended = ended
      BY <1>1, <1>3, <1>4, <2>1, <2>2 DEF RecoverState
    <2>4. /\ InW(hdr, y) /\ Rem(y) /\ y # hdr.tail /\ Side(hdr, y, x) /\ Lap(hdr, y) = rc.gen
          /\ \A s \in Slots : InW([hdr EXCEPT !.tail = y], s) <=> Rem(s) /\ s # y
      BY <1>5, <1>12, <1>21, <2>2
    <2>5. \A s \in Slots : /\ Rem(s)' <=> Rem(s) /\ s # y
                           /\ Range_(s)' <=> Range_(s) \/ s = y
                           /\ Done(s)' <=> Done(s)
      <3>1. \A s \in Slots : Rem(s)' <=> Rem(s) /\ s # y
        BY <1>1, <2>3, <2>4 DEF Rem, InW
      <3>2. \A s \in Slots : Range_(s)' <=> Range_(s) \/ s = y
        BY <1>1, <1>2, <1>3, <1>6, <1>8, <2>2, <2>3 DEF Range_
      <3> QED BY <1>6, <2>4, <3>1, <3>2 DEF Done
    <2>6. Scanning'
      <3>1. \A w \in y + 1 .. l : Match(hdr, w)' => ~log'[w].start
        <4> SUFFICES ASSUME NEW w \in x .. l, Match(hdr, w) PROVE ~log[w].start
          BY <1>1, <1>6, <2>2 DEF Match, InW, Lap
        <4>1. CASE w = x
          BY <1>9, <1>10, <1>21, <4>1 DEF Match
        <4>2. CASE w # x
          BY <1>6, <1>8, <4>2
        <4> QED BY <4>1, <4>2
      <3>2. \A w \in y .. l - 1 : Match(hdr, w)' => ~Ends(log'[w])
        <4> SUFFICES ASSUME NEW w \in y .. l - 1, Match(hdr, w) PROVE ~Ends(log[w])
          BY <1>1 DEF Match, InW, Lap
        <4>1. CASE w = y
          BY <1>12, <1>13, <1>21, <2>2, <2>4, <4>1 DEF Match
        <4>2. CASE w # y
          BY <1>6, <1>8, <2>2, <4>2
        <4> QED BY <4>1, <4>2
      <3>3. y <= l /\ y < l /\ Side(hdr, y, l)
        BY <1>6, <1>8, <2>2, <2>4 DEF Side
      <3>4. /\ InW(hdr', y) /\ InW(hdr', l) /\ Side(hdr', y, l) /\ log'[l].gen = rc'.gen
            /\ rc'.ended = (y < l /\ Ends(log'[l]))
        BY <1>1, <1>4, <1>8, <1>15, <2>3, <2>4, <3>3
      <3>5. rc'.gen = IF y <= hdr.tail THEN hdr.gen ELSE prev_gen_id(hdr.gen)
        BY <1>4, <1>6, <2>2, <2>3, <2>4
      <3> QED BY <1>6, <2>3, <2>4, <3>1, <3>2, <3>3, <3>4, <3>5 DEF Scanning
    <2>7. Cut'
      BY <1>1, <1>6, <1>7, <2>3, <2>5 DEF Cut
    <2>8. ASSUME NEW a \in Addrs, Dirty(a)' PROVE Undoable(a)'
      <3>1. PICK st \in Slots, m \in Slots :
              /\ st <= m /\ Chain(hdr, st, m) /\ OpenStart(hdr, st) /\ log[m].addr = a
              /\ meta[a] # stable[a] => Rem(m) \/ Range_(m)
        BY <1>1, <1>19, <2>8 DEF Undoable
      <3>2. Chain(hdr, st, m)' /\ OpenStart(hdr, st)' /\ log'[m].addr = a
        BY <1>1, <3>1 DEF Chain, OpenStart, Match, Side, InW, Lap
      <3> QED BY <1>1, <2>3, <2>5, <3>1, <3>2 DEF Undoable
    <2> QED BY <1>1, <1>7, <2>3, <2>5, <2>6, <2>7, <2>8, LooksBack
  <1> QED BY <1>20, <1>21

\* An entry at hand comes from no transaction that begins elsewhere.
LEMMA StartsHere ==
  ASSUME TypeInv, RecoverInv, rc.pc \in {"undo", "invalidate"},
         NEW st \in Slots, NEW w \in rc.tail .. rc.last, Match(hdr, st), Match(hdr, w),
         log[st].start, st <= w, Side(hdr, st, w), log[st].tid = log[w].tid
  PROVE  st = rc.tail /\ rc.start
  <1>1. PICK x \in Slots : x = rc.tail
    BY AtHand
  <1>2. PICK l \in Slots : l = rc.last
    BY AtHand
  <1>3. /\ w \in Slots /\ Lap(hdr, x) = rc.gen /\ ~Rem(w) /\ Side(hdr, w, x) /\ Side(hdr, x, w)
        /\ \A s \in Slots : InW(hdr, s) /\ Side(hdr, s, x) /\ s < x => Rem(s)
    <2>1. x \in x .. l
      BY <1>1, <1>2, AtHand, Constants DEF Slots
    <2> QED BY <1>1, <1>2, <2>1, AtHand
  <1>4. st \in Int /\ x \in Int /\ l \in Int /\ w \in x .. l
    BY <1>1, <1>2, Constants DEF Slots
  <1>5. /\ \A y \in x + 1 .. l : Match(hdr, y) => ~log[y].start
        /\ rc.start = (log[x].gen = rc.gen /\ log[x].start)
    BY <1>1, <1>2 DEF RecoverInv, Scanning
  <1>6. st <= x
    BY <1>4, <1>5
  <1>7. ~(st < x)
    <2> SUFFICES ASSUME st < x PROVE FALSE
      OBVIOUS
    <2>1. Side(hdr, st, x)
      BY <1>3 DEF Side
    <2>2. Rem(st)
      BY <1>3, <2>1 DEF Match
    <2>3. /\ Cand(hdr, st, log[st]) /\ Cand(hdr, w, log[w]) /\ log[st] \in plog[st] /\ log[w] \in plog[w]
      BY <1>3 DEF TypeInv, OnMedia, Cand, Match
    <2> QED BY <1>3, <2>2, <2>3 DEF RecoverInv, Cut
  <1>8. st = x
    BY <1>4, <1>6, <1>7
  <1> QED BY <1>1, <1>3, <1>5, <1>8 DEF Match

\* A transaction that has not ended, with an entry at hand, is the one at hand.
LEMMA OpenIsAtHand ==
  ASSUME TypeInv, RecoverInv, rc.pc \in {"undo", "invalidate"},
         NEW st \in Slots, NEW m \in Slots, Chain(hdr, st, m), OpenStart(hdr, st),
         NEW w \in st .. m, Range_(w)
  PROVE  st = rc.tail /\ rc.start /\ ~rc.ended
  <1>1. /\ hdr \in Headers /\ rc.last \in Slots /\ rc.tail \in Slots /\ rc.tail <= rc.last
        /\ w \in rc.tail .. rc.last /\ OnMedia /\ Lap(hdr, rc.last) = rc.gen /\ InW(hdr, rc.last)
        /\ rc.last \in rc.tail .. rc.last /\ Side(hdr, rc.last, rc.tail) /\ Side(hdr, rc.tail, w)
    <2>1. w \in Slots
      BY Constants DEF Slots
    <2>2. rc.last \in rc.tail .. rc.last
      BY AtHand, Constants DEF Slots
    <2> QED BY <2>1, <2>2, AtHand DEF TypeInv
  <1>2. /\ w \in Slots /\ Match(hdr, w) /\ log[w].tid = log[st].tid /\ Side(hdr, st, w)
        /\ Match(hdr, st) /\ log[st].start /\ st <= w
    <2>1. st \in st .. m /\ st <= w
      BY Constants DEF Chain, Slots
    <2>2. w \in Slots /\ Match(hdr, w) /\ log[w].tid = log[st].tid
      BY <1>1, InChain
    <2>3. Side(hdr, st, w)
      BY <1>1, <2>1, ChainSide
    <2> QED BY <2>1, <2>2, <2>3 DEF OpenStart
  <1>3. st = rc.tail /\ rc.start
    BY <1>1, <1>2, StartsHere
  <1>4. PICK l \in Slots : l = rc.last
    BY <1>1
  <1>5. log[l].gen = rc.gen /\ rc.ended = Ends(log[l])
    BY <1>4 DEF RecoverInv, Scanning
  <1>6. Match(hdr, l) /\ st <= l /\ Side(hdr, st, l)
    BY <1>1, <1>3, <1>4, <1>5 DEF Match, Side
  <1>7. ~Ends(log[l])
    <2>1. Orphan(hdr, l) \/ Covered(hdr, l) \/ Harmless(hdr, l)
      BY <1>6, AtHand DEF RecoverInv, Classified
    <2>2. ~Orphan(hdr, l)
      BY <1>6 DEF Orphan
    <2>3. ~Covered(hdr, l)
      <3> SUFFICES ASSUME NEW s \in Slots, NEW r \in Slots, s <= l, l <= r, Chain(hdr, s, r),
                          log[s].start, Ends(log[r])
                   PROVE  FALSE
        BY DEF Covered
      <3>1. l \in s .. r
        BY Constants DEF Slots
      <3>2. /\ Match(hdr, s) /\ Match(hdr, r) /\ log[r].tid = log[s].tid /\ log[l].tid = log[s].tid
            /\ Side(hdr, s, l) /\ Side(hdr, s, r)
        <4>1. s \in s .. r /\ r \in s .. r
          BY <1>1, <3>1, InChain
        <4> QED BY <1>1, <3>1, <4>1, InChain, ChainSide
      <3>3. s = rc.tail
        BY <1>1, <1>4, <1>6, <3>2, StartsHere
      <3> QED BY <1>3, <3>2, <3>3 DEF OpenStart
    <2> QED BY <2>1, <2>2, <2>3 DEF Harmless
  <1> QED BY <1>3, <1>5, <1>7

\* The transaction at hand, if it has not ended: its entries hold committed values.
LEMMA AtHandIsOpen ==
  ASSUME TypeInv, RecoverInv, rc.pc \in {"undo", "invalidate"}, rc.start, ~rc.ended
  PROVE  /\ OpenStart(hdr, rc.tail)
         /\ \A s \in rc.tail .. rc.last : Match(hdr, s) /\ log[s].addr \in Addrs =>
              \/ log[s].old = stable[log[s].addr]
              \/ \E m \in rc.tail .. rc.last : /\ m < s /\ Chain(hdr, rc.tail, m)
                                               /\ log[m].addr = log[s].addr
  <1>1. PICK x \in Slots : x = rc.tail
    BY AtHand
  <1>2. PICK l \in Slots : l = rc.last
    BY AtHand
  <1>3. /\ hdr \in Headers /\ x <= l
        /\ \A w \in x .. l :
              /\ w \in Slots /\ InW(hdr, w) /\ Lap(hdr, w) = rc.gen
              /\ ~Rem(w) /\ ~Done(w) /\ Side(hdr, w, x) /\ Side(hdr, x, w)
        /\ \A s \in Slots : Range_(s) <=> s \in x .. l
        /\ \A s \in Slots : Rem(s) /\ Side(hdr, s, x) => s < x
    BY <1>1, <1>2, AtHand
  <1>4. \A s \in Slots : s \in Int
    BY Constants DEF Slots
  <1>5. x \in x .. l /\ l \in x .. l
    BY <1>3, <1>4
  <1>6. /\ log[x].gen = rc.gen /\ log[x].start /\ ~Ends(log[l])
        /\ \A w \in x .. l - 1 : Match(hdr, w) => ~Ends(log[w])
    BY <1>1, <1>2 DEF RecoverInv, Scanning
  <1>7. Match(hdr, x)
    BY <1>3, <1>5, <1>6 DEF Match
  <1>8. /\ Cut /\ Apart(hdr) /\ Classified(hdr) /\ OnMedia
        /\ \A s \in Slots : Match(hdr, s) => Cand(hdr, s, log[s]) /\ log[s] \in plog[s]
    BY AtHand DEF RecoverInv, TypeInv, OnMedia, Match, Cand
  <1>9. OpenStart(hdr, x)
    <2> SUFFICES ASSUME NEW r \in Slots, Match(hdr, r), Side(hdr, x, r), log[r].tid = log[x].tid
                 PROVE  ~Ends(log[r])
      BY <1>6, <1>7 DEF OpenStart
    <2>1. CASE r < x
      <3>1. Side(hdr, r, x)
        BY DEF Side
      <3> QED BY <1>6, <1>7, <1>8, <2>1, <3>1 DEF Apart, Ordered
    <2>2. CASE r \in x .. l
      BY <1>4, <1>6, <2>2
    <2>3. CASE l < r
      <3>1. Side(hdr, r, x)
        BY DEF Side
      <3>2. ~Rem(r) /\ r \notin x .. l
        BY <1>3, <1>4, <2>3, <3>1
      <3>3. Done(r)
        BY <1>3, <3>2 DEF Match, Done
      <3> QED BY <1>3, <1>5, <1>7, <1>8, <3>3 DEF Cut
    <2> QED BY <1>4, <2>1, <2>2, <2>3
  <1>10. ASSUME NEW s \in x .. l, Match(hdr, s), log[s].addr \in Addrs,
                log[s].old # stable[log[s].addr]
         PROVE  \E m \in x .. l : /\ m < s /\ Chain(hdr, x, m) /\ log[m].addr = log[s].addr
    <2>1. s \in Slots /\ x <= s /\ Side(hdr, x, s)
      BY <1>3, <1>4
    <2>2. ~Orphan(hdr, s)
      BY <1>9, <2>1 DEF Orphan
    <2>3. ~Covered(hdr, s)
      <3> SUFFICES ASSUME NEW st \in Slots, NEW r \in Slots, st <= s, s <= r, Chain(hdr, st, r),
                          log[st].start, Ends(log[r])
                   PROVE  FALSE
        BY DEF Covered
      <3>1. s \in st .. r
        BY <1>4, <2>1
      <3>2. /\ Match(hdr, st) /\ Match(hdr, r) /\ log[r].tid = log[st].tid /\ log[s].tid = log[st].tid
            /\ Side(hdr, st, s) /\ Side(hdr, st, r)
        <4>1. st \in st .. r /\ r \in st .. r /\ log[s].tid = log[st].tid
          BY <1>8, <3>1, InChain
        <4>2. Match(hdr, st) /\ Match(hdr, r) /\ log[r].tid = log[st].tid
          BY <1>8, <4>1, InChain
        <4>3. Side(hdr, st, s) /\ Side(hdr, st, r)
          BY <1>3, <3>1, <4>1, ChainSide
        <4> QED BY <4>1, <4>2, <4>3
      <3>3. st = x
        BY <1>1, <1>2, <1>10, <3>2, StartsHere
      <3> QED BY <1>9, <3>2, <3>3 DEF OpenStart
    <2>4. Harmless(hdr, s)
      BY <1>8, <1>10, <2>1, <2>2, <2>3 DEF Classified
    <2>5. PICK st \in Slots, m \in Slots :
            /\ st <= m /\ m < s /\ Chain(hdr, st, m) /\ log[st].start
            /\ log[st].tid = log[s].tid /\ Side(hdr, m, s) /\ log[m].addr = log[s].addr
      BY <1>10, <2>4 DEF Harmless
    <2>6. st \in st .. m /\ m \in st .. m
      BY <1>4, <2>5
    <2>7. Match(hdr, st) /\ Side(hdr, st, m)
      BY <1>8, <2>5, <2>6, InChain DEF Chain
    <2>8. Side(hdr, st, s) /\ st <= s
      BY <1>4, <2>1, <2>5, <2>7 DEF Side
    <2>9. st = x
      BY <1>1, <1>2, <1>10, <2>5, <2>7, <2>8, StartsHere
    <2>10. m \in x .. l
      BY <1>4, <2>1, <2>5, <2>9
    <2> QED BY <2>5, <2>9, <2>10
  <1> QED BY <1>1, <1>2, <1>9, <1>10

LEMMA InRecoverUndo ==
  ASSUME TypeInv, TypeInv', RecoverInv, RecoverUndo
  PROVE  RecoverInv'
  <1> USE DEF hdrVars, logVars, dataVars, runVars
  <1>1. /\ rc.pc = "undo" /\ UNCHANGED <<hdr, phdr, log, plog, stable, mode>>
        /\ IF rc.start /\ ~rc.ended
           THEN /\ meta' = pmfs_undo_transaction(rc.tail .. rc.last, rc.gen)
                /\ pmeta' = UndoMedia(rc.tail .. rc.last, rc.gen)
           ELSE UNCHANGED <<meta, pmeta>>
        /\ rc' = [rc EXCEPT !.pc = IF rc.gen = MaxGen THEN "invalidate" ELSE "scan"]
    BY DEF RecoverUndo
  <1>2. PICK x \in Slots : x = rc.tail
    BY <1>1, AtHand
  <1>3. PICK l \in Slots : l = rc.last
    BY <1>1, AtHand
  <1>4. PICK g : g = rc.gen
    OBVIOUS
  <1>5. /\ hdr \in Headers /\ rc \in RecoverState /\ x # hdr.tail /\ x <= l
        /\ \A w \in x .. l : /\ w \in Slots /\ InW(hdr, w) /\ Lap(hdr, w) = g /\ ~Rem(w)
        /\ \A s \in Slots : Range_(s) <=> s \in x .. l
    BY <1>1, <1>2, <1>3, <1>4, AtHand
  <1>6. /\ rc'.pc = (IF g = MaxGen THEN "invalidate" ELSE "scan")
        /\ rc'.tail = x /\ rc'.last = l /\ rc'.gen = g /\ rc'.start = rc.start /\ rc'.ended = rc.ended
    BY <1>1, <1>2, <1>3, <1>4, <1>5 DEF RecoverState
  <1>7. /\ \A s \in Slots : s \in Int
        /\ \A s \in Slots : /\ Lap(hdr, s)' = Lap(hdr, s) /\ (InW(hdr, s)' <=> InW(hdr, s))
                            /\ (Match(hdr, s)' <=> Match(hdr, s))
                            /\ \A e : Cand(hdr, s, e)' <=> Cand(hdr, s, e)
        /\ \A s, r \in Slots : Side(hdr, s, r)' <=> Side(hdr, s, r)
        /\ hdr'.tail = hdr.tail /\ hdr'.gen = hdr.gen
    BY <1>1, Constants DEF Lap, InW, Slots, Side, Match, Cand
  <1>8. Cut /\ Repairs /\ Scanning /\ (mode' = "recovered" => hdr.head = hdr.tail)
    BY <1>1 DEF RecoverInv
  <1>9. \A s \in Slots : /\ Rem(s)' <=> Rem(s)
                         /\ Done(s)' <=> IF g = MaxGen THEN Done(s) ELSE Done(s) \/ Range_(s)
    <2>1. \A s \in Slots : Rem(s)' <=> Rem(s)
      <3>1. [hdr' EXCEPT !.tail = rc'.tail] = [hdr EXCEPT !.tail = rc.tail]
        BY <1>1, <1>2, <1>6
      <3> QED BY <1>1, <1>6, <3>1 DEF Rem, InW
    <2>2. \A s \in Slots : Range_(s)' <=> g = MaxGen /\ Range_(s)
      BY <1>1, <1>2, <1>3, <1>6 DEF Range_
    <2>3. \A s \in Slots : Range_(s) => InW(hdr, s) /\ ~Rem(s)
      BY <1>5
    <2> QED BY <1>7, <2>1, <2>2, <2>3 DEF Done
  <1>10. Scanning'
    <2>1. /\ g = IF x <= hdr.tail THEN hdr.gen ELSE prev_gen_id(hdr.gen)
          /\ x = hdr.tail \/ InW(hdr, x)
          /\ x # hdr.tail /\ x <= l /\ InW(hdr, l) /\ Side(hdr, x, l) /\ log[l].gen = g
          /\ \A w \in x + 1 .. l : Match(hdr, w) => ~log[w].start
          /\ \A w \in x .. l - 1 : Match(hdr, w) => ~Ends(log[w])
          /\ rc.ended = Ends(log[l]) /\ rc.start = (log[x].gen = g /\ log[x].start)
      BY <1>1, <1>2, <1>3, <1>4, <1>8 DEF Scanning
    <2>2. /\ \A w \in x + 1 .. l : Match(hdr, w)' => ~log'[w].start
          /\ \A w \in x .. l - 1 : Match(hdr, w)' => ~Ends(log'[w])
      BY <1>1, <2>1 DEF Match, InW, Lap
    <2>3. /\ x = hdr'.tail \/ InW(hdr', x)
          /\ InW(hdr', l) /\ Side(hdr', x, l) /\ log'[l].gen = g
          /\ rc'.ended = Ends(log'[l]) /\ rc'.start = (log'[x].gen = g /\ log'[x].start)
      BY <1>1, <1>6, <2>1
    <2>4. rc'.pc = "invalidate" => g = MaxGen
      BY <1>6
    <2>5. rc'.pc \in {"invalidate", "scan"}
      BY <1>6
    <2> QED BY <1>6, <1>7, <2>1, <2>2, <2>3, <2>4, <2>5 DEF Scanning
  <1>11. Cut'
    <2> SUFFICES ASSUME NEW u \in Slots, NEW v \in Slots, NEW e \in plog[u], NEW f \in plog[v],
                        Cand(hdr, u, e) /\ Cand(hdr, v, f) /\ Side(hdr, u, v),
                        (~Done(u)' /\ Done(v)') \/ (Rem(u) /\ ~Rem(v))
                 PROVE  e.tid # f.tid
      BY <1>1, <1>7, <1>9 DEF Cut
    <2>1. (~Done(u) /\ Done(v)) \/ (Rem(u) /\ ~Rem(v))
      <3>1. InW(hdr, u)
        BY DEF Cand
      <3> QED BY <1>5, <1>9, <3>1 DEF Done
    <2> QED BY <1>1, <1>8, <2>1 DEF Cut
  <1>12. ASSUME NEW a \in Addrs, Dirty(a)' PROVE Undoable(a)'
    <2>1. PICK R : R = x .. l
      OBVIOUS
    <2>2. R \subseteq Slots
      BY <1>5, <2>1
    <2>3. ASSUME NEW st \in Slots, NEW m \in Slots, st <= m, Chain(hdr, st, m), OpenStart(hdr, st),
                 log[m].addr = a, meta'[a] # stable[a] => Rem(m)
          PROVE  Undoable(a)'
      <3>1. Chain(hdr, st, m)' /\ OpenStart(hdr, st)' /\ log'[m].addr = a
        BY <1>1, <2>3 DEF Chain, OpenStart, Match, Side, InW, Lap
      <3> QED BY <1>1, <1>9, <2>3, <3>1 DEF Undoable
    <2>4. ASSUME Dirty(a), meta'[a] # stable[a],
                 meta'[a] = meta[a], rc.start /\ ~rc.ended => UndoEntries(R, g, a) = {}
          PROVE  Undoable(a)'
      <3>1. PICK st \in Slots, m \in Slots :
              /\ st <= m /\ Chain(hdr, st, m) /\ OpenStart(hdr, st) /\ log[m].addr = a
              /\ meta[a] # stable[a] => Rem(m) \/ Range_(m)
        BY <1>1, <1>8, <2>4 DEF Repairs, HalfRest, Undoable
      <3>2. m \in st .. m /\ Match(hdr, m)
        BY <1>7, <3>1 DEF Chain
      <3>3. ~Range_(m)
        <4> SUFFICES ASSUME Range_(m) PROVE FALSE
          OBVIOUS
        <4>1. rc.start /\ ~rc.ended
          BY <1>1, <3>1, <3>2, OpenIsAtHand
        <4>2. m \in R /\ log[m].gen = g
          BY <1>5, <2>1, <3>2 DEF Match
        <4>3. m \in UndoEntries(R, g, a)
          BY <3>1, <4>2 DEF UndoEntries
        <4> QED BY <2>4, <4>1, <4>3
      <3> QED BY <2>3, <2>4, <3>1, <3>3
    <2>5. ASSUME Dirty(a), meta'[a] = stable[a]
          PROVE  Undoable(a)'
      BY <1>1, <1>8, <2>3, <2>5 DEF Repairs, HalfRest, Undoable
    <2>6. CASE ~(rc.start /\ ~rc.ended)
      <3>1. meta' = meta /\ pmeta' = pmeta
        BY <1>1, <2>6
      <3>2. Dirty(a)
        BY <1>1, <1>12, <3>1 DEF Dirty
      <3> QED BY <2>4, <2>5, <2>6, <3>1, <3>2
    <2>7. CASE rc.start /\ ~rc.ended
      <3>1. meta' = pmfs_undo_transaction(R, g) /\ pmeta' = UndoMedia(R, g)
        BY <1>1, <1>2, <1>3, <1>4, <2>1, <2>7
      <3>2. CASE UndoEntries(R, g, a) = {}
        <4>1. meta'[a] = meta[a]
          BY <2>2, <3>1, <3>2, UndoValue
        <4>2. pmeta'[a] = pmeta[a]
          BY <3>1, <3>2 DEF UndoMedia
        <4>3. Dirty(a)
          BY <1>1, <1>12, <4>1, <4>2 DEF Dirty
        <4> QED BY <2>4, <2>5, <3>2, <4>1, <4>3
      <3>3. CASE UndoEntries(R, g, a) # {}
        <4>1. /\ OpenStart(hdr, x)
              /\ \A s \in R : Match(hdr, s) /\ log[s].addr \in Addrs =>
                   \/ log[s].old = stable[log[s].addr]
                   \/ \E m \in R : m < s /\ Chain(hdr, x, m) /\ log[m].addr = log[s].addr
          BY <1>1, <1>2, <1>3, <2>1, <2>7, AtHandIsOpen
        <4>2. \A s \in R : Match(hdr, s) => log[s].gen = g
          BY <1>5, <2>1 DEF Match
        <4>3. \A s \in UndoEntries(R, g, a) : s \in R /\ s \in Slots /\ Match(hdr, s) /\ log[s].addr = a
          BY <1>5, <2>1, <2>2 DEF UndoEntries, Match
        <4>4. \A m \in R : Chain(hdr, x, m) => m \in Slots /\ x <= m /\ Match(hdr, m)
          <5>1. \A m \in R : m \in Slots /\ x <= m /\ m \in x .. m
            BY <1>7, <2>1, <2>2
          <5> QED BY <5>1 DEF Chain
        <4>5. meta'[a] = stable[a]
          <5>1. PICK s \in UndoEntries(R, g, a) :
                  /\ \A t \in UndoEntries(R, g, a) : s <= t
                  /\ meta'[a] = log[s].old
            BY <2>2, <3>1, <3>3, UndoValue
          <5>2. CASE log[s].old = stable[log[s].addr]
            BY <4>3, <5>1, <5>2
          <5>3. ASSUME NEW m \in R, m < s, Chain(hdr, x, m), log[m].addr = log[s].addr
                PROVE  FALSE
            <6>1. m \in UndoEntries(R, g, a)
              BY <4>2, <4>3, <4>4, <5>3 DEF UndoEntries
            <6>2. m \in Int /\ s \in Int
              BY <1>7, <4>3, <4>4, <5>3
            <6> QED BY <5>1, <5>3, <6>1, <6>2
          <5> QED BY <4>1, <4>3, <5>2, <5>3
        <4>6. CASE Dirty(a)
          BY <2>5, <4>5, <4>6
        <4>7. CASE ~Dirty(a)
          <5>1. pmeta[a] = {stable[a]} /\ pmeta'[a] # {stable[a]}
            BY <1>1, <1>12, <4>5, <4>7 DEF Dirty
          <5>2. pmeta'[a] = pmeta[a] \cup {log[s].old : s \in UndoEntries(R, g, a)}
            BY <3>1 DEF UndoMedia
          <5>3. PICK s \in UndoEntries(R, g, a) : log[s].old # stable[a]
            BY <5>1, <5>2
          <5>4. PICK m \in R : m < s /\ Chain(hdr, x, m) /\ log[m].addr = a
            BY <4>1, <4>3, <5>3
          <5> QED BY <2>3, <4>1, <4>4, <4>5, <5>4
        <4> QED BY <4>6, <4>7
      <3> QED BY <3>2, <3>3
    <2> QED BY <2>6, <2>7
  <1>13. \A s \in Slots : Done(s) => Done(s)'
    BY <1>9
  <1>14. \A s \in Slots : Done(s)' /\ ~Done(s) => Lap(hdr, s) # MaxGen
    BY <1>5, <1>9
  <1>15. rc'.pc \notin {"sync", "bug", "forward"} /\ rc.pc \notin {"sync", "forward"}
    BY <1>1, <1>6
  <1> QED BY <1>1, <1>8, <1>10, <1>11, <1>12, <1>13, <1>14, <1>15, LooksBack

LEMMA InRecoverInvalidate ==
  ASSUME TypeInv, TypeInv', RecoverInv, RecoverInvalidate
  PROVE  RecoverInv'
  <1> USE DEF hdrVars, logVars, dataVars, runVars
  <1>1. /\ rc.pc = "invalidate" /\ UNCHANGED <<hdr, phdr, meta, stable, mode>>
        /\ pmeta' = IF rc.start /\ ~rc.ended THEN [a \in Addrs |-> {meta[a]}] ELSE pmeta
        /\ InvalidateSlots(rc.tail .. rc.last, Fenced(rc.tail .. rc.last))
        /\ rc' = [rc EXCEPT !.pc = "scan"]
    BY DEF RecoverInvalidate
  <1>2. PICK x \in Slots : x = rc.tail
    BY <1>1, AtHand
  <1>3. PICK l \in Slots : l = rc.last
    BY <1>1, AtHand
  <1>4. PICK R : R = x .. l
    OBVIOUS
  <1>5. /\ rc.gen = MaxGen /\ Cut /\ Invalidated /\ Stored /\ Repairs /\ Scanning /\ TypeOK /\ OnMedia
        /\ mode' = "recovered" => hdr.head = hdr.tail
    BY <1>1 DEF RecoverInv, Scanning, TypeInv
  <1>6. /\ hdr \in Headers /\ rc \in RecoverState /\ x # hdr.tail /\ x <= l
        /\ \A w \in R : /\ w \in Slots /\ InW(hdr, w) /\ Lap(hdr, w) = MaxGen /\ plog[w] = {log[w]}
                        /\ ~Rem(w) /\ ~Done(w) /\ Side(hdr, w, x) /\ Side(hdr, x, w) /\ Range_(w)
        /\ \A s \in Slots : Range_(s) <=> s \in R
        /\ \A s \in Slots : Rem(s) /\ Side(hdr, s, x) => s < x
    BY <1>1, <1>2, <1>3, <1>4, <1>5, AtHand
  <1>7. /\ rc'.pc = "scan" /\ rc'.tail = x /\ rc'.gen = rc.gen
    BY <1>1, <1>2, <1>6 DEF RecoverState
  <1>8. /\ \A s \in Slots : s \in Int
        /\ \A s \in Slots : Lap(hdr, s)' = Lap(hdr, s) /\ (InW(hdr, s)' <=> InW(hdr, s))
        /\ \A s, r \in Slots : Side(hdr, s, r)' <=> Side(hdr, s, r)
        /\ hdr'.tail = hdr.tail /\ hdr'.gen = hdr.gen /\ MaxGen > 1
        /\ \A s \in Slots : Lap(hdr, s) \in 1 .. MaxGen
        /\ \A s, r \in Slots : Lap(hdr, s) = Lap(hdr, r) <=> Side(hdr, s, r)
    BY <1>1, <1>6, AtHand, Constants, Laps DEF Lap, InW, Slots, Side
  <1>9. /\ Invalid.gen = 0
        /\ \A s \in Slots \ R : log'[s] = log[s] /\ plog'[s] = plog[s]
        /\ \A s \in R : /\ log'[s] = Invalid
                        /\ s \in Fenced(R) => plog'[s] = {Invalid}
                        /\ s \notin Fenced(R) => plog'[s] = {log[s], Invalid}
    <2>1. InvalidateSlots(R, Fenced(R))
      BY <1>1, <1>2, <1>3, <1>4
    <2>2. \A s \in Slots : /\ log'[s] = IF s \in R THEN Invalid ELSE log[s]
                           /\ s \notin R => plog'[s] = plog[s]
                           /\ s \in R \cap Fenced(R) => plog'[s] = {Invalid}
                           /\ s \in R \ Fenced(R) => plog'[s] = plog[s] \cup {Invalid}
      BY <1>5, <2>1, InvalidateTypes
    <2> QED BY <1>6, <2>2 DEF Invalid
  <1>10. \A s \in Slots : /\ Rem(s)' <=> Rem(s)
                          /\ ~Range_(s)'
                          /\ Done(s)' <=> Done(s) \/ s \in R
    <2>1. \A s \in Slots : Rem(s)' <=> Rem(s)
      <3>1. [hdr' EXCEPT !.tail = rc'.tail] = [hdr EXCEPT !.tail = rc.tail]
        BY <1>1, <1>2, <1>7
      <3> QED BY <1>1, <1>7, <3>1 DEF Rem, InW
    <2>2. \A s \in Slots : ~Range_(s)'
      BY <1>7 DEF Range_
    <2> QED BY <1>6, <1>8, <2>1, <2>2 DEF Done
  <1>11. /\ \A s \in Slots : \A e \in plog'[s] : e \in plog[s] \/ e = Invalid
         /\ \A s \in Slots : \A e \in plog'[s] : Cand(hdr, s, e)' => e \in plog[s] /\ Cand(hdr, s, e)
    <2>1. \A s \in Slots : \A e \in plog'[s] : e \in plog[s] \/ e = Invalid
      BY <1>6, <1>9
    <2>2. \A s \in Slots : ~Cand(hdr, s, Invalid)'
      BY <1>8, <1>9 DEF Cand
    <2> QED BY <1>8, <2>1, <2>2 DEF Cand
  <1>12. \A s \in Slots : Match(hdr, s)' <=> Match(hdr, s) /\ s \notin R
    BY <1>8, <1>9 DEF Match
  <1>13. \A s, r \in Slots : Match(hdr, s)' /\ Match(hdr, r) /\ Side(hdr, s, r)
                             /\ log[r].tid = log[s].tid => Match(hdr, r)'
    <2> SUFFICES ASSUME NEW s \in Slots, NEW r \in R, Match(hdr, s), s \notin R, Match(hdr, r),
                        Side(hdr, s, r), log[r].tid = log[s].tid
                 PROVE  FALSE
      BY <1>12
    <2>1. r \in Slots /\ Lap(hdr, s) = MaxGen /\ ~Rem(r)
      BY <1>6, <1>8
    <2>2. ~Done(s)
      BY <1>5, <1>8, <2>1 DEF Invalidated, Match
    <2>3. Rem(s)
      BY <1>6, <2>2 DEF Done, Match
    <2>4. Cand(hdr, s, log[s]) /\ Cand(hdr, r, log[r]) /\ log[s] \in plog[s] /\ log[r] \in plog[r]
      BY <1>5, <2>1 DEF OnMedia, Match, Cand
    <2> QED BY <1>1, <1>5, <2>1, <2>3, <2>4 DEF Cut
  <1>14. \A s \in Slots : Match(hdr, s)' => /\ Match(hdr, s) /\ log'[s] = log[s]
                                            /\ plog[s] = {log[s]} => plog'[s] = {log[s]}
    BY <1>9, <1>12
  <1>15. Scanning'
    BY <1>1, <1>2, <1>5, <1>7, <1>8 DEF Scanning
  <1>16. Cut'
    <2> SUFFICES ASSUME NEW u \in Slots, NEW v \in Slots, NEW e \in plog'[u], NEW f \in plog'[v],
                        Cand(hdr, u, e)', Cand(hdr, v, f)', Side(hdr, u, v)', ~Done(u)' /\ Done(v)'
                 PROVE  e.tid # f.tid
      BY <1>7 DEF Cut
    <2>1. /\ e \in plog[u] /\ f \in plog[v] /\ Cand(hdr, u, e) /\ Cand(hdr, v, f) /\ Side(hdr, u, v)
      BY <1>8, <1>11
    <2>2. Rem(u) /\ ~Rem(v)
      BY <1>6, <1>10, <2>1 DEF Done, Cand
    <2> QED BY <1>1, <1>5, <2>1, <2>2 DEF Cut
  <1>17. \A s \in Slots : Done(s)' /\ Lap(hdr, s) = MaxGen => log'[s].gen = 0
    BY <1>5, <1>9, <1>10 DEF Invalidated
  <1>18. ASSUME NEW s \in Slots, InW(hdr, s)
         PROVE  plog'[s] = {log'[s]} \/ Pending(s)'
    <2>1. CASE s \in R
      BY <1>6, <1>8, <1>9, <1>10, <2>1 DEF Pending, Fenced
    <2>2. CASE s \notin R
      <3>1. plog[s] = {log[s]} \/ Pending(s)
        BY <1>5, <1>18 DEF Stored
      <3> QED BY <1>1, <1>8, <1>9, <1>10, <2>2, <3>1 DEF Pending
    <2> QED BY <2>1, <2>2
  <1>19. ASSUME NEW a \in Addrs, Dirty(a)' PROVE Undoable(a)'
    <2>1. Dirty(a)
      BY <1>1, <1>19 DEF Dirty
    <2>2. rc.start /\ ~rc.ended => meta[a] # stable[a]
      BY <1>1, <1>19 DEF Dirty
    <2>3. PICK st \in Slots, m \in Slots :
            /\ st <= m /\ Chain(hdr, st, m) /\ OpenStart(hdr, st) /\ log[m].addr = a
            /\ meta[a] # stable[a] => Rem(m)
      BY <1>1, <1>5, <2>1 DEF Repairs, HalfRest, Undoable
    <2>4. st \in st .. m /\ m \in st .. m /\ \A w \in st .. m : w \in Slots
      BY <1>8, <2>3, Constants DEF Slots
    <2>5. ASSUME NEW w \in st .. m, w \in R PROVE FALSE
      <3>1. Range_(w)
        BY <1>6, <2>5
      <3>2. st = x /\ rc.start /\ ~rc.ended
        BY <1>1, <1>2, <2>3, <3>1, OpenIsAtHand
      <3>3. Rem(m) /\ Side(hdr, m, st)
        BY <2>2, <2>3, <3>2 DEF Chain, Side
      <3> QED BY <1>6, <1>8, <2>3, <3>2, <3>3
    <2>6. m \notin R /\ st \notin R /\ Match(hdr, m) /\ Match(hdr, st)
      BY <2>3, <2>4, <2>5 DEF Chain
    <2>7. PICK h \in Headers : h = hdr
      BY <1>6
    <2>8. hdr' = h
      BY <1>1, <2>7
    <2>9. /\ \A y, z \in Slots : Chain(h, y, z) /\ (\E w \in y .. z : Match(h, w)') => Chain(h, y, z)'
          /\ \A y \in Slots : OpenStart(h, y) /\ Match(h, y)' => OpenStart(h, y)'
      <3>1. /\ \A s \in Slots : Match(h, s)' => /\ Match(h, s) /\ log'[s] = log[s]
                                                /\ plog[s] = {log[s]} => plog'[s] = {log[s]}
            /\ \A s, r \in Slots : Match(h, s)' /\ Match(h, r) /\ Side(h, s, r)
                                   /\ log[r].tid = log[s].tid => Match(h, r)'
        BY <1>13, <1>14, <2>7, <2>8
      <3>2. stable' = stable
        BY <1>1
      <3> QED BY <3>1, <3>2, StillClassified
    <2>10. Match(h, m)' /\ Match(h, st)' /\ log'[m] = log[m]
      BY <1>9, <1>12, <2>6, <2>7, <2>8
    <2>11. Chain(h, st, m)' /\ OpenStart(h, st)'
      BY <2>3, <2>4, <2>7, <2>9, <2>10
    <2> QED BY <1>1, <1>10, <2>3, <2>8, <2>10, <2>11 DEF Undoable
  <1>20. rc'.pc \notin {"sync", "bug", "forward"} /\ rc.pc # "sync"
    BY <1>1, <1>7
  <1> QED BY <1>1, <1>5, <1>11, <1>13, <1>14, <1>15, <1>16, <1>17, <1>18, <1>19, <1>20, GoesBack

LEMMA InInvalidateRest ==
  ASSUME TypeInv, TypeInv', RecoverInv, InvalidateRest
  PROVE  RecoverInv'
  <1> USE DEF hdrVars, logVars, dataVars, runVars
  <1>1. /\ rc.pc = "scan" /\ rc.tail = hdr.head /\ UNCHANGED <<hdr, phdr, meta, pmeta, stable, mode>>
        /\ IF hdr.gen = MaxGen THEN InvalidateSlots(hdr.tail .. JSize - 1, {})
                               ELSE log' = log /\ plog' = plog
        /\ rc' = [rc EXCEPT !.pc = "forward"]
    BY DEF InvalidateRest
  <1>2. /\ hdr \in Headers /\ hdr.gen >= 1 /\ rc \in RecoverState /\ phdr = {hdr} /\ TypeOK /\ OnMedia
        /\ \A s \in Slots : Lap(hdr, s) \in 1 .. MaxGen
    BY <1>1, RemAhead DEF TypeInv
  <1>3. PICK h \in Headers : h = hdr
    BY <1>2
  <1>4. /\ hdr' = h /\ Bounded(h) /\ Apart(h) /\ Classified(h)
        /\ Cut /\ Invalidated /\ Stored /\ Repairs /\ Scanning /\ (mode' = "recovered" => hdr.head = hdr.tail)
    BY <1>1, <1>2, <1>3 DEF RecoverInv
  <1>5. /\ rc'.pc = "forward" /\ rc'.tail = rc.tail /\ rc'.tail = hdr.head
    BY <1>1, <1>2 DEF RecoverState
  <1>6. /\ \A s \in Slots : s \in Int /\ s < JSize
        /\ \A s \in Slots : Lap(hdr, s)' = Lap(hdr, s) /\ (InW(hdr, s)' <=> InW(hdr, s))
        /\ hdr.tail \in Slots /\ JSize \in Int /\ hdr.head \in Slots
    BY <1>1, <1>2, Constants DEF Lap, InW, Slots, Headers
  <1>7. \A s \in Slots : /\ ~Rem(s) /\ ~Rem(s)' /\ ~Range_(s) /\ ~Range_(s)'
                         /\ Done(s) <=> InW(hdr, s)
                         /\ Done(s)' <=> InW(hdr, s)
    <2>1. \A s \in Slots : ~InW([hdr EXCEPT !.tail = hdr.head], s)
      BY <1>2, <1>6 DEF InW, Headers
    <2>2. \A s \in Slots : ~Rem(s)
      BY <1>1, <2>1 DEF Rem
    <2>3. \A s \in Slots : ~Rem(s)'
      BY <1>1, <1>5, <2>1 DEF Rem, InW
    <2>4. \A s \in Slots : ~Range_(s) /\ ~Range_(s)'
      BY <1>1, <1>5 DEF Range_
    <2> QED BY <1>6, <2>2, <2>3, <2>4 DEF Done
  <1>8. Scanning'
    <2>1. rc.tail = hdr.tail \/ InW(hdr, rc.tail)
      BY <1>1, <1>4 DEF Scanning
    <2> QED BY <1>1, <1>5, <2>1 DEF Scanning, InW
  <1>9. Cut'
    BY <1>5, <1>6, <1>7 DEF Cut, Cand
  <1>10. CASE hdr.gen = MaxGen
    <2>1. PICK S : S = hdr.tail .. JSize - 1
      OBVIOUS
    <2>2. InvalidateSlots(S, {})
      BY <1>1, <1>10, <2>1
    <2>3. /\ \A s \in Slots : s \in S <=> hdr.tail <= s
          /\ \A s \in Slots : /\ s \notin S => log'[s] = log[s] /\ plog'[s] = plog[s]
                              /\ s \in S => log'[s] = Invalid /\ plog'[s] = plog[s] \cup {Invalid}
      <3>1. \A s \in Slots : s \in S <=> hdr.tail <= s
        BY <1>6, <2>1
      <3> QED BY <1>2, <2>2, <3>1, InvalidateTypes
    <2>4. Invalid.gen = 0
      BY DEF Invalid
    <2>5. \A s \in Slots : InW(hdr, s) /\ ~(hdr.tail <= s) => Lap(hdr, s) = MaxGen /\ log[s].gen = 0
      BY <1>4, <1>6, <1>7, <1>10 DEF Lap, Invalidated
    <2>6. \A s \in Slots : ~Match(h, s)'
      <3> SUFFICES ASSUME NEW s \in Slots, InW(hdr, s) PROVE log'[s].gen = 0 /\ Lap(hdr, s) # 0
        BY <1>3 DEF Match, InW, Lap
      <3>1. log'[s].gen = 0
        BY <2>3, <2>4, <2>5
      <3>2. Lap(hdr, s) \in 1 .. MaxGen
        BY <1>2
      <3> QED BY <3>1, <3>2
    <2>7. Bounded(h)' /\ Apart(h)'
      BY <1>2, <1>3, <1>4, <2>3, Fewer
    <2>8. Classified(h)'
      BY <2>6 DEF Classified
    <2>9. Invalidated'
      BY <1>1, <1>4, <1>6, <1>7, <2>3, <2>4 DEF Invalidated
    <2>10. Stored'
      <3> SUFFICES ASSUME NEW s \in Slots, InW(hdr, s) PROVE plog'[s] = {log'[s]} \/ Pending(s)'
        BY <1>6 DEF Stored
      <3>1. CASE hdr.tail <= s
        BY <1>1, <1>5, <1>7, <1>10, <2>3, <2>4, <3>1 DEF Pending
      <3>2. CASE ~(hdr.tail <= s)
        <4>1. plog[s] = {log[s]} \/ Pending(s)
          BY <1>4 DEF Stored
        <4> QED BY <1>1, <1>6, <1>7, <2>3, <3>2, <4>1 DEF Pending
      <3> QED BY <3>1, <3>2
    <2>11. Repairs'
      <3> SUFFICES ASSUME NEW a \in Addrs, Dirty(a)
                   PROVE  HalfRest' /\ hdr'.gen = MaxGen /\ meta'[a] = stable'[a]
        BY <1>1 DEF Repairs, Dirty
      <3>1. PICK st \in Slots, m \in Slots :
              st <= m /\ Chain(hdr, st, m) /\ (meta[a] # stable[a] => Rem(m))
        BY <1>1, <1>4 DEF Repairs, HalfRest, Undoable
      <3>2. meta[a] = stable[a]
        BY <1>7, <3>1
      <3>3. m \in st .. m
        BY <1>6, <3>1
      <3>4. Match(hdr, m) /\ plog[m] = {log[m]}
        BY <3>1, <3>3 DEF Chain
      <3>5. log[m].gen # 0 /\ InW(hdr, m)
        <4>1. Lap(hdr, m) \in 1 .. MaxGen
          BY <1>2
        <4> QED BY <3>4, <4>1 DEF Match
      <3>6. hdr.tail <= m
        BY <2>5, <3>5
      <3>7. plog'[m] # {log'[m]}
        BY <2>3, <2>4, <3>4, <3>5, <3>6
      <3> QED BY <1>1, <1>5, <1>6, <1>10, <3>2, <3>5, <3>6, <3>7 DEF HalfRest
    <2> QED BY <1>1, <1>2, <1>3, <1>4, <1>5, <1>8, <1>9, <2>7, <2>8, <2>9, <2>10, <2>11 DEF RecoverInv
  <1>11. CASE hdr.gen # MaxGen
    <2>1. log' = log /\ plog' = plog
      BY <1>1, <1>11
    <2>2. Bounded(h)' /\ Apart(h)' /\ Classified(h)'
      BY <1>1, <1>4, <2>1 DEF Bounded, Apart, Single, Convex, Ordered, Cand, Classified, Orphan,
                              Covered, Harmless, OpenStart, Chain, Match
    <2>3. Invalidated' /\ Stored'
      BY <1>1, <1>4, <1>6, <1>7, <1>11, <2>1 DEF Invalidated, Stored, Pending
    <2>4. Repairs'
      <3> SUFFICES ASSUME NEW a \in Addrs, Dirty(a) PROVE Undoable(a)'
        BY <1>1 DEF Repairs, Dirty
      <3>1. PICK st \in Slots, m \in Slots :
              /\ st <= m /\ Chain(hdr, st, m) /\ OpenStart(hdr, st) /\ log[m].addr = a
              /\ meta[a] # stable[a] => Rem(m)
        BY <1>1, <1>4 DEF Repairs, HalfRest, Undoable
      <3>2. Chain(hdr, st, m)' /\ OpenStart(hdr, st)' /\ log'[m].addr = a
        BY <1>1, <2>1, <3>1 DEF Chain, OpenStart, Match, Side, InW, Lap
      <3>3. meta'[a] = stable'[a]
        BY <1>1, <1>7, <3>1
      <3> QED BY <3>1, <3>2, <3>3 DEF Undoable
    <2> QED BY <1>1, <1>2, <1>3, <1>4, <1>5, <1>8, <1>9, <2>2, <2>3, <2>4 DEF RecoverInv
  <1> QED BY <1>10, <1>11

LEMMA InForwardJournal ==
  ASSUME TypeInv, TypeInv', RecoverInv, ForwardJournal, ~PartialLastLap
  PROVE  RecoverInv'
  <1> USE DEF hdrVars, logVars, dataVars, runVars
  <1>1. /\ rc.pc = "forward" /\ UNCHANGED <<log, meta, stable, mode>>
        /\ plog' = [s \in Slots |-> {log[s]}]
        /\ pmeta' = [a \in Addrs |-> {meta[a]}]
        /\ hdr' = [hdr EXCEPT !.gen = next_gen_id(hdr.gen), !.head = hdr.tail]
        /\ phdr' = phdr \cup {[hdr EXCEPT !.gen = next_gen_id(hdr.gen)], hdr'}
        /\ rc' = [rc EXCEPT !.pc = "sync"]
    BY DEF ForwardJournal
  <1>2. /\ hdr \in Headers /\ hdr.gen >= 1 /\ rc \in RecoverState /\ phdr = {hdr} /\ TypeOK /\ OnMedia
        /\ \A s \in Slots : Lap(hdr, s) \in 1 .. MaxGen
    BY <1>1, RemAhead DEF TypeInv
  <1>3. /\ Bounded(hdr) /\ Apart(hdr) /\ Classified(hdr) /\ rc.tail = hdr.head
        /\ Invalidated /\ Repairs /\ (mode' = "recovered" => hdr.head = hdr.tail)
    BY <1>1, <1>2 DEF RecoverInv, Scanning
  <1>4. rc'.pc = "sync"
    BY <1>1, <1>2 DEF RecoverState
  <1>5. PICK h \in Headers : h = hdr
    BY <1>2
  <1>6. PICK n : n = next_gen_id(h.gen)
    OBVIOUS
  <1>7. PICK mid : mid = [h EXCEPT !.gen = n]
    OBVIOUS
  <1>8. PICK k : k = [h EXCEPT !.gen = n, !.head = h.tail]
    OBVIOUS
  <1>9. /\ h.gen \in 1 .. MaxGen /\ n \in 1 .. MaxGen /\ MaxGen \in Nat /\ MaxGen > 1
        /\ h.head \in Slots /\ h.tail \in Slots
        /\ \A s \in Slots : s \in Int /\ 0 <= s
        /\ h.gen < MaxGen => n = h.gen + 1
        /\ h.gen = MaxGen => n = 1
        /\ prev_gen_id(n) = h.gen
    BY <1>2, <1>5, <1>6, Constants DEF Headers, Gens, Slots, next_gen_id, prev_gen_id
  <1>10. /\ mid.head = h.head /\ mid.tail = h.tail /\ mid.gen = n
         /\ k.head = h.tail /\ k.tail = h.tail /\ k.gen = n
    BY <1>7, <1>8, <1>9 DEF Headers
  <1>11. hdr' = k /\ phdr' = {h, mid, k}
    BY <1>1, <1>2, <1>5, <1>6, <1>7, <1>8
  <1>12. \A s \in Slots : ~Rem(s) /\ (InW(h, s) => Done(s))
    <2>1. \A s \in Slots : ~InW([hdr EXCEPT !.tail = hdr.head], s)
      BY <1>2, <1>5, <1>9 DEF InW, Headers
    <2> QED BY <1>1, <1>3, <1>5, <2>1 DEF Rem, Done, Range_
  <1>13. n = MaxGen => h.tail = 0
    BY <1>1, <1>4, <1>5, <1>10, <1>11 DEF PartialLastLap
  <1>14. \A s \in Slots : /\ log[s].gen \in 0 .. MaxGen /\ log[s].gen < n
                          /\ InW(h, s) => log[s].gen # Lap(mid, s)
    <2> SUFFICES ASSUME NEW s \in Slots
                 PROVE  /\ log[s].gen \in 0 .. MaxGen /\ log[s].gen < n
                        /\ InW(h, s) => log[s].gen # Lap(mid, s)
      OBVIOUS
    <2>1. log[s].gen <= Top(h, s) /\ log[s].gen \in 0 .. MaxGen
      BY <1>2, <1>3, <1>5 DEF Bounded, OnMedia, TypeOK, Entries, Gens
    <2>2. InW(h, s) /\ Lap(h, s) = MaxGen => log[s].gen = 0
      BY <1>3, <1>5, <1>12 DEF Invalidated
    <2>3. h.gen = MaxGen /\ h.tail <= s => log[s].gen = 0
      BY <1>1, <1>3, <1>5 DEF Invalidated
    <2>4. CASE s < h.tail
      <3>1. Lap(h, s) = h.gen /\ Lap(mid, s) = n
        BY <1>10, <2>4 DEF Lap
      <3>2. h.gen = MaxGen => log[s].gen = 0
        BY <1>9, <2>1, <2>2, <2>4, <3>1 DEF Top
      <3>3. h.gen < MaxGen => log[s].gen <= h.gen
        BY <1>9, <2>1, <2>4, <3>1 DEF Top
      <3> QED BY <1>9, <2>1, <3>1, <3>2, <3>3
    <2>5. CASE ~(s < h.tail)
      <3>1. Lap(h, s) = prev_gen_id(h.gen) /\ Lap(mid, s) = h.gen /\ h.tail <= s
        BY <1>9, <1>10, <2>5 DEF Lap
      <3>2. prev_gen_id(h.gen) = IF h.gen = 1 THEN MaxGen ELSE h.gen - 1
        BY <1>9 DEF prev_gen_id
      <3>3. CASE InW(h, s)
        BY <1>9, <2>1, <2>2, <2>3, <3>1, <3>2, <3>3 DEF Top
      <3>4. CASE ~InW(h, s)
        <4>1. log[s].gen <= h.gen - 1
          BY <2>1, <3>1, <3>4 DEF Top
        <4> QED BY <1>9, <2>1, <2>3, <3>1, <3>4, <4>1
      <3> QED BY <3>3, <3>4
    <2> QED BY <2>4, <2>5
  <1>15. \A s \in Slots : plog'[s] = {log[s]} /\ log[s] \in plog[s]
    BY <1>1, <1>2 DEF OnMedia
  <1>16. /\ \A s \in Slots : InW(mid, s) <=> InW(h, s)
         /\ \A s \in Slots : ~InW(k, s)
    BY <1>9, <1>10 DEF InW
  <1>17. ASSUME NEW j \in {mid, k}
         PROVE  Bounded(j)' /\ Apart(j)' /\ Classified(j)'
    <2>1. j.tail = h.tail /\ j.gen = n
      BY <1>10
    <2>2. \A s \in Slots : InW(j, s) => log[s].gen # Lap(j, s)
      BY <1>14, <1>16
    <2>3. \A s \in Slots : ~Match(j, s)' /\ \A e \in plog'[s] : ~Cand(j, s, e)'
      BY <1>1, <1>15, <2>2 DEF Match, Cand
    <2>4. Bounded(j)'
      <3> SUFFICES ASSUME NEW s \in Slots PROVE log[s].gen <= Top(j, s)
        BY <1>15 DEF Bounded, Top, InW, Lap
      <3>1. CASE s < h.tail
        <4>1. n # MaxGen
          BY <1>9, <1>13, <3>1
        <4>2. Lap(j, s) = n
          BY <2>1, <3>1 DEF Lap
        <4>3. ~(j.tail <= s)
          BY <1>9, <2>1, <3>1
        <4> QED BY <1>9, <1>14, <2>1, <4>1, <4>2, <4>3 DEF Top
      <3>2. CASE ~(s < h.tail)
        <4>1. Lap(j, s) = h.gen /\ j.tail <= s
          BY <1>9, <2>1, <3>2 DEF Lap
        <4>2. log[s].gen <= n - 1 /\ log[s].gen <= h.gen
          BY <1>9, <1>14
        <4> QED BY <2>1, <4>1, <4>2 DEF Top
      <3> QED BY <3>1, <3>2
    <2>5. Apart(j)'
      BY <2>3 DEF Apart, Single, Convex, Ordered
    <2>6. Classified(j)'
      BY <2>3 DEF Classified
    <2> QED BY <2>4, <2>5, <2>6
  <1>18. Bounded(h)' /\ Apart(h)'
    BY <1>2, <1>3, <1>5, <1>15, Fewer
  <1>19. Classified(h)'
    <2>1. \A s \in Slots : Match(h, s)' <=> Match(h, s)
      BY <1>1 DEF Match
    <2>2. \A s \in Slots : log'[s] = log[s] /\ plog'[s] = {log[s]}
      BY <1>1, <1>15
    <2> QED BY <1>1, <1>3, <1>5, <2>1, <2>2, StillClassified
  <1>20. Settled'
    <2> SUFFICES ASSUME NEW a \in Addrs PROVE meta[a] = stable[a]
      BY <1>1 DEF Settled, Dirty
    <2>1. CASE ~Dirty(a)
      BY <2>1 DEF Dirty
    <2>2. CASE Undoable(a)
      BY <1>1, <1>12, <2>2 DEF Undoable
    <2>3. CASE HalfRest /\ meta[a] = stable[a]
      BY <2>3
    <2> QED BY <1>3, <2>1, <2>2, <2>3 DEF Repairs
  <1>21. (\A j \in phdr : Bounded(j) /\ Apart(j) /\ Classified(j))'
    BY <1>11, <1>17, <1>18, <1>19
  <1>22. hdr'.head = hdr'.tail /\ \A s \in Slots : plog'[s] = {log'[s]}
    BY <1>1, <1>10, <1>11, <1>15
  <1> QED BY <1>4, <1>20, <1>21, <1>22 DEF RecoverInv

LEMMA InRecoverDone ==
  ASSUME TypeInv, TypeInv', RecoverInv, RecoverDone
  PROVE  RecoverInv'
  <1> USE DEF hdrVars, logVars, dataVars, runVars
  <1>1. /\ rc.pc = "sync" /\ UNCHANGED <<hdr, log, plog, meta, pmeta, stable>>
        /\ phdr' = {hdr} /\ rc' = RcOff /\ mode' = "recovered"
    BY DEF RecoverDone
  <1>2. /\ Settled /\ hdr.head = hdr.tail /\ hdr \in phdr /\ \A s \in Slots : plog[s] = {log[s]}
        /\ \A h \in phdr : Bounded(h) /\ Apart(h) /\ Classified(h)
    BY <1>1 DEF RecoverInv, TypeInv, OnMedia
  <1>3. rc'.pc = "off"
    BY <1>1 DEF RcOff
  <1>4. PICK h : h = hdr
    OBVIOUS
  <1>5. Bounded(h)' /\ Apart(h)' /\ Classified(h)'
    BY <1>1, <1>2, <1>4 DEF Bounded, Apart, Single, Convex, Ordered, Cand, Classified, Orphan,
                            Covered, Harmless, OpenStart, Chain, Match
  <1>6. (\A j \in phdr : Bounded(j) /\ Apart(j) /\ Classified(j))'
    BY <1>1, <1>4, <1>5
  <1>7. \A s \in Slots : ~Done(s)'
    BY <1>3 DEF Done, Rem
  <1>8. Scanning' /\ Cut' /\ Invalidated'
    BY <1>3, <1>7 DEF Scanning, Cut, Invalidated
  <1>9. Stored' /\ Repairs'
    BY <1>1, <1>2 DEF Stored, Repairs, Settled, Dirty
  <1> QED BY <1>1, <1>2, <1>3, <1>6, <1>8, <1>9 DEF RecoverInv

\* Recovery leaves an empty journal, with every word at its committed value.
LEMMA RecoveredSettled ==
  ASSUME TypeInv, RecoverInv, mode = "recovered"
  PROVE  /\ rc.pc = "off" /\ hdr.head = hdr.tail /\ phdr = {hdr} /\ Settled
         /\ \A s \in Slots : ~InW(hdr, s)
  <1>1. rc.pc = "off" /\ hdr.head = hdr.tail
    BY DEF TypeInv, Locking, RecoverInv
  <1>2. hdr \in Headers /\ \A s \in Slots : s \in Int
    BY Constants DEF TypeInv, TypeOK, Slots
  <1>3. \A s \in Slots : ~InW(hdr, s)
    BY <1>1, <1>2, Constants DEF InW, Headers, Slots
  <1>4. \A a \in Addrs : ~Undoable(a)
    <2> SUFFICES ASSUME NEW st \in Slots, NEW m \in Slots, st <= m, Chain(hdr, st, m) PROVE FALSE
      BY DEF Undoable
    <2>1. m \in st .. m
      BY <1>2
    <2> QED BY <1>3, <2>1 DEF Chain, Match
  <1>5. Settled
    BY <1>1, <1>4 DEF RecoverInv, Repairs, HalfRest, Settled
  <1> QED BY <1>1, <1>3, <1>5 DEF RecoverInv

LEMMA InMounted ==
  ASSUME TypeInv, TypeInv', RecoverInv, Mounted
  PROVE  UpInv'
  <1> USE DEF hdrVars, logVars, dataVars, runVars
  <1>1. /\ mode = "recovered" /\ stable' = meta
        /\ UNCHANGED <<hdr, phdr, log, plog, meta, pmeta, mutex, ntid, txn, nt, cl, thr, wakes, rc>>
    BY DEF Mounted
  <1>2. /\ phdr = {hdr} /\ Settled /\ \A s \in Slots : ~InW(hdr, s)
    BY <1>1, RecoveredSettled
  <1>3. /\ mutex = "free" /\ cl.pc = "off"
        /\ \A p \in Procs : txn[p].pc = "idle" /\ ~Live(p) /\ txn[p].addrs = {}
    BY <1>1 DEF TypeInv, Locking, Live
  <1>4. /\ Ahead' = hdr' /\ \A s : ~Behind(s)'
    <2>1. TypeInv' /\ cl'.pc = "off"
      BY <1>1, <1>3
    <2>2. hdr \in Headers /\ [hdr EXCEPT !.head = hdr.head] = hdr
      BY DEF TypeInv, TypeOK, Headers
    <2> QED BY <1>1, <1>3, <2>2 DEF Ahead, CleanPos, Behind
  <1>5. \A s \in Slots : \A e : ~Cand(hdr, s, e)'
    BY <1>1, <1>2 DEF Cand, InW
  <1>6. \A p \in Procs : ~Live(p)' /\ txn'[p].pc = "idle" /\ txn'[p].addrs = {}
    BY <1>1, <1>3 DEF Live
  <1>7. HeaderOnMedia' /\ Reservations' /\ Tids' /\ Written' /\ Owned'
    BY <1>1, <1>2, <1>5, <1>6 DEF HeaderOnMedia, Reservations, Tids, Written, Owned
  <1>8. (\A h \in phdr : Bounded(h))' /\ Apart(hdr)'
    <2>1. \A h \in phdr : Bounded(h)
      BY DEF RecoverInv
    <2>2. Apart(hdr)'
      BY <1>5 DEF Apart, Single, Convex, Ordered
    <2> QED BY <1>1, <2>1, <2>2 DEF Bounded
  <1>9. Cleaning'
    BY <1>1, <1>3, <1>4 DEF Cleaning
  <1>10. Words'
    <2>1. \A a \in Addrs : ~Dirty(a)'
      BY <1>1, <1>2 DEF Settled, Dirty
    <2> QED BY <1>6, <2>1 DEF Words
  <1> QED BY <1>7, <1>8, <1>9, <1>10 DEF UpInv

\* A mount in progress goes on with the recovery, until power fails.
LEMMA RecoverStep ==
  ASSUME TypeInv, TypeInv', RecoverInv, Next, ~tainted', mode # "up"
  PROVE  IF mode' = "up" THEN UpInv' ELSE RecoverInv'
  <1>1. mutex = "free" /\ cl.pc = "off" /\ \A p \in Procs : txn[p].pc = "idle" /\ mutex # p
    BY ProcsAssumption DEF TypeInv, Locking
  <1>2. ~Clean /\ ~CleanerRun /\ ~Unmount
    BY <1>1 DEF Clean, CleanSkip, CleanEnter, CleanWalk, CleanFinish, CleanerRun, Unmount
  <1>3. \A p \in Procs : ~Transact(p)
    BY <1>1 DEF Transact, NewTransaction, Reserve, FreeLogentries, JournalFull, WrapJournal,
                ReserveEntries, AddLogentry, LogFence, Update, CommitFlush, CommitEntry,
                AbortUndo, AbortEntry
  <1>4. Crash \/ Recover
    BY <1>2, <1>3 DEF Next, Step
  <1>5. CASE Crash
    <2>1. RecoverInv' /\ mode' = "recover"
      BY <1>5, RecoverCrash DEF Crash
    <2> QED BY <2>1
  <1>6. CASE Mounted
    <2>1. UpInv' /\ mode' = "up"
      BY <1>6, InMounted DEF Mounted
    <2> QED BY <2>1
  <1>7. CASE Recover /\ ~Mounted
    <2>1. ~PartialLastLap
      BY NotPassed
    <2>2. RecoverInv'
      BY <1>7, <2>1, InRecoverStart, InRecoverScan, InRecoverWalk, InRecoverUndo, InRecoverInvalidate,
         InInvalidateRest, InForwardJournal, InRecoverDone DEF Recover
    <2>3. mode' # "up"
      BY <1>7 DEF Recover, RecoverStart, RecoverScan, RecoverWalk, RecoverUndo, RecoverInvalidate,
                  InvalidateRest, ForwardJournal, RecoverDone
    <2> QED BY <2>2, <2>3
  <1> QED BY <1>4, <1>5, <1>6, <1>7

-----------------------------------------------------------------------------
(* The theorems of the specification.                                      *)

LEMMA InitInvariant == Init => IInv
  <1> SUFFICES ASSUME Init PROVE IInv
    OBVIOUS
  <1>1. TypeOK /\ OnMedia /\ GenValid
    BY InitTypes DEF Shape
  <1>2. /\ mode = "up" /\ mutex = "free" /\ cl.pc = "off" /\ rc.pc = "off" /\ phdr = {hdr}
        /\ hdr.head = 0 /\ hdr.tail = 0 /\ hdr.gen = 1
        /\ \A p \in Procs : txn[p] = Idle
        /\ \A s \in Slots : log[s] = Invalid /\ plog[s] = {Invalid}
        /\ \A a \in Addrs : meta[a] = InitVal /\ pmeta[a] = {InitVal} /\ stable[a] = InitVal
    BY DEF Init, ClOff, RcOff
  <1>3. \A p \in Procs : /\ txn[p].pc = "idle" /\ txn[p].used = 0 /\ txn[p].addrs = {} /\ ~Live(p)
                         /\ mutex # p
    BY <1>2, ProcsAssumption DEF Idle, Live
  <1>4. Locking
    BY <1>2, <1>3 DEF Locking, Reserving
  <1>5. TypeInv
    BY <1>1, <1>4 DEF TypeInv
  <1>6. Ahead = hdr /\ \A s : ~Behind(s)
    BY <1>2, <1>5, NothingBehind
  <1>7. \A s \in Slots : ~InW(hdr, s) /\ Top(hdr, s) = 0
    BY <1>2, Constants DEF InW, Top, Slots
  <1>8. \A s \in Slots : \A e : ~Cand(hdr, s, e)
    BY <1>7 DEF Cand
  <1>9. Bounded(hdr)
    BY <1>2, <1>7 DEF Bounded, Invalid
  <1>10. Apart(hdr)
    BY <1>8 DEF Apart, Single, Convex, Ordered
  <1>11. HeaderOnMedia /\ Reservations /\ Tids /\ Written /\ Owned
    BY <1>2, <1>3, <1>8 DEF HeaderOnMedia, Reservations, Tids, Written, Owned
  <1>12. Cleaning
    BY <1>2, <1>6 DEF Cleaning
  <1>13. Words
    BY <1>2, <1>3 DEF Words, Dirty
  <1>14. UpInv
    BY <1>2, <1>9, <1>10, <1>11, <1>12, <1>13 DEF UpInv
  <1> QED BY <1>2, <1>5, <1>14 DEF IInv

\* A stuttering step, part by part.
LEMMA StutterInvariant ==
  ASSUME IInv, UNCHANGED vars
  PROVE  IInv'
  <1>1. /\ hdr' = hdr /\ phdr' = phdr /\ log' = log /\ plog' = plog
        /\ meta' = meta /\ pmeta' = pmeta /\ stable' = stable
        /\ mutex' = mutex /\ ntid' = ntid /\ txn' = txn /\ nt' = nt /\ cl' = cl
        /\ thr' = thr /\ rc' = rc /\ mode' = mode /\ tainted' = tainted
        /\ boots' = boots /\ wakes' = wakes
    BY DEF vars
  <1>2. TypeInv'
    <2>1. TypeInv
      BY DEF IInv
    <2>2. TypeOK'
      BY <1>1, <2>1 DEF TypeInv, TypeOK
    <2>3. OnMedia' /\ GenValid'
      BY <1>1, <2>1 DEF TypeInv, OnMedia, GenValid
    <2>4. Locking'
      BY <1>1, <2>1 DEF TypeInv, Locking, Live
    <2> QED BY <2>2, <2>3, <2>4 DEF TypeInv
  <1>3. \A h : /\ (Bounded(h)' <=> Bounded(h))
              /\ (Apart(h)' <=> Apart(h))
    BY <1>1 DEF Bounded, Apart, Single, Convex, Ordered, Cand
  <1>4. \A h, s, e : Cand(h, s, e)' <=> Cand(h, s, e)
    BY <1>1 DEF Cand
  <1>5. \A h, s : Match(h, s)' <=> Match(h, s)
    BY <1>1 DEF Match
  <1>6. \A h, s, r : Chain(h, s, r)' <=> Chain(h, s, r)
    BY <1>1, <1>5 DEF Chain
  <1>7. \A h, t : OpenStart(h, t)' <=> OpenStart(h, t)
    BY <1>1, <1>5 DEF OpenStart
  <1>8. \A h, u : Covered(h, u)' <=> Covered(h, u)
    BY <1>1, <1>6 DEF Covered
  <1>9. \A a : Dirty(a)' <=> Dirty(a)
    BY <1>1 DEF Dirty
  <1>10. CASE ~tainted /\ mode = "up"
    <2>1. UpInv
      BY <1>10 DEF IInv
    <2>2. HeaderOnMedia' /\ Reservations' /\ Tids' /\ Written'
      <3>1. \A p : /\ (Live(p)' <=> Live(p))
                  /\ Reserved(p)' = Reserved(p) /\ Used(p)' = Used(p)
        BY <1>1 DEF Live, Reserved, Used
      <3>2. HeaderOnMedia'
        BY <1>1, <2>1, <3>1 DEF UpInv, HeaderOnMedia
      <3>3. Reservations'
        BY <1>1, <2>1, <3>1 DEF UpInv, Reservations, Ahead, CleanPos
      <3>4. Tids'
        BY <1>1, <1>4, <2>1, <3>1 DEF UpInv, Tids
      <3>5. Written'
        BY <1>1, <2>1, <3>1 DEF UpInv, Written, WrittenBy
      <3> QED BY <3>2, <3>3, <3>4, <3>5
    <2>3. \A s : Behind(s)' <=> Behind(s)
      BY <1>1 DEF Behind, Ahead, CleanPos
    <2>4. Owned'
      BY <1>1, <1>4, <1>8, <2>1, <2>3 DEF UpInv, Owned, Swept, Live, Used
    <2>5. Cleaning'
      BY <1>1, <1>4, <1>6, <2>1, <2>3 DEF UpInv, Cleaning, Ahead, CleanPos
    <2>6. Words'
      BY <1>1, <1>9, <2>1 DEF UpInv, Words, DirtyLogged, Logged, HeldWords, Live, Used
    <2>7. UpInv'
      BY <1>1, <1>3, <2>1, <2>2, <2>4, <2>5, <2>6 DEF UpInv
    <2> QED BY <1>1, <1>2, <1>10, <2>7 DEF IInv
  <1>11. CASE ~tainted /\ mode # "up"
    <2>1. RecoverInv
      BY <1>11 DEF IInv
    <2>2. \A h : Classified(h)' <=> Classified(h)
      <3>1. \A h, u : Harmless(h, u)' <=> Harmless(h, u)
        BY <1>1, <1>6 DEF Harmless
      <3>2. \A h, u : Orphan(h, u)' <=> Orphan(h, u)
        BY <1>1, <1>7 DEF Orphan
      <3> QED BY <1>5, <1>8, <3>1, <3>2 DEF Classified
    <2>3. \A s : /\ (Rem(s)' <=> Rem(s))
                /\ (Range_(s)' <=> Range_(s))
                /\ (Done(s)' <=> Done(s))
                /\ (Pending(s)' <=> Pending(s))
      BY <1>1 DEF Rem, Range_, Done, Pending
    <2>4. /\ (Scanning' <=> Scanning)
          /\ (Stored' <=> Stored)
          /\ (Settled' <=> Settled)
      BY <1>1, <1>5, <1>9, <2>3 DEF Scanning, Stored, Settled
    <2>5. Cut' <=> Cut
      BY <1>1, <1>4, <2>3 DEF Cut
    <2>6. Invalidated' <=> Invalidated
      BY <1>1, <2>3 DEF Invalidated
    <2>7. Repairs' <=> Repairs
      BY <1>1, <1>6, <1>7, <1>9, <2>3 DEF Repairs, Undoable, HalfRest
    <2>8. RecoverInv'
      BY <1>1, <1>3, <2>1, <2>2, <2>4, <2>5, <2>6, <2>7 DEF RecoverInv
    <2> QED BY <1>1, <1>2, <1>11, <2>8 DEF IInv
  <1>12. CASE tainted
    BY <1>1, <1>2, <1>12 DEF IInv
  <1> QED BY <1>10, <1>11, <1>12

LEMMA StepInvariant == IInv /\ [Next]_vars => IInv'
  <1> SUFFICES ASSUME IInv, [Next]_vars PROVE IInv'
    OBVIOUS
  <1>1. CASE UNCHANGED vars
    BY <1>1, StutterInvariant
  <1>2. CASE Next
    <2>1. TypeInv
      BY DEF IInv
    <2>2. TypeInv'
      BY <1>2, <2>1, TypeStep, LockStep DEF TypeInv, Shape
    <2>3. ASSUME ~tainted'
          PROVE  IF mode' = "up" THEN UpInv' ELSE RecoverInv'
      <3>1. ~tainted
        BY <1>2, <2>1, <2>3, NotPassed
      <3>2. CASE mode = "up" /\ ~Crash
        <4>1. UpInv
          BY <3>1, <3>2 DEF IInv
        <4> QED BY <1>2, <2>1, <2>2, <2>3, <3>2, <4>1, UpStep
      <3>3. CASE mode = "up" /\ Crash
        <4>1. UpInv
          BY <3>1, <3>3 DEF IInv
        <4>2. RecoverInv' /\ mode' = "recover"
          BY <2>1, <2>2, <3>3, <4>1, UpCrash DEF Crash
        <4> QED BY <4>2
      <3>4. CASE mode # "up"
        <4>1. RecoverInv
          BY <3>1, <3>4 DEF IInv
        <4> QED BY <1>2, <2>1, <2>2, <2>3, <3>4, <4>1, RecoverStep
      <3> QED BY <3>2, <3>3, <3>4
    <2> QED BY <2>2, <2>3 DEF IInv
  <1> QED BY <1>1, <1>2

\* The shape of the state: journal.c keeps head and tail within the ring, and the
\* slots it writes, at any number of threads and entries.
THEOREM TypeCorrect == Spec => []TypeOK
  <1>1. IInv => TypeOK
    BY DEF IInv, TypeInv
  <1> QED BY <1>1, InitInvariant, StepInvariant, PTL DEF Spec

\* The inductive invariant, of the mounted volume and of the recovery.
THEOREM Invariance == Spec => []IInv
  BY InitInvariant, StepInvariant, PTL DEF Spec

LEMMA AtomicUpdatesHold == IInv => RecoveredAtomic
  <1> SUFFICES ASSUME IInv, ~tainted, mode = "recovered" PROVE AtomicUpdates
    BY DEF RecoveredAtomic, AtomicUpdates
  <1>1. TypeInv /\ RecoverInv
    BY DEF IInv
  <1> QED BY <1>1, RecoveredSettled DEF AtomicUpdates, Settled, Dirty

LEMMA WordsSettled == IInv => SettledWords
  <1> SUFFICES ASSUME IInv, ~tainted
               PROVE  /\ AtomicUpdates
                      /\ mode = "up" =>
                           \A a \in Addrs : (\A p \in Procs : a \notin txn[p].addrs) =>
                             meta[a] = stable[a] /\ pmeta[a] = {stable[a]}
    BY DEF SettledWords
  <1>1. AtomicUpdates
    BY AtomicUpdatesHold DEF RecoveredAtomic
  <1>2. ASSUME mode = "up", NEW a \in Addrs, \A p \in Procs : a \notin txn[p].addrs
        PROVE  ~Dirty(a)
    <2> SUFFICES ASSUME Dirty(a) PROVE FALSE
      OBVIOUS
    <2>1. UpInv
      BY <1>2 DEF IInv
    <2>2. PICK p \in Procs, m \in Slots : Live(p) /\ Logged(p, a, m)
      BY <2>1 DEF UpInv, Words, DirtyLogged
    <2>3. log[m].addr \in txn[p].addrs
      BY <2>1, <2>2 DEF UpInv, Written, WrittenBy, Logged
    <2> QED BY <1>2, <2>2, <2>3 DEF Logged
  <1> QED BY <1>1, <1>2 DEF Dirty

LEMMA LogHolds == IInv => (~tainted => LogIntact)
  <1> SUFFICES ASSUME IInv, ~tainted PROVE LogIntact
    OBVIOUS
  <1>1. TypeInv /\ hdr \in Headers
    BY DEF IInv, TypeInv, TypeOK
  <1>2. CASE mode = "up"
    <2>1. UpInv /\ rc.pc = "off"
      BY <1>1, <1>2 DEF IInv, TypeInv, Locking
    <2>2. LogRetained
      BY <1>1, <2>1, WindowIs, LiveSlots DEF LogRetained
    <2>3. FreshSlots
      <3> SUFFICES ASSUME NEW p \in Procs, Live(p), NEW s \in Reserved(p) \ Used(p),
                          NEW e \in plog[s] \cup {log[s]}
                   PROVE  e.gen # txn[p].gen
        BY DEF FreshSlots
      <3>1. s \in Slots
        BY <1>1, <2>1, LiveSlots
      <3>2. e \in plog[s]
        BY <1>1, <3>1 DEF TypeInv, OnMedia
      <3> QED BY <2>1, <3>2 DEF UpInv, Written, WrittenBy
    <2>4. NoBug
      BY <2>1 DEF NoBug
    <2> QED BY <2>2, <2>3, <2>4 DEF LogIntact
  <1>3. CASE mode # "up"
    <2>1. RecoverInv /\ \A p \in Procs : ~Live(p)
      BY <1>1, <1>3 DEF IInv, TypeInv, Locking, Live
    <2> QED BY <2>1 DEF LogIntact, LogRetained, FreshSlots, NoBug, RecoverInv
  <1> QED BY <1>2, <1>3

\* Once pmfs_recover_journal is over, every word has in cache and on the media the
\* value of its last committed transaction, whenever and however often power
\* failed before: unless the log lost an entry it still needed (tainted).
THEOREM RecoveryIsAtomic == Spec => []RecoveredAtomic
  BY InitInvariant, StepInvariant, AtomicUpdatesHold, PTL DEF Spec

\* While operations run, a word that no transaction holds is durable and has its
\* last committed value: pmfs_commit_transaction and pmfs_abort_transaction leave
\* nothing in flight.
THEOREM CommittedIsSettled == Spec => []SettledWords
  BY InitInvariant, StepInvariant, WordsSettled, PTL DEF Spec

\* No entry of a live transaction is cut off by pmfs_clean_journal, none is taken
\* from an earlier lap of the ring or of gen_id, and BUG_ON in
\* pmfs_recover_transaction is never met.
THEOREM LogServesRecovery == Spec => [](~tainted => LogIntact)
  BY InitInvariant, StepInvariant, LogHolds, PTL DEF Spec

\* The pass of the cleaner at unmount empties the journal: pmfs_journal_uninit.
THEOREM UnmountLeavesEmpty == Spec => UnmountEmpties
  <1>1. ASSUME IInv, IInv', [Next]_vars
        PROVE  [mutex = "umount" /\ mutex' = "free" /\ boots' = boots /\ ~tainted
                  => hdr'.head = hdr'.tail]_vars
    <2> SUFFICES ASSUME Next, mutex = "umount", mutex' = "free", boots' = boots, ~tainted
                 PROVE  hdr'.head = hdr'.tail
      BY <1>1
    <2>1. TypeInv /\ TypeInv' /\ UpInv
      BY <1>1 DEF IInv, TypeInv, Locking
    <2>2. \A p \in Procs : txn[p].pc = "idle" /\ mutex # p
      BY <2>1, ProcsAssumption DEF TypeInv, Locking
    <2>3. \A p \in Procs : ~Transact(p)
      <3> SUFFICES ASSUME NEW p \in Procs, Transact(p) PROVE FALSE
        OBVIOUS
      <3>1. txn[p].pc = "idle" /\ mutex # p /\ mutex # "free"
        BY <2>2
      <3>2. ~NewTransaction(p)
        BY <3>1 DEF NewTransaction
      <3>3. ~Reserve(p)
        BY <3>1 DEF Reserve, FreeLogentries, JournalFull, WrapJournal, ReserveEntries
      <3>4. ~CommitFlush(p) /\ ~CommitEntry(p) /\ ~AbortUndo(p) /\ ~AbortEntry(p) /\ ~LogFence(p)
        BY <3>1 DEF CommitFlush, CommitEntry, AbortUndo, AbortEntry, LogFence
      <3>5. (\A a \in Addrs : ~AddLogentry(p, a)) /\ \A a \in Addrs, v \in Vals : ~Update(p, a, v)
        BY <3>1 DEF AddLogentry, Update
      <3> QED BY <3>2, <3>3, <3>4, <3>5 DEF Transact
    <2>4. ~CleanerRun /\ ~Unmount /\ ~Crash
      BY <2>1, BoundsAssumption DEF CleanerRun, Unmount, Crash, TypeInv, TypeOK
    <2>5. ~Recover /\ ~CleanSkip /\ ~CleanEnter /\ ~CleanWalk
      BY DEF runVars, Recover, RecoverStart, RecoverScan, RecoverWalk, RecoverUndo, RecoverInvalidate,
             InvalidateRest, ForwardJournal, RecoverDone, Mounted, CleanSkip, CleanEnter, CleanWalk
    <2>6. CleanFinish
      BY <2>3, <2>4, <2>5 DEF Next, Step, Clean
    <2> QED BY <2>1, <2>6, UnmountEnds
  <1> QED BY <1>1, InitInvariant, StepInvariant, PTL DEF Spec, UnmountEmpties
=============================================================================
