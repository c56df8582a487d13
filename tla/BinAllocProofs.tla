--------------------------- MODULE BinAllocProofs ---------------------------
(***************************************************************************)
(* Proofs about BinAlloc, for every size of the volume, number of lists    *)
(* and threshold: no block has two owners, num_free_blocks is exact, no    *)
(* block is lost, the lists order the blocks by wear up to their own writes,   *)
(* and the allocator implements BlockPool.                                 *)
(***************************************************************************)
EXTENDS BinAlloc, TLAPS, FiniteSetTheorems, WellFoundedInduction

USE BlocksAssumption, ByteBitsAssumption, BinsAssumption, WriteSizesAssumption,
    CountersAssumption, BoundAssumption

(***************************************************************************)
(* The inductive invariant.                                                *)
(***************************************************************************)

\* OneOwner for the lists alone.
Distinct ==
  \A i, j \in Bins : \A k \in 1 .. Len(bins[i]), l \in 1 .. Len(bins[j]) :
    bins[i][k] = bins[j][l] => i = j /\ k = l

Listed == UNION {InBin(i) : i \in Bins}

\* What a block's place in its list tells about the writes since it was freed:
\* its node, a pointer if a newer entry followed it, a pointer if it became the
\* oldest.
Place(i, k) == NodeSize + (IF k < Len(bins[i]) THEN 1 ELSE 0) + (IF k = 1 THEN 1 ELSE 0)

Told(i, k) ==
  /\ i * Thres + NodeSize <= wear[bins[i][k]]
  /\ i # WornBin => wear[bins[i][k]] < (i + 1) * Thres + Place(i, k)

ListWear == \A i \in Bins : \A k \in 1 .. Len(bins[i]) : bins[i][k] \notin spoilt => Told(i, k)

\* Where blocks may be.
Places ==
  /\ low <= high
  /\ Listed \cap Unused = {}
  /\ (Listed \cup Unused) \cap owned = {}
  /\ Reserved \subseteq linked /\ linked \subseteq owned

\* Unused blocks were never written.
UnusedFresh == \A b \in Unused : wear[b] = 0

\* While the volume is being mounted the marks tell which blocks are taken.
Marks ==
  mode \in {"recover", "scan"} =>
    /\ low = high /\ owned = linked /\ boots # 0
    /\ Reserved \subseteq using /\ Listed \subseteq using
    /\ \A b \in using : b < NumBlocks => b \in Listed \cup owned \cup Stray

\* How far the search for lost blocks has come.
Scanned ==
  /\ mode = "scan" => \A b \in 0 .. NumBlocks - 1 : b < scan => b \in Listed \cup owned \cup Stray
  /\ mode = "up" => \A b \in 0 .. NumBlocks - 1 : b \in Listed \cup Unused \cup owned \cup Stray

IInv == /\ TypeOK /\ Distinct /\ ListWear /\ Places /\ UnusedFresh /\ Marks
        /\ Scanned /\ FreeCount

-----------------------------------------------------------------------------
(* Facts about the operators.                                              *)

\* The bitmap of wpmfs_setup_blocknode_map has a bit for every block, and more.
LEMMA BitmapLong == BitmapBits \in Nat /\ BitmapBits > NumBlocks
  <1>1. NumBlocks \div ByteBits \in Nat /\ NumBlocks < (NumBlocks \div ByteBits + 1) * ByteBits
    OBVIOUS
  <1> QED BY <1>1 DEF BitmapBits

\* wpmfs_get_bin returns the list whose interval holds the counter.
LEMMA BinOfBlock ==
  ASSUME TypeOK, NEW b \in Pages
  PROVE  /\ wpmfs_get_bin(b) \in Bins
         /\ wpmfs_get_bin(b) * Thres <= wear[b]
         /\ wpmfs_get_bin(b) # WornBin => wear[b] < (wpmfs_get_bin(b) + 1) * Thres
  <1> DEFINE t == wear[b] \div Thres
  <1>1. wear[b] \in Nat
    BY DEF TypeOK
  <1>2. t \in Nat /\ t * Thres <= wear[b] /\ wear[b] < (t + 1) * Thres
    BY <1>1
  <1>3. CASE t < NumBins
    <2>1. wpmfs_get_bin(b) = t
      BY <1>3 DEF wpmfs_get_bin
    <2> HIDE DEF t
    <2> QED BY <1>2, <1>3, <2>1 DEF Bins, WornBin
  <1>4. CASE ~(t < NumBins)
    <2>1. wpmfs_get_bin(b) = WornBin
      BY <1>4 DEF wpmfs_get_bin
    <2> HIDE DEF t
    <2>2. WornBin * Thres <= t * Thres
      BY <1>2, <1>4 DEF WornBin
    <2> QED BY <1>1, <1>2, <2>1, <2>2 DEF Bins, WornBin
  <1> QED BY <1>3, <1>4

\* The lists hold pages, and InBin is the set of a list's entries.
LEMMA InBinPages ==
  ASSUME TypeOK, NEW i \in Bins
  PROVE  /\ bins[i] \in Seq(Pages) /\ InBin(i) \subseteq Pages
         /\ \A k \in 1 .. Len(bins[i]) : bins[i][k] \in InBin(i)
  BY DEF TypeOK, InBin

\* What num_free_blocks counts: listed and never used blocks.
LEMMA FreeIsListed == Free = Listed \cup Unused
  BY DEF Free, Available, Listed, Bins, WornBin

\* There are finitely many of them.
LEMMA FreeFinite ==
  ASSUME TypeOK
  PROVE  Listed \cup Unused \subseteq Pages /\ IsFiniteSet(Listed \cup Unused)
  <1>1. Listed \subseteq Pages
    BY InBinPages DEF Listed
  <1>2. Unused \subseteq Pages
    BY BitmapLong DEF TypeOK, Unused, Pages
  <1>3. IsFiniteSet(Pages)
    BY BitmapLong, FS_Interval DEF Pages
  <1> QED BY <1>1, <1>2, <1>3, FS_Subset

-----------------------------------------------------------------------------
(* __wpmfs_free_block.                                                     *)

\* A block that was not on a list is on exactly one, as its newest entry.
LEMMA FreeBlockLists ==
  ASSUME TypeOK, Distinct, NEW b \in Pages, b \notin Listed, free_block(b)
  PROVE  /\ bins' \in [Bins -> Seq(Pages)]
         /\ Distinct'
         /\ \E i \in Bins : \A j \in Bins :
              InBin(j)' = IF j = i THEN InBin(j) \cup {b} ELSE InBin(j)
         /\ Listed' = Listed \cup {b}
  <1>1. PICK i \in Bins : bins' = [bins EXCEPT ![i] = Append(bins[i], b)]
    BY BinOfBlock DEF free_block, BinsOf
  <1>2. bins \in [Bins -> Seq(Pages)] /\ bins' = [bins EXCEPT ![i] = Append(bins[i], b)]
    BY <1>1 DEF TypeOK
  <1>3. /\ bins'[i] \in Seq(Pages) /\ Len(bins'[i]) = Len(bins[i]) + 1
        /\ \A k \in 1 .. Len(bins[i]) : bins'[i][k] = bins[i][k]
        /\ bins'[i][Len(bins[i]) + 1] = b
    BY <1>1, <1>2
  <1>4. \A j \in Bins : j # i => bins'[j] = bins[j]
    BY <1>2
  <1>5. bins' \in [Bins -> Seq(Pages)]
    BY <1>1, <1>2, <1>3
  <1>6. \A j \in Bins : \A k \in 1 .. Len(bins[j]) : bins[j][k] # b
    BY DEF Listed, InBin
  <1>7. Distinct'
    <2> SUFFICES ASSUME NEW j \in Bins, NEW m \in Bins,
                        NEW k \in 1 .. Len(bins'[j]), NEW l \in 1 .. Len(bins'[m]),
                        bins'[j][k] = bins'[m][l]
                 PROVE  j = m /\ k = l
      BY DEF Distinct
    <2>1. \A n \in Bins : Len(bins[n]) \in Nat
      BY <1>2
    <2>2. \/ k \in 1 .. Len(bins[j]) /\ bins'[j][k] = bins[j][k]
          \/ j = i /\ k = Len(bins[i]) + 1 /\ bins'[j][k] = b
      BY <1>1, <1>3, <1>4, <2>1
    <2>3. \/ l \in 1 .. Len(bins[m]) /\ bins'[m][l] = bins[m][l]
          \/ m = i /\ l = Len(bins[i]) + 1 /\ bins'[m][l] = b
      BY <1>1, <1>3, <1>4, <2>1
    <2> QED BY <1>6, <2>2, <2>3 DEF Distinct
  <1>8. InBin(i)' = InBin(i) \cup {b}
    <2>1. Len(bins[i]) \in Nat
      BY <1>1, <1>2
    <2> QED BY <1>3, <2>1 DEF InBin
  <1>9. \A j \in Bins : j # i => InBin(j)' = InBin(j)
    BY <1>4 DEF InBin
  <1>10. Listed' = Listed \cup {b}
    <2>1. \A j \in Bins : InBin(j)' = IF j = i THEN InBin(j) \cup {b} ELSE InBin(j)
      BY <1>8, <1>9
    <2>2. Listed' = UNION {InBin(j)' : j \in Bins}
      BY DEF Listed
    <2> QED BY <1>1, <2>1, <2>2 DEF Listed
  <1>11. \A j \in Bins : InBin(j)' = IF j = i THEN InBin(j) \cup {b} ELSE InBin(j)
    BY <1>8, <1>9
  <1> QED BY <1>1, <1>5, <1>7, <1>10, <1>11

\* The counters: a node is written to the block, a pointer to its neighbour.
LEMMA FreeBlockWear ==
  ASSUME TypeOK, Distinct, ListWear, NEW b \in Pages, b \notin Listed, free_block(b)
  PROVE  /\ wear' \in [Pages -> Nat]
         /\ ListWear'
         /\ \A p \in Pages \ (Listed \cup {b}) : wear'[p] = wear[p]
  <1>0. PICK i \in Bins : /\ i \in BinsOf(b)
                         /\ bins' = [bins EXCEPT ![i] = Append(bins[i], b)]
                         /\ wear' = Touch(b, NodeSize, Newest(bins[i]))
    BY BinOfBlock DEF free_block, BinsOf
  <1>01. spoilt \subseteq spoilt'
    BY DEF free_block
  <1>1. i \in Bins /\ (b \notin spoilt => i * Thres <= wear[b]
                                       /\ (i # WornBin => wear[b] < (i + 1) * Thres))
    BY <1>0, BinOfBlock DEF BinsOf
  <1> DEFINE n == Len(bins[i])
  <1>2. bins \in [Bins -> Seq(Pages)] /\ bins' = [bins EXCEPT ![i] = Append(bins[i], b)]
    BY <1>0 DEF TypeOK
  <1>3. /\ wear \in [Pages -> Nat]
        /\ wear' = [p \in Pages |-> wear[p] + (IF p = b THEN NodeSize ELSE 0)
                                            + (IF p \in Newest(bins[i]) THEN 1 ELSE 0)]
    BY <1>0 DEF TypeOK, Touch
  <1>4. n \in Nat
    BY <1>1, <1>2
  <1>5. \A p : p \in Newest(bins[i]) <=> n # 0 /\ p = bins[i][n]
    BY <1>4 DEF Newest
  <1>6. wear' \in [Pages -> Nat]
    BY <1>3 DEF NodeSize
  <1>7. \A j \in Bins : \A k \in 1 .. Len(bins[j]) : bins[j][k] \in Pages /\ bins[j][k] # b
    BY <1>2 DEF Listed, InBin
  <1>8. \A p \in Pages \ (Listed \cup {b}) : wear'[p] = wear[p]
    BY <1>1, <1>3, <1>4, <1>5 DEF Listed, InBin
  <1>9. ListWear'
    <2> SUFFICES ASSUME NEW j \in Bins, NEW k \in 1 .. Len(bins'[j]), bins'[j][k] \notin spoilt
                 PROVE  /\ j * Thres + NodeSize <= wear'[bins'[j][k]]
                        /\ j # WornBin =>
                             wear'[bins'[j][k]] < (j + 1) * Thres + Place(j, k)'
      BY <1>01 DEF ListWear, Told, WornBin
    <2>1. CASE j # i
      <3>1. bins'[j] = bins[j] /\ Place(j, k)' = Place(j, k)
        BY <1>2, <2>1 DEF Place
      <3>2. n # 0 => bins[j][k] # bins[i][n]
        BY <1>1, <1>4, <2>1, <3>1 DEF Distinct
      <3>3. wear'[bins[j][k]] = wear[bins[j][k]]
        BY <1>3, <1>5, <1>7, <3>1, <3>2
      <3> QED BY <3>1, <3>3 DEF ListWear, Told
    <2>2. CASE j = i
      <3>1. /\ Len(bins'[i]) = n + 1 /\ bins'[i][n + 1] = b
            /\ \A l \in 1 .. n : bins'[i][l] = bins[i][l]
        BY <1>1, <1>2
      <3>2. CASE k = n + 1
        <4>1. wear'[b] = wear[b] + NodeSize
          <5>1. b \notin Newest(bins[i])
            BY <1>1, <1>4, <1>5, <1>7
          <5> QED BY <1>3, <5>1 DEF NodeSize
        <4>2. Place(i, k)' >= NodeSize /\ Place(i, k)' \in Nat /\ NodeSize \in Nat
          BY <2>2, <3>1, <3>2 DEF Place, NodeSize
        <4>3. i \in Nat /\ wear[b] \in Nat /\ (i + 1) * Thres \in Nat /\ i * Thres \in Nat
          BY <1>1, <1>3 DEF Bins
        <4> QED BY <1>1, <2>2, <3>1, <3>2, <4>1, <4>2, <4>3
      <3>3. CASE k # n + 1
        <4>1. k \in 1 .. n /\ bins'[i][k] = bins[i][k]
          BY <1>4, <2>2, <3>1, <3>3
        <4>2. /\ i * Thres + NodeSize <= wear[bins[i][k]]
              /\ i # WornBin => wear[bins[i][k]] < (i + 1) * Thres + Place(i, k)
          BY <1>1, <2>2, <4>1 DEF ListWear, Told
        <4>3. wear[bins[i][k]] \in Nat
          BY <1>1, <1>3, <1>7, <4>1
        <4>6. i \in Nat /\ i * Thres \in Nat /\ (i + 1) * Thres \in Nat /\ NodeSize \in Nat
          BY <1>1 DEF Bins, NodeSize
        <4>4. CASE k = n
          <5>1. wear'[bins[i][k]] = wear[bins[i][k]] + 1
            BY <1>3, <1>5, <1>7, <1>1, <4>1, <4>4
          <5>2. Place(i, k)' = Place(i, k) + 1
            BY <1>4, <3>1, <4>1, <4>4 DEF Place, NodeSize
          <5>3. Place(i, k) \in Nat
            BY DEF Place, NodeSize
          <5>4. /\ i * Thres + NodeSize <= wear[bins[i][k]] + 1
                /\ i # WornBin =>
                     wear[bins[i][k]] + 1 < (i + 1) * Thres + (Place(i, k) + 1)
            <6>1. i * Thres + NodeSize <= wear[bins[i][k]] + 1
              BY <4>2, <4>3, <4>6
            <6> QED BY <4>2, <4>3, <4>6, <5>3, <6>1
          <5> QED BY <2>2, <4>1, <5>1, <5>2, <5>4
        <4>5. CASE k # n
          <5>1. bins[i][k] # bins[i][n]
            BY <1>1, <1>4, <4>1, <4>5 DEF Distinct
          <5>2. wear'[bins[i][k]] = wear[bins[i][k]]
            BY <1>1, <1>3, <1>5, <1>7, <4>1, <5>1
          <5>3. Place(i, k)' = Place(i, k)
            BY <1>4, <3>1, <4>1, <4>5 DEF Place, NodeSize
          <5> QED BY <2>2, <4>1, <4>2, <5>2, <5>3
        <4> QED BY <4>4, <4>5
      <3> QED BY <3>2, <3>3
    <2> QED BY <2>1, <2>2
  <1> QED BY <1>6, <1>8, <1>9

-----------------------------------------------------------------------------
(* __wpmfs_new_block from a list.                                          *)

\* The block that is taken is no longer on any list.
LEMMA TakeLists ==
  ASSUME TypeOK, Distinct, NEW i \in Bins, bins[i] # <<>>,
         bins' = [bins EXCEPT ![i] = Tail(bins[i])]
  PROVE  /\ bins' \in [Bins -> Seq(Pages)]
         /\ Distinct'
         /\ Head(bins[i]) \in InBin(i)
         /\ \A j \in Bins : InBin(j)' = InBin(j) \ {Head(bins[i])}
         /\ Listed' = Listed \ {Head(bins[i])}
  <1> DEFINE n == Len(bins[i])
             b == Head(bins[i])
  <1>1. bins \in [Bins -> Seq(Pages)]
    BY DEF TypeOK
  <1>2. /\ n \in Nat /\ n >= 1 /\ b = bins[i][1]
        /\ Tail(bins[i]) \in Seq(Pages) /\ Len(Tail(bins[i])) = n - 1
        /\ \A k \in 1 .. n - 1 : Tail(bins[i])[k] = bins[i][k + 1]
    BY <1>1
  <1>3. /\ Len(bins'[i]) = n - 1
        /\ \A k \in 1 .. n - 1 : bins'[i][k] = bins[i][k + 1]
        /\ \A j \in Bins : j # i => bins'[j] = bins[j]
    <2>1. bins'[i] = Tail(bins[i]) /\ \A j \in Bins : j # i => bins'[j] = bins[j]
      BY <1>1
    <2> QED BY <1>2, <2>1
  <1>4. bins' \in [Bins -> Seq(Pages)]
    BY <1>1, <1>2
  <1>5. Distinct'
    <2> SUFFICES ASSUME NEW j \in Bins, NEW m \in Bins,
                        NEW k \in 1 .. Len(bins'[j]), NEW l \in 1 .. Len(bins'[m]),
                        bins'[j][k] = bins'[m][l]
                 PROVE  j = m /\ k = l
      BY DEF Distinct
    <2>1. \A x \in Bins : Len(bins[x]) \in Nat
      BY <1>1
    <2>2. \/ j # i /\ k \in 1 .. Len(bins[j]) /\ bins'[j][k] = bins[j][k]
          \/ j = i /\ k + 1 \in 1 .. n /\ bins'[j][k] = bins[i][k + 1]
      BY <1>2, <1>3, <2>1
    <2>3. \/ m # i /\ l \in 1 .. Len(bins[m]) /\ bins'[m][l] = bins[m][l]
          \/ m = i /\ l + 1 \in 1 .. n /\ bins'[m][l] = bins[i][l + 1]
      BY <1>2, <1>3, <2>1
    <2> QED BY <2>2, <2>3 DEF Distinct
  <1>6. b \in InBin(i)
    BY <1>2 DEF InBin
  <1>7. InBin(i)' = InBin(i) \ {b}
    <2>1. \A k \in 2 .. n : bins[i][k] # b
      BY <1>2 DEF Distinct
    <2>2. \A x : x \in InBin(i)' <=> \E k \in 1 .. Len(bins'[i]) : x = bins'[i][k]
      BY DEF InBin
    <2>3. ASSUME NEW x \in InBin(i)' PROVE x \in InBin(i) /\ x # b
      <3>1. PICK k \in 1 .. n - 1 : x = bins[i][k + 1]
        BY <1>3, <2>2, <2>3
      <3>2. k + 1 \in 2 .. n /\ k + 1 \in 1 .. n
        BY <1>2
      <3> QED BY <2>1, <3>1, <3>2 DEF InBin
    <2>4. ASSUME NEW x \in InBin(i), x # b PROVE x \in InBin(i)'
      <3>1. PICK k \in 1 .. n : x = bins[i][k]
        BY DEF InBin
      <3>2. k # 1
        BY <1>2, <2>4, <3>1
      <3>3. k - 1 \in 1 .. n - 1 /\ (k - 1) + 1 = k
        BY <1>2, <3>2
      <3>4. bins'[i][k - 1] = x
        BY <1>3, <3>1, <3>3
      <3> QED BY <1>3, <2>2, <3>3, <3>4
    <2> QED BY <2>3, <2>4
  <1>8. \A j \in Bins : j # i => InBin(j)' = InBin(j) \ {b}
    <2> SUFFICES ASSUME NEW j \in Bins, j # i
                 PROVE  InBin(j)' = InBin(j) \ {b}
      OBVIOUS
    <2>1. b \notin InBin(j)
      BY <1>2 DEF Distinct, InBin
    <2>2. InBin(j)' = InBin(j)
      BY <1>3 DEF InBin
    <2> QED BY <2>1, <2>2
  <1>9. Listed' = Listed \ {b}
    <2>1. \A j \in Bins : InBin(j)' = InBin(j) \ {b}
      BY <1>7, <1>8
    <2>2. Listed' = UNION {InBin(j)' : j \in Bins}
      BY DEF Listed
    <2> QED BY <2>1, <2>2 DEF Listed
  <1> QED BY <1>4, <1>5, <1>6, <1>7, <1>8, <1>9

\* A pointer is written to the next oldest entry; the taken block may be zeroed.
LEMMA TakeWear ==
  ASSUME TypeOK, Distinct, ListWear, NEW i \in Bins, NEW z \in Nat, bins[i] # <<>>,
         bins' = [bins EXCEPT ![i] = Tail(bins[i])],
         wear' = Touch(Head(bins[i]), z, Oldest(Tail(bins[i]))), spoilt \subseteq spoilt'
  PROVE  /\ wear' \in [Pages -> Nat]
         /\ ListWear'
         /\ \A p \in Pages \ Listed : wear'[p] = wear[p]
  <1> DEFINE n == Len(bins[i])
  <1>1. bins \in [Bins -> Seq(Pages)] /\ wear \in [Pages -> Nat]
    BY DEF TypeOK
  <1>2. /\ n \in Nat /\ n >= 1 /\ Head(bins[i]) = bins[i][1]
        /\ Tail(bins[i]) \in Seq(Pages) /\ Len(Tail(bins[i])) = n - 1
        /\ \A k \in 1 .. n - 1 : Tail(bins[i])[k] = bins[i][k + 1]
    BY <1>1
  <1>3. \A p : p \in Oldest(Tail(bins[i])) <=> n >= 2 /\ p = bins[i][2]
    BY <1>2 DEF Oldest
  <1>4. wear' = [p \in Pages |-> wear[p] + (IF p = bins[i][1] THEN z ELSE 0)
                                      + (IF n >= 2 /\ p = bins[i][2] THEN 1 ELSE 0)]
    BY <1>2, <1>3 DEF Touch
  <1>5. wear' \in [Pages -> Nat]
    <2>1. \A p \in Pages : \A x, y : x \in Nat /\ y \in Nat => wear[p] + x + y \in Nat
      BY <1>1
    <2>2. \A p : /\ (IF p = bins[i][1] THEN z ELSE 0) \in Nat
                 /\ (IF n >= 2 /\ p = bins[i][2] THEN 1 ELSE 0) \in Nat
      OBVIOUS
    <2>3. \A p \in Pages : wear[p] + (IF p = bins[i][1] THEN z ELSE 0)
                                  + (IF n >= 2 /\ p = bins[i][2] THEN 1 ELSE 0) \in Nat
      BY <2>1, <2>2, Zenon
    <2> QED BY <1>4, <2>3
  <1>9. \A p \in Pages : p # bins[i][1] /\ ~(n >= 2 /\ p = bins[i][2]) => wear'[p] = wear[p]
    <2> SUFFICES ASSUME NEW p \in Pages, p # bins[i][1], ~(n >= 2 /\ p = bins[i][2])
                 PROVE  wear'[p] = wear[p]
      OBVIOUS
    <2>1. wear'[p] = wear[p] + (IF p = bins[i][1] THEN z ELSE 0)
                             + (IF n >= 2 /\ p = bins[i][2] THEN 1 ELSE 0)
      BY <1>4
    <2>2. wear'[p] = wear[p] + 0 + 0
      BY <2>1
    <2> QED BY <1>1, <2>2
  <1>6. \A p \in Pages \ Listed : wear'[p] = wear[p]
    <2>1. bins[i][1] \in Listed /\ (n >= 2 => bins[i][2] \in Listed)
      BY <1>2 DEF Listed, InBin
    <2> QED BY <1>9, <2>1
  <1>7. /\ Len(bins'[i]) = n - 1
        /\ \A k \in 1 .. n - 1 : bins'[i][k] = bins[i][k + 1]
        /\ \A j \in Bins : j # i => bins'[j] = bins[j]
    <2>1. bins'[i] = Tail(bins[i]) /\ \A j \in Bins : j # i => bins'[j] = bins[j]
      BY <1>1
    <2> QED BY <1>2, <2>1
  <1>01. spoilt \subseteq spoilt'
    OBVIOUS
  <1>8. ListWear'
    <2> SUFFICES ASSUME NEW j \in Bins, NEW k \in 1 .. Len(bins'[j]), bins'[j][k] \notin spoilt
                 PROVE  /\ j * Thres + NodeSize <= wear'[bins'[j][k]]
                        /\ j # WornBin =>
                             wear'[bins'[j][k]] < (j + 1) * Thres + Place(j, k)'
      BY <1>01 DEF ListWear, Told, WornBin
    <2>1. CASE j # i
      <3>1. bins'[j] = bins[j] /\ Place(j, k)' = Place(j, k)
        BY <1>7, <2>1 DEF Place
      <3>2. bins[j][k] # bins[i][1] /\ (n >= 2 => bins[j][k] # bins[i][2])
        BY <1>2, <2>1, <3>1 DEF Distinct
      <3>3. bins[j][k] \in Pages
        BY <1>1, <3>1
      <3>4. wear'[bins[j][k]] = wear[bins[j][k]]
        BY <1>1, <1>4, <3>2, <3>3
      <3> QED BY <3>1, <3>4 DEF ListWear, Told
    <2>2. CASE j = i
      <3>1. k \in 1 .. n - 1 /\ k + 1 \in 1 .. n /\ bins'[i][k] = bins[i][k + 1]
        BY <1>2, <1>7, <2>2
      <3>2. /\ i * Thres + NodeSize <= wear[bins[i][k + 1]]
            /\ i # WornBin => wear[bins[i][k + 1]] < (i + 1) * Thres + Place(i, k + 1)
        BY <2>2, <3>1 DEF ListWear, Told
      <3>3. bins[i][k + 1] \in Pages /\ wear[bins[i][k + 1]] \in Nat
        BY <1>1, <3>1
      <3>7. bins[i][k + 1] # bins[i][1]
        BY <1>2, <3>1 DEF Distinct
      <3>4. i \in Nat /\ i * Thres \in Nat /\ (i + 1) * Thres \in Nat /\ NodeSize \in Nat
        BY DEF Bins, NodeSize
      <3>5. CASE k = 1
        <4>1. wear'[bins[i][k + 1]] = wear[bins[i][k + 1]] + 1
          BY <1>1, <1>2, <1>4, <3>1, <3>3, <3>5, <3>7
        <4>2. Place(i, k)' = Place(i, k + 1) + 1 /\ Place(i, k + 1) \in Nat
          BY <1>2, <1>7, <3>1, <3>5 DEF Place, NodeSize
        <4>3. /\ i * Thres + NodeSize <= wear[bins[i][k + 1]] + 1
              /\ i # WornBin =>
                   wear[bins[i][k + 1]] + 1 < (i + 1) * Thres + (Place(i, k + 1) + 1)
          BY <3>2, <3>3, <3>4, <4>2
        <4> QED BY <2>2, <3>1, <4>1, <4>2, <4>3
      <3>6. CASE k # 1
        <4>1. bins[i][k + 1] # bins[i][2]
          BY <1>2, <3>1, <3>6 DEF Distinct
        <4>2. wear'[bins[i][k + 1]] = wear[bins[i][k + 1]]
          BY <1>9, <3>3, <3>7, <4>1
        <4>3. Place(i, k)' = Place(i, k + 1)
          BY <1>2, <1>7, <3>1, <3>6 DEF Place, NodeSize
        <4> QED BY <2>2, <3>1, <3>2, <4>2, <4>3
      <3> QED BY <3>5, <3>6
    <2> QED BY <2>1, <2>2
  <1> QED BY <1>5, <1>6, <1>8
-----------------------------------------------------------------------------
(* The steps.                                                              *)

\* num_free_blocks follows a block that becomes free.
LEMMA CountUp ==
  ASSUME TypeOK, FreeCount, NEW b, b \notin Listed \cup Unused,
         (Listed \cup Unused)' = (Listed \cup Unused) \cup {b}, nfree' = nfree + 1
  PROVE  FreeCount'
  <1>1. Cardinality((Listed \cup Unused) \cup {b}) = Cardinality(Listed \cup Unused) + 1
    BY FreeFinite, FS_AddElement
  <1>2. Free' = (Listed \cup Unused)'
    BY DEF Free, Available, Listed, Bins, WornBin
  <1> QED BY <1>1, <1>2, FreeIsListed DEF FreeCount

\* num_free_blocks follows a block that is handed out.
LEMMA CountDown ==
  ASSUME TypeOK, FreeCount, NEW b \in Listed \cup Unused,
         (Listed \cup Unused)' = (Listed \cup Unused) \ {b}, nfree' = nfree - 1
  PROVE  FreeCount' /\ nfree' \in Nat
  <1>1. /\ Cardinality((Listed \cup Unused) \ {b}) = Cardinality(Listed \cup Unused) - 1
        /\ IsFiniteSet((Listed \cup Unused) \ {b})
    BY FreeFinite, FS_RemoveElement
  <1>2. Cardinality((Listed \cup Unused) \ {b}) \in Nat
    BY <1>1, FS_CardinalityType
  <1>3. Free' = (Listed \cup Unused)'
    BY DEF Free, Available, Listed, Bins, WornBin
  <1> QED BY <1>1, <1>2, <1>3, FreeIsListed DEF FreeCount

\* What free_block does to the invariant, for each of its three callers.
LEMMA FreeBlockStep ==
  ASSUME IInv, NEW b \in Pages, b \notin Listed \cup Unused, free_block(b),
         low' = low, high' = high
  PROVE  /\ bins' \in [Bins -> Seq(Pages)] /\ wear' \in [Pages -> Nat]
         /\ nfree' \in Nat /\ using' = using \cup {b} /\ using' \subseteq Pages
         /\ spoilt' \subseteq Pages
         /\ Distinct' /\ ListWear' /\ FreeCount' /\ UnusedFresh'
         /\ Listed' = Listed \cup {b} /\ Unused' = Unused
  <1>1. TypeOK /\ Distinct /\ ListWear /\ FreeCount /\ UnusedFresh /\ Places
    BY DEF IInv
  <1>2. /\ bins' \in [Bins -> Seq(Pages)] /\ Distinct' /\ Listed' = Listed \cup {b}
        /\ wear' \in [Pages -> Nat] /\ ListWear'
        /\ \A p \in Pages \ (Listed \cup {b}) : wear'[p] = wear[p]
    BY <1>1, FreeBlockLists, FreeBlockWear
  <1>3. /\ nfree' = nfree + 1 /\ nfree' \in Nat /\ using' = using \cup {b} /\ using' \subseteq Pages
        /\ spoilt' \subseteq Pages
    BY <1>1 DEF TypeOK, free_block, NodeCounters, CountersIn
  <1>4. Unused' = Unused
    BY DEF Unused
  <1>5. FreeCount'
    <2>1. (Listed \cup Unused)' = (Listed \cup Unused) \cup {b}
      BY <1>2, <1>4
    <2> QED BY <1>1, <1>3, <2>1, CountUp
  <1>6. UnusedFresh'
    <2>1. \A p \in Unused : p \in Pages \ (Listed \cup {b})
      BY <1>1, FreeFinite DEF Places
    <2> QED BY <1>1, <1>2, <1>4, <2>1 DEF UnusedFresh
  <1> QED BY <1>2, <1>3, <1>4, <1>5, <1>6

\* wpmfs_free_block.
LEMMA FreeBlockIInv ==
  ASSUME IInv, NEW b \in Pages, FreeBlock(b)
  PROVE  IInv'
  <1>1. TypeOK /\ Places /\ Scanned
    BY DEF IInv
  <1>2. /\ mode \in {"up", "bare"} /\ mode' = mode /\ scan' = scan /\ boots' = boots /\ low' = low
        /\ high' = high /\ linked' = linked /\ owned' = owned \ {b} /\ free_block(b)
        /\ b \in owned /\ b \notin linked
    BY DEF FreeBlock, Running, bootVars
  <1>3. b \notin Listed \cup Unused
    BY <1>1, <1>2 DEF Places
  <1>4. /\ bins' \in [Bins -> Seq(Pages)] /\ wear' \in [Pages -> Nat]
        /\ nfree' \in Nat /\ using' \subseteq Pages /\ spoilt' \subseteq Pages
        /\ Distinct' /\ ListWear' /\ FreeCount' /\ UnusedFresh'
        /\ Listed' = Listed \cup {b} /\ Unused' = Unused
    BY <1>2, <1>3, FreeBlockStep
  <1>5. TypeOK'
    BY <1>1, <1>2, <1>4 DEF TypeOK, Pages, Bins
  <1>6. Places'
    BY <1>1, <1>2, <1>4 DEF Places, Reserved
  <1>7. Marks' /\ Scanned'
    BY <1>1, <1>2, <1>4 DEF Marks, Scanned, Stray
  <1> QED BY <1>4, <1>5, <1>6, <1>7 DEF IInv

\* wpmfs_new_block with a never used block.
LEMMA NewUnusedIInv ==
  ASSUME IInv, NEW z \in {0, PageSize}, NewUnused(z)
  PROVE  IInv'
  <1>1. TypeOK /\ Places /\ Scanned /\ Distinct /\ ListWear /\ UnusedFresh /\ FreeCount
    BY DEF IInv
  <1>2. /\ mode \in {"up", "bare"} /\ mode' = mode /\ scan' = scan /\ boots' = boots /\ low' = low + 1
        /\ high' = high /\ linked' = linked /\ owned' = owned \cup {low} /\ low # high
        /\ using' = using \cup {low} /\ bins' = bins /\ wear' = Touch(low, z, {})
        /\ nfree' = nfree - 1 /\ spoilt' = spoilt
    BY DEF NewUnused, Running, bootVars
  <1>3. Unused' = Unused \ {low} /\ low \in Unused /\ low \in Pages /\ low + 1 <= high
    BY <1>1, <1>2, BitmapLong DEF Unused, TypeOK, Places, Pages
  <1>4. Listed' = Listed
    BY <1>2 DEF Listed, InBin
  <1>10. wear' \in [Pages -> Nat] /\ \A p \in Pages \ {low} : wear'[p] = wear[p]
    BY <1>1, <1>2 DEF Touch, TypeOK
  <1>5. Distinct' /\ ListWear' /\ UnusedFresh'
    <2>1. Distinct'
      BY <1>1, <1>2 DEF Distinct
    <2>2. \A j \in Bins : \A k \in 1 .. Len(bins[j]) : bins[j][k] \in Pages \ {low}
      BY <1>1, <1>3, InBinPages DEF Places, Listed
    <2>3. ListWear'
      BY <1>1, <1>2, <1>10, <2>2 DEF ListWear, Told, Place
    <2>4. \A p \in Unused : p \in Pages
      BY <1>1, FreeFinite
    <2>5. UnusedFresh'
      BY <1>1, <1>3, <1>10, <2>4 DEF UnusedFresh
    <2> QED BY <2>1, <2>3, <2>5
  <1>6. FreeCount' /\ nfree' \in Nat
    <2>1. (Listed \cup Unused)' = (Listed \cup Unused) \ {low}
      BY <1>1, <1>3, <1>4 DEF Places
    <2>2. low \in Listed \cup Unused
      BY <1>3
    <2> QED BY <1>1, <1>2, <2>1, <2>2, CountDown
  <1>7. TypeOK'
    BY <1>1, <1>2, <1>3, <1>6, <1>10 DEF TypeOK
  <1>8. Places'
    BY <1>1, <1>2, <1>3, <1>4 DEF Places, TypeOK, Reserved
  <1>9. Marks' /\ Scanned'
    BY <1>1, <1>2, <1>3, <1>4 DEF Marks, Scanned, Stray
  <1> QED BY <1>5, <1>6, <1>7, <1>8, <1>9 DEF IInv

\* wpmfs_new_block with the oldest entry of a list.
LEMMA NewFromBinIInv ==
  ASSUME IInv, NEW i \in Bins, NEW z \in {0, PageSize}, NewFromBin(i, z)
  PROVE  IInv'
  <1>1. TypeOK /\ Places /\ Scanned /\ Distinct /\ ListWear /\ UnusedFresh /\ FreeCount
    BY DEF IInv
  <1>2. PICK b : b = Head(bins[i])
    OBVIOUS
  <1>3. /\ mode \in {"up", "bare"} /\ mode' = mode /\ scan' = scan /\ boots' = boots /\ low' = low
        /\ high' = high /\ linked' = linked /\ owned' = owned \cup {b}
        /\ using' = using \cup {b} /\ nfree' = nfree - 1
        /\ spoilt \subseteq spoilt' /\ spoilt' \subseteq Pages
    BY <1>1, <1>2 DEF NewFromBin, Running, bootVars, Zeroed, CountersIn, TypeOK
  <1>4. /\ bins[i] # <<>> /\ bins' = [bins EXCEPT ![i] = Tail(bins[i])]
        /\ wear' = Touch(Head(bins[i]), z, Oldest(Tail(bins[i])))
    BY DEF NewFromBin, FromBin
  <1>5. /\ bins' \in [Bins -> Seq(Pages)] /\ Distinct' /\ b \in Listed /\ b \in Pages
        /\ Listed' = Listed \ {b}
    BY <1>1, <1>2, <1>4, TakeLists, InBinPages DEF Listed
  <1>6. /\ wear' \in [Pages -> Nat] /\ ListWear'
        /\ \A p \in Pages \ Listed : wear'[p] = wear[p]
    <2>1. PICK y \in Nat : y = z
      OBVIOUS
    <2> QED BY <1>1, <1>3, <1>4, <2>1, TakeWear
  <1>7. Unused' = Unused
    BY <1>3 DEF Unused
  <1>8. UnusedFresh'
    <2>1. \A p \in Unused : p \in Pages \ Listed
      BY <1>1, FreeFinite DEF Places
    <2> QED BY <1>1, <1>6, <1>7, <2>1 DEF UnusedFresh
  <1>9. FreeCount' /\ nfree' \in Nat
    <2>1. (Listed \cup Unused)' = (Listed \cup Unused) \ {b}
      BY <1>1, <1>5, <1>7 DEF Places
    <2>2. b \in Listed \cup Unused
      BY <1>5
    <2> QED BY <1>1, <1>3, <2>1, <2>2, CountDown
  <1>10. TypeOK'
    BY <1>1, <1>3, <1>5, <1>6, <1>9 DEF TypeOK
  <1>11. Places'
    BY <1>1, <1>3, <1>5, <1>7 DEF Places, TypeOK, Reserved
  <1>12. Marks' /\ Scanned'
    BY <1>1, <1>3, <1>5, <1>7 DEF Marks, Scanned, Stray
  <1> QED BY <1>5, <1>6, <1>8, <1>9, <1>10, <1>11, <1>12 DEF IInv
\* The owner of a block writes to it: no free block is touched.
LEMMA WriteIInv ==
  ASSUME IInv, NEW b \in Pages, NEW n \in WriteSizes, Write(b, n)
  PROVE  IInv'
  <1>1. TypeOK /\ Places /\ Distinct /\ ListWear /\ UnusedFresh /\ Marks /\ Scanned /\ FreeCount
    BY DEF IInv
  <1>2. /\ mode' = mode /\ scan' = scan /\ boots' = boots /\ low' = low /\ high' = high
        /\ linked' = linked /\ owned' = owned /\ using' = using /\ bins' = bins
        /\ nfree' = nfree /\ b \in owned /\ wear' = Touch(b, n, {})
        /\ spoilt' = spoilt \cup CountersIn(b)
    BY DEF Write, bootVars, listVars
  <1>3. wear' \in [Pages -> Nat] /\ \A p \in Pages \ {b} : wear'[p] = wear[p]
    BY <1>1, <1>2 DEF TypeOK, Touch
  <1>4. Unused' = Unused /\ Listed' = Listed /\ FreeCount'
    BY <1>1, <1>2 DEF Unused, Listed, InBin, FreeCount, Free, Available
  <1>5. ListWear'
    <2>1. \A j \in Bins : \A k \in 1 .. Len(bins[j]) : bins[j][k] \in Pages \ {b}
      BY <1>1, <1>2, InBinPages DEF Places, Listed
    <2> QED BY <1>1, <1>2, <1>3, <2>1 DEF ListWear, Told, Place
  <1>6. UnusedFresh'
    <2>1. \A p \in Unused : p \in Pages \ {b}
      BY <1>1, <1>2, FreeFinite DEF Places
    <2> QED BY <1>1, <1>3, <1>4, <2>1 DEF UnusedFresh
  <1>7. TypeOK' /\ Distinct'
    BY <1>1, <1>2, <1>3 DEF TypeOK, Distinct, CountersIn
  <1>8. Places' /\ Marks' /\ Scanned'
    BY <1>1, <1>2, <1>4 DEF Places, Marks, Scanned, Stray, Reserved
  <1> QED BY <1>4, <1>5, <1>6, <1>7, <1>8 DEF IInv

\* Persistent references come and go.
LEMMA LinkIInv ==
  ASSUME IInv, NEW b \in Pages, Link(b) \/ Unlink(b)
  PROVE  IInv'
  <1>1. TypeOK /\ Places /\ Distinct /\ ListWear /\ UnusedFresh /\ Marks /\ Scanned /\ FreeCount
    BY DEF IInv
  <1>2. /\ mode \in {"up", "bare"} /\ mode' = mode /\ scan' = scan /\ boots' = boots /\ low' = low
        /\ high' = high /\ owned' = owned /\ using' = using /\ bins' = bins /\ nfree' = nfree
        /\ wear' = wear /\ spoilt' = spoilt
        /\ \/ linked' = linked \cup {b} /\ b \in owned
           \/ linked' = linked \ {b} /\ b \notin Reserved
    BY DEF Link, Unlink, Running, bootVars, listVars, wearVars
  <1>3. Unused' = Unused /\ Listed' = Listed /\ FreeCount'
    BY <1>1, <1>2 DEF Unused, Listed, InBin, FreeCount, Free, Available
  <1>4. TypeOK' /\ Distinct' /\ ListWear' /\ UnusedFresh'
    BY <1>1, <1>2, <1>3 DEF TypeOK, Distinct, ListWear, Told, Place, UnusedFresh
  <1>5. Places'
    BY <1>1, <1>2, <1>3 DEF Places, Reserved
  <1>6. Marks' /\ Scanned'
    BY <1>1, <1>2, <1>3 DEF Marks, Scanned, Stray
  <1> QED BY <1>3, <1>4, <1>5, <1>6 DEF IInv

\* A power failure or an unmount, and the start of the next mount.
LEMMA RestartIInv ==
  ASSUME IInv, Crash \/ Remount
  PROVE  IInv'
  <1>1. TypeOK /\ Places
    BY DEF IInv
  <1>2. PICK marks : /\ marks \subseteq Pages /\ \A b \in marks : ~(b < NumBlocks)
                     /\ Restart(marks)
    <2>1. CASE Crash
      BY <2>1 DEF Crash
    <2>2. CASE Remount
      <3>1. Restart(using \ (0 .. NumBlocks - 1))
        BY <2>2 DEF Remount
      <3>2. \A b \in using \ (0 .. NumBlocks - 1) : ~(b < NumBlocks)
        BY <1>1, BitmapLong DEF TypeOK, Pages
      <3> QED BY <1>1, <3>1, <3>2 DEF TypeOK
    <2> QED BY <2>1, <2>2
  <1>3. /\ boots' \in 0 .. MaxBoot /\ low' = 0 /\ high' = 0 /\ nfree' = 0
        /\ bins' = [i \in Bins |-> <<>>] /\ owned' = linked
        /\ using' = marks \cup Reserved \cup ({StraySlot} \cap Pages) /\ boots' # 0
        /\ mode' = "recover" /\ scan' = 0 /\ wear' = wear /\ spoilt' = spoilt /\ linked' = linked
    BY <1>1, <1>2 DEF Restart, Forget, wearVars, TypeOK
  <1>4. \A i \in Bins : bins'[i] = <<>> /\ Len(bins'[i]) = 0
    BY <1>3
  <1>5. Listed' = {} /\ Unused' = {}
    BY <1>3, <1>4 DEF Listed, InBin, Unused
  <1>6. FreeCount'
    <2>1. Free' = {}
      BY <1>5 DEF Free, Available, Listed, Bins, WornBin
    <2> QED BY <1>3, <2>1, FS_EmptySet DEF FreeCount
  <1>7. TypeOK'
    <2>1. Reserved \subseteq Pages
      BY BitmapLong DEF Reserved, Pages
    <2>2. bins' \in [Bins -> Seq(Pages)]
      BY <1>3
    <2> QED BY <1>1, <1>2, <1>3, <2>1, <2>2, BitmapLong DEF TypeOK
  <1>8. Distinct' /\ ListWear' /\ UnusedFresh'
    BY <1>4, <1>5 DEF Distinct, ListWear, UnusedFresh
  <1>9. Places'
    BY <1>1, <1>3, <1>5 DEF Places, Reserved
  <1>10. Marks' /\ Scanned'
    BY <1>1, <1>2, <1>3, <1>5 DEF Marks, Scanned, Stray, Reserved, Places
  <1> QED BY <1>6, <1>7, <1>8, <1>9, <1>10 DEF IInv

\* After wild writes nothing is left to speak of.
LEMMA CorruptIInv ==
  ASSUME IInv, Corrupt
  PROVE  IInv'
  <1>1. TypeOK /\ Places
    BY DEF IInv
  <1>2. /\ boots' = boots /\ low' = 0 /\ high' = 0 /\ nfree' = 0
        /\ bins' = [i \in Bins |-> <<>>] /\ using' = using /\ owned' = linked
        /\ mode' = "corrupt" /\ scan' = 0 /\ wear' = wear /\ spoilt' = spoilt /\ linked' = linked
    BY DEF Corrupt, Forget, wearVars
  <1>3. \A i \in Bins : bins'[i] = <<>> /\ Len(bins'[i]) = 0
    BY <1>2
  <1>4. Listed' = {} /\ Unused' = {}
    BY <1>2, <1>3 DEF Listed, InBin, Unused
  <1>5. FreeCount'
    <2>1. Free' = {}
      BY <1>4 DEF Free, Available, Listed, Bins, WornBin
    <2> QED BY <1>2, <2>1, FS_EmptySet DEF FreeCount
  <1>6. TypeOK'
    <2>1. bins' \in [Bins -> Seq(Pages)]
      BY <1>2
    <2> QED BY <1>1, <1>2, <2>1, BitmapLong DEF TypeOK
  <1>7. Distinct' /\ ListWear' /\ UnusedFresh'
    BY <1>3, <1>4 DEF Distinct, ListWear, UnusedFresh
  <1>8. Places'
    BY <1>1, <1>2, <1>4 DEF Places, Reserved
  <1>9. Marks' /\ Scanned'
    BY <1>2 DEF Marks, Scanned
  <1> QED BY <1>5, <1>6, <1>7, <1>8, <1>9 DEF IInv

\* The truncate list gives back a block before the lists are rebuilt.
LEMMA RecoverFreeIInv ==
  ASSUME IInv, NEW b \in Pages, RecoverFree(b)
  PROVE  IInv'
  <1>1. TypeOK /\ Places /\ Marks
    BY DEF IInv
  <1>2. /\ mode = "recover" /\ mode' = "recover" /\ scan' = scan /\ boots' = boots
        /\ low' = low /\ high' = high /\ linked' = linked \ {b} /\ owned' = owned \ {b}
        /\ free_block(b) /\ b \in linked /\ b \notin Reserved
    BY DEF RecoverFree, bootVars
  <1>3. b \notin Listed \cup Unused
    BY <1>1, <1>2 DEF Places
  <1>4. /\ bins' \in [Bins -> Seq(Pages)] /\ wear' \in [Pages -> Nat]
        /\ nfree' \in Nat /\ using' = using \cup {b} /\ using' \subseteq Pages
        /\ spoilt' \subseteq Pages
        /\ Distinct' /\ ListWear' /\ FreeCount' /\ UnusedFresh'
        /\ Listed' = Listed \cup {b} /\ Unused' = Unused
    BY <1>2, <1>3, FreeBlockStep
  <1>5. TypeOK'
    BY <1>1, <1>2, <1>4 DEF TypeOK
  <1>6. Places'
    BY <1>1, <1>2, <1>4 DEF Places, Reserved
  <1>7. Marks' /\ Scanned'
    BY <1>1, <1>2, <1>4 DEF Marks, Scanned, Stray, Reserved
  <1> QED BY <1>4, <1>5, <1>6, <1>7 DEF IInv

\* The scan of the bitmap begins and ends.
LEMMA ScanEndsIInv ==
  ASSUME IInv, StartScan \/ SkipRebuild \/ ScanDone
  PROVE  IInv'
  <1>1. TypeOK /\ Places /\ Distinct /\ ListWear /\ UnusedFresh /\ Marks /\ Scanned /\ FreeCount
    BY DEF IInv
  <1>2. /\ mode \in {"recover", "scan"} /\ bins' = bins /\ wear' = wear /\ spoilt' = spoilt /\ using' = using /\ owned' = owned
        /\ linked' = linked /\ boots' = boots /\ nfree' = nfree /\ low' = high'
        /\ low' \in 0 .. NumBlocks /\ high' \in 0 .. NumBlocks
    BY <1>1 DEF StartScan, SkipRebuild, ScanDone, listVars, wearVars, TypeOK, Marks
  <1>3. \/ mode' = "scan" /\ scan' = 1
        \/ mode' = "bare" /\ scan' = scan
        \/ mode' = "up" /\ scan' = scan /\ mode = "scan" /\ scan >= BitmapBits
    BY DEF StartScan, SkipRebuild, ScanDone
  <1>4. Unused' = {} /\ Unused = {} /\ Listed' = Listed
    <2>1. low = high /\ low \in Int /\ low' \in Int
      BY <1>1, <1>2 DEF Marks, TypeOK
    <2>2. Unused' = {} /\ Unused = {}
      <3>1. \A x \in Int : x .. x - 1 = {}
        OBVIOUS
      <3>2. Unused = low .. low - 1 /\ Unused' = low' .. low' - 1
        BY <1>2, <2>1 DEF Unused
      <3> QED BY <2>1, <3>1, <3>2
    <2>3. Listed' = Listed
      BY <1>2 DEF Listed, InBin
    <2> QED BY <2>2, <2>3
  <1>5. FreeCount'
    BY <1>1, <1>2, <1>4 DEF FreeCount, Free, Available, InBin
  <1>6. TypeOK'
    BY <1>1, <1>2, <1>3, BitmapLong DEF TypeOK
  <1>7. Distinct' /\ ListWear' /\ UnusedFresh'
    BY <1>1, <1>2, <1>4 DEF Distinct, ListWear, Told, Place, UnusedFresh
  <1>8. Places' /\ Marks'
    BY <1>1, <1>2, <1>3, <1>4 DEF Places, Marks, Stray, Reserved, TypeOK
  <1>9. Scanned'
    <2>1. 0 \in owned
      BY <1>1 DEF Places, Reserved
    <2>2. mode' = "scan" => \A b \in 0 .. NumBlocks - 1 : b < scan' => b \in Listed \cup owned \cup Stray
      BY <1>1, <1>3, <2>1 DEF Scanned
    <2>3. mode' = "up" => \A b \in 0 .. NumBlocks - 1 : b \in Listed \cup owned \cup Stray
      BY <1>1, <1>3, BitmapLong DEF Scanned, TypeOK
    <2> QED BY <1>2, <1>4, <2>2, <2>3 DEF Scanned, Stray
  <1> QED BY <1>5, <1>6, <1>7, <1>8, <1>9 DEF IInv

\* wpmfs_try_free_blocks: a bit that is clear belongs to a block nobody has.
LEMMA ScanBitIInv ==
  ASSUME IInv, ScanBit
  PROVE  IInv'
  <1>1. TypeOK /\ Places /\ Distinct /\ ListWear /\ UnusedFresh /\ Marks /\ Scanned /\ FreeCount
    BY DEF IInv
  <1>2. /\ mode = "scan" /\ mode' = "scan" /\ boots' = boots /\ low' = low /\ high' = high
        /\ linked' = linked /\ owned' = owned /\ scan < BitmapBits /\ scan' = scan + 1
    BY DEF ScanBit
  <1>3. scan \in Pages /\ scan' \in 0 .. BitmapBits
    BY <1>1, <1>2, BitmapLong DEF TypeOK, Pages
  <1>4. CASE scan \notin Bitmap \cup using
    <2>1. free_block(scan)
      BY <1>4 DEF ScanBit
    <2>2. scan \notin Listed \cup Unused \cup owned
      BY <1>1, <1>2, <1>3, <1>4 DEF Marks, Bitmap, Unused, TypeOK
    <2>3. /\ bins' \in [Bins -> Seq(Pages)] /\ wear' \in [Pages -> Nat]
          /\ nfree' \in Nat /\ using' = using \cup {scan} /\ using' \subseteq Pages
          /\ spoilt' \subseteq Pages
          /\ Distinct' /\ ListWear' /\ FreeCount' /\ UnusedFresh'
          /\ Listed' = Listed \cup {scan} /\ Unused' = Unused
      <3>1. PICK b \in Pages : b = scan
        BY <1>3
      <3> QED BY <1>2, <2>1, <2>2, <3>1, FreeBlockStep
    <2>4. TypeOK'
      BY <1>1, <1>2, <1>3, <2>3 DEF TypeOK
    <2>5. Places' /\ Marks'
      BY <1>1, <1>2, <2>2, <2>3 DEF Places, Marks, Stray, Reserved
    <2>6. Scanned'
      BY <1>1, <1>2, <1>3, <2>3 DEF Scanned, Stray, TypeOK
    <2> QED BY <2>3, <2>4, <2>5, <2>6 DEF IInv
  <1>5. CASE scan \in Bitmap \cup using
    <2>1. bins' = bins /\ nfree' = nfree /\ wear' = wear /\ spoilt' = spoilt /\ using' = using
      BY <1>5 DEF ScanBit, wearVars
    <2>2. scan < NumBlocks => scan \in Listed \cup owned \cup Stray
      BY <1>1, <1>2, <1>5 DEF Marks, Bitmap
    <2>3. Unused' = Unused /\ Listed' = Listed /\ FreeCount'
      BY <1>1, <1>2, <2>1 DEF Unused, Listed, InBin, FreeCount, Free, Available
    <2>4. TypeOK' /\ Distinct' /\ ListWear' /\ UnusedFresh'
      BY <1>1, <1>2, <1>3, <2>1, <2>3 DEF TypeOK, Distinct, ListWear, Told, Place, UnusedFresh
    <2>5. Places' /\ Marks'
      BY <1>1, <1>2, <2>1, <2>3 DEF Places, Marks, Stray, Reserved
    <2>6. Scanned'
      BY <1>1, <1>2, <1>3, <2>2, <2>3 DEF Scanned, Stray, TypeOK
    <2> QED BY <2>3, <2>4, <2>5, <2>6 DEF IInv
  <1> QED BY <1>4, <1>5
\* After mkfs.
LEMMA InitIInv == Init => IInv
  <1> SUFFICES ASSUME Init PROVE IInv
    OBVIOUS
  <1>1. \A i \in Bins : bins[i] = <<>> /\ Len(bins[i]) = 0
    BY DEF Init
  <1>2. Listed = {} /\ Unused = NumReserved .. NumBlocks - 1
    BY <1>1 DEF Init, Listed, InBin, Unused
  <1>3. TypeOK
    <2>1. Reserved \subseteq Pages /\ MapPages .. NumReserved - 1 \subseteq Pages
      BY BitmapLong DEF Reserved, Pages
    <2>2. bins \in [Bins -> Seq(Pages)]
      BY DEF Init
    <2> QED BY <2>1, <2>2, BitmapLong DEF Init, TypeOK, Uncounted
  <1>4. Distinct /\ ListWear
    BY <1>1 DEF Distinct, ListWear
  <1>5. UnusedFresh
    BY <1>2, BitmapLong DEF UnusedFresh, Init, Pages
  <1>6. Places /\ Marks /\ Scanned
    BY <1>2 DEF Places, Marks, Scanned, Stray, Init, Reserved
  <1>7. FreeCount
    <2>1. Free = NumReserved .. NumBlocks - 1
      BY <1>2, FreeIsListed
    <2>2. Cardinality(NumReserved .. NumBlocks - 1) = NumBlocks - NumReserved
      BY FS_Interval
    <2> QED BY <2>1, <2>2 DEF FreeCount, Init
  <1> QED BY <1>3, <1>4, <1>5, <1>6, <1>7 DEF IInv

\* Every step keeps the invariant.
LEMMA NextIInv == IInv /\ [Next]_vars => IInv'
  <1> SUFFICES ASSUME IInv, [Next]_vars PROVE IInv'
    OBVIOUS
  <1>1. CASE Use
    BY <1>1, NewUnusedIInv, NewFromBinIInv, FreeBlockIInv, LinkIInv, WriteIInv DEF Use
  <1>2. CASE Crash \/ Remount \/ Corrupt
    BY <1>2, RestartIInv, CorruptIInv
  <1>3. CASE Mount
    BY <1>3, RecoverFreeIInv, ScanEndsIInv, ScanBitIInv DEF Mount
  <1>4. CASE UNCHANGED vars
    BY <1>4 DEF vars, IInv, TypeOK, Distinct, ListWear, Told, Place, Places, UnusedFresh, Marks,
                Scanned, Stray, FreeCount, Listed, InBin, Unused, Free, Available
  <1> QED BY <1>1, <1>2, <1>3, <1>4 DEF Next

\* The invariant holds in every reachable state.
THEOREM Invariance == Spec => []IInv
  BY InitIInv, NextIInv, PTL DEF Spec

-----------------------------------------------------------------------------
(* What follows.                                                           *)

\* The state keeps its shape: lists hold pages, the counters stay natural
\* numbers, the scan never leaves the bitmap.
THEOREM TypeCorrect == Spec => []TypeOK
  <1>1. IInv => TypeOK
    BY DEF IInv
  <1> QED BY <1>1, Invariance, PTL

\* No block is listed twice, or listed and unused, or free while in use.
THEOREM BlockHasOneOwner == Spec => []OneOwner
  <1>1. IInv => OneOwner
    <2> SUFFICES ASSUME IInv PROVE OneOwner
      OBVIOUS
    <2>1. Distinct /\ Places
      BY DEF IInv
    <2>2. \A i \in Bins : InBin(i) \cap Unused = {}
      BY <2>1 DEF Places, Listed
    <2>3. Free \cap owned = {}
      BY <2>1, FreeIsListed DEF Places
    <2> QED BY <2>1, <2>2, <2>3 DEF OneOwner, Distinct
  <1> QED BY <1>1, Invariance, PTL

\* num_free_blocks is the number of free blocks, in every reachable state.
THEOREM CountExact == Spec => []FreeCount
  <1>1. IInv => FreeCount
    BY DEF IInv
  <1> QED BY <1>1, Invariance, PTL

\* A mounted volume has lost none of its blocks, whatever crashes preceded.
THEOREM NoLeak == Spec => []NothingLost
  <1>1. IInv => NothingLost
    BY FreeIsListed DEF IInv, Scanned, NothingLost
  <1> QED BY <1>1, Invariance, PTL

\* The index of a list tells the wear of its blocks up to the writes of the lists.
THEOREM ListTellsWear == Spec => []BinAccuracy
  <1>1. IInv => BinAccuracy
    <2> SUFFICES ASSUME IInv, NEW i \in Bins, NEW k \in 1 .. Len(bins[i]), bins[i][k] \notin spoilt
                 PROVE  /\ i * Thres + NodeSize <= wear[bins[i][k]]
                        /\ i # WornBin => wear[bins[i][k]] < (i + 1) * Thres + ListWrites
      BY DEF BinAccuracy, InBin
    <2>1. /\ i * Thres + NodeSize <= wear[bins[i][k]]
          /\ i # WornBin => wear[bins[i][k]] < (i + 1) * Thres + Place(i, k)
      BY DEF IInv, ListWear, Told
    <2>2. Place(i, k) \in Nat /\ Place(i, k) <= ListWrites /\ ListWrites \in Nat
      BY DEF Place, ListWrites, NodeSize
    <2>3. wear[bins[i][k]] \in Nat
      BY InBinPages DEF IInv, TypeOK
    <2>4. (i + 1) * Thres \in Nat
      BY DEF Bins
    <2> QED BY <2>1, <2>2, <2>3, <2>4
  <1> QED BY <1>1, Invariance, PTL
-----------------------------------------------------------------------------
(* What a step does to the owners.                                         *)

\* A block is newly owned only if it was unused or the
\* oldest entry of the first list that has one.
LEMMA NewOwner ==
  ASSUME IInv, [Next]_vars, NEW b \in owned' \ owned
  PROVE  \/ b \in Unused
         \/ \E i \in Bins : low = high /\ FromBin(i) /\ b \in InBin(i)
  <1>1. ASSUME NEW z \in {0, PageSize}, NewUnused(z) PROVE b \in Unused
    <2>1. b = low /\ low # high
      BY <1>1 DEF NewUnused
    <2> QED BY <2>1 DEF IInv, TypeOK, Places, Unused
  <1>2. ASSUME NEW i \in Bins, NEW z \in {0, PageSize}, NewFromBin(i, z)
        PROVE  low = high /\ FromBin(i) /\ b \in InBin(i)
    <2>1. FromBin(i) /\ low = high /\ bins[i] # <<>> /\ b = Head(bins[i])
      BY <1>2 DEF NewFromBin, FromBin
    <2>2. bins[i] \in Seq(Pages)
      BY InBinPages DEF IInv
    <2>3. b = bins[i][1] /\ 1 \in 1 .. Len(bins[i])
      BY <2>1, <2>2
    <2> QED BY <2>1, <2>3 DEF InBin
  <1>3. \/ owned' \subseteq owned
        \/ \E z \in {0, PageSize} : NewUnused(z) \/ \E i \in Bins : NewFromBin(i, z)
    <2>1. IInv => linked \subseteq owned
      BY DEF IInv, Places
    <2> QED BY <2>1 DEF Next, Use, Mount, FreeBlock, Link, Unlink, Write, Crash, Remount, Restart,
               Corrupt, Forget, RecoverFree, StartScan, SkipRebuild, ScanBit, ScanDone, vars
  <1> QED BY <1>1, <1>2, <1>3

\* What FromBin finds is no more worn than any free block, but for one interval
\* and two pointers, and was not worn out but for the writes of the lists.
LEMMA FromBinWear ==
  ASSUME IInv, NEW i \in Bins, low = high, FromBin(i), NEW b \in InBin(i) \ spoilt
  PROVE  /\ wear[b] \in Nat /\ wear[b] < WornBin * Thres + ListWrites
         /\ \A c \in Free \ spoilt : wear[b] < wear[c] + Thres + 2
  <1>1. /\ i # WornBin /\ i < WornBin
        /\ \A j \in 0 .. i - 1 : bins[j] = <<>>
    BY DEF FromBin, Bins, WornBin
  <1>2. wear[b] \in Nat /\ wear[b] < (i + 1) * Thres + ListWrites
    <2>1. PICK k \in 1 .. Len(bins[i]) : b = bins[i][k]
      BY DEF InBin
    <2>2. wear[b] < (i + 1) * Thres + Place(i, k)
      BY <1>1, <2>1 DEF IInv, ListWear, Told
    <2>3. Place(i, k) \in Nat /\ Place(i, k) <= ListWrites
      BY DEF Place, ListWrites, NodeSize
    <2>4. wear[b] \in Nat
      BY InBinPages DEF IInv, TypeOK
    <2>5. (i + 1) * Thres \in Nat
      BY DEF Bins
    <2> QED BY <2>2, <2>3, <2>4, <2>5 DEF ListWrites, NodeSize
  <1>3. i \in Nat /\ WornBin \in Nat /\ i * Thres \in Nat /\ (i + 1) * Thres = i * Thres + Thres
    BY DEF Bins, WornBin
  <1>4. wear[b] < WornBin * Thres + ListWrites
    <2>1. (i + 1) * Thres <= WornBin * Thres
      BY <1>1, <1>3
    <2>2. (i + 1) * Thres \in Nat /\ WornBin * Thres \in Nat
      BY <1>3
    <2> QED BY <1>2, <2>1, <2>2 DEF ListWrites, NodeSize
  <1>5. ASSUME NEW c \in Free \ spoilt PROVE wear[b] < wear[c] + Thres + 2
    <2>1. c \in Listed
      BY FreeIsListed DEF Unused, IInv, TypeOK
    <2>2. PICK j \in Bins : \E k \in 1 .. Len(bins[j]) : c = bins[j][k]
      BY <2>1 DEF Listed, InBin
    <2>3. bins[j] # <<>>
      BY <2>2
    <2>4. j >= i /\ j \in Nat
      BY <1>1, <1>3, <2>3 DEF Bins
    <2>5. j * Thres + NodeSize <= wear[c] /\ wear[c] \in Nat
      BY <2>2, InBinPages DEF IInv, ListWear, Told, TypeOK
    <2>6. i * Thres <= j * Thres /\ j * Thres \in Nat
      BY <1>3, <2>4
    <2> QED BY <1>2, <1>3, <2>5, <2>6 DEF ListWrites, NodeSize
  <1> QED BY <1>2, <1>4, <1>5

\* wpmfs_new_block hands out the least worn free block, but for one interval
\* and two pointers written by the lists.
THEOREM LeastWornFirst == Spec => LeastWorn
  <1>1. IInv /\ [Next]_vars =>
          [\A b \in (owned' \ owned) \ spoilt : \A c \in Free \ spoilt :
             wear[b] < wear[c] + Thres + 2]_vars
    <2> SUFFICES ASSUME IInv, [Next]_vars, NEW b \in (owned' \ owned) \ spoilt,
                        NEW c \in Free \ spoilt
                 PROVE  wear[b] < wear[c] + Thres + 2
      OBVIOUS
    <2>1. c \in Pages /\ wear[c] \in Nat
      BY FreeFinite, FreeIsListed DEF IInv, TypeOK
    <2>2. CASE b \in Unused
      BY <2>1, <2>2 DEF IInv, UnusedFresh, ListWrites, NodeSize
    <2>3. CASE b \notin Unused
      BY <2>3, NewOwner, FromBinWear
    <2> QED BY <2>2, <2>3
  <1> QED BY <1>1, Invariance, PTL DEF Spec, LeastWorn

\* wpmfs_new_block never hands out a block that has used up its endurance.
THEOREM WornOutStayRetired == Spec => WornOutRetired
  <1>1. IInv /\ [Next]_vars =>
          [\A b \in (owned' \ owned) \ spoilt : wear[b] < WornBin * Thres + ListWrites]_vars
    <2> SUFFICES ASSUME IInv, [Next]_vars, NEW b \in (owned' \ owned) \ spoilt
                 PROVE  wear[b] < WornBin * Thres + ListWrites
      OBVIOUS
    <2>1. CASE b \in Unused
      <3>1. WornBin * Thres \in Nat
        BY DEF WornBin
      <3> QED BY <2>1, <3>1 DEF IInv, UnusedFresh, ListWrites, NodeSize
    <2>2. CASE b \notin Unused
      BY <2>2, NewOwner, FromBinWear
    <2> QED BY <2>1, <2>2
  <1> QED BY <1>1, Invariance, PTL DEF Spec, WornOutRetired
\* -ENOMEM is honest: the search stops at the first list with an entry, so it
\* finds one whenever a block that is not worn out is free.
THEOREM EnomemIsHonest == Spec => []EnomemOnlyWorn
  <1>1. IInv => EnomemOnlyWorn
    <2> SUFFICES ASSUME IInv, low = high, \A i \in Bins : ~FromBin(i), Available # {}
                 PROVE  FALSE
      BY DEF EnomemOnlyWorn, Enomem
    <2> DEFINE T == {i \in Bins : i < WornBin /\ bins[i] # <<>>}
    <2>1. Unused = {}
      BY DEF Unused, IInv, TypeOK
    <2>2. PICK b \in Available : TRUE
      OBVIOUS
    <2>3. PICK i \in Bins : i # WornBin /\ b \in InBin(i)
      BY <2>1, <2>2 DEF Available
    <2>4. i \in T
      BY <2>3 DEF InBin, Bins, WornBin
    <2>5. T \subseteq Nat
      BY DEF Bins
    <2>6. PICK x \in T : \A y \in T : ~(y < x)
      <3> HIDE DEF T
      <3>1. PICK x \in T : \A y \in T : ~(<<y, x>> \in OpToRel(<, Nat))
        BY <2>4, <2>5, NatLessThanWellFounded, WFMin, Zenon
      <3> QED BY <2>5, <3>1 DEF OpToRel
    <2>7. \A j \in 0 .. x - 1 : bins[j] = <<>>
      BY <2>6 DEF Bins, WornBin
    <2>8. nfree # 0
      <3>1. b \in Free /\ IsFiniteSet(Free)
        BY <2>2, FreeIsListed, FreeFinite DEF Free, IInv
      <3> QED BY <3>1, FS_EmptySet DEF IInv, FreeCount
    <2>9. FromBin(x)
      BY <2>6, <2>7, <2>8 DEF FromBin
    <2> QED BY <2>6, <2>9
  <1> QED BY <1>1, Invariance, PTL

-----------------------------------------------------------------------------
(* The allocator implements BlockPool.                                     *)

\* A freed block is available again, or retired.
LEMMA FreeBlockShelves ==
  ASSUME TypeOK, Distinct, NEW b \in Pages, b \notin Listed, free_block(b),
         low' = low, high' = high
  PROVE  Pool!Shelve(b)
  <1>1. PICK i \in Bins : \A j \in Bins :
               InBin(j)' = IF j = i THEN InBin(j) \cup {b} ELSE InBin(j)
    BY FreeBlockLists
  <1>2. \A j \in Bins : InBin(j)' = IF j = i THEN InBin(j) \cup {b} ELSE InBin(j)
    BY <1>1
  <1>3. Unused' = Unused /\ WornBin \in Bins
    BY DEF Unused, WornBin, Bins
  <1>4. Available' = Unused' \cup UNION {InBin(j)' : j \in Bins \ {WornBin}}
    BY DEF Available, WornBin
  <1>5. InBin(WornBin)' = IF i = WornBin THEN InBin(WornBin) \cup {b} ELSE InBin(WornBin)
    BY <1>2, <1>3
  <1>6. Available' = IF i = WornBin THEN Available ELSE Available \cup {b}
    BY <1>1, <1>2, <1>3, <1>4 DEF Available
  <1> QED BY <1>5, <1>6 DEF Pool!Shelve

\* Taking a block is one allocation of the pool.
LEMMA NewIsAlloc ==
  ASSUME IInv, NEW z \in {0, PageSize}, NewUnused(z) \/ \E i \in Bins : NewFromBin(i, z)
  PROVE  Pool!Alloc
  <1>1. CASE NewUnused(z)
    <2>1. /\ low' = low + 1 /\ high' = high /\ bins' = bins /\ low # high
          /\ owned' = owned \cup {low}
      BY <1>1 DEF NewUnused
    <2>2. Unused' = Unused \ {low} /\ low \in Unused
      BY <2>1 DEF IInv, TypeOK, Places, Unused
    <2>3. \A i \in Bins : InBin(i)' = InBin(i) /\ low \notin InBin(i)
      BY <2>1, <2>2 DEF InBin, IInv, Places, Listed
    <2>4. Available' = Unused' \cup UNION {InBin(j)' : j \in Bins \ {WornBin}}
      BY DEF Available, WornBin
    <2>5. Available' = Available \ {low} /\ low \in Available
      BY <2>2, <2>3, <2>4 DEF Available
    <2>6. InBin(WornBin)' = InBin(WornBin)
      BY <2>3 DEF Bins, WornBin
    <2> QED BY <2>1, <2>5, <2>6 DEF Pool!Alloc
  <1>2. ASSUME NEW i \in Bins, NewFromBin(i, z) PROVE Pool!Alloc
    <2>1. PICK b : b = Head(bins[i])
      OBVIOUS
    <2>2. /\ low' = low /\ high' = high /\ owned' = owned \cup {b} /\ i # WornBin
          /\ bins[i] # <<>> /\ bins' = [bins EXCEPT ![i] = Tail(bins[i])]
      BY <1>2, <2>1 DEF NewFromBin, FromBin, Bins, WornBin
    <2>3. b \in InBin(i) /\ \A j \in Bins : InBin(j)' = InBin(j) \ {b}
      BY <2>1, <2>2, TakeLists DEF IInv
    <2>4. b \notin InBin(WornBin) /\ b \notin Unused
      BY <2>2, <2>3 DEF IInv, Places, Listed, Distinct, InBin, Bins, WornBin
    <2>5. Unused' = Unused
      BY <2>2 DEF Unused
    <2>6. Available' = Unused' \cup UNION {InBin(j)' : j \in Bins \ {WornBin}}
      BY DEF Available, WornBin
    <2>7. Available' = Available \ {b} /\ b \in Available
      BY <2>2, <2>3, <2>4, <2>5, <2>6 DEF Available
    <2>8. InBin(WornBin)' = InBin(WornBin)
      BY <2>3, <2>4 DEF Bins, WornBin
    <2> QED BY <2>2, <2>7, <2>8 DEF Pool!Alloc
  <1> QED BY <1>1, <1>2

\* A block is freed by its owner.
LEMMA FreeIsRelease ==
  ASSUME IInv, NEW b \in Pages, FreeBlock(b) \/ RecoverFree(b)
  PROVE  Pool!Release
  <1>1. /\ free_block(b) /\ low' = low /\ high' = high /\ b \in owned /\ owned' = owned \ {b}
    BY DEF FreeBlock, RecoverFree, IInv, Places
  <1>2. b \notin Listed
    BY <1>1 DEF IInv, Places
  <1>3. Pool!Shelve(b)
    BY <1>1, <1>2, FreeBlockShelves DEF IInv
  <1> QED BY <1>1, <1>3 DEF Pool!Release

\* Every step is a step of the pool, or leaves it alone.
LEMMA StepOfPool == IInv /\ [Next]_vars => [Pool!Next]_(Pool!poolVars)
  <1> SUFFICES ASSUME IInv, [Next]_vars PROVE Pool!Next \/ UNCHANGED Pool!poolVars
    BY DEF Pool!poolVars
  <1>1. ASSUME UNCHANGED <<low, high, bins, owned>> PROVE UNCHANGED Pool!poolVars
    BY <1>1 DEF Pool!poolVars, Available, Unused, InBin
  <1>2. CASE Use
    <2>1. ASSUME NEW b \in Pages, Link(b) \/ Unlink(b) \/ \E n \in WriteSizes : Write(b, n)
          PROVE  UNCHANGED Pool!poolVars
      BY <1>1, <2>1 DEF Link, Unlink, Write, listVars
    <2> QED BY <1>2, <2>1, NewIsAlloc, FreeIsRelease DEF Use, Pool!Next
  <1>3. CASE Crash \/ Remount \/ Corrupt
    <2>1. /\ low' = 0 /\ high' = 0 /\ bins' = [i \in Bins |-> <<>>] /\ owned' = linked
      BY <1>3 DEF Crash, Remount, Restart, Corrupt, Forget
    <2>2. \A i \in Bins : bins'[i] = <<>> /\ Len(bins'[i]) = 0
      BY <2>1
    <2>3. \A i \in Bins : InBin(i)' = {}
      BY <2>2 DEF InBin
    <2>4. Available' = {} /\ InBin(WornBin)' = {}
      BY <2>1, <2>3 DEF Available, Unused, Bins, WornBin
    <2>5. owned' \subseteq owned
      BY <2>1 DEF IInv, Places
    <2> QED BY <2>4, <2>5 DEF Pool!Next, Pool!Restart
  <1>4. ASSUME NEW b \in Pages, RecoverFree(b) PROVE Pool!Next
    BY <1>4, FreeIsRelease DEF Pool!Next
  <1>5. CASE StartScan
    <2>1. /\ low' = high' /\ low = high /\ low \in Int /\ low' \in Int
          /\ bins' = bins /\ owned' = owned
      BY <1>5 DEF StartScan, IInv, TypeOK, Marks
    <2>2. Unused' = {} /\ Unused = {}
      <3>1. \A x \in Int : x .. x - 1 = {}
        OBVIOUS
      <3>2. Unused = low .. low - 1 /\ Unused' = low' .. low' - 1
        BY <2>1 DEF Unused
      <3> QED BY <2>1, <3>1, <3>2
    <2> QED BY <2>1, <2>2 DEF Pool!poolVars, Available, InBin
  <1>6. CASE ScanBit
    <2>1. CASE scan \in Bitmap \cup using
      BY <1>1, <1>6, <2>1 DEF ScanBit
    <2>2. CASE scan \notin Bitmap \cup using
      <3>1. /\ free_block(scan) /\ low' = low /\ high' = high /\ owned' = owned
            /\ mode = "scan" /\ scan < BitmapBits
        BY <1>6, <2>2 DEF ScanBit
      <3>2. PICK b \in Pages : b = scan
        BY <3>1, BitmapLong DEF IInv, TypeOK, Pages
      <3>3. b \notin Listed \cup Unused \cup owned
        BY <2>2, <3>1, <3>2 DEF IInv, Marks, Bitmap, Unused, TypeOK
      <3>4. Pool!Shelve(b)
        BY <3>1, <3>2, <3>3, FreeBlockShelves DEF IInv
      <3>5. b \notin owned \cup Available \cup InBin(WornBin)
        BY <3>3, FreeIsListed DEF Free
      <3> QED BY <3>1, <3>4, <3>5 DEF Pool!Next, Pool!Reclaim
    <2> QED BY <2>1, <2>2
  <1>7. CASE SkipRebuild \/ ScanDone
    BY <1>1, <1>7 DEF SkipRebuild, ScanDone, listVars
  <1>8. CASE UNCHANGED vars
    BY <1>1, <1>8 DEF vars
  <1> QED BY <1>2, <1>3, <1>4, <1>5, <1>6, <1>7, <1>8 DEF Next, Mount

\* The allocator, with its crashes and rebuilds, implements the block pool.
THEOREM Implementation == Spec => ImplementsPool
  <1>1. Init => Pool!Init
    <2> SUFFICES ASSUME Init PROVE Pool!Init
      OBVIOUS
    <2>1. \A i \in Bins : InBin(i) = {}
      BY DEF Init, InBin
    <2>2. Available = NumReserved .. NumBlocks - 1 /\ InBin(WornBin) = {} /\ owned = Reserved
      BY <2>1 DEF Init, Available, Unused, Bins, WornBin
    <2> QED BY <2>2, BitmapLong DEF Pool!Init, Reserved, Pages
  <1> QED BY <1>1, Invariance, StepOfPool, PTL DEF Spec, ImplementsPool, Pool!Spec
=============================================================================
