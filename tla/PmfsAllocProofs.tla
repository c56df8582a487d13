-------------------------- MODULE PmfsAllocProofs --------------------------
(***************************************************************************)
(* Proofs about PmfsAlloc, for every size of the volume and of the area in *)
(* front of it: the list of ranges is exactly the blocks in use, its       *)
(* counters are exact, and the allocator implements BlockPool.             *)
(***************************************************************************)
EXTENDS PmfsAlloc, TLAPS, FiniteSetTheorems

-----------------------------------------------------------------------------
(* What editing a list does to each of its indices.                        *)

\* The length of a concatenation.
LEMMA ConcatLen ==
  ASSUME NEW S, NEW a \in Seq(S), NEW b \in Seq(S)
  PROVE  a \o b \in Seq(S) /\ Len(a \o b) = Len(a) + Len(b)
  OBVIOUS

\* What InsertAt does to each index.
LEMMA InsertAtIndex ==
  ASSUME NEW S, NEW s \in Seq(S), NEW i \in 1 .. Len(s) + 1, NEW e \in S
  PROVE  LET t == InsertAt(s, i, e) IN
         /\ t \in Seq(S) /\ Len(t) = Len(s) + 1
         /\ t[i] = e
         /\ \A k \in 1 .. i - 1 : t[k] = s[k]
         /\ \A k \in i .. Len(s) : t[k + 1] = s[k]
  <1> DEFINE a == SubSeq(s, 1, i - 1)
             b == SubSeq(s, i, Len(s))
  <1>1. a \in Seq(S) /\ Len(a) = i - 1 /\ \A k \in 1 .. i - 1 : a[k] = s[k]
    OBVIOUS
  <1>2. b \in Seq(S) /\ Len(b) = Len(s) - i + 1 /\ \A k \in 1 .. Len(s) - i + 1 : b[k] = s[i + k - 1]
    OBVIOUS
  <1>3. <<e>> \in Seq(S) /\ Len(<<e>>) = 1 /\ <<e>>[1] = e
    OBVIOUS
  <1> HIDE DEF a, b
  <1> DEFINE c == a \o <<e>>
  <1>4. c \in Seq(S) /\ Len(c) = i /\ c[i] = e /\ \A k \in 1 .. i - 1 : c[k] = s[k]
    BY <1>1, <1>3
  <1> HIDE DEF c
  <1>5. c \o b \in Seq(S) /\ Len(c \o b) = Len(s) + 1
    <2>1. c \o b \in Seq(S) /\ Len(c \o b) = Len(c) + Len(b)
      BY <1>2, <1>4, ConcatLen, Zenon
    <2>2. Len(s) \in Nat
      OBVIOUS
    <2> QED BY <1>2, <1>4, <2>1, <2>2
  <1>6. \A k \in 1 .. i : (c \o b)[k] = c[k]
    BY <1>2, <1>4
  <1>7. \A k \in i .. Len(s) : (c \o b)[k + 1] = s[k]
    <2> TAKE k \in i .. Len(s)
    <2>1. (c \o b)[k + 1] = b[k + 1 - i]
      BY <1>2, <1>4
    <2>2. b[k + 1 - i] = s[i + (k + 1 - i) - 1]
      BY <1>2
    <2> QED BY <2>1, <2>2
  <1>8. InsertAt(s, i, e) = c \o b
    BY DEF InsertAt, a, b, c
  <1> QED BY <1>4, <1>5, <1>6, <1>7, <1>8

\* What RemoveAt does to each index.
LEMMA RemoveAtIndex ==
  ASSUME NEW S, NEW s \in Seq(S), NEW i \in 1 .. Len(s)
  PROVE  LET t == RemoveAt(s, i) IN
         /\ t \in Seq(S) /\ Len(t) = Len(s) - 1
         /\ \A k \in 1 .. i - 1 : t[k] = s[k]
         /\ \A k \in i .. Len(s) - 1 : t[k] = s[k + 1]
  <1> DEFINE a == SubSeq(s, 1, i - 1)
             b == SubSeq(s, i + 1, Len(s))
  <1>1. a \in Seq(S) /\ Len(a) = i - 1 /\ \A k \in 1 .. i - 1 : a[k] = s[k]
    OBVIOUS
  <1>2. b \in Seq(S) /\ Len(b) = Len(s) - i /\ \A k \in 1 .. Len(s) - i : b[k] = s[i + k]
    OBVIOUS
  <1> HIDE DEF a, b
  <1>3. a \o b \in Seq(S) /\ Len(a \o b) = Len(s) - 1
    <2>1. a \o b \in Seq(S) /\ Len(a \o b) = Len(a) + Len(b)
      BY <1>1, <1>2, ConcatLen, Zenon
    <2>2. Len(s) \in Nat
      OBVIOUS
    <2> QED BY <1>1, <1>2, <2>1, <2>2
  <1>4. \A k \in 1 .. i - 1 : (a \o b)[k] = s[k]
    BY <1>1, <1>2
  <1>5. \A k \in i .. Len(s) - 1 : (a \o b)[k] = s[k + 1]
    <2> TAKE k \in i .. Len(s) - 1
    <2>1. (a \o b)[k] = b[k - (i - 1)]
      BY <1>1, <1>2
    <2>2. b[k - (i - 1)] = s[i + (k - (i - 1))]
      BY <1>2
    <2> QED BY <2>1, <2>2
  <1>6. RemoveAt(s, i) = a \o b
    BY DEF RemoveAt, a, b
  <1> QED BY <1>3, <1>4, <1>5, <1>6

-----------------------------------------------------------------------------
(* Lists of ranges.                                                        *)

NodeSet == [low : Nat, high : Nat]

\* Moving an end of one range.
LEMMA SetHigh ==
  ASSUME NEW s \in Seq(NodeSet), NEW i \in 1 .. Len(s), NEW v \in Nat
  PROVE  LET t == [s EXCEPT ![i].high = v] IN
         /\ t \in Seq(NodeSet) /\ Len(t) = Len(s)
         /\ t[i] = Node(s[i].low, v)
         /\ \A k \in 1 .. Len(s) : k # i => t[k] = s[k]
  <1>0. s[i] \in NodeSet
    OBVIOUS
  <1>1. s[i] \in NodeSet /\ s[i] = [low |-> s[i].low, high |-> s[i].high]
    BY <1>0 DEF NodeSet
  <1>2. [s[i] EXCEPT !.high = v] = Node(s[i].low, v) /\ Node(s[i].low, v) \in NodeSet
    BY <1>1 DEF NodeSet, Node
  <1> QED BY <1>1, <1>2

LEMMA SetLow ==
  ASSUME NEW s \in Seq(NodeSet), NEW i \in 1 .. Len(s), NEW v \in Nat
  PROVE  LET t == [s EXCEPT ![i].low = v] IN
         /\ t \in Seq(NodeSet) /\ Len(t) = Len(s)
         /\ t[i] = Node(v, s[i].high)
         /\ \A k \in 1 .. Len(s) : k # i => t[k] = s[k]
  <1>0. s[i] \in NodeSet
    OBVIOUS
  <1>1. s[i] \in NodeSet /\ s[i] = [low |-> s[i].low, high |-> s[i].high]
    BY <1>0 DEF NodeSet
  <1>2. [s[i] EXCEPT !.low = v] = Node(v, s[i].high) /\ Node(v, s[i].high) \in NodeSet
    BY <1>1 DEF NodeSet, Node
  <1> QED BY <1>1, <1>2

\* A block is covered by some node.
LEMMA CoveredMember ==
  ASSUME NEW s, NEW x
  PROVE  x \in CoveredBy(s) <=> \E k \in 1 .. Len(s) : x \in s[k].low .. s[k].high
  BY DEF CoveredBy

\* The cells of a list are ranges.
LEMMA NodeCells ==
  ASSUME NEW s \in Seq(NodeSet), NEW k \in 1 .. Len(s)
  PROVE  s[k].low \in Nat /\ s[k].high \in Nat
  <1>1. s[k] \in NodeSet
    OBVIOUS
  <1> QED BY <1>1 DEF NodeSet

\* Only blocks of the volume are covered.
LEMMA CoveredBlocks ==
  ASSUME NEW s \in Seq(NodeSet), Ascending(s)
  PROVE  CoveredBy(s) \subseteq Blocks
  <1> SUFFICES ASSUME NEW x \in CoveredBy(s) PROVE x \in Blocks
    OBVIOUS
  <1>1. PICK k \in 1 .. Len(s) : x \in s[k].low .. s[k].high
    BY CoveredMember
  <1>2. s[k].low \in Nat /\ s[k].high \in Nat
    BY NodeCells
  <1>3. s[k].high < BlockEnd
    BY DEF Ascending
  <1> QED BY <1>1, <1>2, <1>3, SizesAssumption DEF Blocks

\* A gap behind node i begins and ends between blocks in use.
LEMMA GapFree ==
  ASSUME nodes \in Seq(NodeSet), Ascending(nodes),
         NEW i \in 1 .. Len(nodes), NEW x \in Nat,
         nodes[i].high < x, x < GapEnd(i)
  PROVE  x \in Blocks \ Covered
  <1>1. \A k \in 1 .. Len(nodes) : nodes[k].low \in Nat /\ nodes[k].high \in Nat
    BY NodeCells
  <1>2. \A j, k \in 1 .. Len(nodes) : j < k => nodes[j].high + 1 < nodes[k].low
    BY DEF Ascending
  <1>3. \A k \in 1 .. Len(nodes) : nodes[k].low <= nodes[k].high /\ nodes[k].high < BlockEnd
    BY DEF Ascending
  <1>4. x < BlockEnd
    <2>1. CASE i = Len(nodes)
      BY <2>1 DEF GapEnd
    <2>2. CASE i # Len(nodes)
      <3>1. i + 1 \in 1 .. Len(nodes)
        BY <2>2
      <3>2. x < nodes[i + 1].low
        BY <2>2 DEF GapEnd
      <3> QED BY <1>1, <1>3, <3>1, <3>2, SizesAssumption
    <2> QED BY <2>1, <2>2
  <1>5. ASSUME NEW k \in 1 .. Len(nodes), x \in nodes[k].low .. nodes[k].high PROVE FALSE
    <2>1. nodes[k].low <= x /\ x <= nodes[k].high
      BY <1>5, <1>1
    <2>2. CASE k <= i
      <3>1. nodes[k].high <= nodes[i].high
        <4>1. CASE k = i
          BY <4>1, <1>1
        <4>2. CASE k < i
          BY <4>2, <1>1, <1>2, <1>3
        <4> QED BY <2>2, <4>1, <4>2
      <3> QED BY <1>1, <2>1, <3>1
    <2>3. CASE k > i
      <3>1. i + 1 \in 1 .. Len(nodes) /\ i # Len(nodes)
        BY <2>3
      <3>2. nodes[i + 1].low <= nodes[k].low
        <4>1. CASE k = i + 1
          BY <4>1, <1>1
        <4>2. CASE k > i + 1
          BY <4>2, <3>1, <1>1, <1>2, <1>3
        <4> QED BY <2>3, <4>1, <4>2
      <3>3. x < nodes[i + 1].low
        BY <3>1 DEF GapEnd
      <3> QED BY <1>1, <2>1, <3>1, <3>2, <3>3
    <2> QED BY <2>2, <2>3
  <1>6. x \notin Covered
    BY <1>5, CoveredMember DEF Covered
  <1> QED BY <1>4, <1>6, SizesAssumption DEF Blocks

\* A range that replaces node i, with the rest as it is, and covers lo to hi in addition.
LEMMA Extended ==
  ASSUME nodes \in Seq(NodeSet), Ascending(nodes),
         NEW i \in 1 .. Len(nodes), NEW lo \in Nat, NEW hi \in Nat, lo <= hi,
         NEW t \in Seq(NodeSet), Len(t) = Len(nodes),
         \A k \in 1 .. Len(nodes) : k # i => t[k] = nodes[k],
         \/ t[i] = Node(nodes[i].low, hi) /\ lo = nodes[i].high + 1
         \/ t[i] = Node(lo, nodes[i].high) /\ hi = nodes[i].low - 1
  PROVE  CoveredBy(t) = Covered \cup lo .. hi
  <1>1. nodes[i].low \in Nat /\ nodes[i].high \in Nat /\ nodes[i].low <= nodes[i].high
    BY NodeCells DEF Ascending
  <1>2. t[i].low .. t[i].high = (nodes[i].low .. nodes[i].high) \cup lo .. hi
    BY <1>1 DEF Node
  <1>3. ASSUME NEW x \in CoveredBy(t) PROVE x \in Covered \cup lo .. hi
    <2>1. PICK k \in 1 .. Len(t) : x \in t[k].low .. t[k].high
      BY <1>3, CoveredMember
    <2> QED BY <2>1, <1>2, CoveredMember DEF Covered
  <1>4. ASSUME NEW x \in Covered PROVE x \in CoveredBy(t)
    <2>1. PICK k \in 1 .. Len(nodes) : x \in nodes[k].low .. nodes[k].high
      BY <1>4, CoveredMember DEF Covered
    <2>2. x \in t[k].low .. t[k].high
      BY <2>1, <1>2
    <2> QED BY <2>2, CoveredMember
  <1>5. ASSUME NEW x \in lo .. hi PROVE x \in CoveredBy(t)
    BY <1>2, <1>5, CoveredMember
  <1> QED BY <1>3, <1>4, <1>5

\* The blocks of a gap come into use: the list stays in order and covers them in addition.
LEMMA OccupyExact ==
  ASSUME nodes \in Seq(NodeSet), Ascending(nodes),
         NEW i \in 1 .. Len(nodes), NEW lo \in Nat, NEW hi \in Nat,
         nodes[i].high < lo, lo <= hi, hi < GapEnd(i)
  PROVE  LET t == Occupy(i, lo, hi) IN
         /\ t \in Seq(NodeSet) /\ t # <<>> /\ Ascending(t)
         /\ CoveredBy(t) = Covered \cup lo .. hi
  <1> DEFINE N == Len(nodes)
  <1>1. \A k \in 1 .. N : nodes[k].low \in Nat /\ nodes[k].high \in Nat
    BY NodeCells
  <1>2. \A j, k \in 1 .. N : j < k => nodes[j].high + 1 < nodes[k].low
    BY DEF Ascending
  <1>3. \A k \in 1 .. N : nodes[k].low <= nodes[k].high /\ nodes[k].high < BlockEnd
    BY DEF Ascending
  <1>4. nodes[1].low = 0 /\ N \in Nat /\ N >= 1
    BY DEF Ascending
  <1>5. hi < BlockEnd /\ hi + 1 \in Nat
    <2>1. nodes[i].high < hi
      BY <1>1
    <2>2. hi \in Blocks
      BY <2>1, GapFree
    <2> QED BY <2>2, SizesAssumption DEF Blocks
  <1>6. i < N => i + 1 \in 1 .. N /\ GapEnd(i) = nodes[i + 1].low
    BY DEF GapEnd
  <1>7. ~ i < N => i = N /\ GapEnd(i) = BlockEnd
    BY DEF GapEnd
  <1>8. \A k \in 1 .. N : k > i => hi < nodes[k].low
    <2> SUFFICES ASSUME NEW k \in 1 .. N, k > i PROVE hi < nodes[k].low
      OBVIOUS
    <2>1. i < N
      OBVIOUS
    <2>2. CASE k = i + 1
      BY <2>1, <2>2, <1>6
    <2>3. CASE k > i + 1
      BY <2>1, <2>3, <1>6, <1>1, <1>2, <1>3
    <2> QED BY <2>2, <2>3
  <1>9. \A k \in 1 .. N : k < i => nodes[k].high + 1 < lo
    <2> SUFFICES ASSUME NEW k \in 1 .. N, k < i PROVE nodes[k].high + 1 < lo
      OBVIOUS
    <2>1. nodes[k].high + 1 < nodes[i].low /\ nodes[i].low <= nodes[i].high
      BY <1>2, <1>3
    <2>2. nodes[k].high \in Nat /\ nodes[i].low \in Nat /\ nodes[i].high \in Nat
      BY <1>1
    <2> QED BY <2>1, <2>2
  <1>10. CASE lo = nodes[i].high + 1 /\ ~(hi = GapEnd(i) - 1 /\ i < N)
    <2> DEFINE t == [nodes EXCEPT ![i].high = hi]
    <2>1. Occupy(i, lo, hi) = t
      BY <1>10, <1>7 DEF Occupy, FillGap
    <2>2. t \in Seq(NodeSet) /\ Len(t) = N /\ t[i] = Node(nodes[i].low, hi)
          /\ \A k \in 1 .. N : k # i => t[k] = nodes[k]
      BY SetHigh
    <2> HIDE DEF t
    <2>3. CoveredBy(t) = Covered \cup lo .. hi
      BY <2>2, <1>10, Extended
    <2>4. i < N => hi + 1 < nodes[i + 1].low
      <3> SUFFICES ASSUME i < N PROVE hi + 1 < nodes[i + 1].low
        OBVIOUS
      <3>1. GapEnd(i) = nodes[i + 1].low /\ nodes[i + 1].low \in Nat
        BY <1>1, <1>6
      <3>2. hi # nodes[i + 1].low - 1 /\ hi < nodes[i + 1].low
        BY <3>1, <1>10
      <3> QED BY <3>1, <3>2
    <2>5. \A k \in 1 .. N : k > i => hi + 1 < nodes[k].low
      <3> SUFFICES ASSUME NEW k \in 1 .. N, k > i PROVE hi + 1 < nodes[k].low
        OBVIOUS
      <3>1. i < N
        OBVIOUS
      <3>2. CASE k = i + 1
        BY <3>1, <3>2, <2>4
      <3>3. CASE k > i + 1
        <4>1. nodes[i + 1].low <= nodes[i + 1].high /\ nodes[i + 1].high + 1 < nodes[k].low
          BY <3>1, <3>3, <1>6, <1>2, <1>3
        <4>2. nodes[i + 1].low \in Nat /\ nodes[i + 1].high \in Nat /\ nodes[k].low \in Nat
          BY <3>1, <1>6, <1>1
        <4>3. hi + 1 < nodes[i + 1].low
          BY <3>1, <2>4
        <4> QED BY <4>1, <4>2, <4>3
      <3> QED BY <3>2, <3>3
    <2>6. t[i].low = nodes[i].low /\ t[i].high = hi
      BY <2>2 DEF Node
    <2>7. \A k \in 1 .. N : t[k].low <= t[k].high /\ t[k].high < BlockEnd
      BY <2>2, <2>6, <1>1, <1>3, <1>5
    <2>8. \A j, k \in 1 .. N : j < k => t[j].high + 1 < t[k].low
      BY <2>2, <2>5, <2>6, <1>1, <1>2
    <2>9. t[1].low = 0
      BY <2>2, <2>6, <1>4
    <2> QED BY <2>1, <2>2, <2>3, <2>7, <2>8, <2>9, <1>4 DEF Ascending
  <1>11. CASE lo # nodes[i].high + 1 /\ hi = GapEnd(i) - 1 /\ i < N
    <2> DEFINE t == [nodes EXCEPT ![i + 1].low = lo]
    <2>1. Occupy(i, lo, hi) = t
      BY <1>11 DEF Occupy
    <2>2. t \in Seq(NodeSet) /\ Len(t) = N /\ t[i + 1] = Node(lo, nodes[i + 1].high)
          /\ \A k \in 1 .. N : k # i + 1 => t[k] = nodes[k]
      BY <1>6, <1>11, SetLow
    <2> HIDE DEF t
    <2>3. CoveredBy(t) = Covered \cup lo .. hi
      BY <2>2, <1>6, <1>11, Extended
    <2>6. t[i + 1].low = lo /\ t[i + 1].high = nodes[i + 1].high
      BY <2>2 DEF Node
    <2>7. \A k \in 1 .. N : t[k].low <= t[k].high /\ t[k].high < BlockEnd
      BY <2>2, <2>6, <1>1, <1>3, <1>6, <1>8, <1>11
    <2>8. \A j, k \in 1 .. N : j < k => t[j].high + 1 < t[k].low
      <3> SUFFICES ASSUME NEW j \in 1 .. N, NEW k \in 1 .. N, j < k
                   PROVE t[j].high + 1 < t[k].low
        OBVIOUS
      <3>1. t[j].high = nodes[j].high
        BY <2>2, <2>6
      <3>2. CASE k # i + 1
        BY <3>1, <3>2, <2>2, <1>2
      <3>3. CASE k = i + 1 /\ j < i
        BY <3>1, <3>3, <2>6, <1>9
      <3>4. CASE k = i + 1 /\ j = i
        BY <3>1, <3>4, <2>6, <1>1, <1>11
      <3> QED BY <3>2, <3>3, <3>4
    <2>9. t[1].low = 0
      BY <2>2, <1>4
    <2> QED BY <2>1, <2>2, <2>3, <2>7, <2>8, <2>9, <1>4 DEF Ascending
  <1>12. CASE lo # nodes[i].high + 1 /\ ~(hi = GapEnd(i) - 1 /\ i < N)
    <2> DEFINE t == InsertAt(nodes, i + 1, Node(lo, hi))
    <2>1. Occupy(i, lo, hi) = t
      BY <1>12 DEF Occupy
    <2>2. Node(lo, hi) \in NodeSet /\ i + 1 \in 1 .. Len(nodes) + 1
      BY DEF Node, NodeSet
    <2>3. /\ t \in Seq(NodeSet) /\ Len(t) = N + 1
          /\ t[i + 1] = Node(lo, hi)
          /\ \A k \in 1 .. i : t[k] = nodes[k]
          /\ \A k \in i + 1 .. N : t[k + 1] = nodes[k]
      <3>1. /\ t \in Seq(NodeSet) /\ Len(t) = Len(nodes) + 1
            /\ t[i + 1] = Node(lo, hi)
            /\ \A k \in 1 .. (i + 1) - 1 : t[k] = nodes[k]
            /\ \A k \in i + 1 .. Len(nodes) : t[k + 1] = nodes[k]
        <4> DEFINE m == i + 1
                   e == Node(lo, hi)
        <4>1. e \in NodeSet /\ m \in 1 .. Len(nodes) + 1
          BY <2>2
        <4> HIDE DEF m, e
        <4>2. /\ InsertAt(nodes, m, e) \in Seq(NodeSet)
              /\ Len(InsertAt(nodes, m, e)) = Len(nodes) + 1
              /\ InsertAt(nodes, m, e)[m] = e
              /\ \A k \in 1 .. m - 1 : InsertAt(nodes, m, e)[k] = nodes[k]
              /\ \A k \in m .. Len(nodes) : InsertAt(nodes, m, e)[k + 1] = nodes[k]
          BY <4>1, InsertAtIndex
        <4> QED BY <4>2 DEF m, e
      <3>2. (i + 1) - 1 = i
        OBVIOUS
      <3> QED BY <3>1, <3>2
    <2> HIDE DEF t
    <2>4. t[i + 1].low = lo /\ t[i + 1].high = hi
      BY <2>3 DEF Node
    <2>5. \A k \in 1 .. N + 1 : k > i + 1 => t[k] = nodes[k - 1] /\ k - 1 \in 1 .. N /\ k - 1 > i
      <3> SUFFICES ASSUME NEW k \in 1 .. N + 1, k > i + 1
                   PROVE t[k] = nodes[k - 1] /\ k - 1 \in 1 .. N /\ k - 1 > i
        OBVIOUS
      <3>1. k - 1 \in i + 1 .. N /\ (k - 1) + 1 = k
        OBVIOUS
      <3> QED BY <3>1, <2>3
    <2>6. i < N => hi + 1 < nodes[i + 1].low
      <3> SUFFICES ASSUME i < N PROVE hi + 1 < nodes[i + 1].low
        OBVIOUS
      <3>1. GapEnd(i) = nodes[i + 1].low /\ nodes[i + 1].low \in Nat
        BY <1>1, <1>6
      <3>2. hi # nodes[i + 1].low - 1 /\ hi < nodes[i + 1].low
        BY <3>1, <1>12
      <3> QED BY <3>1, <3>2
    <2>7. \A k \in 1 .. N : k > i => hi + 1 < nodes[k].low
      <3> SUFFICES ASSUME NEW k \in 1 .. N, k > i PROVE hi + 1 < nodes[k].low
        OBVIOUS
      <3>1. i < N
        OBVIOUS
      <3>2. CASE k = i + 1
        BY <3>1, <3>2, <2>6
      <3>3. CASE k > i + 1
        <4>1. nodes[i + 1].low <= nodes[i + 1].high /\ nodes[i + 1].high + 1 < nodes[k].low
          BY <3>1, <3>3, <1>6, <1>2, <1>3
        <4>2. nodes[i + 1].low \in Nat /\ nodes[i + 1].high \in Nat /\ nodes[k].low \in Nat
          BY <3>1, <1>6, <1>1
        <4>3. hi + 1 < nodes[i + 1].low
          BY <3>1, <2>6
        <4> QED BY <4>1, <4>2, <4>3
      <3> QED BY <3>2, <3>3
    <2>8. \A k \in 1 .. N + 1 : t[k].low <= t[k].high /\ t[k].high < BlockEnd
      <3> SUFFICES ASSUME NEW k \in 1 .. N + 1
                   PROVE t[k].low <= t[k].high /\ t[k].high < BlockEnd
        OBVIOUS
      <3>1. CASE k <= i
        BY <3>1, <2>3, <1>3
      <3>2. CASE k = i + 1
        BY <3>2, <2>4, <1>5
      <3>3. CASE k > i + 1
        BY <3>3, <2>5, <1>3
      <3> QED BY <3>1, <3>2, <3>3
    <2>9. \A j, k \in 1 .. N + 1 : j < k => t[j].high + 1 < t[k].low
      <3> SUFFICES ASSUME NEW j \in 1 .. N + 1, NEW k \in 1 .. N + 1, j < k
                   PROVE t[j].high + 1 < t[k].low
        OBVIOUS
      <3>1. CASE k <= i
        <4>1. j \in 1 .. N /\ k \in 1 .. N /\ t[j] = nodes[j] /\ t[k] = nodes[k]
          BY <3>1, <2>3
        <4> QED BY <4>1, <1>2
      <3>2. CASE k = i + 1
        <4>1. j \in 1 .. N /\ t[j] = nodes[j]
          BY <3>2, <2>3
        <4> QED BY <4>1, <3>2, <2>4, <1>1, <1>9, <1>12
      <3>3. CASE k > i + 1 /\ j <= i
        <4>1. t[j] = nodes[j] /\ t[k] = nodes[k - 1] /\ k - 1 \in 1 .. N /\ j < k - 1
          BY <3>3, <2>3, <2>5
        <4>2. j \in 1 .. N
          BY <3>3
        <4> QED BY <4>1, <4>2, <1>2
      <3>4. CASE k > i + 1 /\ j = i + 1
        BY <3>4, <2>4, <2>5, <2>7
      <3>5. CASE k > i + 1 /\ j > i + 1
        <4>1. t[j] = nodes[j - 1] /\ t[k] = nodes[k - 1]
          BY <3>5, <2>5
        <4>2. j - 1 \in 1 .. N /\ k - 1 \in 1 .. N /\ j - 1 < k - 1
          BY <3>5, <2>5
        <4> QED BY <4>1, <4>2, <1>2
      <3> QED BY <3>1, <3>2, <3>3, <3>4, <3>5
    <2>10. t[1].low = 0
      BY <2>3, <1>4
    <2>11. ASSUME NEW x \in CoveredBy(t) PROVE x \in Covered \cup lo .. hi
      <3>1. PICK k \in 1 .. Len(t) : x \in t[k].low .. t[k].high
        BY <2>11, CoveredMember
      <3>2. CASE k <= i
        BY <3>1, <3>2, <2>3, CoveredMember DEF Covered
      <3>3. CASE k = i + 1
        BY <3>1, <3>3, <2>4
      <3>4. CASE k > i + 1
        BY <3>1, <3>4, <2>3, <2>5, CoveredMember DEF Covered
      <3> QED BY <3>2, <3>3, <3>4, <2>3
    <2>12. ASSUME NEW x \in Covered PROVE x \in CoveredBy(t)
      <3>1. PICK k \in 1 .. N : x \in nodes[k].low .. nodes[k].high
        BY <2>12, CoveredMember DEF Covered
      <3>2. CASE k <= i
        <4>1. k \in 1 .. Len(t) /\ t[k] = nodes[k]
          BY <3>2, <2>3
        <4> QED BY <4>1, <3>1, CoveredMember
      <3>3. CASE k > i
        <4>1. k + 1 \in 1 .. Len(t) /\ t[k + 1] = nodes[k]
          BY <3>3, <2>3
        <4> QED BY <4>1, <3>1, CoveredMember
      <3> QED BY <3>2, <3>3
    <2>13. ASSUME NEW x \in lo .. hi PROVE x \in CoveredBy(t)
      <3>1. i + 1 \in 1 .. Len(t)
        BY <2>3
      <3> QED BY <3>1, <2>4, <2>13, CoveredMember
    <2>14. CoveredBy(t) = Covered \cup lo .. hi
      BY <2>11, <2>12, <2>13
    <2> QED BY <2>1, <2>3, <2>8, <2>9, <2>10, <2>14, <1>4 DEF Ascending
  <1>13. CASE lo = nodes[i].high + 1 /\ hi = GapEnd(i) - 1 /\ i < N
    <2>0. /\ i + 1 \in 1 .. N /\ nodes[i].low \in Nat /\ nodes[i].high \in Nat
          /\ nodes[i + 1].low \in Nat /\ nodes[i + 1].high \in Nat
          /\ nodes[i].low <= nodes[i].high /\ nodes[i].high + 1 < nodes[i + 1].low
          /\ nodes[i + 1].low <= nodes[i + 1].high /\ nodes[i + 1].high < BlockEnd
          /\ lo = nodes[i].high + 1 /\ hi = nodes[i + 1].low - 1
      BY <1>1, <1>2, <1>3, <1>6, <1>13
    <2> DEFINE u == [nodes EXCEPT ![i].high = nodes[i + 1].high]
               t == RemoveAt(u, i + 1)
    <2>1. Occupy(i, lo, hi) = t
      BY <1>13 DEF Occupy, FillGap
    <2>2. /\ u \in Seq(NodeSet) /\ Len(u) = N
          /\ u[i] = Node(nodes[i].low, nodes[i + 1].high)
          /\ \A k \in 1 .. N : k # i => u[k] = nodes[k]
      BY <1>1, <1>6, <1>13, SetHigh
    <2> HIDE DEF u
    <2>3. /\ t \in Seq(NodeSet) /\ Len(t) = N - 1
          /\ \A k \in 1 .. i : t[k] = u[k]
          /\ \A k \in i + 1 .. N - 1 : t[k] = u[k + 1]
      <3>1. i + 1 \in 1 .. Len(u)
        BY <1>6, <1>13, <2>2
      <3>2. /\ t \in Seq(NodeSet) /\ Len(t) = Len(u) - 1
            /\ \A k \in 1 .. (i + 1) - 1 : t[k] = u[k]
            /\ \A k \in i + 1 .. Len(u) - 1 : t[k] = u[k + 1]
        BY <3>1, <2>2, RemoveAtIndex, Zenon
      <3>3. (i + 1) - 1 = i
        OBVIOUS
      <3> QED BY <2>2, <3>2, <3>3
    <2> HIDE DEF t
    <2>4. t[i].low = nodes[i].low /\ t[i].high = nodes[i + 1].high
      BY <2>2, <2>3 DEF Node
    <2>5. \A k \in 1 .. N - 1 : k < i => t[k] = nodes[k]
      BY <2>2, <2>3
    <2>6. \A k \in 1 .. N - 1 : k > i => t[k] = nodes[k + 1] /\ k + 1 \in 1 .. N
      BY <2>2, <2>3
    <2>7. \A k \in 1 .. N - 1 : t[k].low <= t[k].high /\ t[k].high < BlockEnd
      <3> SUFFICES ASSUME NEW k \in 1 .. N - 1
                   PROVE t[k].low <= t[k].high /\ t[k].high < BlockEnd
        OBVIOUS
      <3>1. CASE k < i
        BY <3>1, <2>5, <1>3
      <3>2. CASE k = i
        BY <3>2, <2>0, <2>4
      <3>3. CASE k > i
        BY <3>3, <2>6, <1>3
      <3> QED BY <3>1, <3>2, <3>3
    <2>8. \A j, k \in 1 .. N - 1 : j < k => t[j].high + 1 < t[k].low
      <3> SUFFICES ASSUME NEW j \in 1 .. N - 1, NEW k \in 1 .. N - 1, j < k
                   PROVE t[j].high + 1 < t[k].low
        OBVIOUS
      <3>1. CASE k < i
        BY <3>1, <2>5, <1>2
      <3>2. CASE k = i
        BY <3>2, <2>4, <2>5, <1>2
      <3>3. CASE k > i /\ j < i
        BY <3>3, <2>5, <2>6, <1>2
      <3>4. CASE k > i /\ j = i
        BY <3>4, <2>4, <2>6, <1>2, <1>6, <1>13
      <3>5. CASE k > i /\ j > i
        BY <3>5, <2>6, <1>2
      <3> QED BY <3>1, <3>2, <3>3, <3>4, <3>5
    <2>9. 1 \in 1 .. N - 1 /\ t[1].low = 0
      BY <2>4, <2>5, <1>4, <1>13
    <2>10. t[i].low .. t[i].high
             = ((nodes[i].low .. nodes[i].high) \cup (nodes[i + 1].low .. nodes[i + 1].high))
               \cup lo .. hi
      <3> DEFINE A == nodes[i].low
                 B == nodes[i].high
                 C == nodes[i + 1].low
                 D == nodes[i + 1].high
      <3>1. /\ A \in Nat /\ B \in Nat /\ C \in Nat /\ D \in Nat /\ A <= B /\ C <= D
            /\ lo = B + 1 /\ hi = C - 1
        BY <2>0
      <3>2. t[i].low = A /\ t[i].high = D
        BY <2>4
      <3> HIDE DEF A, B, C, D
      <3>3. A .. D = ((A .. B) \cup (C .. D)) \cup lo .. hi
        BY <3>1
      <3> QED BY <3>2, <3>3 DEF A, B, C, D
    <2>11. ASSUME NEW x \in CoveredBy(t) PROVE x \in Covered \cup lo .. hi
      <3>1. PICK k \in 1 .. Len(t) : x \in t[k].low .. t[k].high
        BY <2>11, CoveredMember
      <3>2. CASE k < i
        <4>1. k \in 1 .. N /\ t[k] = nodes[k]
          BY <3>2, <2>3, <2>5
        <4> QED BY <4>1, <3>1, CoveredMember DEF Covered
      <3>3. CASE k = i
        BY <3>1, <3>3, <2>10, <1>6, <1>13, CoveredMember DEF Covered
      <3>4. CASE k > i
        BY <3>1, <3>4, <2>3, <2>6, CoveredMember DEF Covered
      <3> QED BY <3>2, <3>3, <3>4, <2>3
    <2>12. i \in 1 .. Len(t)
      BY <2>3, <1>13
    <2>13. ASSUME NEW x \in Covered PROVE x \in CoveredBy(t)
      <3>1. PICK k \in 1 .. N : x \in nodes[k].low .. nodes[k].high
        BY <2>13, CoveredMember DEF Covered
      <3>2. CASE k < i
        <4>1. k \in 1 .. Len(t) /\ t[k] = nodes[k]
          BY <3>2, <2>3, <2>5
        <4> QED BY <4>1, <3>1, CoveredMember
      <3>3. CASE k = i \/ k = i + 1
        BY <3>1, <3>3, <2>10, <2>12, CoveredMember
      <3>4. CASE k > i + 1
        <4>1. k - 1 \in 1 .. N - 1 /\ k - 1 > i /\ (k - 1) + 1 = k
          BY <3>4
        <4>2. k - 1 \in 1 .. Len(t) /\ t[k - 1] = nodes[k]
          BY <4>1, <2>3, <2>6
        <4> QED BY <4>2, <3>1, CoveredMember
      <3> QED BY <3>2, <3>3, <3>4
    <2>14. ASSUME NEW x \in lo .. hi PROVE x \in CoveredBy(t)
      BY <2>10, <2>12, <2>14, CoveredMember
    <2>15. CoveredBy(t) = Covered \cup lo .. hi
      BY <2>11, <2>13, <2>14
    <2> QED BY <2>1, <2>3, <2>7, <2>8, <2>9, <2>15 DEF Ascending
  <1> QED BY <1>10, <1>11, <1>12, <1>13

\* A block is in one node at most.
LEMMA OneNode ==
  ASSUME nodes \in Seq(NodeSet), Ascending(nodes), NEW b \in Nat,
         NEW i \in 1 .. Len(nodes), NEW k \in 1 .. Len(nodes),
         b \in nodes[i].low .. nodes[i].high, b \in nodes[k].low .. nodes[k].high
  PROVE  i = k
  <1>1. /\ nodes[i].low \in Nat /\ nodes[i].high \in Nat
        /\ nodes[k].low \in Nat /\ nodes[k].high \in Nat
    BY NodeCells
  <1>2. i < k => nodes[i].high + 1 < nodes[k].low
    BY DEF Ascending
  <1>3. k < i => nodes[k].high + 1 < nodes[i].low
    BY DEF Ascending
  <1> QED BY <1>1, <1>2, <1>3

\* A range that replaces node i, with the rest as it is, and lacks block b.
LEMMA Reduced ==
  ASSUME nodes \in Seq(NodeSet), Ascending(nodes), NEW b \in Nat,
         NEW i \in 1 .. Len(nodes), b \in nodes[i].low .. nodes[i].high,
         NEW t \in Seq(NodeSet), Len(t) = Len(nodes),
         \A k \in 1 .. Len(nodes) : k # i => t[k] = nodes[k],
         t[i].low .. t[i].high = (nodes[i].low .. nodes[i].high) \ {b}
  PROVE  CoveredBy(t) = Covered \ {b}
  <1>1. ASSUME NEW x \in CoveredBy(t) PROVE x \in Covered \ {b}
    <2>1. PICK k \in 1 .. Len(t) : x \in t[k].low .. t[k].high
      BY <1>1, CoveredMember
    <2>2. x \in nodes[k].low .. nodes[k].high
      BY <2>1
    <2>3. x # b
      BY <2>1, <2>2, OneNode
    <2> QED BY <2>2, <2>3, CoveredMember DEF Covered
  <1>2. ASSUME NEW x \in Covered \ {b} PROVE x \in CoveredBy(t)
    <2>1. PICK k \in 1 .. Len(nodes) : x \in nodes[k].low .. nodes[k].high
      BY <1>2, CoveredMember DEF Covered
    <2>2. x \in t[k].low .. t[k].high
      BY <2>1, <1>2
    <2> QED BY <2>2, CoveredMember
  <1> QED BY <1>1, <1>2

\* A block leaves its node: the list stays in order and covers the others as before.
LEMMA VacateExact ==
  ASSUME nodes \in Seq(NodeSet), Ascending(nodes), NEW b \in Nat, b # 0,
         NEW i \in 1 .. Len(nodes), b \in nodes[i].low .. nodes[i].high
  PROVE  LET v == Vacate(i, b) IN
         /\ v.list \in Seq(NodeSet) /\ v.list # <<>> /\ Ascending(v.list)
         /\ CoveredBy(v.list) = Covered \ {b}
         /\ v.at \in 0 .. Len(v.list)
  <1> DEFINE N == Len(nodes)
             v == Vacate(i, b)
  <1>1. \A k \in 1 .. N : nodes[k].low \in Nat /\ nodes[k].high \in Nat
    BY NodeCells
  <1>2. \A j, k \in 1 .. N : j < k => nodes[j].high + 1 < nodes[k].low
    BY DEF Ascending
  <1>3. \A k \in 1 .. N : nodes[k].low <= nodes[k].high /\ nodes[k].high < BlockEnd
    BY DEF Ascending
  <1>4. nodes[1].low = 0 /\ N \in Nat /\ N >= 1
    BY DEF Ascending
  <1>5. nodes[i].low <= b /\ b <= nodes[i].high
    BY <1>1
  <1>6. CASE nodes[i].low = b /\ nodes[i].high = b
    <2> DEFINE t == RemoveAt(nodes, i)
    <2>1. v.list = t /\ v.at = IF i < N THEN i ELSE 0
      BY <1>6 DEF Vacate
    <2>2. /\ t \in Seq(NodeSet) /\ Len(t) = N - 1
          /\ \A k \in 1 .. i - 1 : t[k] = nodes[k]
          /\ \A k \in i .. N - 1 : t[k] = nodes[k + 1]
      BY RemoveAtIndex
    <2> HIDE DEF t
    <2>3. i > 1
      BY <1>4, <1>6
    <2>4. \A k \in 1 .. N - 1 : k >= i => t[k] = nodes[k + 1] /\ k + 1 \in 1 .. N
      BY <2>2
    <2>5. \A k \in 1 .. N - 1 : t[k].low <= t[k].high /\ t[k].high < BlockEnd
      <3> SUFFICES ASSUME NEW k \in 1 .. N - 1
                   PROVE t[k].low <= t[k].high /\ t[k].high < BlockEnd
        OBVIOUS
      <3>1. CASE k < i
        BY <3>1, <2>2, <1>3
      <3>2. CASE k >= i
        BY <3>2, <2>4, <1>3
      <3> QED BY <3>1, <3>2
    <2>6. \A j, k \in 1 .. N - 1 : j < k => t[j].high + 1 < t[k].low
      <3> SUFFICES ASSUME NEW j \in 1 .. N - 1, NEW k \in 1 .. N - 1, j < k
                   PROVE t[j].high + 1 < t[k].low
        OBVIOUS
      <3>1. CASE k < i
        BY <3>1, <2>2, <1>2
      <3>2. CASE k >= i /\ j < i
        <4>1. t[j] = nodes[j] /\ t[k] = nodes[k + 1] /\ k + 1 \in 1 .. N /\ j \in 1 .. N
          BY <3>2, <2>2, <2>4
        <4> QED BY <4>1, <3>2, <1>2
      <3>3. CASE k >= i /\ j >= i
        <4>1. t[j] = nodes[j + 1] /\ t[k] = nodes[k + 1]
          BY <3>3, <2>4
        <4>2. k + 1 \in 1 .. N /\ j + 1 \in 1 .. N /\ j + 1 < k + 1
          OBVIOUS
        <4> QED BY <4>1, <4>2, <1>2
      <3> QED BY <3>1, <3>2, <3>3
    <2>7. 1 \in 1 .. N - 1 /\ t[1].low = 0
      BY <2>2, <2>3, <1>4
    <2>8. ASSUME NEW x \in CoveredBy(t) PROVE x \in Covered \ {b}
      <3>1. PICK k \in 1 .. Len(t) : x \in t[k].low .. t[k].high
        BY <2>8, CoveredMember
      <3>2. PICK j \in 1 .. N : j # i /\ x \in nodes[j].low .. nodes[j].high
        <4>1. CASE k < i
          <5>1. k \in 1 .. N /\ t[k] = nodes[k]
            BY <4>1, <2>2
          <5> QED BY <5>1, <4>1, <3>1
        <4>2. CASE k >= i
          <5>1. k + 1 \in 1 .. N /\ t[k] = nodes[k + 1] /\ k + 1 # i
            BY <4>2, <2>2, <2>4
          <5> QED BY <5>1, <3>1
        <4> QED BY <4>1, <4>2
      <3>3. x # b
        BY <3>2, OneNode
      <3> QED BY <3>2, <3>3, CoveredMember DEF Covered
    <2>9. ASSUME NEW x \in Covered \ {b} PROVE x \in CoveredBy(t)
      <3>1. PICK k \in 1 .. N : x \in nodes[k].low .. nodes[k].high
        BY <2>9, CoveredMember DEF Covered
      <3>2. k # i
        BY <3>1, <2>9, <1>6
      <3>3. CASE k < i
        <4>1. k \in 1 .. Len(t) /\ t[k] = nodes[k]
          BY <3>3, <2>2
        <4> QED BY <4>1, <3>1, CoveredMember
      <3>4. CASE k > i
        <4>1. k - 1 \in 1 .. N - 1 /\ k - 1 >= i /\ (k - 1) + 1 = k
          BY <3>4
        <4>2. k - 1 \in 1 .. Len(t) /\ t[k - 1] = nodes[k]
          BY <4>1, <2>2, <2>4
        <4> QED BY <4>2, <3>1, CoveredMember
      <3> QED BY <3>2, <3>3, <3>4
    <2>10. v.at \in 0 .. Len(t)
      BY <2>1, <2>2
    <2>11. CoveredBy(t) = Covered \ {b}
      BY <2>8, <2>9
    <2> QED BY <2>1, <2>2, <2>5, <2>6, <2>7, <2>10, <2>11 DEF Ascending
  <1>7. CASE nodes[i].low = b /\ nodes[i].high > b
    <2> DEFINE t == [nodes EXCEPT ![i].low = b + 1]
    <2>1. v.list = t /\ v.at = i
      BY <1>7 DEF Vacate
    <2>2. t \in Seq(NodeSet) /\ Len(t) = N /\ t[i] = Node(b + 1, nodes[i].high)
          /\ \A k \in 1 .. N : k # i => t[k] = nodes[k]
      <3>1. b + 1 \in Nat
        OBVIOUS
      <3> QED BY <3>1, SetLow
    <2> HIDE DEF t
    <2>3. t[i].low = b + 1 /\ t[i].high = nodes[i].high
      BY <2>2 DEF Node
    <2>4. t[i].low .. t[i].high = (nodes[i].low .. nodes[i].high) \ {b}
      BY <2>3, <1>1, <1>7
    <2>5. CoveredBy(t) = Covered \ {b}
      BY <2>2, <2>4, Reduced
    <2>6. \A k \in 1 .. N : t[k].low <= t[k].high /\ t[k].high < BlockEnd
      BY <2>2, <2>3, <1>1, <1>3, <1>7
    <2>7. \A j, k \in 1 .. N : j < k => t[j].high + 1 < t[k].low
      <3> SUFFICES ASSUME NEW j \in 1 .. N, NEW k \in 1 .. N, j < k
                   PROVE t[j].high + 1 < t[k].low
        OBVIOUS
      <3>1. nodes[j].high + 1 < nodes[k].low /\ nodes[k].low \in Nat /\ nodes[j].high \in Nat
        BY <1>1, <1>2
      <3>2. t[j].high = nodes[j].high
        BY <2>2, <2>3
      <3>3. nodes[k].low <= t[k].low /\ t[k].low \in Nat
        BY <2>2, <2>3, <1>1, <1>7
      <3> QED BY <3>1, <3>2, <3>3
    <2>8. i # 1 /\ t[1].low = 0
      BY <2>2, <1>4, <1>7
    <2> QED BY <2>1, <2>2, <2>5, <2>6, <2>7, <2>8, <1>4 DEF Ascending
  <1>8. CASE nodes[i].low < b /\ nodes[i].high = b
    <2> DEFINE t == [nodes EXCEPT ![i].high = b - 1]
    <2>1. v.list = t /\ v.at = AfterNode(i)
      BY <1>8 DEF Vacate
    <2>2. t \in Seq(NodeSet) /\ Len(t) = N /\ t[i] = Node(nodes[i].low, b - 1)
          /\ \A k \in 1 .. N : k # i => t[k] = nodes[k]
      <3>1. b - 1 \in Nat
        OBVIOUS
      <3> QED BY <3>1, SetHigh
    <2> HIDE DEF t
    <2>3. t[i].low = nodes[i].low /\ t[i].high = b - 1
      BY <2>2 DEF Node
    <2>4. t[i].low .. t[i].high = (nodes[i].low .. nodes[i].high) \ {b}
      BY <2>3, <1>1, <1>8
    <2>5. CoveredBy(t) = Covered \ {b}
      BY <2>2, <2>4, Reduced
    <2>6. \A k \in 1 .. N : t[k].low <= t[k].high /\ t[k].high < BlockEnd
      <3> SUFFICES ASSUME NEW k \in 1 .. N
                   PROVE t[k].low <= t[k].high /\ t[k].high < BlockEnd
        OBVIOUS
      <3>1. CASE k # i
        BY <3>1, <2>2, <1>3
      <3>2. CASE k = i
        <4>1. nodes[i].high < BlockEnd /\ nodes[i].low \in Nat
          BY <1>1, <1>3
        <4>2. t[i].low <= t[i].high
          BY <4>1, <2>3, <1>8
        <4>3. t[i].high < BlockEnd
          <5>1. BlockEnd \in Nat
            BY SizesAssumption
          <5> QED BY <5>1, <4>1, <2>3, <1>8
        <4> QED BY <3>2, <4>2, <4>3
      <3> QED BY <3>1, <3>2
    <2>7. \A j, k \in 1 .. N : j < k => t[j].high + 1 < t[k].low
      <3> SUFFICES ASSUME NEW j \in 1 .. N, NEW k \in 1 .. N, j < k
                   PROVE t[j].high + 1 < t[k].low
        OBVIOUS
      <3>1. nodes[j].high + 1 < nodes[k].low /\ nodes[k].low \in Nat /\ nodes[j].high \in Nat
        BY <1>1, <1>2
      <3>2. t[j].high <= nodes[j].high /\ t[j].high \in Int
        BY <2>2, <2>3, <1>1, <1>8
      <3>3. nodes[k].low = t[k].low
        BY <2>2, <2>3
      <3> QED BY <3>1, <3>2, <3>3
    <2>8. t[1].low = 0
      BY <2>2, <2>3, <1>4
    <2>9. v.at \in 0 .. N
      BY <2>1 DEF AfterNode
    <2> QED BY <2>1, <2>2, <2>5, <2>6, <2>7, <2>8, <2>9, <1>4 DEF Ascending
  <1>9. CASE nodes[i].low < b /\ nodes[i].high > b
    <2> DEFINE u == [nodes EXCEPT ![i].high = b - 1]
               e == Node(b + 1, nodes[i].high)
               m == i + 1
               t == InsertAt(u, m, e)
    <2>1. v.list = t /\ v.at = m
      BY <1>9 DEF Vacate, Split
    <2>2. u \in Seq(NodeSet) /\ Len(u) = N /\ u[i] = Node(nodes[i].low, b - 1)
          /\ \A k \in 1 .. N : k # i => u[k] = nodes[k]
      <3>1. b - 1 \in Nat
        OBVIOUS
      <3> QED BY <3>1, SetHigh
    <2>3. e \in NodeSet /\ e.low = b + 1 /\ e.high = nodes[i].high
      BY <1>1 DEF Node, NodeSet
    <2> HIDE DEF u, e
    <2>4. m \in 1 .. Len(u) + 1 /\ m = i + 1
      BY <2>2
    <2> HIDE DEF m
    <2>5. /\ t \in Seq(NodeSet) /\ Len(t) = Len(u) + 1
          /\ t[m] = e
          /\ \A k \in 1 .. m - 1 : t[k] = u[k]
          /\ \A k \in m .. Len(u) : t[k + 1] = u[k]
      <3>1. u \in Seq(NodeSet) /\ e \in NodeSet /\ m \in 1 .. Len(u) + 1
        BY <2>2, <2>3, <2>4
      <3> QED BY <3>1, InsertAtIndex
    <2> HIDE DEF t
    <2>6. t[i].low = nodes[i].low /\ t[i].high = b - 1
      <3>1. i \in 1 .. m - 1
        BY <2>4
      <3>2. t[i] = Node(nodes[i].low, b - 1)
        BY <3>1, <2>2, <2>5
      <3> QED BY <3>2 DEF Node
    <2>7. t[i + 1].low = b + 1 /\ t[i + 1].high = nodes[i].high
      BY <2>3, <2>4, <2>5
    <2>8. \A k \in 1 .. N : k < i => t[k] = nodes[k]
      BY <2>2, <2>4, <2>5
    <2>9. \A k \in 1 .. N : k > i => t[k + 1] = nodes[k]
      BY <2>2, <2>4, <2>5
    <2>10. \A k \in 1 .. N + 1 : k > i + 1 => t[k] = nodes[k - 1] /\ k - 1 \in 1 .. N /\ k - 1 > i
      <3> SUFFICES ASSUME NEW k \in 1 .. N + 1, k > i + 1
                   PROVE t[k] = nodes[k - 1] /\ k - 1 \in 1 .. N /\ k - 1 > i
        OBVIOUS
      <3>1. k - 1 \in 1 .. N /\ k - 1 > i /\ (k - 1) + 1 = k
        OBVIOUS
      <3> QED BY <3>1, <2>9
    <2>11. BlockEnd \in Nat
      BY SizesAssumption
    <2>12. \A k \in 1 .. N + 1 : t[k].low <= t[k].high /\ t[k].high < BlockEnd
      <3> SUFFICES ASSUME NEW k \in 1 .. N + 1
                   PROVE t[k].low <= t[k].high /\ t[k].high < BlockEnd
        OBVIOUS
      <3>1. CASE k < i
        BY <3>1, <2>8, <1>3
      <3>2. CASE k = i
        BY <3>2, <2>6, <2>11, <1>1, <1>3, <1>9
      <3>3. CASE k = i + 1
        BY <3>3, <2>7, <2>11, <1>1, <1>3, <1>9
      <3>4. CASE k > i + 1
        BY <3>4, <2>10, <1>3
      <3> QED BY <3>1, <3>2, <3>3, <3>4
    <2>13. \A j, k \in 1 .. N + 1 : j < k => t[j].high + 1 < t[k].low
      <3> SUFFICES ASSUME NEW j \in 1 .. N + 1, NEW k \in 1 .. N + 1, j < k
                   PROVE t[j].high + 1 < t[k].low
        OBVIOUS
      <3>1. CASE k <= i
        <4>1. t[j] = nodes[j] /\ t[k].low = nodes[k].low /\ j \in 1 .. N /\ k \in 1 .. N
          BY <3>1, <2>6, <2>8
        <4> QED BY <4>1, <1>2
      <3>2. CASE k = i + 1 /\ j < i
        <4>1. t[j] = nodes[j] /\ j \in 1 .. N /\ t[k].low = b + 1
          BY <3>2, <2>7, <2>8
        <4>2. nodes[j].high + 1 < nodes[i].low /\ nodes[j].high \in Nat
              /\ nodes[i].low \in Nat /\ nodes[i].low < b
          BY <4>1, <3>2, <1>1, <1>2, <1>9
        <4> QED BY <4>1, <4>2
      <3>3. CASE k = i + 1 /\ j = i
        BY <3>3, <2>6, <2>7
      <3>4. CASE k > i + 1
        <4>1. t[k] = nodes[k - 1] /\ k - 1 \in 1 .. N /\ k - 1 > i
          BY <3>4, <2>10
        <4>2. CASE j < i
          <5>1. t[j] = nodes[j] /\ j \in 1 .. N /\ j < k - 1
            BY <4>2, <2>8, <3>4
          <5> QED BY <5>1, <4>1, <1>2
        <4>3. CASE j = i \/ j = i + 1
          <5>1. t[j].high <= nodes[i].high /\ t[j].high \in Int
            BY <4>3, <2>6, <2>7, <1>1, <1>9
          <5>2. nodes[i].high + 1 < nodes[k - 1].low
            BY <4>1, <1>2
          <5>3. nodes[i].high \in Nat /\ nodes[k - 1].low \in Nat /\ t[k].low = nodes[k - 1].low
            BY <4>1, <1>1
          <5> HIDE DEF N, v
          <5> QED BY <5>1, <5>2, <5>3
        <4>4. CASE j > i + 1
          <5>1. t[j] = nodes[j - 1] /\ j - 1 \in 1 .. N /\ j - 1 < k - 1
            BY <4>4, <2>10
          <5> QED BY <5>1, <4>1, <1>2
        <4> QED BY <4>2, <4>3, <4>4
      <3> QED BY <3>1, <3>2, <3>3, <3>4
    <2>14. t[1].low = 0
      BY <2>6, <2>8, <1>4
    <2>15. (t[i].low .. t[i].high) \cup (t[i + 1].low .. t[i + 1].high)
             = (nodes[i].low .. nodes[i].high) \ {b}
      BY <2>6, <2>7, <1>1, <1>9
    <2>16. i \in 1 .. Len(t) /\ i + 1 \in 1 .. Len(t) /\ Len(t) = N + 1
      BY <2>2, <2>5
    <2>17. ASSUME NEW x \in CoveredBy(t) PROVE x \in Covered \ {b}
      <3>1. PICK k \in 1 .. Len(t) : x \in t[k].low .. t[k].high
        BY <2>17, CoveredMember
      <3>2. CASE k = i \/ k = i + 1
        BY <3>1, <3>2, <2>15, CoveredMember DEF Covered
      <3>3. CASE k # i /\ k # i + 1
        <4>1. PICK j \in 1 .. N : j # i /\ x \in nodes[j].low .. nodes[j].high
          <5>1. CASE k < i
            <6>1. k \in 1 .. N /\ t[k] = nodes[k]
              BY <5>1, <2>8, <2>16
            <6> QED BY <6>1, <5>1, <3>1
          <5>2. CASE k > i + 1
            <6>1. k - 1 \in 1 .. N /\ k - 1 # i /\ t[k] = nodes[k - 1]
              BY <5>2, <2>10, <2>16
            <6> QED BY <6>1, <3>1
          <5> QED BY <3>3, <5>1, <5>2
        <4>2. x # b
          BY <4>1, OneNode
        <4> QED BY <4>1, <4>2, CoveredMember DEF Covered
      <3> QED BY <3>2, <3>3
    <2>18. ASSUME NEW x \in Covered \ {b} PROVE x \in CoveredBy(t)
      <3>1. PICK k \in 1 .. N : x \in nodes[k].low .. nodes[k].high
        BY <2>18, CoveredMember DEF Covered
      <3>2. CASE k = i
        BY <3>1, <3>2, <2>15, <2>16, <2>18, CoveredMember
      <3>3. CASE k < i
        <4>1. k \in 1 .. Len(t) /\ t[k] = nodes[k]
          BY <3>3, <2>8, <2>16
        <4> QED BY <4>1, <3>1, CoveredMember
      <3>4. CASE k > i
        <4>1. k + 1 \in 1 .. Len(t) /\ t[k + 1] = nodes[k]
          BY <3>4, <2>9, <2>16
        <4> QED BY <4>1, <3>1, CoveredMember
      <3> QED BY <3>2, <3>3, <3>4
    <2>19. CoveredBy(t) = Covered \ {b}
      BY <2>17, <2>18
    <2>20. v.at \in 0 .. Len(t) /\ t # <<>>
      BY <2>1, <2>4, <2>16
    <2> QED BY <2>1, <2>5, <2>12, <2>13, <2>14, <2>16, <2>19, <2>20 DEF Ascending
  <1>10. \/ nodes[i].low = b /\ nodes[i].high = b
         \/ nodes[i].low = b /\ nodes[i].high > b
         \/ nodes[i].low < b /\ nodes[i].high = b
         \/ nodes[i].low < b /\ nodes[i].high > b
    BY <1>1, <1>5
  <1> QED BY <1>6, <1>7, <1>8, <1>9, <1>10

-----------------------------------------------------------------------------
(* The inductive invariant.                                                *)

Types ==
  /\ nodes \in Seq(NodeSet) /\ numFree \in Int /\ numNodes \in Int
  /\ hint \in 0 .. Len(nodes) /\ batch \in BOOLEAN /\ (~batch => hint = 0)
  /\ Taken \subseteq refs /\ refs \subseteq inuse /\ inuse \subseteq Blocks
  /\ leaked \subseteq Blocks /\ next \in Nat /\ ooms \in Nat
  /\ phase \in {"up", "recover", "scan", "bug", "broken"}

\* What the stages of a mount leave as it is.
Stages ==
  /\ phase \in {"recover", "bug"} => nodes = <<>>
  /\ phase \in {"recover", "scan"} => inuse = refs /\ leaked = {} /\ ~batch
  /\ phase = "scan" => nodes # <<>> /\ next >= 1
  /\ nodes = <<>> => leaked = {}

\* A block is lost only for want of memory.
Lost == leaked \cap inuse = {} /\ Cardinality(leaked) <= ooms

Exact ==
  phase \in {"up", "scan"} /\ nodes # <<>> =>
    /\ Ascending(nodes) /\ Covered = Known
    /\ numNodes = Len(nodes) /\ numFree = Cardinality(Blocks \ Covered)

IInv == Types /\ Stages /\ Lost /\ Exact

\* Sets of blocks are finite.
LEMMA BlocksFinite ==
  ASSUME NEW S, S \subseteq Blocks
  PROVE  IsFiniteSet(S) /\ Cardinality(S) \in Nat
  <1>1. 0 \in Int /\ BlockEnd - 1 \in Int
    BY SizesAssumption
  <1>2. IsFiniteSet(Blocks)
    BY <1>1, FS_Interval DEF Blocks
  <1>3. IsFiniteSet(S)
    BY <1>2, FS_Subset
  <1> QED BY <1>3, FS_CardinalityType

\* The blocks of the super block and the journal are blocks of the volume.
LEMMA TakenBlocks ==
  Taken \subseteq Blocks /\ 0 \in Taken
  BY SizesAssumption DEF Taken, Blocks

\* The list with one node, as mkfs and the mount begin it.
LEMMA FirstNodeExact ==
  /\ FirstNode \in Seq(NodeSet) /\ FirstNode # <<>> /\ Len(FirstNode) = 1
  /\ Ascending(FirstNode) /\ CoveredBy(FirstNode) = Taken
  /\ BlockEnd - UsedBlocks = Cardinality(Blocks \ Taken)
  /\ BlockEnd - UsedBlocks \in Int
  <1>1. BlockEnd \in Nat /\ UsedBlocks \in 1 .. BlockEnd /\ UsedBlocks - 1 \in Nat
    BY SizesAssumption
  <1>2. Node(0, UsedBlocks - 1) \in NodeSet
    BY <1>1 DEF Node, NodeSet
  <1>3. /\ FirstNode \in Seq(NodeSet) /\ FirstNode # <<>> /\ Len(FirstNode) = 1
        /\ FirstNode[1] = Node(0, UsedBlocks - 1)
    BY <1>2 DEF FirstNode
  <1>4. FirstNode[1].low = 0 /\ FirstNode[1].high = UsedBlocks - 1
    BY <1>3 DEF Node
  <1>5. Ascending(FirstNode)
    BY <1>1, <1>3, <1>4 DEF Ascending
  <1>6. CoveredBy(FirstNode) = Taken
    <2>1. \A x : x \in CoveredBy(FirstNode) <=> x \in FirstNode[1].low .. FirstNode[1].high
      BY <1>3, CoveredMember
    <2> QED BY <2>1, <1>4 DEF Taken
  <1>7. Blocks \ Taken = UsedBlocks .. BlockEnd - 1
    BY <1>1 DEF Blocks, Taken
  <1>8. UsedBlocks \in Int /\ BlockEnd - 1 \in Int
    BY <1>1
  <1>9. Cardinality(UsedBlocks .. BlockEnd - 1) = BlockEnd - UsedBlocks
    <2>1. Cardinality(UsedBlocks .. BlockEnd - 1)
            = IF UsedBlocks > BlockEnd - 1 THEN 0 ELSE (BlockEnd - 1) - UsedBlocks + 1
      BY <1>8, FS_Interval
    <2> QED BY <2>1, <1>1
  <1>10. BlockEnd - UsedBlocks = Cardinality(Blocks \ Taken)
    BY <1>7, <1>9
  <1>11. BlockEnd - UsedBlocks \in Int
    BY <1>1
  <1> QED BY <1>3, <1>5, <1>6, <1>10, <1>11, Zenon

\* What mkfs leaves.
LEMMA InitInvariant ==
  ASSUME PInit
  PROVE  IInv
  <1>1. /\ nodes = FirstNode /\ numFree = BlockEnd - UsedBlocks /\ numNodes = 1
        /\ hint = 0 /\ batch = FALSE
        /\ inuse = Taken /\ refs = Taken /\ leaked = {}
        /\ phase = "up" /\ next = 0 /\ ooms = 0
    BY DEF PInit
  <1>2. Types
    <2>1. hint \in 0 .. Len(nodes)
      BY <1>1, FirstNodeExact
    <2>2. nodes \in Seq(NodeSet) /\ numFree \in Int /\ numNodes \in Int
      BY <1>1, FirstNodeExact
    <2>3. Taken \subseteq refs /\ refs \subseteq inuse /\ inuse \subseteq Blocks
      BY <1>1, TakenBlocks
    <2>4. leaked \subseteq Blocks /\ next \in Nat /\ ooms \in Nat /\ batch \in BOOLEAN
          /\ hint = 0 /\ phase \in {"up", "recover", "scan", "bug", "broken"}
      BY <1>1
    <2> QED BY <2>1, <2>2, <2>3, <2>4 DEF Types
  <1>3. Stages
    BY <1>1 DEF Stages
  <1>4. Lost
    BY <1>1, FS_EmptySet DEF Lost
  <1>5. Covered = Taken /\ Known = Taken
    BY <1>1, FirstNodeExact DEF Covered, Known
  <1>6. Exact
    BY <1>1, <1>5, FirstNodeExact DEF Exact
  <1> QED BY <1>2, <1>3, <1>4, <1>6 DEF IInv

\* A range of a gap comes into use: the counters follow.
LEMMA OccupiedExact ==
  ASSUME IInv, phase \in {"up", "scan"}, nodes # <<>>,
         NEW i \in 1 .. Len(nodes), NEW lo \in Nat, NEW hi \in Nat,
         nodes[i].high < lo, lo <= hi, hi < GapEnd(i), Occupied(i, lo, hi)
  PROVE  /\ nodes' \in Seq(NodeSet) /\ nodes' # <<>> /\ Ascending(nodes')
         /\ CoveredBy(nodes') = Covered \cup lo .. hi
         /\ lo .. hi \subseteq Blocks \ Covered
         /\ numNodes' = Len(nodes') /\ numFree' = Cardinality(Blocks \ CoveredBy(nodes'))
         /\ numFree' \in Int /\ numNodes' \in Int
  <1>1. nodes \in Seq(NodeSet) /\ Ascending(nodes) /\ numNodes = Len(nodes)
        /\ numFree = Cardinality(Blocks \ Covered)
    BY DEF IInv, Types, Exact
  <1>2. nodes' = Occupy(i, lo, hi)
    BY DEF Occupied
  <1>3. /\ nodes' \in Seq(NodeSet) /\ nodes' # <<>> /\ Ascending(nodes')
        /\ CoveredBy(nodes') = Covered \cup lo .. hi
    BY <1>1, <1>2, OccupyExact
  <1>4. lo .. hi \subseteq Blocks \ Covered
    <2> SUFFICES ASSUME NEW x \in lo .. hi PROVE x \in Blocks \ Covered
      OBVIOUS
    <2>1. nodes[i].high \in Nat /\ x \in Nat
      BY <1>1, NodeCells
    <2>2. GapEnd(i) \in Int
      <3>1. CASE i = Len(nodes)
        BY <3>1, SizesAssumption DEF GapEnd
      <3>2. CASE i # Len(nodes)
        <4>1. i + 1 \in 1 .. Len(nodes)
          BY <3>2, <1>1
        <4>2. nodes[i + 1].low \in Nat
          BY <4>1, <1>1, NodeCells
        <4> QED BY <3>2, <4>2 DEF GapEnd
      <3> QED BY <3>1, <3>2
    <2>3. nodes[i].high < x /\ x < GapEnd(i)
      BY <2>1, <2>2
    <2> QED BY <1>1, <2>1, <2>3, GapFree
  <1>5. numNodes' = Len(nodes') /\ numNodes' \in Int
    <2>1. Len(nodes') \in Nat /\ Len(nodes) \in Nat
      BY <1>1, <1>3
    <2>2. numNodes' = Len(nodes) + Len(nodes') - Len(nodes)
      BY <1>1 DEF Occupied
    <2> QED BY <2>1, <2>2
  <1>6. Cardinality((Blocks \ Covered) \ (lo .. hi)) = Cardinality(Blocks \ Covered) - (hi - lo + 1)
    <2>1. IsFiniteSet(Blocks \ Covered)
      BY BlocksFinite
    <2>2. (Blocks \ Covered) \cap (lo .. hi) = lo .. hi
      BY <1>4
    <2>3. Cardinality(lo .. hi) = hi - lo + 1
      BY FS_Interval
    <2> DEFINE S == Blocks \ Covered
               T == lo .. hi
    <2>4. IsFiniteSet(S) /\ S \cap T = T /\ Cardinality(T) = hi - lo + 1
      BY <2>1, <2>2, <2>3
    <2> HIDE DEF S, T
    <2>5. Cardinality(S \ T) = Cardinality(S) - Cardinality(S \cap T)
      BY <2>4, FS_Difference
    <2>6. Cardinality(S \ T) = Cardinality(S) - (hi - lo + 1)
      BY <2>4, <2>5
    <2> QED BY <2>6 DEF S, T
  <1>7. Blocks \ CoveredBy(nodes') = (Blocks \ Covered) \ (lo .. hi)
    BY <1>3
  <1>8. numFree' = Cardinality(Blocks \ CoveredBy(nodes'))
    BY <1>1, <1>6, <1>7 DEF Occupied
  <1>9. numFree' \in Int
    <2>1. Cardinality(Blocks \ CoveredBy(nodes')) \in Nat
      BY BlocksFinite
    <2> QED BY <2>1, <1>8
  <1> QED BY <1>3, <1>4, <1>5, <1>8, <1>9

\* pmfs_new_block.
LEMMA NewBlockInvariant ==
  ASSUME IInv, NewBlock
  PROVE  /\ IInv' /\ nodes' # <<>>
         /\ \E b \in Blocks \ Covered : Covered' = Covered \cup {b} /\ inuse' = inuse \cup {b}
  <1>1. PICK i \in 1 .. Len(nodes) :
          /\ phase = "up" /\ ~batch
          /\ FirstGap(i)
          /\ Occupied(i, nodes[i].high + 1, nodes[i].high + 1)
          /\ inuse' = inuse \cup {nodes[i].high + 1}
          /\ UNCHANGED <<hintVars, refs, leaked, mountVars, ooms>>
    BY DEF NewBlock
  <1> DEFINE b == nodes[i].high + 1
  <1>2. UNCHANGED <<hint, batch, refs, leaked, phase, next, ooms>>
    BY <1>1 DEF hintVars, mountVars
  <1>3. Types /\ Stages /\ Lost /\ Exact
    BY DEF IInv
  <1>4. nodes[i].high \in Nat /\ b \in Nat /\ nodes[i].high < b /\ b <= b /\ b < GapEnd(i)
    BY <1>1, <1>3, NodeCells DEF Types, FirstGap
  <1>5. nodes # <<>>
    BY <1>1
  <1>6. /\ nodes' \in Seq(NodeSet) /\ nodes' # <<>> /\ Ascending(nodes')
        /\ CoveredBy(nodes') = Covered \cup b .. b
        /\ b .. b \subseteq Blocks \ Covered
        /\ numNodes' = Len(nodes') /\ numFree' = Cardinality(Blocks \ CoveredBy(nodes'))
        /\ numFree' \in Int /\ numNodes' \in Int
    BY <1>1, <1>4, <1>5, OccupiedExact
  <1>7. Covered = inuse \cup leaked
    BY <1>1, <1>3, <1>5 DEF Exact, Known
  <1>8. b \in Blocks \ Covered /\ b .. b = {b}
    BY <1>4, <1>6
  <1> HIDE DEF b
  <1>9. Types'
    <2>1. hint = 0 /\ Len(nodes') \in Nat
      BY <1>1, <1>3, <1>6 DEF Types
    <2>2. hint' \in 0 .. Len(nodes')
      BY <1>2, <2>1
    <2>3. inuse' = inuse \cup {b}
      BY <1>1 DEF b
    <2> QED BY <1>2, <1>3, <1>6, <1>8, <2>1, <2>2, <2>3 DEF Types, Taken, Blocks
  <1>10. Stages'
    BY <1>1, <1>2, <1>6 DEF Stages
  <1>11. Lost'
    BY <1>1, <1>2, <1>3, <1>7, <1>8 DEF Lost, b
  <1>12. Exact'
    BY <1>1, <1>2, <1>6, <1>7, <1>8 DEF Exact, Covered, Known, Blocks, b
  <1>13. b \in Blocks \ Covered /\ Covered' = Covered \cup {b} /\ inuse' = inuse \cup {b}
    BY <1>1, <1>6, <1>8 DEF Covered, b
  <1> QED BY <1>6, <1>9, <1>10, <1>11, <1>12, <1>13 DEF IInv

\* The search for a block in use finds its node, with any hint.
LEMMA HolderFound ==
  ASSUME IInv, phase = "up", nodes # <<>>, NEW b \in Covered
  PROVE  /\ Holder(b) # {}
         /\ \A i \in Holder(b) : i \in 1 .. Len(nodes) /\ b \in nodes[i].low .. nodes[i].high
  <1>1. nodes \in Seq(NodeSet) /\ hint \in 0 .. Len(nodes) /\ Ascending(nodes)
    BY DEF IInv, Types, Exact
  <1>2. PICK i \in 1 .. Len(nodes) : b \in nodes[i].low .. nodes[i].high
    BY CoveredMember DEF Covered
  <1>3. StartNode(b) \in 1 .. Len(nodes)
    BY <1>1, <1>2 DEF StartNode
  <1>4. StartNode(b) <= i
    <2>1. CASE hint # 0 /\ b >= nodes[hint].low
      <3>1. hint \in 1 .. Len(nodes)
        BY <2>1, <1>1
      <3>2. i < hint => nodes[i].high + 1 < nodes[hint].low
        BY <3>1, <1>1 DEF Ascending
      <3>3. nodes[i].high \in Nat /\ nodes[i].low \in Nat /\ nodes[hint].low \in Nat
        BY <3>1, <1>1, NodeCells
      <3>4. hint <= i
        BY <3>1, <3>2, <3>3, <2>1, <1>2
      <3> QED BY <2>1, <3>4 DEF StartNode
    <2>2. CASE ~(hint # 0 /\ b >= nodes[hint].low)
      BY <2>2 DEF StartNode
    <2> QED BY <2>1, <2>2
  <1>5. i \in Holder(b)
    BY <1>2, <1>3, <1>4 DEF Holder
  <1>6. \A k \in Holder(b) : k \in 1 .. Len(nodes) /\ b \in nodes[k].low .. nodes[k].high
    BY <1>3 DEF Holder
  <1> QED BY <1>5, <1>6

\* __pmfs_free_block finds the block and gives it up.
LEMMA FoundInvariant ==
  ASSUME IInv, NEW b \in Blocks, PmfsFreeBlock(b), FreeFound(b)
  PROVE  IInv' /\ nodes' # <<>> /\ Covered' = Covered \ {b} /\ b \in Covered
  <1>1. Types /\ Stages /\ Lost /\ Exact
    BY DEF IInv
  <1>2. /\ phase = "up" /\ nodes # <<>> /\ b \in inuse \ refs
        /\ inuse' = inuse \ {b} /\ UNCHANGED <<batch, refs, phase, next>>
    BY DEF PmfsFreeBlock, mountVars
  <1>3. /\ nodes \in Seq(NodeSet) /\ Ascending(nodes) /\ Covered = inuse \cup leaked
        /\ numNodes = Len(nodes) /\ numFree = Cardinality(Blocks \ Covered)
    BY <1>1, <1>2 DEF Types, Exact, Known
  <1>4. b \in Covered /\ b \notin leaked /\ b \in Nat /\ b # 0
    BY <1>1, <1>2, <1>3, TakenBlocks DEF Types, Lost, Blocks
  <1>5. PICK i \in Holder(b) :
          LET v == Vacate(i, b) IN
          /\ nodes' = v.list
          /\ hint' = IF batch THEN v.at ELSE 0
          /\ numFree' = numFree + 1
          /\ numNodes' = numNodes + Len(nodes') - Len(nodes)
          /\ UNCHANGED <<leaked, ooms>>
    BY DEF FreeFound
  <1>6. i \in 1 .. Len(nodes) /\ b \in nodes[i].low .. nodes[i].high
    BY <1>2, <1>4, HolderFound
  <1>7. /\ nodes' \in Seq(NodeSet) /\ nodes' # <<>> /\ Ascending(nodes')
        /\ CoveredBy(nodes') = Covered \ {b}
        /\ Vacate(i, b).at \in 0 .. Len(nodes')
    BY <1>3, <1>4, <1>5, <1>6, VacateExact
  <1>8. Blocks \ CoveredBy(nodes') = (Blocks \ Covered) \cup {b}
    BY <1>7
  <1>9. numFree' = Cardinality(Blocks \ CoveredBy(nodes')) /\ numFree' \in Int
    <2> DEFINE S == Blocks \ Covered
    <2>1. IsFiniteSet(S) /\ Cardinality(S) \in Nat
      BY BlocksFinite
    <2>2. b \notin S
      BY <1>4
    <2> HIDE DEF S
    <2>3. Cardinality(S \cup {b}) = Cardinality(S) + 1
      BY <2>1, <2>2, FS_AddElement
    <2>4. numFree' = Cardinality(S) + 1
      BY <1>3, <1>5 DEF S
    <2>5. Blocks \ CoveredBy(nodes') = S \cup {b}
      BY <1>8 DEF S
    <2>6. numFree' = Cardinality(S \cup {b}) /\ numFree' \in Int
      BY <2>1, <2>3, <2>4
    <2> QED BY <2>5, <2>6
  <1>10. numNodes' = Len(nodes') /\ numNodes' \in Int
    <2>1. Len(nodes') \in Nat /\ Len(nodes) \in Nat
      BY <1>3, <1>7
    <2>2. numNodes' = Len(nodes) + Len(nodes') - Len(nodes)
      BY <1>3, <1>5
    <2> QED BY <2>1, <2>2
  <1>11. Types'
    <2>1. hint' \in 0 .. Len(nodes') /\ (~batch' => hint' = 0)
      BY <1>2, <1>5, <1>7
    <2> QED BY <1>1, <1>2, <1>5, <1>7, <1>9, <1>10, <2>1 DEF Types, Taken, Blocks
  <1>12. Stages'
    BY <1>2, <1>7 DEF Stages
  <1>13. Lost'
    BY <1>1, <1>2, <1>5 DEF Lost
  <1>14. Exact'
    BY <1>2, <1>3, <1>4, <1>5, <1>7, <1>9, <1>10 DEF Exact, Covered, Known, Blocks
  <1> QED BY <1>4, <1>7, <1>11, <1>12, <1>13, <1>14 DEF IInv, Covered

\* It has no memory for the second half of the node.
LEMMA SkippedInvariant ==
  ASSUME IInv, NEW b \in Blocks, PmfsFreeBlock(b), FreeSkipped(b)
  PROVE  IInv'
  <1>1. Types /\ Stages /\ Lost /\ Exact
    BY DEF IInv
  <1>2. /\ phase = "up" /\ nodes # <<>> /\ b \in inuse \ refs
        /\ inuse' = inuse \ {b} /\ UNCHANGED <<batch, refs, phase, next>>
    BY DEF PmfsFreeBlock, mountVars
  <1>3. Covered = inuse \cup leaked /\ b \in Covered
    BY <1>1, <1>2 DEF Exact, Known
  <1>4. Holder(b) # {}
    BY <1>2, <1>3, HolderFound
  <1>5. ooms' = ooms + 1 /\ leaked' = leaked \cup {b}
        /\ UNCHANGED <<nodes, numFree, numNodes, hint>>
    BY <1>4 DEF FreeSkipped, mapVars
  <1>6. Types'
    BY <1>1, <1>2, <1>5 DEF Types, Taken, Blocks
  <1>7. Stages'
    BY <1>2, <1>5 DEF Stages
  <1>8. Lost'
    <2>1. leaked' \cap inuse' = {}
      BY <1>1, <1>2, <1>5 DEF Lost
    <2>2. IsFiniteSet(leaked) /\ Cardinality(leaked) \in Nat
      BY <1>1, BlocksFinite DEF Types
    <2>3. Cardinality(leaked \cup {b})
            = IF b \in leaked THEN Cardinality(leaked) ELSE Cardinality(leaked) + 1
      BY <2>2, FS_AddElement
    <2>4. Cardinality(leaked \cup {b}) \in Nat
      BY <2>2, <2>3
    <2>5. Cardinality(leaked') <= ooms'
      BY <2>2, <2>3, <2>4, <1>1, <1>5 DEF Lost, Types
    <2> QED BY <2>1, <2>5 DEF Lost
  <1>9. Exact'
    BY <1>1, <1>2, <1>3, <1>5 DEF Exact, Covered, Known, Blocks, Ascending
  <1> QED BY <1>6, <1>7, <1>8, <1>9 DEF IInv

\* __pmfs_free_block.
LEMMA FreeBlockInvariant ==
  ASSUME IInv, NEW b \in Blocks, PmfsFreeBlock(b)
  PROVE  IInv'
  <1>1. FreeFound(b) \/ FreeSkipped(b)
    BY DEF PmfsFreeBlock
  <1> QED BY <1>1, FoundInvariant, SkippedInvariant

\* Steps that leave the list, its counters and the blocks in use as they are.
LEMMA BatchInvariant ==
  ASSUME IInv, BatchBegin \/ BatchEnd
  PROVE  IInv'
  <1>1. /\ phase = "up" /\ hint' = 0 /\ batch' \in BOOLEAN
        /\ UNCHANGED <<nodes, numFree, numNodes, inuse, refs, leaked, phase, next, ooms>>
    BY DEF BatchBegin, BatchEnd, mapVars, mountVars
  <1>2. Types /\ Stages /\ Lost /\ Exact
    BY DEF IInv
  <1>3. Types'
    <2>1. 0 \in 0 .. Len(nodes)
      BY <1>2 DEF Types
    <2> QED BY <1>1, <1>2, <2>1 DEF Types, Taken, Blocks
  <1>4. Stages'
    BY <1>1, <1>2 DEF Stages
  <1>5. Lost'
    BY <1>1, <1>2 DEF Lost
  <1>6. Exact'
    BY <1>1, <1>2 DEF Exact, Covered, Known, Blocks
  <1> QED BY <1>3, <1>4, <1>5, <1>6 DEF IInv

\* References come and go while the allocator stands still.
LEMMA ReferenceInvariant ==
  ASSUME IInv, NEW b \in Blocks, Refer(b) \/ Unrefer(b)
  PROVE  IInv'
  <1>1. /\ phase = "up" /\ Taken \subseteq refs' /\ refs' \subseteq inuse
        /\ UNCHANGED <<nodes, numFree, numNodes, hint, batch, inuse, leaked, phase, next, ooms>>
    BY DEF IInv, Types, Refer, Unrefer, mapVars, hintVars, mountVars
  <1>2. Types /\ Stages /\ Lost /\ Exact
    BY DEF IInv
  <1>3. Types'
    BY <1>1, <1>2 DEF Types, Taken, Blocks
  <1>4. Stages'
    BY <1>1, <1>2 DEF Stages
  <1>5. Lost'
    BY <1>1, <1>2 DEF Lost
  <1>6. Exact'
    BY <1>1, <1>2 DEF Exact, Covered, Known, Blocks
  <1> QED BY <1>3, <1>4, <1>5, <1>6 DEF IInv

\* Mounts and searches that fail.
LEMMA FailureInvariant ==
  ASSUME IInv,
         (\E b \in Blocks : FreeBug(b)) \/ SkipScan \/ BeginOops \/ RunDropped
  PROVE  IInv'
  <1>1. /\ UNCHANGED <<nodes, numFree, numNodes, hint, batch, inuse, refs, leaked, next>>
        /\ ooms' = ooms \/ ooms' = ooms + 1
        /\ phase' \in {"up", "bug"} => nodes = <<>>
        /\ phase' \in {"up", "bug", "broken"}
    BY DEF IInv, Stages, FreeBug, SkipScan, BeginOops, RunDropped, mapVars, hintVars, mountVars
  <1>2. Types /\ Stages /\ Lost /\ Exact
    BY DEF IInv
  <1>3. Types'
    BY <1>1, <1>2 DEF Types, Taken, Blocks
  <1>4. Stages'
    BY <1>1, <1>2 DEF Stages
  <1>5. Exact'
    BY <1>1 DEF Exact
  <1>6. Lost'
    <2>1. Cardinality(leaked) \in Nat /\ ooms \in Nat
      BY <1>2, BlocksFinite DEF Types
    <2>2. Cardinality(leaked) <= ooms'
      BY <2>1, <1>1, <1>2 DEF Lost
    <2> QED BY <2>2, <1>1, <1>2 DEF Lost
  <1> QED BY <1>3, <1>4, <1>5, <1>6 DEF IInv

\* Power failure and unmount.
LEMMA ResetInvariant ==
  ASSUME IInv, Reset
  PROVE  IInv'
  <1>1. /\ nodes' = <<>> /\ numFree' = 0 /\ numNodes' = 0 /\ hint' = 0 /\ batch' = FALSE
        /\ inuse' = refs /\ leaked' = {} /\ phase' = "recover" /\ next' = 0
        /\ UNCHANGED <<refs, ooms>>
    BY DEF Reset
  <1>2. Types'
    <2>1. nodes' \in Seq(NodeSet) /\ hint' \in 0 .. Len(nodes')
      BY <1>1
    <2>2. Taken \subseteq refs /\ refs \subseteq Blocks /\ ooms \in Nat
      BY DEF IInv, Types
    <2>3. numFree' \in Int /\ numNodes' \in Int /\ hint' = 0 /\ next' \in Nat
      BY <1>1
    <2>4. batch' \in BOOLEAN
      BY <1>1
    <2>5. leaked' \subseteq Blocks /\ phase' \in {"up", "recover", "scan", "bug", "broken"}
      BY <1>1
    <2> QED BY <1>1, <2>1, <2>2, <2>3, <2>4, <2>5 DEF Types, Taken, Blocks
  <1>3. Stages'
    BY <1>1 DEF Stages
  <1>4. Lost'
    BY <1>1, FS_EmptySet DEF Lost, IInv, Types
  <1>5. Exact'
    BY <1>1 DEF Exact
  <1> QED BY <1>2, <1>3, <1>4, <1>5 DEF IInv

\* The mount makes the node of the reserved blocks.
LEMMA BeginScanInvariant ==
  ASSUME IInv, BeginScan
  PROVE  IInv' /\ Covered' = Taken
  <1>1. /\ phase = "recover" /\ phase' = "scan" /\ next' = 1
        /\ nodes' = FirstNode /\ numFree' = BlockEnd - UsedBlocks /\ numNodes' = 1
        /\ UNCHANGED <<hint, batch, inuse, refs, leaked, ooms>>
    BY DEF BeginScan, hintVars
  <1>2. Types /\ Stages /\ Lost
    BY DEF IInv
  <1>3. inuse = refs /\ leaked = {} /\ ~batch
    BY <1>1, <1>2 DEF Stages
  <1>4. Types'
    <2>1. nodes' \in Seq(NodeSet) /\ numFree' \in Int /\ numNodes' \in Int
      BY <1>1, FirstNodeExact
    <2>2. hint' = 0 /\ hint' \in 0 .. Len(nodes')
      BY <1>1, <1>2, <1>3, FirstNodeExact DEF Types
    <2> QED BY <1>1, <1>2, <2>1, <2>2 DEF Types, Taken, Blocks
  <1>5. Stages'
    BY <1>1, <1>3, FirstNodeExact DEF Stages
  <1>6. Lost'
    BY <1>1, <1>2 DEF Lost
  <1>7. Covered' = Taken
    BY <1>1, FirstNodeExact DEF Covered
  <1>8. Known' = Taken
    <2>1. \A b \in refs : b < 1 => b \in Taken
      BY <1>2, TakenBlocks DEF Types, Blocks
    <2> QED BY <2>1, <1>1 DEF Known, Taken
  <1>9. Exact'
    <2>1. Cardinality(Blocks \ Taken)' = BlockEnd - UsedBlocks
      BY FirstNodeExact DEF Blocks, Taken
    <2>2. Ascending(nodes') /\ Len(nodes') = 1
      BY <1>1, FirstNodeExact
    <2>3. numFree' = Cardinality(Blocks \ CoveredBy(nodes'))
      BY <1>1, FirstNodeExact
    <2> QED BY <1>1, <1>7, <1>8, <2>2, <2>3 DEF Exact, Covered, Blocks
  <1> QED BY <1>4, <1>5, <1>6, <1>7, <1>9 DEF IInv

\* A clear bit.
LEMMA ScanClearInvariant ==
  ASSUME IInv, ScanClear
  PROVE  IInv'
  <1>1. /\ phase = "scan" /\ next \in Bits \ SetBits /\ next' = next + 1
        /\ UNCHANGED <<nodes, numFree, numNodes, hint, batch, inuse, refs, leaked, phase, ooms>>
    BY DEF ScanClear, mapVars, hintVars
  <1>2. Types /\ Stages /\ Lost /\ Exact
    BY DEF IInv
  <1>3. Known' = Known
    <2>1. next \in refs => next \in Taken
      BY <1>1 DEF SetBits
    <2>2. \A b \in refs : b \in Int
      BY <1>2 DEF Types, Blocks
    <2>3. next \in Nat
      BY <1>2 DEF Types
    <2> QED BY <2>1, <2>2, <2>3, <1>1 DEF Known, Taken
  <1>4. Types'
    BY <1>1, <1>2 DEF Types, Taken, Blocks
  <1>5. Stages'
    BY <1>1, <1>2 DEF Stages, Types
  <1>6. Lost'
    BY <1>1, <1>2 DEF Lost
  <1>7. Exact'
    BY <1>1, <1>2, <1>3 DEF Exact, Covered, Blocks
  <1> QED BY <1>4, <1>5, <1>6, <1>7 DEF IInv

\* A run of set bits.
LEMMA ScanRunInvariant ==
  ASSUME IInv, ScanRun
  PROVE  /\ IInv'
         /\ {b \in Blocks \ Covered' : b < next'} = {b \in Blocks \ Covered : b < next}
  <1>1. PICK e \in Bits, i \in 1 .. Len(nodes) :
          /\ RunEnd(e) /\ GapFor(i, e - 1) /\ Occupied(i, next, e - 1) /\ next' = e
          /\ UNCHANGED <<hintVars, inuse, refs, leaked, phase, restarts, ooms>>
    BY DEF ScanRun
  <1>2. Types /\ Stages /\ Lost /\ Exact
    BY DEF IInv
  <1>3. /\ phase = "scan" /\ next < e /\ next .. e - 1 \subseteq SetBits
        /\ UNCHANGED <<hint, batch, inuse, refs, leaked, phase, ooms>>
    BY <1>1 DEF RunEnd, hintVars
  <1>4. nodes # <<>> /\ inuse = refs /\ leaked = {} /\ ~batch
    BY <1>2, <1>3 DEF Stages
  <1>5. next \in Nat /\ e \in Nat /\ e - 1 \in Nat /\ next <= e - 1
    BY <1>2, <1>3 DEF Types, Bits
  <1>6. Covered = Taken \cup {b \in refs : b < next}
    BY <1>2, <1>3, <1>4 DEF Exact, Known
  <1>7. \A b \in Covered : b < next
    <2>1. next \in SetBits
      BY <1>3, <1>5
    <2>2. next \notin Taken
      BY <2>1 DEF SetBits
    <2>3. \A b \in Taken : b < next
      BY <2>2, <1>5, SizesAssumption DEF Taken
    <2> QED BY <2>3, <1>6
  <1>8. nodes[i].high < next
    <2>1. nodes[i].low \in Nat /\ nodes[i].high \in Nat
      BY <1>2, NodeCells DEF Types
    <2>2. nodes[i].low <= nodes[i].high
      BY <1>2, <1>3, <1>4 DEF Exact, Ascending
    <2>3. nodes[i].high \in nodes[i].low .. nodes[i].high
      BY <2>1, <2>2
    <2>4. nodes[i].high \in Covered
      BY <2>3, CoveredMember DEF Covered
    <2> QED BY <2>4, <1>7
  <1>9. e - 1 < GapEnd(i)
    BY <1>1 DEF GapFor
  <1>10. /\ nodes' \in Seq(NodeSet) /\ nodes' # <<>> /\ Ascending(nodes')
         /\ CoveredBy(nodes') = Covered \cup next .. e - 1
         /\ next .. e - 1 \subseteq Blocks \ Covered
         /\ numNodes' = Len(nodes') /\ numFree' = Cardinality(Blocks \ CoveredBy(nodes'))
         /\ numFree' \in Int /\ numNodes' \in Int
    BY <1>1, <1>3, <1>4, <1>5, <1>8, <1>9, OccupiedExact
  <1>11. Types'
    <2>1. hint' = 0 /\ hint' \in 0 .. Len(nodes')
      BY <1>2, <1>3, <1>4, <1>10 DEF Types
    <2> QED BY <1>1, <1>2, <1>3, <1>5, <1>10, <2>1 DEF Types, Taken, Blocks
  <1>12. Stages'
    BY <1>1, <1>3, <1>4, <1>5, <1>10 DEF Stages
  <1>13. Lost'
    BY <1>2, <1>3 DEF Lost
  <1>14. CoveredBy(nodes') = Known'
    <2>1. Known' = Taken \cup {b \in refs : b < e}
      BY <1>1, <1>3 DEF Known, Taken
    <2>2. \A b \in refs : b \in Nat
      BY <1>2 DEF Types, Blocks
    <2>3. \A b \in refs : b < e <=> b < next \/ b \in next .. e - 1
      BY <2>2, <1>5
    <2>4. \A b \in next .. e - 1 : b \in refs
      BY <1>3 DEF SetBits
    <2> QED BY <2>1, <2>3, <2>4, <1>6, <1>10
  <1>15. Exact'
    BY <1>10, <1>14 DEF Exact, Covered, Blocks
  <1>16. {b \in Blocks \ Covered' : b < next'} = {b \in Blocks \ Covered : b < next}
    <2>1. \A b \in Blocks : b < e <=> b < next \/ b \in next .. e - 1
      BY <1>5 DEF Blocks
    <2>2. \A b \in next .. e - 1 : ~(b < next)
      BY <1>5
    <2> QED BY <2>1, <2>2, <1>1, <1>10 DEF Covered
  <1> QED BY <1>11, <1>12, <1>13, <1>15, <1>16 DEF IInv

\* The bitmap is read to its end.
LEMMA EndScanInvariant ==
  ASSUME IInv, EndScan
  PROVE  /\ IInv'
         /\ \A b \in Blocks : b < next
  <1>1. /\ phase = "scan" /\ next > BlockEnd /\ phase' = "up"
        /\ UNCHANGED <<nodes, numFree, numNodes, hint, batch, inuse, refs, leaked, next, ooms>>
    BY DEF EndScan, mapVars, hintVars
  <1>2. Types /\ Stages /\ Lost /\ Exact
    BY DEF IInv
  <1>3. \A b \in Blocks : b < next
    BY <1>1, <1>2, SizesAssumption DEF Types, Blocks
  <1>4. nodes # <<>> /\ inuse = refs /\ leaked = {}
    BY <1>1, <1>2 DEF Stages
  <1>5. Known' = Known
    BY <1>1, <1>2, <1>3, <1>4 DEF Known, Types
  <1>6. Types'
    BY <1>1, <1>2 DEF Types, Taken, Blocks
  <1>7. Stages'
    BY <1>1, <1>4 DEF Stages
  <1>8. Lost'
    BY <1>1, <1>2 DEF Lost
  <1>9. Exact'
    BY <1>1, <1>2, <1>5 DEF Exact, Covered, Blocks
  <1> QED BY <1>3, <1>6, <1>7, <1>8, <1>9 DEF IInv

\* Every step keeps the invariant.
LEMMA StepInvariant ==
  ASSUME IInv, [PNext]_pmfsVars
  PROVE  IInv'
  <1>1. CASE NewBlock
    BY <1>1, NewBlockInvariant
  <1>2. CASE BatchBegin \/ BatchEnd
    BY <1>2, BatchInvariant
  <1>3. ASSUME NEW b \in Blocks, PmfsFreeBlock(b) PROVE IInv'
    BY <1>3, FreeBlockInvariant
  <1>4. ASSUME NEW b \in Blocks, Refer(b) \/ Unrefer(b) PROVE IInv'
    BY <1>4, ReferenceInvariant
  <1>5. CASE (\E b \in Blocks : FreeBug(b)) \/ SkipScan \/ BeginOops \/ RunDropped
    BY <1>5, FailureInvariant
  <1>6. CASE Reset
    BY <1>6, ResetInvariant
  <1>7. CASE BeginScan
    BY <1>7, BeginScanInvariant
  <1>8. CASE ScanClear
    BY <1>8, ScanClearInvariant
  <1>9. CASE ScanRun
    BY <1>9, ScanRunInvariant
  <1>10. CASE EndScan
    BY <1>10, EndScanInvariant
  <1>11. CASE UNCHANGED pmfsVars
    BY <1>11 DEF pmfsVars, IInv, Types, Stages, Lost, Exact, Covered, Known, Blocks, Taken
  <1> QED BY <1>1, <1>2, <1>3, <1>4, <1>5, <1>6, <1>7, <1>8, <1>9, <1>10, <1>11 DEF PNext

LEMMA Invariance ==
  PSpec => []IInv
  <1>1. PInit => IInv
    BY InitInvariant
  <1>2. IInv /\ [PNext]_pmfsVars => IInv'
    BY StepInvariant
  <1> QED BY <1>1, <1>2, PTL DEF PSpec

\* Without a gap the list is one node that covers the volume.
LEMMA NoGap ==
  ASSUME nodes \in Seq(NodeSet), nodes # <<>>, Ascending(nodes), Enospc
  PROVE  Blocks \ Covered = {}
  <1>1. Len(nodes) \in Nat /\ Len(nodes) >= 1 /\ nodes[1].low = 0
    BY DEF Ascending
  <1>2. Len(nodes) = 1
    <2>0. SUFFICES ASSUME Len(nodes) # 1 PROVE FALSE
      OBVIOUS
    <2>1. 1 \in 1 .. Len(nodes) /\ 2 \in 1 .. Len(nodes) /\ 1 # Len(nodes)
      <3> DEFINE n == Len(nodes)
      <3>1. n \in Nat /\ n >= 1 /\ n # 1
        BY <1>1, <2>0
      <3> HIDE DEF n
      <3>2. 1 \in 1 .. n /\ 2 \in 1 .. n /\ 1 # n
        BY <3>1
      <3> QED BY <3>2 DEF n
    <2>2. nodes[1].high + 1 < nodes[2].low
      BY <2>1 DEF Ascending
    <2>3. nodes[1].high + 1 >= nodes[2].low
      BY <2>1 DEF Enospc, GapEnd
    <2>4. nodes[1].high \in Nat /\ nodes[2].low \in Nat
      BY <2>1, NodeCells
    <2> QED BY <2>2, <2>3, <2>4
  <1>3. nodes[1].high \in Nat /\ nodes[1].high + 1 >= BlockEnd
    BY <1>2, NodeCells DEF Enospc, GapEnd
  <1>4. \A x \in Blocks : x \in nodes[1].low .. nodes[1].high
    BY <1>1, <1>3, SizesAssumption DEF Blocks
  <1> QED BY <1>2, <1>4, CoveredMember DEF Covered

\* The list of allocator 1 (__pmfs_free_block, pmfs_new_block and
\* pmfs_alloc_insert_blocknode_map) is exactly the blocks in use, its counters are exact, and
\* -ENOSPC is honest, for volumes of every size.
THEOREM ListIsExact ==
  PSpec => []RangesExact
  <1>1. IInv => RangesExact
    <2> SUFFICES ASSUME IInv, phase \in {"up", "scan"}, nodes # <<>>
                 PROVE /\ Ascending(nodes) /\ Covered = Known
                       /\ numNodes = Len(nodes) /\ numFree = Cardinality(Blocks \ Covered)
                       /\ Enospc => numFree = 0
                       /\ hint \in 0 .. Len(nodes)
                       /\ Cardinality(leaked) <= ooms
      BY DEF RangesExact
    <2>1. Types /\ Lost /\ Exact
      BY DEF IInv
    <2>2. Enospc => numFree = 0
      <3> SUFFICES ASSUME Enospc PROVE numFree = 0
        OBVIOUS
      <3>1. Blocks \ Covered = {}
        BY <2>1, NoGap DEF Types, Exact
      <3>2. numFree = Cardinality(Blocks \ Covered)
        BY <2>1 DEF Exact
      <3> QED BY <3>1, <3>2, FS_EmptySet
    <2> QED BY <2>1, <2>2 DEF Types, Lost, Exact
  <1>2. PSpec => []IInv
    BY Invariance
  <1> QED BY <1>1, <1>2, PTL

-----------------------------------------------------------------------------
(* The refinement.                                                         *)

\* The gaps, in each stage.
LEMMA GapsByPhase ==
  ASSUME IInv
  PROVE  /\ nodes = <<>> => Gaps = {}
         /\ nodes # <<>> /\ phase = "up" => Gaps = Blocks \ Covered
         /\ nodes # <<>> /\ phase = "scan" => Gaps = {b \in Blocks \ Covered : b < next}
         /\ phase = "broken" => Gaps = {}
  BY DEF Gaps

\* mkfs leaves a pool.
LEMMA InitPool ==
  ASSUME PInit
  PROVE  PmfsPool!Init
  <1>1. IInv
    BY InitInvariant
  <1>2. phase = "up" /\ nodes # <<>> /\ leaked = {} /\ inuse = Taken
    BY FirstNodeExact DEF PInit
  <1>3. Gaps = Blocks \ Covered /\ Covered = inuse
    BY <1>1, <1>2, GapsByPhase DEF IInv, Exact, Known
  <1> QED BY <1>2, <1>3, TakenBlocks DEF PmfsPool!Init

\* A new block was nobody's.
LEMMA NewBlockPool ==
  ASSUME IInv, NewBlock
  PROVE  PmfsPool!Alloc
  <1>1. /\ IInv' /\ nodes' # <<>>
        /\ \E b \in Blocks \ Covered : Covered' = Covered \cup {b} /\ inuse' = inuse \cup {b}
    BY NewBlockInvariant
  <1>2. nodes # <<>> /\ phase = "up" /\ phase' = "up" /\ leaked' = leaked
    <2>1. phase = "up" /\ phase' = "up" /\ leaked' = leaked /\ 1 .. Len(nodes) # {}
      BY DEF NewBlock, mountVars
    <2> QED BY <2>1
  <1>3. Gaps = Blocks \ Covered
    BY <1>2, GapsByPhase
  <1>4. Gaps' = Blocks \ Covered'
    BY <1>1, <1>2 DEF Gaps, Blocks
  <1> QED BY <1>1, <1>2, <1>3, <1>4 DEF PmfsPool!Alloc

\* A block that is freed, or cannot be, was owned.
LEMMA FreeBlockPool ==
  ASSUME IInv, NEW b \in Blocks, PmfsFreeBlock(b)
  PROVE  PmfsPool!Release
  <1>1. /\ phase = "up" /\ phase' = "up" /\ nodes # <<>> /\ b \in inuse
        /\ inuse' = inuse \ {b} /\ (FreeFound(b) \/ FreeSkipped(b))
    BY DEF PmfsFreeBlock, mountVars
  <1>2. Gaps = Blocks \ Covered
    BY <1>1, GapsByPhase
  <1>3. CASE FreeFound(b)
    <2>1. nodes' # <<>> /\ Covered' = Covered \ {b}
      BY <1>3, FoundInvariant
    <2>2. Gaps' = Gaps \cup {b}
      BY <1>1, <1>2, <2>1 DEF Gaps, Blocks
    <2>3. leaked' = leaked
      BY <1>3 DEF FreeFound
    <2> QED BY <1>1, <2>2, <2>3 DEF PmfsPool!Release, PmfsPool!Shelve
  <1>4. CASE FreeSkipped(b)
    <2>1. nodes' = nodes /\ leaked' = leaked \cup {b}
      BY <1>4 DEF FreeSkipped, mapVars
    <2>2. Gaps' = Gaps
      BY <1>1, <2>1 DEF Gaps, Blocks, Covered
    <2> QED BY <1>1, <2>1, <2>2 DEF PmfsPool!Release, PmfsPool!Shelve
  <1> QED BY <1>1, <1>3, <1>4

\* A clear bit is a block that nobody owns, or one in front of the scan, or none.
LEMMA ScanClearPool ==
  ASSUME IInv, ScanClear
  PROVE  PmfsPool!Reclaim \/ UNCHANGED PmfsPool!poolVars
  <1>1. /\ phase = "scan" /\ next \in Bits \ SetBits /\ next' = next + 1
        /\ UNCHANGED <<nodes, inuse, leaked, phase>>
    BY DEF ScanClear, mapVars
  <1>2. Types /\ Stages /\ Exact
    BY DEF IInv
  <1>3. nodes # <<>> /\ inuse = refs /\ leaked = {} /\ next \in Nat
    BY <1>1, <1>2 DEF Stages, Types
  <1>4. Gaps = {b \in Blocks \ Covered : b < next}
    BY <1>1, <1>3, GapsByPhase
  <1>5. Gaps' = {b \in Blocks \ Covered : b < next + 1}
    BY <1>1, <1>3 DEF Gaps, Blocks, Covered
  <1>6. \A b \in Blocks : b < next + 1 <=> b < next \/ b = next
    BY <1>3 DEF Blocks
  <1>7. CASE next \in Blocks \ Covered
    <2>1. Gaps' = Gaps \cup {next}
      BY <1>4, <1>5, <1>6, <1>7
    <2>2. next \notin Gaps
      BY <1>3, <1>4
    <2>3. next \notin inuse
      <3>1. Covered = Taken \cup {b \in refs : b < next}
        BY <1>1, <1>2, <1>3 DEF Exact, Known
      <3> QED BY <3>1, <1>1, <1>3, <1>7 DEF SetBits
    <2> QED BY <1>1, <1>3, <1>7, <2>1, <2>2, <2>3 DEF PmfsPool!Reclaim, PmfsPool!Shelve
  <1>8. CASE next \notin Blocks \ Covered
    <2>1. Gaps' = Gaps
      BY <1>4, <1>5, <1>6, <1>8
    <2> QED BY <1>1, <2>1 DEF PmfsPool!poolVars
  <1> QED BY <1>7, <1>8

\* Steps that change neither the gaps nor the owners.
LEMMA StutterPool ==
  ASSUME IInv,
         \/ BatchBegin \/ BatchEnd \/ SkipScan \/ BeginOops \/ BeginScan \/ ScanRun \/ EndScan
         \/ \E b \in Blocks : FreeBug(b) \/ Refer(b) \/ Unrefer(b)
         \/ UNCHANGED pmfsVars
  PROVE  UNCHANGED PmfsPool!poolVars
  <1>1. CASE BatchBegin \/ BatchEnd \/ (\E b \in Blocks : Refer(b) \/ Unrefer(b)) \/ UNCHANGED pmfsVars
    <2>1. UNCHANGED <<nodes, phase, next, leaked, inuse>>
      BY <1>1 DEF BatchBegin, BatchEnd, Refer, Unrefer, pmfsVars, mapVars, mountVars
    <2>2. Gaps' = Gaps
      BY <2>1 DEF Gaps, Covered, Blocks
    <2> QED BY <2>1, <2>2 DEF PmfsPool!poolVars
  <1>2. CASE SkipScan \/ BeginOops \/ \E b \in Blocks : FreeBug(b)
    <2>1. UNCHANGED <<nodes, leaked, inuse>> /\ nodes = <<>>
      BY <1>2 DEF IInv, Stages, SkipScan, BeginOops, FreeBug, mapVars
    <2>2. Gaps' = {} /\ Gaps = {}
      BY <2>1 DEF Gaps
    <2> QED BY <2>1, <2>2 DEF PmfsPool!poolVars
  <1>3. CASE BeginScan
    <2>1. /\ phase = "recover" /\ phase' = "scan" /\ next' = 1 /\ nodes' = FirstNode
          /\ UNCHANGED <<inuse, leaked>>
      BY <1>3 DEF BeginScan
    <2>2. nodes = <<>> /\ Gaps = {}
      BY <2>1 DEF IInv, Stages, Gaps
    <2>3. Covered' = Taken
      BY <1>3, BeginScanInvariant
    <2>4. \A b \in Blocks : b < 1 => b \in Taken
      BY TakenBlocks DEF Blocks
    <2>5. Gaps' = {b \in Blocks \ Taken : b < 1}
      BY <2>1, <2>3, FirstNodeExact DEF Gaps, Blocks
    <2>6. Gaps' = {}
      BY <2>4, <2>5
    <2> QED BY <2>1, <2>2, <2>6 DEF PmfsPool!poolVars
  <1>4. CASE ScanRun
    <2>1. /\ IInv'
          /\ {b \in Blocks \ Covered' : b < next'} = {b \in Blocks \ Covered : b < next}
      BY <1>4, ScanRunInvariant
    <2>2. phase = "scan" /\ phase' = "scan" /\ UNCHANGED <<inuse, leaked>>
      BY <1>4 DEF ScanRun, RunEnd
    <2>3. nodes # <<>> /\ nodes' # <<>>
      BY <2>1, <2>2 DEF IInv, Stages
    <2>4. Gaps = {b \in Blocks \ Covered : b < next}
      BY <2>2, <2>3, GapsByPhase
    <2>5. Gaps' = {b \in Blocks \ Covered' : b < next'}
      BY <2>2, <2>3 DEF Gaps, Blocks
    <2> QED BY <2>1, <2>2, <2>4, <2>5 DEF PmfsPool!poolVars
  <1>5. CASE EndScan
    <2>1. phase = "scan" /\ phase' = "up" /\ UNCHANGED <<nodes, inuse, leaked>>
      BY <1>5 DEF EndScan, mapVars
    <2>2. nodes # <<>> /\ \A b \in Blocks : b < next
      BY <1>5, <2>1, EndScanInvariant DEF IInv, Stages
    <2>3. Gaps = {b \in Blocks \ Covered : b < next}
      BY <2>1, <2>2, GapsByPhase
    <2>4. Gaps' = Blocks \ Covered
      BY <2>1, <2>2 DEF Gaps, Blocks, Covered
    <2>5. Gaps' = Gaps
      BY <2>2, <2>3, <2>4
    <2> QED BY <2>1, <2>5 DEF PmfsPool!poolVars
  <1> QED BY <1>1, <1>2, <1>3, <1>4, <1>5

\* A power failure or unmount, and a run that could not be inserted, after which the
\* allocator gives no more blocks in the model.
LEMMA RestartPool ==
  ASSUME IInv, Reset \/ RunDropped
  PROVE  PmfsPool!Restart
  <1>1. CASE Reset
    <2>1. Gaps' = {} /\ leaked' = {} /\ inuse' = refs
      BY <1>1 DEF Reset, Gaps
    <2>2. refs \subseteq inuse
      BY DEF IInv, Types
    <2> QED BY <2>1, <2>2 DEF PmfsPool!Restart
  <1>2. CASE RunDropped
    <2>1. phase = "scan" /\ phase' = "broken" /\ UNCHANGED <<inuse, leaked>>
      BY <1>2 DEF RunDropped, RunEnd
    <2>2. leaked = {} /\ Gaps' = {}
      BY <2>1 DEF IInv, Stages, Gaps
    <2> QED BY <2>1, <2>2 DEF PmfsPool!Restart
  <1> QED BY <1>1, <1>2

\* Allocator 1 keeps the promise of struct allocator_factory (pmfs_new_block,
\* __pmfs_free_block and the rebuild of its list), whatever the size of the volume: each of
\* its steps is a step of the pool or leaves the pool as it is.
THEOREM RangesImplementPool ==
  PSpec => PmfsImplementsPool
  <1>1. PInit => PmfsPool!Init
    BY InitPool
  <1>2. IInv /\ [PNext]_pmfsVars => [PmfsPool!Next]_(PmfsPool!poolVars)
    <2> SUFFICES ASSUME IInv, [PNext]_pmfsVars PROVE PmfsPool!Next \/ UNCHANGED PmfsPool!poolVars
      OBVIOUS
    <2>1. CASE NewBlock
      BY <2>1, NewBlockPool DEF PmfsPool!Next
    <2>2. ASSUME NEW b \in Blocks, PmfsFreeBlock(b) PROVE PmfsPool!Next
      BY <2>2, FreeBlockPool DEF PmfsPool!Next
    <2>3. CASE Reset \/ RunDropped
      BY <2>3, RestartPool DEF PmfsPool!Next
    <2>4. CASE ScanClear
      BY <2>4, ScanClearPool DEF PmfsPool!Next
    <2>5. CASE \/ BatchBegin \/ BatchEnd \/ SkipScan \/ BeginOops \/ BeginScan \/ ScanRun \/ EndScan
               \/ \E b \in Blocks : FreeBug(b) \/ Refer(b) \/ Unrefer(b)
               \/ UNCHANGED pmfsVars
      BY <2>5, StutterPool
    <2> QED BY <2>1, <2>2, <2>3, <2>4, <2>5 DEF PNext
  <1>3. PSpec => []IInv
    BY Invariance
  <1> QED BY <1>1, <1>2, <1>3, PTL DEF PSpec, PmfsImplementsPool, PmfsPool!Spec
=============================================================================
