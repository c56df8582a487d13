--------------------------- MODULE DirectoryProofs ---------------------------
(***************************************************************************)
(* The records of a directory tile its blocks, hold each name once, and    *)
(* implement a map from names to inodes. The first parts are about the log *)
(* of a call, about one block and about what an edit does to it; then come *)
(* the calls of the directory, the invariant, and its refinement.          *)
(***************************************************************************)
EXTENDS Directory, FiniteSetTheorems, SequenceTheorems, WellFoundedInduction, TLAPS

-----------------------------------------------------------------------------
(* The undo of a transaction that has logged no field, one or two.                         *)

\* The memory when the words of a log are undone.
Undone(words, m) == FoldRight(Restored, words, m)

LEMMA UndoNone ==
  ASSUME NEW m
  PROVE  Undone(<<>>, m) = m
<1> DEFINE body(f) == [s \in SUBSET {} |->
       IF s = {} THEN m ELSE Restored(<<>>[Min(s)], f[s \ {Min(s)}])]
<1>1. DOMAIN <<>> = {}
  OBVIOUS
<1>2. FoldRight(Restored, <<>>, m) = (CHOOSE g : g = body(g))[{}]
  BY <1>1, Zenon DEF FoldRight, MapThenFoldSet
<1>3. \A f : body(f) = [s \in SUBSET {} |-> m]
  OBVIOUS
<1>4. PICK g : g = (CHOOSE h : h = body(h)) /\ g = body(g)
  <2>1. [s \in SUBSET {} |-> m] = body([s \in SUBSET {} |-> m])
    BY <1>3, Zenon
  <2> HIDE DEF body
  <2> QED BY <2>1, Zenon
<1>5. g[{}] = m
  BY <1>3, <1>4
<1> QED BY <1>2, <1>4, <1>5, Zenon DEF Undone

LEMMA UndoOne ==
  ASSUME NEW m, NEW w
  PROVE  Undone(<<w>>, m) = Restored(w, m)
<1> DEFINE body(f) == [s \in SUBSET {1} |->
       IF s = {} THEN m ELSE Restored(<<w>>[Min(s)], f[s \ {Min(s)}])]
<1>1. Min({1}) = 1
  BY DEF Min
<1> DEFINE f == [s \in SUBSET {1} |-> IF s = {} THEN m ELSE Restored(w, m)]
<1>2. f = body(f)
  <2> SUFFICES ASSUME NEW s \in SUBSET {1} PROVE f[s] = body(f)[s]
    BY Zenon
  <2>1. s = {} \/ s = {1}
    OBVIOUS
  <2>2. CASE s = {}
    BY <2>2
  <2>3. CASE s = {1}
    <3>1. s \ {Min(s)} = {} /\ <<w>>[Min(s)] = w /\ s # {}
      BY <2>3, <1>1
    <3> QED BY <3>1, <2>3
  <2> QED BY <2>1, <2>2, <2>3
<1>3. DOMAIN <<w>> = {1}
  OBVIOUS
<1>4. FoldRight(Restored, <<w>>, m) = (CHOOSE g : g = body(g))[{1}]
  BY <1>3, Zenon DEF FoldRight, MapThenFoldSet
<1>5. PICK g : g = (CHOOSE h : h = body(h)) /\ g = body(g)
  <2> HIDE DEF body, f
  <2> QED BY <1>2, Zenon
<1>6. g[{}] = m
  BY <1>5
<1>7. g[{1}] = Restored(w, g[{}])
  <2>1. {1} \ {Min({1})} = {} /\ <<w>>[Min({1})] = w /\ {1} # {} /\ {1} \in SUBSET {1}
    BY <1>1
  <2> QED BY <1>5, <2>1
<1> QED BY <1>4, <1>5, <1>6, <1>7, Zenon DEF Undone

LEMMA UndoTwo ==
  ASSUME NEW m, NEW v, NEW w
  PROVE  Undone(<<v, w>>, m) = Restored(v, Restored(w, m))
<1> DEFINE body(f) == [s \in SUBSET {1, 2} |->
       IF s = {} THEN m ELSE Restored(<<v, w>>[Min(s)], f[s \ {Min(s)}])]
<1>1. Min({1}) = 1 /\ Min({2}) = 2 /\ Min({1, 2}) = 1
  BY DEF Min
<1> DEFINE f == [s \in SUBSET {1, 2} |->
       IF s = {} THEN m
       ELSE IF s = {1} THEN Restored(v, m)
       ELSE IF s = {2} THEN Restored(w, m) ELSE Restored(v, Restored(w, m))]
<1>2. f = body(f)
  <2> SUFFICES ASSUME NEW s \in SUBSET {1, 2} PROVE f[s] = body(f)[s]
    BY Zenon
  <2>1. s = {} \/ s = {1} \/ s = {2} \/ s = {1, 2}
    OBVIOUS
  <2>2. CASE s = {}
    BY <2>2
  <2>3. CASE s = {1}
    <3>1. s \ {Min(s)} = {} /\ <<v, w>>[Min(s)] = v /\ s # {}
      BY <2>3, <1>1
    <3> QED BY <3>1, <2>3
  <2>4. CASE s = {2}
    <3>1. s \ {Min(s)} = {} /\ <<v, w>>[Min(s)] = w /\ s # {} /\ s # {1}
      BY <2>4, <1>1
    <3> QED BY <3>1, <2>4
  <2>5. CASE s = {1, 2}
    <3>1. s \ {Min(s)} = {2} /\ <<v, w>>[Min(s)] = v /\ s # {} /\ s # {1} /\ s # {2}
      BY <2>5, <1>1
    <3>2. f[{2}] = Restored(w, m)
      <4>1. {2} # {} /\ {2} # {1}
        OBVIOUS
      <4> QED BY <4>1
    <3>3. f[s] = Restored(v, Restored(w, m)) /\ body(f)[s] = Restored(v, f[{2}])
      BY <3>1, <2>5
    <3> QED BY <3>2, <3>3
  <2> QED BY <2>1, <2>2, <2>3, <2>4, <2>5
<1>3. DOMAIN <<v, w>> = {1, 2}
  OBVIOUS
<1>4. FoldRight(Restored, <<v, w>>, m) = (CHOOSE g : g = body(g))[{1, 2}]
  BY <1>3, Zenon DEF FoldRight, MapThenFoldSet
<1>5. PICK g : g = (CHOOSE h : h = body(h)) /\ g = body(g)
  <2> HIDE DEF body, f
  <2> QED BY <1>2, Zenon
<1>6. g[{}] = m
  BY <1>5
<1>7. g[{2}] = Restored(w, g[{}])
  <2>1. {2} \ {Min({2})} = {} /\ <<v, w>>[Min({2})] = w /\ {2} # {} /\ {2} \in SUBSET {1, 2}
    BY <1>1
  <2> QED BY <1>5, <2>1
<1>8. g[{1, 2}] = Restored(v, g[{2}])
  <2>1. /\ {1, 2} \ {Min({1, 2})} = {2} /\ <<v, w>>[Min({1, 2})] = v
        /\ {1, 2} # {} /\ {1, 2} \in SUBSET {1, 2}
    BY <1>1
  <2> QED BY <1>5, <2>1
<1> QED BY <1>4, <1>5, <1>6, <1>7, <1>8, Zenon DEF Undone

LEMMA TwoWords ==
  ASSUME NEW v, NEW w
  PROVE  Append(<<>>, v) = <<v>> /\ Append(<<v>>, w) = <<v, w>>
<1> DEFINE S == {v, w}
<1>1. Append(<<>>, v) = <<v>>
  OBVIOUS
<1>2. <<v>> \in Seq(S) /\ w \in S /\ Len(<<v>>) = 1
  OBVIOUS
<1>3. /\ Append(<<v>>, w) \in Seq(S) /\ Len(Append(<<v>>, w)) = 2
      /\ Append(<<v>>, w)[1] = v /\ Append(<<v>>, w)[2] = w
  BY <1>2
<1>4. <<v, w>> \in Seq(S) /\ Len(<<v, w>>) = 2 /\ <<v, w>>[1] = v /\ <<v, w>>[2] = w
  OBVIOUS
<1>5. \A i \in 1..Len(Append(<<v>>, w)) : Append(<<v>>, w)[i] = <<v, w>>[i]
  BY <1>3, <1>4
<1> HIDE DEF S
<1>6. Append(<<v>>, w) = <<v, w>>
  BY <1>3, <1>4, <1>5, SeqEqual
<1> QED BY <1>1, <1>6

-----------------------------------------------------------------------------
(* The records of one block.                                                                *)

Blocks == [Offsets -> Record \cup {Junk}]

\* A record is as long as its name needs and has an inode of the kind that the name has.
Fit(de) ==
  /\ de.len >= Size[de.name]
  /\ de.ino \in Targets => de.name \in Labels
  /\ de.ino = Dots => de.name = Dots

\* The records tile the block.
GoodBlock(r) ==
  /\ r \in Blocks /\ Block \in Walk(r)
  /\ \A o \in Records(r) : Fit(r[o])

LEMMA RecordFields ==
  ASSUME NEW r \in Blocks, NEW o \in Offsets, r[o] # Junk
  PROVE  /\ r[o] \in Record /\ r[o].len \in 1..Block /\ r[o].name \in Labels \cup {Dots}
         /\ r[o].ino \in Targets \cup {NoIno, Dots}
         /\ o + r[o].len \in Nat /\ o + r[o].len > o
  BY DirectoryAssumption DEF Blocks, Record, Offsets

\* The walk is the least set of offsets with the start and, with a record, the next one.
LEMMA WalkBasics ==
  ASSUME NEW r \in Blocks
  PROVE  /\ Walk(r) \in SUBSET (0..Block) /\ 0 \in Walk(r) /\ Steps(r, Walk(r))
         /\ \A S \in SUBSET (0..Block) : 0 \in S /\ Steps(r, S) => Walk(r) \subseteq S
<1>1. Walk(r) \in SUBSET (0..Block) /\ 0 \in Walk(r)
  BY DirectoryAssumption DEF Walk
<1>2. ASSUME NEW S \in SUBSET (0..Block), 0 \in S, Steps(r, S)
      PROVE  Walk(r) \subseteq S
  BY <1>2 DEF Walk
<1>3. Steps(r, Walk(r))
  <2> SUFFICES ASSUME NEW o \in Walk(r) \cap Offsets, r[o] # Junk, o + r[o].len <= Block
               PROVE  o + r[o].len \in Walk(r)
    BY DEF Steps
  <2>1. o + r[o].len \in 0..Block
    BY RecordFields, DirectoryAssumption
  <2>2. ASSUME NEW S \in SUBSET (0..Block), 0 \in S, Steps(r, S)
        PROVE  o + r[o].len \in S
    <3>1. o \in S
      BY <1>2, <2>2
    <3> QED BY <3>1, <2>2 DEF Steps
  <2> QED BY <2>1, <2>2 DEF Walk
<1> QED BY <1>1, <1>2, <1>3

\* A record ends before the next offset on the walk, or there.
LEMMA Chain ==
  ASSUME NEW r \in Blocks, NEW o \in Walk(r), NEW q \in Walk(r), o < q
  PROVE  r[o] # Junk /\ o + r[o].len <= q
<1> DEFINE Ok(p) == \A x \in Walk(r) : p < x => r[p] # Junk /\ p + r[p].len <= x
           Bad == {p \in Walk(r) : ~Ok(p)}
<1>1. Walk(r) \in SUBSET (0..Block) /\ 0 \in Walk(r) /\ Steps(r, Walk(r))
  BY WalkBasics
<1>2. SUFFICES Bad = {}
  BY <1>2
<1>3. SUFFICES ASSUME Bad # {} PROVE FALSE
  OBVIOUS
<1>4. PICK p \in Bad : \A x \in Bad : ~(x < p)
  <2>1. Bad \subseteq Nat
    BY <1>1
  <2>2. \E p \in Bad : \A x \in Bad : ~(<<x, p>> \in OpToRel(<, Nat))
    BY <1>3, <2>1, NatLessThanWellFounded, WFMin, Zenon
  <2> QED BY <2>1, <2>2 DEF OpToRel
<1>5. p \in Walk(r) /\ p \in 0..Block /\ \A x \in Walk(r) : x < p => Ok(x)
  BY <1>4, <1>1
<1> DEFINE S == {x \in Walk(r) : x <= p \/ (r[p] # Junk /\ p + r[p].len <= x)}
<1>6. S \in SUBSET (0..Block) /\ 0 \in S
  BY <1>1, <1>5
<1>7. Steps(r, S)
  <2> SUFFICES ASSUME NEW x \in S \cap Offsets, r[x] # Junk, x + r[x].len <= Block
               PROVE  x + r[x].len \in S
    BY DEF Steps
  <2>1. x \in Walk(r) /\ x + r[x].len \in Walk(r) /\ x + r[x].len > x /\ x \in Nat
    BY <1>1, RecordFields DEF Steps, Offsets
  <2>2. x + r[x].len \in Nat
    BY RecordFields
  <2>3. CASE x < p
    BY <2>1, <2>2, <2>3, <1>5
  <2>4. CASE x = p
    BY <2>1, <2>2, <2>4
  <2>5. CASE x > p
    <3>1. r[p] # Junk /\ p + r[p].len <= x
      BY <2>5, <1>5, <2>1
    <3>2. p \in Offsets
      <4>1. x <= Block - 1 /\ Block \in Nat
        BY DirectoryAssumption DEF Offsets
      <4> QED BY <4>1, <2>5, <2>1, <1>5 DEF Offsets
    <3>3. p + r[p].len \in Nat
      BY <3>1, <3>2, RecordFields
    <3> QED BY <3>1, <3>3, <2>1, <2>2
  <2> QED BY <2>1, <2>3, <2>4, <2>5, <1>5
<1>8. Walk(r) \subseteq S
  BY <1>6, <1>7, WalkBasics
<1>9. Ok(p)
  BY <1>8, <1>5
<1> QED BY <1>9, <1>4

LEMMA Predecessor ==
  ASSUME NEW r \in Blocks, NEW q \in Walk(r), q # 0
  PROVE  \E p \in Records(r) : p + r[p].len = q
<1> SUFFICES ASSUME \A p \in Records(r) : p + r[p].len # q PROVE FALSE
  OBVIOUS
<1> DEFINE S == Walk(r) \ {q}
<1>1. S \in SUBSET (0..Block) /\ 0 \in S
  BY WalkBasics
<1>2. Steps(r, S)
  BY WalkBasics DEF Steps, Records
<1> QED BY <1>1, <1>2, WalkBasics

\* In a block that is tiled the records are all that is on the walk before the end.
LEMMA TiledWalk ==
  ASSUME NEW r \in Blocks, Block \in Walk(r)
  PROVE  /\ Records(r) = Walk(r) \cap Offsets
         /\ Walk(r) = Records(r) \cup {Block}
         /\ \A o \in Records(r) : r[o] # Junk /\ o + r[o].len \in Walk(r)
<1>1. Walk(r) \subseteq Offsets \cup {Block} /\ Block \in Nat
  BY WalkBasics, DirectoryAssumption DEF Offsets
<1>2. ASSUME NEW o \in Walk(r) \cap Offsets
      PROVE  r[o] # Junk /\ o + r[o].len <= Block
  <2>1. o < Block
    BY <1>1 DEF Offsets
  <2> QED BY <2>1, Chain
<1>3. Records(r) = Walk(r) \cap Offsets
  BY <1>2 DEF Records
<1>4. \A o \in Records(r) : o + r[o].len \in Walk(r)
  BY <1>2, <1>3, WalkBasics DEF Steps
<1> QED BY <1>1, <1>2, <1>3, <1>4

LEMMA SamePredecessor ==
  ASSUME NEW r \in Blocks, NEW p \in Records(r), NEW q \in Records(r),
         p + r[p].len = q + r[q].len
  PROVE  p = q
<1>1. p \in Walk(r) /\ q \in Walk(r) /\ p \in Offsets /\ q \in Offsets /\ r[p] # Junk /\ r[q] # Junk
  BY DEF Records
<1>2. p \in Int /\ q \in Int /\ p + r[p].len > p /\ q + r[q].len > q
      /\ p + r[p].len \in Int /\ q + r[q].len \in Int
  BY <1>1, RecordFields DEF Offsets
<1>3. CASE p < q
  BY <1>1, <1>2, <1>3, Chain
<1>4. CASE q < p
  BY <1>1, <1>2, <1>4, Chain
<1> QED BY <1>2, <1>3, <1>4

\* What is no record and what a record says but its length does not matter to the walk.
LEMMA SameWalk ==
  ASSUME NEW r \in Blocks, NEW s \in Blocks, Block \in Walk(r),
         \A o \in Records(r) : s[o] # Junk /\ s[o].len = r[o].len
  PROVE  Walk(s) = Walk(r) /\ Records(s) = Records(r)
<1>1. Steps(s, Walk(r))
  BY TiledWalk DEF Steps
<1>2. Walk(s) \subseteq Walk(r)
  BY <1>1, WalkBasics
<1>3. Steps(r, Walk(s))
  <2> SUFFICES ASSUME NEW o \in Walk(s) \cap Offsets, r[o] # Junk, o + r[o].len <= Block
               PROVE  o + r[o].len \in Walk(s)
    BY DEF Steps
  <2>1. o \in Records(r)
    BY <1>2 DEF Records
  <2> QED BY <2>1, WalkBasics DEF Steps
<1>4. Walk(s) = Walk(r)
  BY <1>2, <1>3, WalkBasics
<1>5. Records(r) = Walk(r) \cap Offsets
  BY TiledWalk
<1>6. Records(s) = Walk(s) \cap Offsets
  BY <1>4, <1>5 DEF Records
<1> QED BY <1>4, <1>5, <1>6

LEMMA SameRecords ==
  ASSUME NEW r, GoodBlock(r), NEW s \in Blocks,
         \A o \in Records(r) : s[o] # Junk /\ s[o].len = r[o].len /\ Fit(s[o])
  PROVE  GoodBlock(s) /\ Records(s) = Records(r)
<1>1. Walk(s) = Walk(r) /\ Records(s) = Records(r)
  BY SameWalk, Zenon DEF GoodBlock
<1> QED BY <1>1 DEF GoodBlock

LEMMA SplitWalk ==
  ASSUME NEW r \in Blocks, NEW s \in Blocks, Block \in Walk(r),
         NEW o \in Records(r), NEW u \in Nat \ {0}, u < r[o].len,
         s[o] # Junk, s[o].len = u, s[o + u] # Junk, s[o + u].len = r[o].len - u,
         \A p \in Records(r) \ {o} : s[p] # Junk /\ s[p].len = r[p].len
  PROVE  /\ Walk(s) = Walk(r) \cup {o + u} /\ Records(s) = Records(r) \cup {o + u}
         /\ o + u \notin Walk(r) /\ o + u \in Offsets
<1>1. /\ o \in Walk(r) /\ o \in Offsets /\ o + r[o].len \in Walk(r) /\ o \in Nat
      /\ r[o].len \in Nat /\ Block \in Nat /\ o + r[o].len <= Block
  BY TiledWalk, RecordFields, WalkBasics, DirectoryAssumption DEF Offsets
<1>2. o + u \in Offsets /\ o < o + u /\ o + u < o + r[o].len
  BY <1>1 DEF Offsets
<1>3. o + u \notin Walk(r)
  <2> SUFFICES ASSUME o + u \in Walk(r) PROVE FALSE
    OBVIOUS
  <2> QED BY <1>1, <1>2, Chain
<1> DEFINE S == Walk(r) \cup {o + u}
<1>4. S \in SUBSET (0..Block) /\ 0 \in S
  BY <1>2, WalkBasics, DirectoryAssumption DEF Offsets
<1>5. Steps(s, S)
  <2> SUFFICES ASSUME NEW p \in S \cap Offsets, s[p] # Junk, p + s[p].len <= Block
               PROVE  p + s[p].len \in S
    BY DEF Steps
  <2>1. CASE p = o
    BY <2>1
  <2>2. CASE p = o + u
    <3>1. p + s[p].len = o + r[o].len
      BY <2>2, <1>1
    <3> QED BY <3>1, <1>1
  <2>3. CASE p \in Walk(r) /\ p # o
    <3>1. p \in Records(r)
      BY <2>3, TiledWalk
    <3> QED BY <3>1, <2>3, TiledWalk
  <2> QED BY <2>1, <2>2, <2>3
<1>6. Walk(s) \subseteq S
  BY <1>4, <1>5, WalkBasics
<1> DEFINE T == Walk(s) \cap Walk(r)
<1>7. T \in SUBSET (0..Block) /\ 0 \in T
  BY WalkBasics
<1>8. o \in Walk(s) => o + u \in Walk(s) /\ o + r[o].len \in Walk(s)
  <2> SUFFICES ASSUME o \in Walk(s) PROVE o + u \in Walk(s) /\ o + r[o].len \in Walk(s)
    OBVIOUS
  <2>1. o + s[o].len <= Block
    BY <1>1, <1>2
  <2>2. o + u \in Walk(s)
    BY <2>1, <1>1, WalkBasics DEF Steps
  <2>3. (o + u) + s[o + u].len = o + r[o].len
    BY <1>1
  <2> QED BY <2>2, <2>3, <1>1, <1>2, WalkBasics DEF Steps
<1>9. Steps(r, T)
  <2> SUFFICES ASSUME NEW p \in T \cap Offsets, r[p] # Junk, p + r[p].len <= Block
               PROVE  p + r[p].len \in Walk(s)
    BY WalkBasics DEF Steps
  <2>1. CASE p = o
    BY <2>1, <1>8
  <2>2. CASE p # o
    <3>1. p \in Records(r)
      BY TiledWalk
    <3> QED BY <3>1, <2>2, WalkBasics DEF Steps
  <2> QED BY <2>1, <2>2
<1>10. Walk(r) \subseteq Walk(s)
  BY <1>7, <1>9, WalkBasics
<1>11. Walk(s) = S
  BY <1>1, <1>6, <1>8, <1>10
<1>12. Records(s) = Records(r) \cup {o + u}
  <2>1. Records(r) = Walk(r) \cap Offsets
    BY TiledWalk
  <2> QED BY <2>1, <1>2, <1>11 DEF Records
<1> QED BY <1>2, <1>3, <1>11, <1>12

LEMMA MergeWalk ==
  ASSUME NEW r \in Blocks, NEW s \in Blocks, Block \in Walk(r),
         NEW o \in Records(r), NEW v \in Records(r), v + r[v].len = o,
         s[v] # Junk, s[v].len = r[v].len + r[o].len,
         \A p \in Records(r) \ {v, o} : s[p] # Junk /\ s[p].len = r[p].len
  PROVE  Walk(s) = Walk(r) \ {o} /\ Records(s) = Records(r) \ {o}
<1>1. /\ o \in Walk(r) /\ v \in Walk(r) /\ o \in Offsets /\ v \in Offsets
      /\ o + r[o].len \in Walk(r) /\ o \in Nat /\ v \in Nat
      /\ r[o].len \in Nat \ {0} /\ r[v].len \in Nat \ {0} /\ Block \in Nat
      /\ o + r[o].len <= Block /\ v < o
  BY TiledWalk, RecordFields, WalkBasics, DirectoryAssumption DEF Offsets
<1>2. v + s[v].len = o + r[o].len /\ o + r[o].len # o
  BY <1>1
<1> DEFINE S == Walk(r) \ {o}
<1>3. S \in SUBSET (0..Block) /\ 0 \in S
  BY <1>1, WalkBasics
<1>4. Steps(s, S)
  <2> SUFFICES ASSUME NEW p \in S \cap Offsets, s[p] # Junk, p + s[p].len <= Block
               PROVE  p + s[p].len \in S
    BY DEF Steps
  <2>1. CASE p = v
    BY <2>1, <1>1, <1>2
  <2>2. CASE p # v
    <3>1. p \in Records(r) /\ p # o
      BY TiledWalk
    <3>2. p + r[p].len # o
      BY <3>1, <2>2, SamePredecessor
    <3> QED BY <3>1, <3>2, <2>2, TiledWalk
  <2> QED BY <2>1, <2>2
<1>5. Walk(s) \subseteq S
  BY <1>3, <1>4, WalkBasics
<1> DEFINE T == IF v \in Walk(s) THEN Walk(s) \cup {o} ELSE Walk(s)
<1>6. T \in SUBSET (0..Block) /\ 0 \in T
  BY <1>1, WalkBasics
<1>7. Steps(r, T)
  <2> SUFFICES ASSUME NEW p \in T \cap Offsets, r[p] # Junk, p + r[p].len <= Block
               PROVE  p + r[p].len \in T
    BY DEF Steps
  <2>1. CASE p = v
    BY <2>1, <1>1, <1>5
  <2>2. CASE p = o
    <3>1. v \in Walk(s)
      BY <2>2, <1>5
    <3>2. v + s[v].len \in Walk(s)
      BY <3>1, <1>1, <1>2, WalkBasics DEF Steps
    <3> QED BY <3>1, <3>2, <1>2, <2>2
  <2>3. CASE p # o /\ p # v
    <3>1. p \in Walk(s) /\ p \in Records(r)
      BY <2>3, <1>5, TiledWalk
    <3> QED BY <3>1, <2>3, WalkBasics DEF Steps
  <2> QED BY <2>1, <2>2, <2>3
<1>8. Walk(r) \subseteq T
  BY <1>6, <1>7, WalkBasics
<1>9. Walk(s) = S
  BY <1>5, <1>8
<1>10. Records(r) = Walk(r) \cap Offsets
  BY TiledWalk
<1>11. Records(s) = Records(r) \ {o}
  BY <1>9, <1>10 DEF Records
<1> QED BY <1>9, <1>11

-----------------------------------------------------------------------------
(* What a call and its undo do to a block.                                                  *)

LEMMA Sizes ==
  ASSUME NEW n \in Labels \cup {Dots}
  PROVE  Size[n] \in 1..Block /\ Size[n] \in Nat /\ Size[n] >= 1 /\ Block \in Nat
  BY DirectoryAssumption

LEMMA GoodFields ==
  ASSUME NEW r, GoodBlock(r), NEW o \in Records(r)
  PROVE  /\ r \in Blocks /\ o \in Walk(r) /\ o \in Offsets /\ o \in Nat /\ Block \in Nat
         /\ r[o] # Junk /\ r[o] \in Record /\ Fit(r[o])
         /\ r[o].len \in Nat /\ r[o].len >= 1 /\ o + r[o].len \in Walk(r)
         /\ o + r[o].len <= Block /\ r[o].name \in Labels \cup {Dots}
         /\ r[o].ino \in Targets \cup {NoIno, Dots}
<1>1. r \in Blocks /\ Block \in Walk(r) /\ Fit(r[o])
  BY DEF GoodBlock
<1>2. o \in Walk(r) /\ o \in Offsets /\ r[o] # Junk /\ o + r[o].len \in Walk(r)
  BY <1>1, TiledWalk
<1>3. o \in Nat /\ Block \in Nat /\ o + r[o].len <= Block
  BY <1>1, <1>2, WalkBasics, DirectoryAssumption DEF Offsets
<1> QED BY <1>1, <1>2, <1>3, RecordFields

\* Two records do not overlap.
LEMMA Apart ==
  ASSUME NEW r, GoodBlock(r), NEW o \in Records(r), NEW p \in Records(r), o # p
  PROVE  p < o \/ o + r[o].len <= p
<1>1. r \in Blocks /\ o \in Walk(r) /\ p \in Walk(r) /\ o \in Nat /\ p \in Nat
  BY GoodFields
<1> QED BY <1>1, Chain

LEMMA WrittenIs ==
  ASSUME NEW r \in Blocks, NEW o \in Offsets, NEW de \in Record
  PROVE  /\ Written(r, o, de) \in Blocks /\ Written(r, o, de)[o] = de
         /\ \A p \in Offsets : p < o \/ o + Size[de.name] <= p => Written(r, o, de)[p] = r[p]
<1>1. o \in Nat /\ de.name \in Labels \cup {Dots}
  BY DirectoryAssumption DEF Offsets, Record
<1>2. Size[de.name] \in Nat /\ Size[de.name] >= 1
  BY <1>1, Sizes
<1>3. ASSUME NEW p \in Offsets, p < o \/ o + Size[de.name] <= p
      PROVE  Written(r, o, de)[p] = r[p]
  <2>1. p \in Nat
    BY DirectoryAssumption DEF Offsets
  <2>2. p # o /\ p \notin o..o + Size[de.name] - 1
    BY <1>1, <1>2, <1>3, <2>1
  <2> QED BY <2>2 DEF Written
<1> QED BY <1>3 DEF Written, Blocks

LEMMA LenSet ==
  ASSUME NEW r \in Blocks, NEW o \in Offsets, r[o] # Junk, NEW l \in 1..Block
  PROVE  /\ [r EXCEPT ![o].len = l] \in Blocks
         /\ [r EXCEPT ![o].len = l][o] = [len |-> l, ino |-> r[o].ino, name |-> r[o].name]
         /\ [r EXCEPT ![o].len = l][o] # Junk
         /\ \A p \in Offsets : p # o => [r EXCEPT ![o].len = l][p] = r[p]
<1>1. r[o] \in Record
  BY DEF Blocks
<1>2. [r[o] EXCEPT !.len = l] = [len |-> l, ino |-> r[o].ino, name |-> r[o].name]
  BY <1>1 DEF Record
<1>3. [r[o] EXCEPT !.len = l] \in Record
  BY <1>1 DEF Record
<1> QED BY <1>2, <1>3, JunkAssumption DEF Blocks

LEMMA InoSet ==
  ASSUME NEW r \in Blocks, NEW o \in Offsets, r[o] # Junk, NEW i \in Targets \cup {NoIno, Dots}
  PROVE  /\ [r EXCEPT ![o].ino = i] \in Blocks
         /\ [r EXCEPT ![o].ino = i][o] = [len |-> r[o].len, ino |-> i, name |-> r[o].name]
         /\ [r EXCEPT ![o].ino = i][o] # Junk
         /\ \A p \in Offsets : p # o => [r EXCEPT ![o].ino = i][p] = r[p]
<1>1. r[o] \in Record
  BY DEF Blocks
<1>2. [r[o] EXCEPT !.ino = i] = [len |-> r[o].len, ino |-> i, name |-> r[o].name]
  BY <1>1 DEF Record
<1>3. [r[o] EXCEPT !.ino = i] \in Record
  BY <1>1 DEF Record
<1> QED BY <1>2, <1>3, JunkAssumption DEF Blocks

\* A record gets another inode.
LEMMA BlockRetarget ==
  ASSUME NEW r, GoodBlock(r), NEW o \in Records(r), NEW i \in Targets \cup {NoIno},
         r[o].name \in Labels
  PROVE  LET s == [r EXCEPT ![o].ino = i]
         IN  /\ GoodBlock(s) /\ Records(s) = Records(r)
             /\ s[o].ino = i /\ s[o].name = r[o].name
             /\ \A p \in Records(r) \ {o} : s[p] = r[p]
             /\ [s EXCEPT ![o].ino = r[o].ino] = r
<1> DEFINE s == [r EXCEPT ![o].ino = i]
<1>1. /\ r \in Blocks /\ o \in Offsets /\ r[o] # Junk /\ r[o] \in Record /\ Fit(r[o])
      /\ r[o].ino \in Targets \cup {NoIno, Dots}
  BY GoodFields
<1>2. /\ s \in Blocks /\ s[o] = [len |-> r[o].len, ino |-> i, name |-> r[o].name] /\ s[o] # Junk
      /\ \A p \in Offsets : p # o => s[p] = r[p]
  BY <1>1, InoSet
<1>3. Fit(s[o])
  BY <1>1, <1>2, DirectoryAssumption DEF Fit
<1>4. \A p \in Records(r) : s[p] # Junk /\ s[p].len = r[p].len /\ Fit(s[p])
  BY <1>2, <1>3, GoodFields
<1>5. GoodBlock(s) /\ Records(s) = Records(r)
  BY <1>2, <1>4, SameRecords
<1>6. [s EXCEPT ![o].ino = r[o].ino] = r
  BY <1>1 DEF Blocks, Record
<1>7. \A p \in Records(r) \ {o} : s[p] = r[p]
  BY <1>2, GoodFields
<1> QED BY <1>2, <1>5, <1>6, <1>7

\* A record becomes slack of the one before it.
LEMMA BlockMerge ==
  ASSUME NEW r, GoodBlock(r), NEW o \in Records(r), NEW v \in Records(r), v + r[v].len = o
  PROVE  LET s == [r EXCEPT ![v].len = @ + r[o].len]
         IN  /\ GoodBlock(s) /\ Records(s) = Records(r) \ {o}
             /\ s[v].ino = r[v].ino /\ s[v].name = r[v].name
             /\ \A p \in Records(r) \ {v} : s[p] = r[p]
             /\ [s EXCEPT ![v].len = r[v].len] = r
<1> DEFINE s == [r EXCEPT ![v].len = r[v].len + r[o].len]
<1>1. /\ r \in Blocks /\ v \in Offsets /\ r[v] # Junk /\ r[v] \in Record /\ Fit(r[v])
      /\ r[v].len + r[o].len \in 1..Block /\ r[v].name \in Labels \cup {Dots}
      /\ r[v].len \in Nat /\ r[o].len \in Nat /\ o # v
  <2>1. /\ r \in Blocks /\ v \in Offsets /\ r[v] # Junk /\ r[v] \in Record /\ Fit(r[v])
        /\ r[v].len \in Nat /\ r[v].len >= 1 /\ v \in Nat /\ r[v].name \in Labels \cup {Dots}
    BY GoodFields
  <2>2. r[o].len \in Nat /\ r[o].len >= 1 /\ o + r[o].len <= Block /\ Block \in Nat
    BY GoodFields
  <2> QED BY <2>1, <2>2
<1>2. /\ s \in Blocks /\ s[v] # Junk
      /\ s[v] = [len |-> r[v].len + r[o].len, ino |-> r[v].ino, name |-> r[v].name]
      /\ \A p \in Offsets : p # v => s[p] = r[p]
  <2> DEFINE l == r[v].len + r[o].len
  <2>1. l \in 1..Block
    BY <1>1
  <2> HIDE DEF l
  <2>2. /\ [r EXCEPT ![v].len = l] \in Blocks /\ [r EXCEPT ![v].len = l][v] # Junk
        /\ [r EXCEPT ![v].len = l][v] = [len |-> l, ino |-> r[v].ino, name |-> r[v].name]
        /\ \A p \in Offsets : p # v => [r EXCEPT ![v].len = l][p] = r[p]
    BY <1>1, <2>1, LenSet
  <2> QED BY <2>2 DEF l
<1>3. Fit(s[v])
  BY <1>1, <1>2, Sizes DEF Fit
<1>4. \A p \in Records(r) \ {v} : s[p] = r[p]
  BY <1>2, GoodFields
<1>5. Walk(s) = Walk(r) \ {o} /\ Records(s) = Records(r) \ {o}
  <2>1. \A p \in Records(r) \ {v, o} : s[p] # Junk /\ s[p].len = r[p].len
    BY <1>4, GoodFields
  <2>2. Block \in Walk(r)
    BY DEF GoodBlock
  <2> HIDE DEF s
  <2> QED BY <1>1, <1>2, <2>1, <2>2, MergeWalk
<1>6. GoodBlock(s)
  <2>1. Block \in Walk(s)
    <3>1. o \in Nat /\ Block \in Nat /\ r[o].len \in Nat /\ r[o].len >= 1 /\ o + r[o].len <= Block
      BY GoodFields
    <3>2. Block \in Walk(r) /\ Block # o
      BY <3>1 DEF GoodBlock
    <3> QED BY <3>2, <1>5
  <2>2. \A p \in Records(s) : Fit(s[p])
    BY <1>3, <1>4, <1>5, GoodFields
  <2> QED BY <1>2, <2>1, <2>2 DEF GoodBlock
<1>7. [s EXCEPT ![v].len = r[v].len] = r
  BY <1>1 DEF Blocks, Record
<1> QED BY <1>2, <1>4, <1>5, <1>6, <1>7

Reuse(r, o, n, i) == Written(r, o, [r[o] EXCEPT !.ino = i, !.name = n])
Unreuse(r, o, n, i) == [Reuse(r, o, n, i) EXCEPT ![o].ino = NoIno]

\* A record without an inode is used again. The undo of its inode leaves another name in it
\* and a shorter rest behind it, which is nothing that is read.
LEMMA BlockReuse ==
  ASSUME NEW r, GoodBlock(r), NEW o \in Records(r), NEW n \in Labels, NEW i \in Targets,
         Room(r, o, n), r[o].ino = NoIno
  PROVE  LET s == Reuse(r, o, n, i)
             u == Unreuse(r, o, n, i)
         IN  /\ GoodBlock(s) /\ Records(s) = Records(r) /\ s[o].ino = i /\ s[o].name = n
             /\ \A p \in Records(r) \ {o} : s[p] = r[p]
             /\ GoodBlock(u) /\ Records(u) = Records(r) /\ u[o].ino = NoIno
             /\ \A p \in Records(r) \ {o} : u[p] = r[p]
<1> DEFINE de == [r[o] EXCEPT !.ino = i, !.name = n]
           s  == Written(r, o, de)
           u  == [s EXCEPT ![o].ino = NoIno]
<1>1. /\ r \in Blocks /\ o \in Offsets /\ r[o] # Junk /\ r[o] \in Record /\ o \in Nat
      /\ r[o].len \in Nat /\ Block \in Nat
  BY GoodFields
<1>2. r[o].len >= Size[n] /\ Size[n] \in Nat
  BY <1>1, Sizes DEF Room
<1>3. de \in Record /\ de = [len |-> r[o].len, ino |-> i, name |-> n] /\ de # Junk
  <2>1. de = [len |-> r[o].len, ino |-> i, name |-> n]
    <3>1. [r[o] EXCEPT !.ino = i] = [len |-> r[o].len, ino |-> i, name |-> r[o].name]
      BY <1>1 DEF Record
    <3>2. [[len |-> r[o].len, ino |-> i, name |-> r[o].name] EXCEPT !.name = n]
            = [len |-> r[o].len, ino |-> i, name |-> n]
      OBVIOUS
    <3> QED BY <3>1, <3>2
  <2>2. r[o].len \in 1..Block
    BY <1>1 DEF Record
  <2>3. [len |-> r[o].len, ino |-> i, name |-> n] \in Record
    BY <2>2 DEF Record
  <2> QED BY <2>1, <2>3, JunkAssumption
<1>4. /\ s \in Blocks /\ s[o] = de
      /\ \A p \in Offsets : p < o \/ o + Size[n] <= p => s[p] = r[p]
  <2> HIDE DEF de
  <2>1. de.name = n
    BY <1>3
  <2> QED BY <1>1, <1>3, <2>1, WrittenIs
<1>5. \A p \in Records(r) \ {o} : s[p] = r[p]
  <2> SUFFICES ASSUME NEW p \in Records(r) \ {o} PROVE s[p] = r[p]
    OBVIOUS
  <2>1. p < o \/ o + r[o].len <= p
    BY Apart
  <2>2. p \in Offsets /\ p \in Nat
    BY GoodFields
  <2> HIDE DEF s
  <2> QED BY <2>1, <2>2, <1>1, <1>2, <1>4
<1> HIDE DEF de, s
<1>6. Fit(s[o])
  BY <1>2, <1>3, <1>4, DirectoryAssumption DEF Fit
<1>7. GoodBlock(s) /\ Records(s) = Records(r)
  <2>1. \A p \in Records(r) : s[p] # Junk /\ s[p].len = r[p].len /\ Fit(s[p])
    BY <1>3, <1>4, <1>5, <1>6, GoodFields
  <2> QED BY <1>4, <2>1, SameRecords
<1>8. /\ u \in Blocks /\ u[o] = [len |-> s[o].len, ino |-> NoIno, name |-> s[o].name]
      /\ u[o] # Junk /\ \A p \in Offsets : p # o => u[p] = s[p]
  <2>1. s \in Blocks /\ o \in Offsets /\ s[o] # Junk /\ NoIno \in Targets \cup {NoIno, Dots}
    BY <1>1, <1>3, <1>4
  <2> QED BY <2>1, InoSet
<1> HIDE DEF u
<1>9. /\ GoodBlock(u) /\ Records(u) = Records(s) /\ u[o].ino = NoIno
      /\ \A p \in Records(s) \ {o} : u[p] = s[p]
  <2>1. Fit(u[o])
    BY <1>6, <1>8, DirectoryAssumption DEF Fit
  <2>2. \A p \in Records(s) \ {o} : u[p] = s[p]
    BY <1>7, <1>8, GoodFields
  <2>3. \A p \in Records(s) : u[p] # Junk /\ u[p].len = s[p].len /\ Fit(u[p])
    BY <1>7, <1>8, <2>1, <2>2, GoodFields
  <2> QED BY <1>7, <1>8, <2>2, <2>3, SameRecords
<1>10. \A p \in Records(r) \ {o} : u[p] = r[p]
  BY <1>5, <1>7, <1>9
<1>11. s[o].ino = i /\ s[o].name = n
  BY <1>3, <1>4
<1> QED BY <1>5, <1>7, <1>9, <1>10, <1>11 DEF de, s, u, Reuse, Unreuse

Split(r, o, n, i) ==
  LET used == Size[r[o].name]
  IN  Written([r EXCEPT ![o].len = used], o + used,
              [len |-> r[o].len - used, ino |-> i, name |-> n])
Unsplit(r, o, n, i) == [Split(r, o, n, i) EXCEPT ![o].len = r[o].len]

\* A record is written into the slack of another. The undo of the length takes it out again.
LEMMA BlockSplit ==
  ASSUME NEW r, GoodBlock(r), NEW o \in Records(r), NEW n \in Labels, NEW i \in Targets,
         Room(r, o, n), r[o].ino # NoIno
  PROVE  LET used == Size[r[o].name]
             s == Split(r, o, n, i)
             u == Unsplit(r, o, n, i)
         IN  /\ GoodBlock(s) /\ Records(s) = Records(r) \cup {o + used}
             /\ o + used \notin Records(r) /\ o + used \in Offsets
             /\ s[o + used].ino = i /\ s[o + used].name = n
             /\ s[o].ino = r[o].ino /\ s[o].name = r[o].name
             /\ \A p \in Records(r) \ {o} : s[p] = r[p]
             /\ GoodBlock(u) /\ Records(u) = Records(r)
             /\ \A p \in Records(r) : u[p] = r[p]
<1> DEFINE used == Size[r[o].name]
           de   == [len |-> r[o].len - used, ino |-> i, name |-> n]
           t    == [r EXCEPT ![o].len = used]
           s    == Written(t, o + used, de)
           u    == [s EXCEPT ![o].len = r[o].len]
<1>1. /\ r \in Blocks /\ o \in Offsets /\ r[o] # Junk /\ r[o] \in Record /\ o \in Nat
      /\ r[o].len \in Nat /\ Block \in Nat /\ o \in Walk(r) /\ o + r[o].len <= Block
      /\ r[o].name \in Labels \cup {Dots} /\ r[o].ino \in Targets \cup {NoIno, Dots} /\ Fit(r[o])
  BY GoodFields
<1>2. /\ Size[n] \in Nat /\ Size[n] >= 1 /\ used \in Nat /\ used >= 1
      /\ used <= Block /\ r[o].len - used >= Size[n]
  BY <1>1, Sizes DEF Room
<1> HIDE DEF used
<1>3. /\ used \in Nat \ {0} /\ used < r[o].len /\ o + used \in Offsets /\ used \in 1..Block
      /\ o + used + Size[n] <= o + r[o].len /\ r[o].len \in 1..Block
  BY <1>1, <1>2 DEF Offsets
<1>4. de \in Record /\ de # Junk /\ de.name = n
  BY <1>1, <1>2, <1>3, JunkAssumption DEF Record
<1>5. /\ t \in Blocks /\ t[o] = [len |-> used, ino |-> r[o].ino, name |-> r[o].name] /\ t[o] # Junk
      /\ \A p \in Offsets : p # o => t[p] = r[p]
  BY <1>1, <1>3, LenSet
<1> HIDE DEF t, de
<1>6. /\ s \in Blocks /\ s[o + used] = de
      /\ \A p \in Offsets : p < o + used \/ (o + used) + Size[n] <= p => s[p] = t[p]
  BY <1>3, <1>4, <1>5, WrittenIs
<1> HIDE DEF s
<1>7. s[o] = t[o]
  BY <1>1, <1>3, <1>6
<1>8. \A p \in Records(r) \ {o} : s[p] = r[p]
  <2> SUFFICES ASSUME NEW p \in Records(r) \ {o} PROVE s[p] = r[p]
    OBVIOUS
  <2>1. p < o \/ o + r[o].len <= p
    BY Apart
  <2>2. p \in Offsets /\ p \in Nat
    BY GoodFields
  <2>3. s[p] = t[p]
    BY <2>1, <2>2, <1>1, <1>2, <1>3, <1>6
  <2> QED BY <2>2, <2>3, <1>5
<1>9. s[o].len = used /\ s[o].ino = r[o].ino /\ s[o].name = r[o].name /\ s[o] # Junk
  BY <1>5, <1>7
<1>10. s[o + used].len = r[o].len - used /\ s[o + used].ino = i /\ s[o + used].name = n
  BY <1>6 DEF de
<1>11. /\ Walk(s) = Walk(r) \cup {o + used} /\ Records(s) = Records(r) \cup {o + used}
       /\ o + used \notin Walk(r)
  <2>1. \A p \in Records(r) \ {o} : s[p] # Junk /\ s[p].len = r[p].len
    BY <1>8, GoodFields
  <2>2. Block \in Walk(r) /\ s[o + used] # Junk
    BY <1>4, <1>6 DEF GoodBlock
  <2> QED BY <1>1, <1>3, <1>6, <1>9, <1>10, <2>1, <2>2, SplitWalk
<1>12. GoodBlock(s)
  <2>1. Fit(s[o])
    BY <1>1, <1>2, <1>9 DEF Fit, used
  <2>2. Fit(s[o + used])
    BY <1>2, <1>10, DirectoryAssumption DEF Fit
  <2>3. \A p \in Records(s) : Fit(s[p])
    BY <2>1, <2>2, <1>8, <1>11, GoodFields
  <2>4. Block \in Walk(s)
    BY <1>11 DEF GoodBlock
  <2> QED BY <2>3, <2>4, <1>6 DEF GoodBlock
<1>13. /\ u \in Blocks /\ u[o] = [len |-> r[o].len, ino |-> s[o].ino, name |-> s[o].name]
       /\ \A p \in Offsets : p # o => u[p] = s[p]
  BY <1>1, <1>3, <1>6, <1>9, LenSet
<1> HIDE DEF u
<1>14. u[o] = r[o]
  BY <1>1, <1>9, <1>13 DEF Record
<1>15. \A p \in Records(r) : u[p] = r[p]
  BY <1>8, <1>13, <1>14, GoodFields
<1>16. GoodBlock(u) /\ Records(u) = Records(r)
  <2>1. \A p \in Records(r) : u[p] # Junk /\ u[p].len = r[p].len /\ Fit(u[p])
    BY <1>15, GoodFields
  <2> QED BY <1>13, <2>1, SameRecords
<1>17. o + used \notin Records(r)
  BY <1>11 DEF Records
<1> QED BY <1>3, <1>8, <1>9, <1>10, <1>11, <1>12, <1>15, <1>16, <1>17
        DEF u, s, t, de, used, Split, Unsplit

\* A new block has one record.
LEMMA BlockFresh ==
  ASSUME NEW r \in Blocks, NEW de \in Record, de.len = Block, Fit(de)
  PROVE  LET s == Written(r, 0, de)
         IN  GoodBlock(s) /\ Records(s) = {0} /\ s[0] = de
<1> DEFINE s == Written(r, 0, de)
<1>1. 0 \in Offsets /\ Block \in Nat /\ Block > 0
  BY DirectoryAssumption DEF Offsets
<1>2. s \in Blocks /\ s[0] = de /\ s[0] # Junk
  BY <1>1, WrittenIs, JunkAssumption
<1> HIDE DEF s
<1>3. Walk(s) \in SUBSET (0..Block) /\ 0 \in Walk(s) /\ Steps(s, Walk(s))
  BY <1>2, WalkBasics
<1>4. Block \in Walk(s)
  BY <1>1, <1>2, <1>3 DEF Steps
<1>5. Walk(s) \subseteq {0, Block}
  <2>1. Steps(s, {0, Block})
    BY <1>1, <1>2 DEF Steps, Offsets
  <2>2. {0, Block} \in SUBSET (0..Block)
    BY <1>1
  <2> QED BY <2>1, <2>2, <1>2, WalkBasics
<1>6. Records(s) = {0}
  BY <1>1, <1>2, <1>3, <1>5 DEF Records, Offsets
<1> QED BY <1>2, <1>4, <1>6 DEF GoodBlock, s

-----------------------------------------------------------------------------
(* The entries of a directory.                                                              *)

\* Record o of block r is an entry n with inode i.
LiveIn(r, o, n, i) == o \in Records(r) /\ r[o].name = n /\ r[o].ino = i /\ i # NoIno
\* So is record o of block b of a directory of k blocks.
Live(m, k, b, o, n, i) == b \in 1..k /\ LiveIn(m[b], o, n, i)

\* A directory of k blocks that are tiled and have a name once.
Tiles(m, k) ==
  /\ m \in [1..MaxBlocks -> Blocks] /\ k \in 1..MaxBlocks
  /\ \A b \in 1..k : GoodBlock(m[b])
Unique(m, k) ==
  \A b, c, o, p, n, i, j :
    Live(m, k, b, o, n, i) /\ Live(m, k, c, p, n, j) => b = c /\ o = p
Good(m, k) == Tiles(m, k) /\ Unique(m, k)

\* u has the entries of m.
SameAs(u, m, k) ==
  /\ Good(u, k)
  /\ \A b, o, n, i : Live(u, k, b, o, n, i) <=> Live(m, k, b, o, n, i)

ContentOf(m, k) == UNION {{<<n, m[s[1]][s[2]].ino>> : s \in Find(m, k, n)} : n \in Labels}

LEMMA LiveFields ==
  ASSUME NEW r, GoodBlock(r), NEW o, NEW n, NEW i, LiveIn(r, o, n, i)
  PROVE  /\ n \in Labels <=> i \in Targets
         /\ n \in Labels \cup {Dots} /\ o \in Records(r) /\ o \in Offsets
  BY GoodFields, DirectoryAssumption DEF LiveIn, Fit

LEMMA FindIs ==
  ASSUME NEW m, NEW k, Tiles(m, k), NEW n
  PROVE  /\ \A b, o, i : Live(m, k, b, o, n, i) =>
                           <<b, o>> \in Find(m, k, n) /\ m[b][o].ino = i
         /\ \A s \in Find(m, k, n) :
              /\ s = <<s[1], s[2]>> /\ s[1] \in 1..k /\ s[2] \in Records(m[s[1]])
              /\ Live(m, k, s[1], s[2], n, m[s[1]][s[2]].ino)
<1>1. ASSUME NEW b, NEW o, NEW i, Live(m, k, b, o, n, i)
      PROVE  <<b, o>> \in Find(m, k, n) /\ m[b][o].ino = i
  <2>1. b \in 1..k /\ o \in Records(m[b]) /\ m[b][o].name = n /\ m[b][o].ino = i /\ i # NoIno
    BY <1>1 DEF Live, LiveIn
  <2>2. o \in Offsets /\ m[b][o] # Junk
    BY <2>1, GoodFields DEF Tiles
  <2> QED BY <2>1, <2>2 DEF Find
<1>2. ASSUME NEW s \in Find(m, k, n)
      PROVE  /\ s = <<s[1], s[2]>> /\ s[1] \in 1..k /\ s[2] \in Records(m[s[1]])
             /\ Live(m, k, s[1], s[2], n, m[s[1]][s[2]].ino)
  BY DEF Find, Live, LiveIn
<1> QED BY <1>1, <1>2

LEMMA ContentIs ==
  ASSUME NEW m, NEW k, Tiles(m, k)
  PROVE  /\ \A n \in Labels : \A i : <<n, i>> \in ContentOf(m, k) <=>
                                       \E b, o : Live(m, k, b, o, n, i)
         /\ \A e \in ContentOf(m, k) : e = <<e[1], e[2]>> /\ e[1] \in Labels /\ e[2] \in Targets
         /\ \A n : n \in NamesIn(m, k) <=>
                     n \in Labels /\ \E b, o, i : Live(m, k, b, o, n, i)
<1>1. ASSUME NEW n \in Labels, NEW i, NEW b, NEW o, Live(m, k, b, o, n, i)
      PROVE  <<n, i>> \in ContentOf(m, k) /\ n \in NamesIn(m, k)
  <2>1. <<b, o>> \in Find(m, k, n) /\ m[b][o].ino = i
    BY <1>1, FindIs
  <2>2. <<n, i>> \in {<<n, m[s[1]][s[2]].ino>> : s \in Find(m, k, n)}
    <3> DEFINE s == <<b, o>>
    <3>1. s \in Find(m, k, n) /\ m[s[1]][s[2]].ino = i
      BY <2>1
    <3> QED BY <3>1, Zenon
  <2> QED BY <2>1, <2>2 DEF ContentOf, NamesIn
<1>2. ASSUME NEW e \in ContentOf(m, k)
      PROVE  /\ e = <<e[1], e[2]>> /\ e[1] \in Labels /\ e[2] \in Targets
             /\ \E b, o : Live(m, k, b, o, e[1], e[2])
  <2>1. PICK n \in Labels : e \in {<<n, m[s[1]][s[2]].ino>> : s \in Find(m, k, n)}
    BY DEF ContentOf
  <2>2. PICK s \in Find(m, k, n) : e = <<n, m[s[1]][s[2]].ino>>
    BY <2>1
  <2>3. Live(m, k, s[1], s[2], n, m[s[1]][s[2]].ino)
    BY FindIs
  <2>4. e[1] = n /\ e[2] = m[s[1]][s[2]].ino /\ e = <<e[1], e[2]>>
    BY <2>2
  <2>5. m[s[1]][s[2]].ino \in Targets
    BY <2>3, LiveFields DEF Live, Tiles
  <2> QED BY <2>3, <2>4, <2>5
<1>3. ASSUME NEW n \in Labels, NEW i, <<n, i>> \in ContentOf(m, k)
      PROVE  \E b, o : Live(m, k, b, o, n, i)
  <2> DEFINE e == <<n, i>>
  <2>1. \E b, o : Live(m, k, b, o, e[1], e[2])
    BY <1>2, <1>3
  <2> QED BY <2>1
<1>4. ASSUME NEW n \in NamesIn(m, k)
      PROVE  n \in Labels /\ \E b, o, i : Live(m, k, b, o, n, i)
  <2>1. n \in Labels /\ Find(m, k, n) # {}
    BY DEF NamesIn
  <2> QED BY <2>1, FindIs
<1> QED BY <1>1, <1>2, <1>3, <1>4

LEMMA SameContent ==
  ASSUME NEW u, NEW m, NEW k, Tiles(m, k), SameAs(u, m, k)
  PROVE  ContentOf(u, k) = ContentOf(m, k)
<1>1. Tiles(u, k)
  BY DEF SameAs, Good
<1>2. \A n \in Labels : \A i : <<n, i>> \in ContentOf(u, k) <=> <<n, i>> \in ContentOf(m, k)
  <2>1. \A n \in Labels : \A i : <<n, i>> \in ContentOf(u, k) <=> \E b, o : Live(u, k, b, o, n, i)
    BY <1>1, ContentIs
  <2>2. \A n \in Labels : \A i : <<n, i>> \in ContentOf(m, k) <=> \E b, o : Live(m, k, b, o, n, i)
    BY ContentIs
  <2> QED BY <2>1, <2>2 DEF SameAs
<1>3. \A e \in ContentOf(u, k) : e = <<e[1], e[2]>> /\ e[1] \in Labels
  BY <1>1, ContentIs
<1>4. \A e \in ContentOf(m, k) : e = <<e[1], e[2]>> /\ e[1] \in Labels
  BY ContentIs
<1>5. ContentOf(u, k) \subseteq ContentOf(m, k)
  BY <1>2, <1>3
<1>6. ContentOf(m, k) \subseteq ContentOf(u, k)
  BY <1>2, <1>4
<1> QED BY <1>5, <1>6

\* Another block s at b.
LEMMA BlockSet ==
  ASSUME NEW m, NEW k, Tiles(m, k), NEW b \in 1..k, NEW s, GoodBlock(s)
  PROVE  /\ Tiles([m EXCEPT ![b] = s], k) /\ [m EXCEPT ![b] = s][b] = s
         /\ \A c, o, n, i : Live([m EXCEPT ![b] = s], k, c, o, n, i) <=>
              (c = b /\ LiveIn(s, o, n, i)) \/ (c # b /\ Live(m, k, c, o, n, i))
<1>1. b \in 1..MaxBlocks /\ s \in Blocks /\ 1..k \subseteq 1..MaxBlocks
  BY DirectoryAssumption DEF Tiles, GoodBlock
<1>2. [m EXCEPT ![b] = s][b] = s /\ \A c \in 1..k : c # b => [m EXCEPT ![b] = s][c] = m[c]
  BY <1>1 DEF Tiles
<1>3. Tiles([m EXCEPT ![b] = s], k)
  BY <1>1, <1>2 DEF Tiles
<1> QED BY <1>2, <1>3 DEF Live

LEMMA FirstIs ==
  ASSUME NEW S \in SUBSET (Nat \X Nat), S # {}
  PROVE  FirstOf(S) \in S
<1> DEFINE A == {s[1] : s \in S}
<1>1. PICK a \in A : \A x \in A : a <= x
  <2>1. A \in SUBSET Nat /\ A # {}
    OBVIOUS
  <2> HIDE DEF A
  <2>2. PICK p \in A : \A x \in A : ~(<<x, p>> \in OpToRel(<, Nat))
    BY <2>1, NatLessThanWellFounded, WFMin, Zenon
  <2>3. ASSUME NEW x \in A PROVE p <= x
    <3>1. p \in Nat /\ x \in Nat /\ ~(x < p)
      BY <2>1, <2>2 DEF OpToRel
    <3> QED BY <3>1
  <2> QED BY <2>3
<1> DEFINE B == {s[2] : s \in {x \in S : x[1] = a}}
<1>2. PICK o \in B : \A x \in B : o <= x
  <2>1. B \in SUBSET Nat /\ B # {}
    OBVIOUS
  <2> HIDE DEF B
  <2>2. PICK p \in B : \A x \in B : ~(<<x, p>> \in OpToRel(<, Nat))
    BY <2>1, NatLessThanWellFounded, WFMin, Zenon
  <2>3. ASSUME NEW x \in B PROVE p <= x
    <3>1. p \in Nat /\ x \in Nat /\ ~(x < p)
      BY <2>1, <2>2 DEF OpToRel
    <3> QED BY <3>1
  <2> QED BY <2>3
<1>3. PICK s \in S : s[1] = a /\ s[2] = o
  BY <1>2
<1>4. \A x \in S : s[1] < x[1] \/ (s[1] = x[1] /\ s[2] <= x[2])
  <2> SUFFICES ASSUME NEW x \in S PROVE s[1] < x[1] \/ (s[1] = x[1] /\ s[2] <= x[2])
    OBVIOUS
  <2>1. a \in Nat /\ x[1] \in Nat /\ a <= x[1]
    BY <1>1
  <2>2. x[1] = a => o <= x[2]
    BY <1>2
  <2> QED BY <2>1, <2>2, <1>3
<1> QED BY <1>4 DEF FirstOf

-----------------------------------------------------------------------------
(* What the changes of the records do to the entries.                                       *)

Dir(m, k, l) == [mem |-> m, blocks |-> k, log |-> l]

LEMMA DirLog ==
  ASSUME NEW m, NEW k, NEW l, NEW w
  PROVE  [Dir(m, k, l) EXCEPT !.log = Append(@, w)] = Dir(m, k, Append(l, w))
  BY DEF Dir

\* The entries of (m2, k2) are those of (m, k) and an entry n with inode i.
Gains(m, k, m2, k2, n, i) ==
  \E b, o : \A c, p, x, j :
    Live(m2, k2, c, p, x, j) <=> Live(m, k, c, p, x, j) \/ (c = b /\ p = o /\ x = n /\ j = i)

LEMMA GainsUnique ==
  ASSUME NEW m, NEW k, Good(m, k), NEW n, NEW i, \A b, o, j : ~Live(m, k, b, o, n, j),
         NEW m2, NEW k2, Gains(m, k, m2, k2, n, i)
  PROVE  Unique(m2, k2)
<1>1. PICK b, o : \A c, p, x, j :
        Live(m2, k2, c, p, x, j) <=> Live(m, k, c, p, x, j) \/ (c = b /\ p = o /\ x = n /\ j = i)
  BY DEF Gains
<1>2. Unique(m, k)
  BY DEF Good
<1> SUFFICES ASSUME NEW c, NEW d, NEW p, NEW q, NEW x, NEW j, NEW h,
                    Live(m2, k2, c, p, x, j), Live(m2, k2, d, q, x, h)
             PROVE  c = d /\ p = q
  BY Zenon DEF Unique
<1>3. CASE x = n
  BY <1>1, <1>3
<1>4. CASE x # n
  <2>1. Live(m, k, c, p, x, j) /\ Live(m, k, d, q, x, h)
    BY <1>1, <1>4
  <2> QED BY <2>1, <1>2 DEF Unique
<1> QED BY <1>3, <1>4

LEMMA FewerUnique ==
  ASSUME NEW m, NEW k, Unique(m, k), NEW m2, NEW k2,
         \A c, p, x, j : Live(m2, k2, c, p, x, j) => \E h : Live(m, k, c, p, x, h)
  PROVE  Unique(m2, k2)
  BY DEF Unique

\* The entries are the same when the blocks say the same.
LEMMA BlocksSame ==
  ASSUME NEW m, NEW k, Good(m, k), NEW u, Tiles(u, k),
         \A b \in 1..k : \A o, n, i : LiveIn(u[b], o, n, i) <=> LiveIn(m[b], o, n, i)
  PROVE  SameAs(u, m, k)
<1>1. \A b, o, n, i : Live(u, k, b, o, n, i) <=> Live(m, k, b, o, n, i)
  BY DEF Live
<1>2. Unique(u, k)
  BY <1>1, FewerUnique, Zenon DEF Good
<1> QED BY <1>1, <1>2 DEF SameAs, Good

LEMMA SameBlock ==
  ASSUME NEW m, NEW k, Good(m, k), NEW b \in 1..k, NEW s, GoodBlock(s),
         \A o, n, i : LiveIn(s, o, n, i) <=> LiveIn(m[b], o, n, i)
  PROVE  SameAs([m EXCEPT ![b] = s], m, k)
<1>1. Tiles(m, k)
  BY DEF Good
<1>2. /\ Tiles([m EXCEPT ![b] = s], k) /\ [m EXCEPT ![b] = s][b] = s
      /\ \A c \in 1..k : c # b => [m EXCEPT ![b] = s][c] = m[c]
  <2>1. 1..k \subseteq 1..MaxBlocks
    BY <1>1, DirectoryAssumption DEF Tiles
  <2> QED BY <1>1, <2>1, BlockSet DEF Tiles
<1> HIDE DEF Good
<1>3. \A c \in 1..k : \A o, n, i : LiveIn([m EXCEPT ![b] = s][c], o, n, i) <=> LiveIn(m[c], o, n, i)
  BY <1>2
<1> QED BY <1>2, <1>3, BlocksSame

\* Block s has the entries of r and one at o.
GainsAt(r, s, o, n, i) ==
  \A p, x, j : LiveIn(s, p, x, j) <=> LiveIn(r, p, x, j) \/ (p = o /\ x = n /\ j = i)

LEMMA GainsInBlock ==
  ASSUME NEW m, NEW k, Tiles(m, k), NEW b \in 1..k, NEW s, GoodBlock(s),
         NEW o, NEW n, NEW i, GainsAt(m[b], s, o, n, i)
  PROVE  Gains(m, k, [m EXCEPT ![b] = s], k, n, i)
<1> DEFINE m2 == [m EXCEPT ![b] = s]
<1>1. \A c, p, x, j : Live(m2, k, c, p, x, j) <=>
        (c = b /\ LiveIn(s, p, x, j)) \/ (c # b /\ Live(m, k, c, p, x, j))
  BY BlockSet
<1>2. \A p, x, j : Live(m, k, b, p, x, j) <=> LiveIn(m[b], p, x, j)
  BY DEF Live
<1> HIDE DEF m2
<1> DEFINE P(a, q) == \A c, p, x, j :
             Live(m2, k, c, p, x, j) <=>
               Live(m, k, c, p, x, j) \/ (c = a /\ p = q /\ x = n /\ j = i)
<1>3. P(b, o)
  BY <1>1, <1>2 DEF GainsAt
<1> HIDE DEF P
<1>4. \E a, q : P(a, q)
  BY <1>3
<1> QED BY <1>4 DEF Gains, P, m2

LEMMA ReuseEntries ==
  ASSUME NEW r, GoodBlock(r), NEW o \in Records(r), NEW n \in Labels, NEW i \in Targets,
         Room(r, o, n), r[o].ino = NoIno
  PROVE  LET s == Reuse(r, o, n, i)
             u == Unreuse(r, o, n, i)
         IN  /\ GoodBlock(s) /\ GoodBlock(u)
             /\ GainsAt(r, s, o, n, i)
             /\ \A p, x, j : LiveIn(u, p, x, j) <=> LiveIn(r, p, x, j)
<1> DEFINE s == Reuse(r, o, n, i)
           u == Unreuse(r, o, n, i)
<1>1. /\ GoodBlock(s) /\ Records(s) = Records(r) /\ s[o].ino = i /\ s[o].name = n
      /\ \A p \in Records(r) \ {o} : s[p] = r[p]
      /\ GoodBlock(u) /\ Records(u) = Records(r) /\ u[o].ino = NoIno
      /\ \A p \in Records(r) \ {o} : u[p] = r[p]
  BY BlockReuse
<1>2. i # NoIno
  BY DirectoryAssumption
<1> HIDE DEF s, u
<1>3. GainsAt(r, s, o, n, i)
  BY <1>1, <1>2 DEF LiveIn, GainsAt
<1>4. \A p, x, j : LiveIn(u, p, x, j) <=> LiveIn(r, p, x, j)
  BY <1>1 DEF LiveIn
<1> QED BY <1>1, <1>3, <1>4 DEF s, u

LEMMA SplitEntries ==
  ASSUME NEW r, GoodBlock(r), NEW o \in Records(r), NEW n \in Labels, NEW i \in Targets,
         Room(r, o, n), r[o].ino # NoIno
  PROVE  LET used == Size[r[o].name]
             s == Split(r, o, n, i)
             u == Unsplit(r, o, n, i)
         IN  /\ GoodBlock(s) /\ GoodBlock(u)
             /\ GainsAt(r, s, o + used, n, i)
             /\ \A p, x, j : LiveIn(u, p, x, j) <=> LiveIn(r, p, x, j)
<1> DEFINE used == Size[r[o].name]
           s == Split(r, o, n, i)
           u == Unsplit(r, o, n, i)
           q == o + used
<1>1. /\ GoodBlock(s) /\ Records(s) = Records(r) \cup {q} /\ q \notin Records(r)
      /\ s[q].ino = i /\ s[q].name = n
      /\ s[o].ino = r[o].ino /\ s[o].name = r[o].name
      /\ \A p \in Records(r) \ {o} : s[p] = r[p]
      /\ GoodBlock(u) /\ Records(u) = Records(r)
      /\ \A p \in Records(r) : u[p] = r[p]
  BY BlockSplit
<1>2. i # NoIno
  BY DirectoryAssumption
<1> HIDE DEF s, u, q
<1>3. GainsAt(r, s, q, n, i)
  BY <1>1, <1>2 DEF LiveIn, GainsAt
<1>4. \A p, x, j : LiveIn(u, p, x, j) <=> LiveIn(r, p, x, j)
  BY <1>1 DEF LiveIn
<1> QED BY <1>1, <1>3, <1>4 DEF s, u, q

\* A new block has the entry.
LEMMA GainsBlock ==
  ASSUME NEW m, NEW k, Tiles(m, k), k < MaxBlocks, NEW s, GoodBlock(s), NEW n, NEW i, i # NoIno,
         Records(s) = {0}, s[0].name = n, s[0].ino = i
  PROVE  LET m2 == [m EXCEPT ![k + 1] = s]
         IN  /\ Tiles(m2, k + 1) /\ Gains(m, k, m2, k + 1, n, i)
             /\ Tiles(m2, k) /\ \A b \in 1..k : m2[b] = m[b]
<1> DEFINE m2 == [m EXCEPT ![k + 1] = s]
<1>1. /\ k \in Nat /\ k + 1 \in 1..MaxBlocks /\ s \in Blocks /\ 1..k \subseteq 1..MaxBlocks
      /\ 1..(k + 1) = (1..k) \cup {k + 1} /\ k + 1 \notin 1..k
  BY DirectoryAssumption DEF Tiles, GoodBlock
<1>2. /\ m2 \in [1..MaxBlocks -> Blocks] /\ m2[k + 1] = s
      /\ \A b \in 1..k : m2[b] = m[b]
  BY <1>1 DEF Tiles
<1> HIDE DEF m2
<1>3. Tiles(m2, k + 1) /\ Tiles(m2, k)
  BY <1>1, <1>2 DEF Tiles
<1> DEFINE P(a, q) == \A c, p, x, j :
             Live(m2, k + 1, c, p, x, j) <=>
               Live(m, k, c, p, x, j) \/ (c = a /\ p = q /\ x = n /\ j = i)
<1>4. P(k + 1, 0)
  <2>1. \A p, x, j : LiveIn(s, p, x, j) <=> p = 0 /\ x = n /\ j = i
    BY DEF LiveIn
  <2> QED BY <2>1, <1>1, <1>2 DEF Live
<1> HIDE DEF P
<1>5. \E a, q : P(a, q)
  BY <1>4
<1> QED BY <1>2, <1>3, <1>5 DEF Gains, P, m2

\* pmfs_add_entry adds the entry, and what it has logged takes it back.
LEMMA AddedGood ==
  ASSUME NEW m, NEW k, Good(m, k), NEW n \in Labels, NEW i \in Targets,
         \A b, o, j : ~Live(m, k, b, o, n, j),
         k < MaxBlocks \/ Rooms(m, k, n) # {}
  PROVE  LET d == Added(Dir(m, k, <<>>), n, i)
         IN  /\ d = Dir(d.mem, d.blocks, d.log)
             /\ Good(d.mem, d.blocks) /\ Gains(m, k, d.mem, d.blocks, n, i)
             /\ \/ d.log = <<>> /\ SameAs(d.mem, m, k)
                \/ \E w : d.log = <<w>> /\ SameAs(Restored(w, d.mem), m, k)
<1> DEFINE d == Added(Dir(m, k, <<>>), n, i)
<1>1. Tiles(m, k) /\ k \in Nat
  BY DEF Good, Tiles
<1>2. CASE Rooms(m, k, n) = {}
  <2> DEFINE de == [len |-> Block, ino |-> i, name |-> n]
             s  == Written(m[k + 1], 0, de)
             m2 == [m EXCEPT ![k + 1] = s]
  <2>1. d = Dir(m2, k + 1, <<>>)
    BY <1>2 DEF Added, Dir
  <2>2. k + 1 \in 1..MaxBlocks /\ m[k + 1] \in Blocks /\ k < MaxBlocks
    BY <1>1, <1>2, DirectoryAssumption DEF Tiles
  <2>3. de \in Record /\ de.len = Block /\ Fit(de) /\ de.ino = i /\ de.name = n /\ i # NoIno
    BY DirectoryAssumption, Sizes DEF Record, Fit
  <2> HIDE DEF de
  <2>4. GoodBlock(s) /\ Records(s) = {0} /\ s[0] = de
    BY <2>2, <2>3, BlockFresh
  <2> HIDE DEF s
  <2>5. /\ Tiles(m2, k + 1) /\ Gains(m, k, m2, k + 1, n, i)
        /\ Tiles(m2, k) /\ \A b \in 1..k : m2[b] = m[b]
    BY <1>1, <2>2, <2>3, <2>4, GainsBlock
  <2> HIDE DEF m2
  <2>6. Good(m2, k + 1)
    BY <2>5, GainsUnique DEF Good
  <2>7. SameAs(m2, m, k)
    BY <2>5, BlocksSame
  <2> QED BY <2>1, <2>5, <2>6, <2>7 DEF Dir
<1>3. CASE Rooms(m, k, n) # {}
  <2> DEFINE t == FirstOf(Rooms(m, k, n))
  <2>1. t \in Rooms(m, k, n)
    <3>1. Rooms(m, k, n) \in SUBSET (Nat \X Nat)
      BY DirectoryAssumption DEF Rooms, Offsets
    <3> HIDE DEF t
    <3> QED BY <3>1, <1>3, FirstIs DEF t
  <2> HIDE DEF t
  <2>2. PICK b, o : /\ t[1] = b /\ t[2] = o /\ b \in 1..k /\ o \in Records(m[b])
                    /\ Room(m[b], o, n)
    BY <2>1 DEF Rooms
  <2> DEFINE r == m[b]
  <2>3. GoodBlock(r) /\ b \in 1..MaxBlocks /\ m \in [1..MaxBlocks -> Blocks]
    BY <2>2, <1>1, DirectoryAssumption DEF Tiles
  <2>4. CASE r[o].ino = NoIno
    <3> DEFINE s  == Reuse(r, o, n, i)
               u  == Unreuse(r, o, n, i)
               m2 == [m EXCEPT ![b] = s]
               w  == [at |-> <<b, o>>, field |-> "ino", old |-> NoIno]
    <3>1. d = [Dir(m, k, <<>>) EXCEPT !.log = Append(@, w),
                                      !.mem[b] = Written(@, o, [r[o] EXCEPT !.ino = i, !.name = n])]
      BY <1>3, <2>2, <2>4, Zenon DEF Added, Dir, t
    <3>2. d = Dir(m2, k, <<w>>)
      <4>1. [Dir(m, k, <<>>) EXCEPT !.log = Append(@, w)] = Dir(m, k, <<w>>)
        BY DEF Dir
      <4>2. [Dir(m, k, <<w>>) EXCEPT !.mem[b] = Written(@, o, [r[o] EXCEPT !.ino = i, !.name = n])]
              = Dir(m2, k, <<w>>)
        BY DEF Dir, Reuse
      <4> QED BY <3>1, <4>1, <4>2, Zenon
    <3>3. Restored(w, m2) = [m EXCEPT ![b] = u]
      BY <2>3 DEF Restored, Unreuse
    <3> HIDE DEF r
    <3>4. /\ GoodBlock(s) /\ GoodBlock(u)
          /\ GainsAt(r, s, o, n, i)
          /\ \A p, x, j : LiveIn(u, p, x, j) <=> LiveIn(r, p, x, j)
      BY <2>2, <2>3, <2>4, ReuseEntries DEF r
    <3> HIDE DEF s, u
    <3>5. Tiles(m2, k) /\ Gains(m, k, m2, k, n, i)
      <4>1. Tiles(m2, k)
        BY <1>1, <2>2, <3>4, BlockSet
      <4>2. Gains(m, k, m2, k, n, i)
        BY <1>1, <2>2, <3>4, GainsInBlock DEF r
      <4> QED BY <4>1, <4>2
    <3>6. Good(m2, k)
      BY <3>5, GainsUnique DEF Good
    <3>7. SameAs(Restored(w, m2), m, k)
      BY <2>2, <3>4, <3>3, SameBlock DEF r
    <3> HIDE DEF m2, w
    <3> QED BY <3>2, <3>5, <3>6, <3>7 DEF Dir
  <2>5. CASE r[o].ino # NoIno
    <3> DEFINE s  == Split(r, o, n, i)
               u  == Unsplit(r, o, n, i)
               m2 == [m EXCEPT ![b] = s]
               w  == [at |-> <<b, o>>, field |-> "len", old |-> r[o].len]
               q  == o + Size[r[o].name]
    <3>1. d = [Dir(m, k, <<>>) EXCEPT
                 !.log = Append(@, w),
                 !.mem[b] = Written([@ EXCEPT ![o].len = Size[r[o].name]], q,
                                    [len |-> r[o].len - Size[r[o].name], ino |-> i, name |-> n])]
      BY <1>3, <2>2, <2>5, Zenon DEF Added, Dir, t
    <3>2. d = Dir(m2, k, <<w>>)
      <4>1. [Dir(m, k, <<>>) EXCEPT !.log = Append(@, w)] = Dir(m, k, <<w>>)
        BY DEF Dir
      <4>2. [Dir(m, k, <<w>>) EXCEPT
               !.mem[b] = Written([@ EXCEPT ![o].len = Size[r[o].name]], q,
                                  [len |-> r[o].len - Size[r[o].name], ino |-> i, name |-> n])]
              = Dir(m2, k, <<w>>)
        BY DEF Dir, Split
      <4> QED BY <3>1, <4>1, <4>2, Zenon
    <3>3. Restored(w, m2) = [m EXCEPT ![b] = u]
      BY <2>3 DEF Restored, Unsplit
    <3> HIDE DEF r
    <3>4. /\ GoodBlock(s) /\ GoodBlock(u)
          /\ GainsAt(r, s, q, n, i)
          /\ \A p, x, j : LiveIn(u, p, x, j) <=> LiveIn(r, p, x, j)
      BY <2>2, <2>3, <2>5, SplitEntries DEF r
    <3> HIDE DEF s, u, q
    <3>5. Tiles(m2, k) /\ Gains(m, k, m2, k, n, i)
      <4>1. Tiles(m2, k)
        BY <1>1, <2>2, <3>4, BlockSet
      <4>2. Gains(m, k, m2, k, n, i)
        BY <1>1, <2>2, <3>4, GainsInBlock DEF r
      <4> QED BY <4>1, <4>2
    <3>6. Good(m2, k)
      BY <3>5, GainsUnique DEF Good
    <3>7. SameAs(Restored(w, m2), m, k)
      BY <2>2, <3>4, <3>3, SameBlock DEF r
    <3> HIDE DEF m2, w
    <3> QED BY <3>2, <3>5, <3>6, <3>7 DEF Dir
  <2> QED BY <2>4, <2>5
<1> QED BY <1>2, <1>3

\* Block s has the entries of r but the one at o.
LosesAt(r, s, o) == \A p, x, j : LiveIn(s, p, x, j) <=> LiveIn(r, p, x, j) /\ p # o

\* The directory m2 has the entries of m but n.
Loses(m, m2, k, n) ==
  \A c, p, x, j : Live(m2, k, c, p, x, j) <=> Live(m, k, c, p, x, j) /\ x # n

LEMMA LosesInBlock ==
  ASSUME NEW m, NEW k, Good(m, k), NEW b \in 1..k, NEW s, GoodBlock(s),
         NEW o, NEW n, NEW i, Live(m, k, b, o, n, i), LosesAt(m[b], s, o)
  PROVE  LET m2 == [m EXCEPT ![b] = s]
         IN  Good(m2, k) /\ Loses(m, m2, k, n)
<1> DEFINE m2 == [m EXCEPT ![b] = s]
<1>1. Tiles(m, k) /\ Unique(m, k)
  BY DEF Good
<1>2. /\ Tiles(m2, k)
      /\ \A c, p, x, j : Live(m2, k, c, p, x, j) <=>
           (c = b /\ LiveIn(s, p, x, j)) \/ (c # b /\ Live(m, k, c, p, x, j))
  BY <1>1, BlockSet
<1> HIDE DEF m2
<1>3. \A c, p, x, j : Live(m2, k, c, p, x, j) <=> Live(m, k, c, p, x, j) /\ ~(c = b /\ p = o)
  BY <1>2 DEF Live, LosesAt
<1>4. \A x, j : Live(m, k, b, o, x, j) => x = n
  BY DEF Live, LiveIn
<1>5. \A c, p, j : Live(m, k, c, p, n, j) => c = b /\ p = o
  BY <1>1 DEF Unique
<1>6. \A c, p, x, j : Live(m2, k, c, p, x, j) <=> Live(m, k, c, p, x, j) /\ x # n
  BY <1>3, <1>4, <1>5
<1>7. Unique(m2, k)
  BY <1>1, <1>6, FewerUnique
<1> QED BY <1>2, <1>6, <1>7 DEF Good, Loses, m2

\* pmfs_remove_entry takes the entry away, and what it has logged brings the records back.
LEMMA RemovedGood ==
  ASSUME NEW m, NEW k, NEW l, Good(m, k), NEW n \in Labels, \E b, o, i : Live(m, k, b, o, n, i)
  PROVE  LET d == Removed(Dir(m, k, l), n)
         IN  /\ d = Dir(d.mem, k, d.log) /\ Good(d.mem, k)
             /\ Loses(m, d.mem, k, n)
             /\ \E w : d.log = Append(l, w) /\ Restored(w, d.mem) = m
<1> DEFINE d == Removed(Dir(m, k, l), n)
           t == CHOOSE s \in Find(m, k, n) : TRUE
<1>1. Tiles(m, k)
  BY DEF Good
<1>2. t \in Find(m, k, n)
  <2>1. Find(m, k, n) # {}
    BY <1>1, FindIs
  <2>2. \E s \in Find(m, k, n) : TRUE
    BY <2>1
  <2> QED BY <2>2, Zenon
<1>3. /\ t = <<t[1], t[2]>> /\ t[1] \in 1..k /\ t[2] \in Records(m[t[1]])
      /\ Live(m, k, t[1], t[2], n, m[t[1]][t[2]].ino)
  BY <1>1, <1>2, FindIs
<1> HIDE DEF t
<1>4. PICK b, o : t[1] = b /\ t[2] = o
  OBVIOUS
<1> DEFINE r == m[b]
           i == r[o].ino
<1>5. t = <<b, o>> /\ b \in 1..k /\ o \in Records(r) /\ Live(m, k, b, o, n, i)
  BY <1>3, <1>4
<1>6. /\ GoodBlock(r) /\ b \in 1..MaxBlocks /\ m \in [1..MaxBlocks -> Blocks] /\ r \in Blocks
      /\ r[o].name = n
  BY <1>1, <1>5, DirectoryAssumption DEF Tiles, Live, LiveIn, GoodBlock
<1>7. CASE o = 0
  <2> DEFINE s  == [r EXCEPT ![o].ino = NoIno]
             m2 == [m EXCEPT ![b] = s]
             w  == [at |-> t, field |-> "ino", old |-> i]
  <2>1. d = [Dir(m, k, l) EXCEPT !.log = Append(@, w), !.mem[b] = [@ EXCEPT ![0].ino = NoIno]]
    <3>1. [Dir(m, k, l) EXCEPT !.log = Append(@, w), !.mem[b][0].ino = NoIno]
            = [Dir(m, k, l) EXCEPT !.log = Append(@, w), !.mem[b] = [@ EXCEPT ![0].ino = NoIno]]
      OBVIOUS
    <3>2. d = [Dir(m, k, l) EXCEPT !.log = Append(@, w), !.mem[b][0].ino = NoIno]
      BY <1>4, <1>7, Zenon DEF Removed, Dir, t
    <3> QED BY <3>1, <3>2, Zenon
  <2>2. d = Dir(m2, k, Append(l, w))
    <3> DEFINE ll == Append(l, w)
    <3>1. [Dir(m, k, l) EXCEPT !.log = Append(@, w)] = Dir(m, k, ll)
      <4> HIDE DEF w
      <4> QED BY DirLog
    <3> HIDE DEF ll
    <3>2. [Dir(m, k, ll) EXCEPT !.mem[b] = [@ EXCEPT ![0].ino = NoIno]] = Dir(m2, k, ll)
      BY <1>7 DEF Dir
    <3> QED BY <2>1, <3>1, <3>2, Zenon DEF ll
  <2>3. /\ GoodBlock(s) /\ Records(s) = Records(r) /\ s[o].ino = NoIno
        /\ \A p \in Records(r) \ {o} : s[p] = r[p]
        /\ [s EXCEPT ![o].ino = r[o].ino] = r
    BY <1>5, <1>6, BlockRetarget
  <2>4. Restored(w, m2) = m
    BY <1>5, <1>6, <2>3 DEF Restored
  <2> HIDE DEF s, r
  <2>5. LosesAt(m[b], s, o)
    BY <2>3 DEF LosesAt, LiveIn, r
  <2> HIDE DEF i
  <2>6. Good(m2, k) /\ Loses(m, m2, k, n)
    <3>1. b \in 1..k /\ GoodBlock(s) /\ Live(m, k, b, o, n, i)
      BY <1>5, <2>3
    <3> QED BY <3>1, <2>5, LosesInBlock
  <2> HIDE DEF m2, w, d
  <2>7. d.mem = m2 /\ d.log = Append(l, w) /\ d = Dir(d.mem, k, d.log)
    BY <2>2 DEF Dir
  <2> QED BY <2>4, <2>6, <2>7 DEF d
<1>8. CASE o # 0
  <2> DEFINE v == CHOOSE p \in Records(r) : p + r[p].len = o
  <2>1. v \in Records(r) /\ v + r[v].len = o
    <3>1. r \in Blocks /\ o \in Walk(r)
      BY <1>5, <1>6 DEF Records
    <3> HIDE DEF r
    <3> QED BY <3>1, <1>8, Predecessor
  <2> HIDE DEF v
  <2> DEFINE s  == [r EXCEPT ![v].len = @ + r[o].len]
             m2 == [m EXCEPT ![b] = s]
             w  == [at |-> <<b, v>>, field |-> "len", old |-> r[v].len]
  <2>2. d = Dir(m2, k, Append(l, w))
    <3>1. d = [Dir(m, k, l) EXCEPT !.log = Append(@, w), !.mem[b][v].len = @ + r[o].len]
      BY <1>4, <1>8, Zenon DEF Removed, Dir, t, v
    <3> DEFINE ll == Append(l, w)
    <3>2. [Dir(m, k, l) EXCEPT !.log = Append(@, w)] = Dir(m, k, ll)
      <4> HIDE DEF w
      <4> QED BY DirLog
    <3> HIDE DEF ll
    <3>3. [Dir(m, k, ll) EXCEPT !.mem[b][v].len = @ + r[o].len] = Dir(m2, k, ll)
      BY DEF Dir
    <3> QED BY <3>1, <3>2, <3>3, Zenon DEF ll
  <2>3. /\ GoodBlock(s) /\ Records(s) = Records(r) \ {o}
        /\ s[v].ino = r[v].ino /\ s[v].name = r[v].name
        /\ \A p \in Records(r) \ {v} : s[p] = r[p]
        /\ [s EXCEPT ![v].len = r[v].len] = r
    BY <1>5, <1>6, <2>1, BlockMerge
  <2>4. Restored(w, m2) = m
    BY <1>5, <1>6, <2>3 DEF Restored
  <2> HIDE DEF s, r
  <2>5. LosesAt(m[b], s, o)
    BY <2>1, <2>3 DEF LosesAt, LiveIn, r
  <2> HIDE DEF i
  <2>6. Good(m2, k) /\ Loses(m, m2, k, n)
    <3>1. b \in 1..k /\ GoodBlock(s) /\ Live(m, k, b, o, n, i)
      BY <1>5, <2>3
    <3> QED BY <3>1, <2>5, LosesInBlock
  <2> HIDE DEF m2, w, d
  <2>7. d.mem = m2 /\ d.log = Append(l, w) /\ d = Dir(d.mem, k, d.log)
    BY <2>2 DEF Dir
  <2> QED BY <2>4, <2>6, <2>7 DEF d
<1> QED BY <1>7, <1>8

\* The directory m2 has the entries of m, but n with inode i.
Retargets(m, m2, k, n, i) ==
  /\ \A c, p, x, j : x # n => (Live(m2, k, c, p, x, j) <=> Live(m, k, c, p, x, j))
  /\ \A c, p, j : Live(m2, k, c, p, n, j) => j = i /\ \E h : Live(m, k, c, p, n, h)
  /\ \E c, p : Live(m2, k, c, p, n, i)

\* pmfs_rename over an entry gives it another inode, and the undo brings the old one back.
LEMMA ReplacedGood ==
  ASSUME NEW m, NEW k, NEW l, Good(m, k), NEW n \in Labels, NEW i \in Targets,
         \E b, o, j : Live(m, k, b, o, n, j)
  PROVE  LET d == Replaced(Dir(m, k, l), n, i)
         IN  /\ d = Dir(d.mem, k, d.log) /\ Good(d.mem, k)
             /\ Retargets(m, d.mem, k, n, i)
             /\ \E w : d.log = Append(l, w) /\ Restored(w, d.mem) = m
<1> DEFINE d == Replaced(Dir(m, k, l), n, i)
           t == CHOOSE s \in Find(m, k, n) : TRUE
<1>1. Tiles(m, k) /\ Unique(m, k)
  BY DEF Good
<1>2. t \in Find(m, k, n)
  <2>1. Find(m, k, n) # {}
    BY <1>1, FindIs
  <2>2. \E s \in Find(m, k, n) : TRUE
    BY <2>1
  <2> QED BY <2>2, Zenon
<1>3. /\ t = <<t[1], t[2]>> /\ t[1] \in 1..k /\ t[2] \in Records(m[t[1]])
      /\ Live(m, k, t[1], t[2], n, m[t[1]][t[2]].ino)
  BY <1>1, <1>2, FindIs
<1> HIDE DEF t
<1>4. PICK b, o : t[1] = b /\ t[2] = o
  OBVIOUS
<1> DEFINE r == m[b]
           h == r[o].ino
<1>5. t = <<b, o>> /\ b \in 1..k /\ o \in Records(r) /\ Live(m, k, b, o, n, h)
  BY <1>3, <1>4
<1>6. /\ GoodBlock(r) /\ b \in 1..MaxBlocks /\ m \in [1..MaxBlocks -> Blocks] /\ r \in Blocks
      /\ r[o].name = n
  BY <1>1, <1>5, DirectoryAssumption DEF Tiles, Live, LiveIn, GoodBlock
<1> DEFINE s  == [r EXCEPT ![o].ino = i]
           m2 == [m EXCEPT ![b] = s]
           w  == [at |-> t, field |-> "ino", old |-> h]
<1>7. d = Dir(m2, k, Append(l, w))
  <2>1. d = [Dir(m, k, l) EXCEPT !.log = Append(@, w), !.mem[b][o].ino = i]
    BY <1>4, Zenon DEF Replaced, Dir, t
  <2> DEFINE ll == Append(l, w)
  <2>2. [Dir(m, k, l) EXCEPT !.log = Append(@, w)] = Dir(m, k, ll)
    <3> HIDE DEF w
    <3> QED BY DirLog
  <2> HIDE DEF ll
  <2>3. [Dir(m, k, ll) EXCEPT !.mem[b][o].ino = i] = Dir(m2, k, ll)
    BY DEF Dir
  <2> QED BY <2>1, <2>2, <2>3, Zenon DEF ll
<1>8. /\ GoodBlock(s) /\ Records(s) = Records(r) /\ s[o].ino = i /\ s[o].name = n
      /\ \A p \in Records(r) \ {o} : s[p] = r[p]
      /\ [s EXCEPT ![o].ino = r[o].ino] = r
  <2>1. r[o].name \in Labels /\ i \in Targets \cup {NoIno}
    BY <1>6
  <2> HIDE DEF r
  <2>2. s[o].name = r[o].name
    BY <2>1, <1>5, <1>6, BlockRetarget
  <2> QED BY <2>1, <2>2, <1>5, <1>6, BlockRetarget
<1>9. Restored(w, m2) = m
  BY <1>5, <1>6, <1>8 DEF Restored
<1> HIDE DEF s, r
<1>10. /\ Tiles(m2, k)
       /\ \A c, p, x, j : Live(m2, k, c, p, x, j) <=>
            (c = b /\ LiveIn(s, p, x, j)) \/ (c # b /\ Live(m, k, c, p, x, j))
  BY <1>1, <1>5, <1>8, BlockSet
<1>11. \A p, x, j : LiveIn(s, p, x, j) <=>
         (p = o /\ x = n /\ j = i) \/ (p # o /\ LiveIn(r, p, x, j))
  BY <1>5, <1>8, DirectoryAssumption DEF LiveIn
<1> HIDE DEF h, m2
<1>12. \A c, p, x, j : Live(m2, k, c, p, x, j) <=>
         (c = b /\ p = o /\ x = n /\ j = i) \/ (~(c = b /\ p = o) /\ Live(m, k, c, p, x, j))
  BY <1>5, <1>10, <1>11 DEF Live, r
<1>13. \A x, j : Live(m, k, b, o, x, j) => x = n
  BY <1>6 DEF Live, LiveIn, r
<1>14. \A c, p, j : Live(m, k, c, p, n, j) => c = b /\ p = o
  BY <1>1, <1>5 DEF Unique
<1>15. Retargets(m, m2, k, n, i)
  <2>1. \A c, p, x, j : x # n => (Live(m2, k, c, p, x, j) <=> Live(m, k, c, p, x, j))
    BY <1>12, <1>13
  <2>2. ASSUME NEW c, NEW p, NEW j, Live(m2, k, c, p, n, j)
        PROVE  j = i /\ Live(m, k, c, p, n, h)
    BY <1>5, <1>12, <1>14, <2>2
  <2>3. Live(m2, k, b, o, n, i)
    BY <1>12
  <2> QED BY <2>1, <2>2, <2>3 DEF Retargets
<1>16. Unique(m2, k)
  <2>1. \A c, p, x, j : Live(m2, k, c, p, x, j) => \E g : Live(m, k, c, p, x, g)
    BY <1>15 DEF Retargets
  <2> QED BY <2>1, <1>1, FewerUnique
<1> HIDE DEF w, d
<1>17. d.mem = m2 /\ d.log = Append(l, w) /\ d = Dir(d.mem, k, d.log)
  BY <1>7 DEF Dir
<1> QED BY <1>9, <1>10, <1>15, <1>16, <1>17 DEF d, Good

-----------------------------------------------------------------------------
(* The calls.                                                                               *)

\* The directory is good after a call and after the undo of the call, and an entry that is
\* there before and after it has not moved.
CallOk(m, k, d) ==
  /\ Good(d.mem, d.blocks)
  /\ SameAs(Undone(d.log, d.mem), m, k)
  /\ \A n \in NamesIn(m, k) : \A b, o, i :
       Live(d.mem, d.blocks, b, o, n, i) => \E j : Live(m, k, b, o, n, j)

LEMMA LinkOk ==
  ASSUME NEW m, NEW k, Good(m, k), NEW n \in Labels, NEW i \in Targets,
         n \notin NamesIn(m, k), k < MaxBlocks \/ Rooms(m, k, n) # {}
  PROVE  LET d == Added(Dir(m, k, <<>>), n, i)
         IN  /\ CallOk(m, k, d)
             /\ ContentOf(d.mem, d.blocks) = ContentOf(m, k) \cup {<<n, i>>}
<1> DEFINE d == Added(Dir(m, k, <<>>), n, i)
<1>1. Tiles(m, k)
  BY DEF Good
<1>2. \A b, o, j : ~Live(m, k, b, o, n, j)
  BY <1>1, ContentIs
<1>3. /\ Good(d.mem, d.blocks) /\ Gains(m, k, d.mem, d.blocks, n, i)
      /\ \/ d.log = <<>> /\ SameAs(d.mem, m, k)
         \/ \E w : d.log = <<w>> /\ SameAs(Restored(w, d.mem), m, k)
  BY <1>2, AddedGood
<1> HIDE DEF d
<1>4. SameAs(Undone(d.log, d.mem), m, k)
  <2>1. CASE d.log = <<>> /\ SameAs(d.mem, m, k)
    BY <2>1, UndoNone
  <2>2. CASE \E w : d.log = <<w>> /\ SameAs(Restored(w, d.mem), m, k)
    <3>1. PICK w : d.log = <<w>> /\ SameAs(Restored(w, d.mem), m, k)
      BY <2>2
    <3> QED BY <3>1, UndoOne
  <2> QED BY <1>3, <2>1, <2>2
<1>5. PICK b, o : \A c, p, x, j :
        Live(d.mem, d.blocks, c, p, x, j) <=>
          Live(m, k, c, p, x, j) \/ (c = b /\ p = o /\ x = n /\ j = i)
  BY <1>3 DEF Gains
<1>6. CallOk(m, k, d)
  BY <1>3, <1>4, <1>5 DEF CallOk
<1>7. ContentOf(d.mem, d.blocks) = ContentOf(m, k) \cup {<<n, i>>}
  <2>1. Tiles(d.mem, d.blocks)
    BY <1>3 DEF Good
  <2>2. \A x \in Labels : \A j :
          <<x, j>> \in ContentOf(d.mem, d.blocks) <=>
            <<x, j>> \in ContentOf(m, k) \/ (x = n /\ j = i)
    <3>1. \A x \in Labels : \A j : <<x, j>> \in ContentOf(d.mem, d.blocks) <=>
                                     \E c, p : Live(d.mem, d.blocks, c, p, x, j)
      BY <2>1, ContentIs
    <3>2. \A x \in Labels : \A j : <<x, j>> \in ContentOf(m, k) <=> \E c, p : Live(m, k, c, p, x, j)
      BY <1>1, ContentIs
    <3>3. ASSUME NEW x, NEW j
          PROVE  (\E c, p : Live(d.mem, d.blocks, c, p, x, j))
                   <=> (\E c, p : Live(m, k, c, p, x, j)) \/ (x = n /\ j = i)
      <4>1. x = n /\ j = i => Live(d.mem, d.blocks, b, o, x, j)
        BY <1>5
      <4> QED BY <4>1, <1>5
    <3> QED BY <3>1, <3>2, <3>3
  <2>3. \A e \in ContentOf(d.mem, d.blocks) : e = <<e[1], e[2]>> /\ e[1] \in Labels
    BY <2>1, ContentIs
  <2>4. \A e \in ContentOf(m, k) : e = <<e[1], e[2]>> /\ e[1] \in Labels
    BY <1>1, ContentIs
  <2>5. ASSUME NEW e \in ContentOf(d.mem, d.blocks) PROVE e \in ContentOf(m, k) \cup {<<n, i>>}
    BY <2>2, <2>3
  <2>6. ASSUME NEW e \in ContentOf(m, k) \cup {<<n, i>>} PROVE e \in ContentOf(d.mem, d.blocks)
    BY <2>2, <2>4
  <2> QED BY <2>5, <2>6
<1> QED BY <1>6, <1>7 DEF d

LEMMA UnlinkOk ==
  ASSUME NEW m, NEW k, Good(m, k), NEW n \in NamesIn(m, k)
  PROVE  LET d == Removed(Dir(m, k, <<>>), n)
         IN  /\ CallOk(m, k, d)
             /\ \E e \in ContentOf(m, k) : ContentOf(d.mem, d.blocks) = ContentOf(m, k) \ {e}
<1> DEFINE d == Removed(Dir(m, k, <<>>), n)
<1>1. Tiles(m, k) /\ Unique(m, k)
  BY DEF Good
<1>2. PICK b, o, i : n \in Labels /\ Live(m, k, b, o, n, i)
  BY <1>1, ContentIs
<1>3. /\ d = Dir(d.mem, k, d.log) /\ Good(d.mem, k) /\ Loses(m, d.mem, k, n)
      /\ \E w : d.log = Append(<<>>, w) /\ Restored(w, d.mem) = m
  BY <1>2, RemovedGood
<1> HIDE DEF d
<1>4. d.blocks = k
  BY <1>3 DEF Dir
<1>5. SameAs(Undone(d.log, d.mem), m, k)
  <2>1. PICK w : d.log = Append(<<>>, w) /\ Restored(w, d.mem) = m
    BY <1>3
  <2>2. Append(<<>>, w) = <<w>>
    OBVIOUS
  <2> QED BY <2>1, <2>2, UndoOne DEF SameAs
<1>6. CallOk(m, k, d)
  BY <1>3, <1>4, <1>5 DEF CallOk, Loses
<1>7. <<n, i>> \in ContentOf(m, k)
  BY <1>1, <1>2, ContentIs
<1>8. \A j : <<n, j>> \in ContentOf(m, k) => j = i
  <2>1. \A j : <<n, j>> \in ContentOf(m, k) => \E c, p : Live(m, k, c, p, n, j)
    BY <1>1, <1>2, ContentIs
  <2>2. \A c, p, j : Live(m, k, c, p, n, j) => j = i
    <3> SUFFICES ASSUME NEW c, NEW p, NEW j, Live(m, k, c, p, n, j) PROVE j = i
      OBVIOUS
    <3>1. c = b /\ p = o
      BY <1>1, <1>2 DEF Unique
    <3> QED BY <3>1, <1>2 DEF Live, LiveIn
  <2> QED BY <2>1, <2>2
<1>9. ContentOf(d.mem, k) = ContentOf(m, k) \ {<<n, i>>}
  <2>1. Tiles(d.mem, k)
    BY <1>3 DEF Good
  <2>2. \A x \in Labels : \A j :
          <<x, j>> \in ContentOf(d.mem, k) <=> <<x, j>> \in ContentOf(m, k) /\ x # n
    <3>1. \A x \in Labels : \A j : <<x, j>> \in ContentOf(d.mem, k) <=>
                                     \E c, p : Live(d.mem, k, c, p, x, j)
      BY <2>1, ContentIs
    <3>2. \A x \in Labels : \A j : <<x, j>> \in ContentOf(m, k) <=> \E c, p : Live(m, k, c, p, x, j)
      BY <1>1, ContentIs
    <3> QED BY <3>1, <3>2, <1>3 DEF Loses
  <2>3. \A e \in ContentOf(d.mem, k) : e = <<e[1], e[2]>> /\ e[1] \in Labels
    BY <2>1, ContentIs
  <2>4. \A e \in ContentOf(m, k) : e = <<e[1], e[2]>> /\ e[1] \in Labels
    BY <1>1, ContentIs
  <2>5. ASSUME NEW e \in ContentOf(d.mem, k) PROVE e \in ContentOf(m, k) \ {<<n, i>>}
    BY <2>2, <2>3
  <2>6. ASSUME NEW e \in ContentOf(m, k) \ {<<n, i>>} PROVE e \in ContentOf(d.mem, k)
    BY <2>2, <2>4, <1>8
  <2> QED BY <2>5, <2>6
<1> QED BY <1>4, <1>6, <1>7, <1>9 DEF d

\* The entries after a rename, name by name and as a set.
LEMMA MovedContent ==
  ASSUME NEW m, NEW k, Good(m, k), NEW n \in Labels, NEW q \in Labels, NEW i,
         NEW b, NEW o, Live(m, k, b, o, n, i), NEW m2, NEW k2, Tiles(m2, k2),
         \A x \in Labels : \A j :
           <<x, j>> \in ContentOf(m2, k2) <=>
             (x # n /\ x # q /\ <<x, j>> \in ContentOf(m, k)) \/ (x = q /\ j = i)
  PROVE  ContentOf(m2, k2) = {x \in ContentOf(m, k) \ {<<n, i>>} : x[1] # q} \cup {<<q, i>>}
<1>1. Tiles(m, k) /\ Unique(m, k)
  BY DEF Good
<1>2. \A e \in ContentOf(m2, k2) : e = <<e[1], e[2]>> /\ e[1] \in Labels
  BY ContentIs
<1>3. \A e \in ContentOf(m, k) : e = <<e[1], e[2]>> /\ e[1] \in Labels
  BY <1>1, ContentIs
<1>4. \A j : <<n, j>> \in ContentOf(m, k) => j = i
  <2>1. \A j : <<n, j>> \in ContentOf(m, k) => \E c, p : Live(m, k, c, p, n, j)
    BY <1>1, ContentIs
  <2>2. \A c, p, j : Live(m, k, c, p, n, j) => j = i
    <3> SUFFICES ASSUME NEW c, NEW p, NEW j, Live(m, k, c, p, n, j) PROVE j = i
      OBVIOUS
    <3>1. c = b /\ p = o
      BY <1>1 DEF Unique
    <3> QED BY <3>1 DEF Live, LiveIn
  <2> QED BY <2>1, <2>2
<1> DEFINE R == {x \in ContentOf(m, k) \ {<<n, i>>} : x[1] # q} \cup {<<q, i>>}
<1>5. ASSUME NEW e \in ContentOf(m2, k2) PROVE e \in R
  <2>1. e = <<e[1], e[2]>> /\ e[1] \in Labels
    BY <1>2
  <2>2. (e[1] # n /\ e[1] # q /\ <<e[1], e[2]>> \in ContentOf(m, k)) \/ (e[1] = q /\ e[2] = i)
    BY <2>1
  <2>3. e[1] # n => e # <<n, i>>
    OBVIOUS
  <2> QED BY <2>1, <2>2, <2>3
<1>6. ASSUME NEW e \in R PROVE e \in ContentOf(m2, k2)
  <2>1. CASE e = <<q, i>>
    BY <2>1
  <2>2. CASE e \in ContentOf(m, k) /\ e # <<n, i>> /\ e[1] # q
    <3>1. e = <<e[1], e[2]>> /\ e[1] \in Labels
      BY <1>3, <2>2
    <3>2. e[1] # n
      BY <1>4, <2>2, <3>1
    <3> QED BY <2>2, <3>1, <3>2
  <2> QED BY <2>1, <2>2
<1> QED BY <1>5, <1>6

\* pmfs_rename of n, which has inode i, to a name q that is there with another inode.
LEMMA RenameOverOk ==
  ASSUME NEW m, NEW k, Good(m, k), NEW n \in Labels, NEW q \in NamesIn(m, k), NEW i \in Targets,
         <<n, i>> \in ContentOf(m, k), n # q
  PROVE  LET d == Removed(Replaced(Dir(m, k, <<>>), q, i), n)
         IN  /\ CallOk(m, k, d)
             /\ ContentOf(d.mem, d.blocks) =
                  {x \in ContentOf(m, k) \ {<<n, i>>} : x[1] # q} \cup {<<q, i>>}
<1> DEFINE g == Replaced(Dir(m, k, <<>>), q, i)
           d == Removed(g, n)
<1>1. Tiles(m, k) /\ Unique(m, k) /\ q \in Labels
  BY ContentIs DEF Good
<1>2. /\ g = Dir(g.mem, k, g.log) /\ Good(g.mem, k) /\ Retargets(m, g.mem, k, q, i)
      /\ \E w : g.log = Append(<<>>, w) /\ Restored(w, g.mem) = m
  <2>1. \E b, o, j : Live(m, k, b, o, q, j)
    BY <1>1, ContentIs
  <2> QED BY <1>1, <2>1, ReplacedGood
<1> HIDE DEF g
<1>3. PICK b, o : Live(m, k, b, o, n, i)
  BY <1>1, ContentIs
<1>4. /\ d = Dir(d.mem, k, d.log) /\ Good(d.mem, k) /\ Loses(g.mem, d.mem, k, n)
      /\ \E w : d.log = Append(g.log, w) /\ Restored(w, d.mem) = g.mem
  <2>1. \E c, p, j : Live(g.mem, k, c, p, n, j)
    BY <1>2, <1>3 DEF Retargets
  <2>2. d = Removed(Dir(g.mem, k, g.log), n)
    BY <1>2, Zenon
  <2> HIDE DEF d
  <2>3. /\ Removed(Dir(g.mem, k, g.log), n)
             = Dir(Removed(Dir(g.mem, k, g.log), n).mem, k, Removed(Dir(g.mem, k, g.log), n).log)
        /\ Good(Removed(Dir(g.mem, k, g.log), n).mem, k)
        /\ Loses(g.mem, Removed(Dir(g.mem, k, g.log), n).mem, k, n)
        /\ \E w : /\ Removed(Dir(g.mem, k, g.log), n).log = Append(g.log, w)
                  /\ Restored(w, Removed(Dir(g.mem, k, g.log), n).mem) = g.mem
    BY <1>2, <2>1, RemovedGood
  <2> QED BY <2>2, <2>3
<1> HIDE DEF d
<1>5. d.blocks = k
  BY <1>4 DEF Dir
<1>6. SameAs(Undone(d.log, d.mem), m, k)
  <2>1. PICK v : g.log = Append(<<>>, v) /\ Restored(v, g.mem) = m
    BY <1>2
  <2>2. PICK w : d.log = Append(g.log, w) /\ Restored(w, d.mem) = g.mem
    BY <1>4
  <2>3. d.log = <<v, w>>
    BY <2>1, <2>2, TwoWords, Zenon
  <2>4. Undone(d.log, d.mem) = m
    <3>1. Undone(<<v, w>>, d.mem) = Restored(v, Restored(w, d.mem))
      BY UndoTwo, Zenon
    <3> QED BY <2>1, <2>2, <2>3, <3>1, Zenon
  <2> QED BY <2>4 DEF SameAs
<1>7. \A c, p, x, j : Live(d.mem, k, c, p, x, j) => \E h : Live(m, k, c, p, x, h)
  BY <1>2, <1>4 DEF Loses, Retargets
<1>8. CallOk(m, k, d)
  BY <1>4, <1>5, <1>6, <1>7 DEF CallOk
<1>9. \A x \in Labels : \A j :
        (\E c, p : Live(d.mem, k, c, p, x, j)) <=>
          (x # n /\ x # q /\ \E c, p : Live(m, k, c, p, x, j)) \/ (x = q /\ j = i)
  BY <1>2, <1>4 DEF Loses, Retargets
<1>10. \A x \in Labels : \A j :
         <<x, j>> \in ContentOf(d.mem, k) <=>
           (x # n /\ x # q /\ <<x, j>> \in ContentOf(m, k)) \/ (x = q /\ j = i)
  <2>1. Tiles(d.mem, k)
    BY <1>4 DEF Good
  <2>2. \A x \in Labels : \A j : <<x, j>> \in ContentOf(d.mem, k) <=>
                                   \E c, p : Live(d.mem, k, c, p, x, j)
    BY <2>1, ContentIs
  <2>3. \A x \in Labels : \A j : <<x, j>> \in ContentOf(m, k) <=> \E c, p : Live(m, k, c, p, x, j)
    BY <1>1, ContentIs
  <2> QED BY <2>2, <2>3, <1>9
<1>11. ContentOf(d.mem, k) = {x \in ContentOf(m, k) \ {<<n, i>>} : x[1] # q} \cup {<<q, i>>}
  BY <1>1, <1>3, <1>4, <1>10, MovedContent DEF Good
<1> QED BY <1>5, <1>8, <1>11 DEF d, g

\* pmfs_rename of n, which has inode i, to a name q that is not there.
LEMMA RenameNewOk ==
  ASSUME NEW m, NEW k, Good(m, k), NEW n \in Labels, NEW q \in Labels, NEW i \in Targets,
         <<n, i>> \in ContentOf(m, k), q \notin NamesIn(m, k),
         k < MaxBlocks \/ Rooms(m, k, q) # {}
  PROVE  LET d == Removed(Added(Dir(m, k, <<>>), q, i), n)
         IN  /\ CallOk(m, k, d)
             /\ ContentOf(d.mem, d.blocks) =
                  {x \in ContentOf(m, k) \ {<<n, i>>} : x[1] # q} \cup {<<q, i>>}
<1> DEFINE g == Added(Dir(m, k, <<>>), q, i)
           d == Removed(g, n)
<1>1. Tiles(m, k) /\ Unique(m, k)
  BY DEF Good
<1>2. \A b, o, j : ~Live(m, k, b, o, q, j)
  BY <1>1, ContentIs
<1>3. /\ g = Dir(g.mem, g.blocks, g.log)
      /\ Good(g.mem, g.blocks) /\ Gains(m, k, g.mem, g.blocks, q, i)
      /\ \/ g.log = <<>> /\ SameAs(g.mem, m, k)
         \/ \E w : g.log = <<w>> /\ SameAs(Restored(w, g.mem), m, k)
  BY <1>2, AddedGood
<1> HIDE DEF g
<1>4. PICK b, o : Live(m, k, b, o, n, i)
  BY <1>1, ContentIs
<1>5. n # q
  BY <1>2, <1>4
<1>6. PICK a, r : \A c, p, x, j :
        Live(g.mem, g.blocks, c, p, x, j) <=>
          Live(m, k, c, p, x, j) \/ (c = a /\ p = r /\ x = q /\ j = i)
  BY <1>3 DEF Gains
<1>7. /\ d = Dir(d.mem, g.blocks, d.log) /\ Good(d.mem, g.blocks)
      /\ Loses(g.mem, d.mem, g.blocks, n)
      /\ \E w : d.log = Append(g.log, w) /\ Restored(w, d.mem) = g.mem
  <2>1. \E c, p, j : Live(g.mem, g.blocks, c, p, n, j)
    BY <1>4, <1>6
  <2> DEFINE e == Removed(Dir(g.mem, g.blocks, g.log), n)
  <2>2. d = e
    BY <1>3, Zenon
  <2>3. /\ e = Dir(e.mem, g.blocks, e.log) /\ Good(e.mem, g.blocks)
        /\ Loses(g.mem, e.mem, g.blocks, n)
        /\ \E w : e.log = Append(g.log, w) /\ Restored(w, e.mem) = g.mem
    BY <1>3, <2>1, RemovedGood
  <2> HIDE DEF d, e
  <2> QED BY <2>2, <2>3
<1> HIDE DEF d
<1>8. d.blocks = g.blocks
  BY <1>7 DEF Dir
<1>9. SameAs(Undone(d.log, d.mem), m, k)
  <2>1. PICK w : d.log = Append(g.log, w) /\ Restored(w, d.mem) = g.mem
    BY <1>7
  <2>2. CASE g.log = <<>> /\ SameAs(g.mem, m, k)
    <3>1. Append(<<>>, w) = <<w>>
      OBVIOUS
    <3> QED BY <2>1, <2>2, <3>1, UndoOne
  <2>3. CASE \E v : g.log = <<v>> /\ SameAs(Restored(v, g.mem), m, k)
    <3>1. PICK v : g.log = <<v>> /\ SameAs(Restored(v, g.mem), m, k)
      BY <2>3
    <3>2. d.log = <<v, w>>
      BY <2>1, <3>1, TwoWords, Zenon
    <3>3. Undone(<<v, w>>, d.mem) = Restored(v, Restored(w, d.mem))
      BY UndoTwo, Zenon
    <3> QED BY <2>1, <3>1, <3>2, <3>3, Zenon
  <2> QED BY <1>3, <2>2, <2>3
<1>10. \A x \in NamesIn(m, k) : \A c, p, j :
         Live(d.mem, d.blocks, c, p, x, j) => \E h : Live(m, k, c, p, x, h)
  BY <1>6, <1>7, <1>8 DEF Loses
<1>11. CallOk(m, k, d)
  BY <1>7, <1>8, <1>9, <1>10 DEF CallOk
<1>12. \A x \in Labels : \A j :
        (\E c, p : Live(d.mem, d.blocks, c, p, x, j)) <=>
          (x # n /\ x # q /\ \E c, p : Live(m, k, c, p, x, j)) \/ (x = q /\ j = i)
  <2>1. \A c, p, x, j : Live(d.mem, d.blocks, c, p, x, j) <=>
          x # n /\ (Live(m, k, c, p, x, j) \/ (c = a /\ p = r /\ x = q /\ j = i))
    BY <1>6, <1>7, <1>8 DEF Loses
  <2>2. Live(d.mem, d.blocks, a, r, q, i)
    BY <2>1, <1>5
  <2> QED BY <2>1, <2>2, <1>2
<1>13. \A x \in Labels : \A j :
         <<x, j>> \in ContentOf(d.mem, d.blocks) <=>
           (x # n /\ x # q /\ <<x, j>> \in ContentOf(m, k)) \/ (x = q /\ j = i)
  <2>1. Tiles(d.mem, d.blocks)
    BY <1>7, <1>8 DEF Good
  <2>2. \A x \in Labels : \A j : <<x, j>> \in ContentOf(d.mem, d.blocks) <=>
                                   \E c, p : Live(d.mem, d.blocks, c, p, x, j)
    BY <2>1, ContentIs
  <2>3. \A x \in Labels : \A j : <<x, j>> \in ContentOf(m, k) <=> \E c, p : Live(m, k, c, p, x, j)
    BY <1>1, ContentIs
  <2> QED BY <2>2, <2>3, <1>12
<1>14. ContentOf(d.mem, d.blocks) = {x \in ContentOf(m, k) \ {<<n, i>>} : x[1] # q} \cup {<<q, i>>}
  BY <1>1, <1>4, <1>7, <1>8, <1>13, MovedContent DEF Good
<1> QED BY <1>11, <1>14 DEF d, g

-----------------------------------------------------------------------------
(* The invariant.                                                                           *)

\* A call that has not committed can be taken back to the entries of the last commit.
Undoable ==
  at = "changed" =>
    /\ Good(Undone(log.words, mem), log.blocks)
    /\ ContentOf(Undone(log.words, mem), log.blocks) = stable
Settled == at = "idle" => ContentOf(mem, blocks) = stable

\* The position of a scan is behind record o of block b.
Passed(pos, b, o) == b < pos[1] \/ (b = pos[1] /\ o < pos[2])

\* Of the entries that stay a scan has listed those that it has passed.
ScanTyped ==
  /\ scan \in [at : {"idle", "open", "lost", "done"}, pos : (Nat \ {0}) \X Nat,
               first : SUBSET Labels, seen : [Labels -> Nat]]
ScanListed ==
  /\ scan.first \subseteq NamesIn(mem, blocks)
  /\ \A n \in scan.first : scan.seen[n] <= 1 /\ (scan.at = "done" => scan.seen[n] = 1)
  /\ scan.at = "open" =>
       \A n \in scan.first : \A b, o, i :
         Live(mem, blocks, b, o, n, i) =>
           scan.seen[n] = IF Passed(scan.pos, b, o) THEN 1 ELSE 0

Inv ==
  /\ at \in {"idle", "changed"} /\ Good(mem, blocks)
  /\ Settled /\ Undoable
  /\ ScanTyped /\ ScanListed

LEMMA InitInvariant == Init => Inv
<1> SUFFICES ASSUME Init PROVE Inv
  OBVIOUS
<1> DEFINE de    == [len |-> Block, ino |-> Dots, name |-> Dots]
           blank == [o \in Offsets |-> Junk]
           first == Written(blank, 0, de)
<1>1. 1 \in 1..MaxBlocks /\ 1..1 = {1} /\ blocks = 1 /\ 0 \in Offsets
  BY DirectoryAssumption DEF Init, Offsets
<1>2. /\ blank \in Blocks /\ de \in Record /\ de.len = Block /\ Fit(de)
      /\ de.ino = Dots /\ de.name = Dots
  BY DirectoryAssumption, Sizes DEF Blocks, Record, Fit
<1>3. mem = [b \in 1..MaxBlocks |-> IF b = 1 THEN first ELSE blank]
  <2>1. first = [p \in Offsets |-> IF p = 0 THEN de ELSE Junk]
    BY DEF Written
  <2> HIDE DEF first
  <2>2. mem = [b \in 1..MaxBlocks |-> [o \in Offsets |-> IF b = 1 /\ o = 0 THEN de ELSE Junk]]
    BY DEF Init
  <2>3. ASSUME NEW b \in 1..MaxBlocks
        PROVE  [o \in Offsets |-> IF b = 1 /\ o = 0 THEN de ELSE Junk]
                 = IF b = 1 THEN first ELSE blank
    BY <2>1
  <2> HIDE DEF de, blank
  <2> QED BY <2>2, <2>3
<1> HIDE DEF de
<1>4. GoodBlock(first) /\ Records(first) = {0} /\ first[0] = de
  BY <1>2, BlockFresh
<1> HIDE DEF blank, first
<1>5. Tiles(mem, blocks)
  <2>1. first \in Blocks
    BY <1>4 DEF GoodBlock
  <2> QED BY <1>1, <1>2, <1>3, <1>4, <2>1 DEF Tiles
<1>6. \A b, o, n, i : Live(mem, blocks, b, o, n, i) => b = 1 /\ o = 0 /\ n = Dots
  BY <1>1, <1>2, <1>3, <1>4 DEF Live, LiveIn
<1>7. Good(mem, blocks)
  BY <1>5, <1>6 DEF Good, Unique
<1>8. ContentOf(mem, blocks) = {} /\ NamesIn(mem, blocks) = {}
  <2>1. \A b, o, i : \A n \in Labels : ~Live(mem, blocks, b, o, n, i)
    BY <1>6, DirectoryAssumption
  <2>2. \A n : n \notin NamesIn(mem, blocks)
    BY <1>5, <2>1, ContentIs
  <2>3. \A e : e \notin ContentOf(mem, blocks)
    <3> SUFFICES ASSUME NEW e, e \in ContentOf(mem, blocks) PROVE FALSE
      OBVIOUS
    <3>1. e = <<e[1], e[2]>> /\ e[1] \in Labels
      BY <1>5, ContentIs
    <3>2. \E b, o : Live(mem, blocks, b, o, e[1], e[2])
      BY <1>5, <3>1, ContentIs
    <3> QED BY <2>1, <3>1, <3>2
  <2> QED BY <2>2, <2>3
<1>9. Settled /\ Undoable
  BY <1>8 DEF Init, Settled, Undoable
<1>10. ScanTyped /\ ScanListed
  BY DEF Init, ScanTyped, ScanListed, NoScan
<1> QED BY <1>7, <1>9, <1>10 DEF Inv, Init

LEMMA ChangeSafe ==
  ASSUME Inv, NEW d, CallOk(mem, blocks, d), Change(d)
  PROVE  Inv'
<1>1. /\ at = "idle" /\ mem' = d.mem /\ blocks' = d.blocks /\ stable' = stable /\ at' = "changed"
      /\ log' = [words |-> d.log, blocks |-> blocks]
      /\ scan' = [scan EXCEPT !.first = @ \cap NamesIn(d.mem, d.blocks)]
  BY DEF Change
<1>2. Good(d.mem, d.blocks) /\ SameAs(Undone(d.log, d.mem), mem, blocks)
  BY DEF CallOk
<1>3. Tiles(mem, blocks) /\ ContentOf(mem, blocks) = stable
  BY <1>1 DEF Inv, Good, Settled
<1>4. ContentOf(Undone(d.log, d.mem), blocks) = stable /\ Good(Undone(d.log, d.mem), blocks)
  BY <1>2, <1>3, SameContent DEF SameAs
<1>5. Undoable'
  <2>1. log'.words = d.log /\ log'.blocks = blocks
    BY <1>1
  <2> QED BY <1>1, <1>4, <2>1 DEF Undoable
<1>6. Settled'
  BY <1>1 DEF Settled
<1>7. Good(mem, blocks)'
  BY <1>1, <1>2
<1>8. /\ scan'.at = scan.at /\ scan'.pos = scan.pos /\ scan'.seen = scan.seen
      /\ scan'.first = scan.first \cap NamesIn(d.mem, d.blocks)
      /\ ScanTyped'
  BY <1>1 DEF Inv, ScanTyped
<1>9. ScanListed'
  <2>1. /\ scan.first \subseteq NamesIn(mem, blocks)
        /\ \A n \in scan.first : scan.seen[n] <= 1 /\ (scan.at = "done" => scan.seen[n] = 1)
        /\ scan.at = "open" =>
             \A n \in scan.first : \A b, o, i :
               Live(mem, blocks, b, o, n, i) =>
                 scan.seen[n] = IF Passed(scan.pos, b, o) THEN 1 ELSE 0
    BY DEF Inv, ScanListed
  <2>2. \A n \in NamesIn(mem, blocks) : \A b, o, i :
          Live(d.mem, d.blocks, b, o, n, i) => \E j : Live(mem, blocks, b, o, n, j)
    BY DEF CallOk
  <2>3. scan'.first \subseteq NamesIn(mem', blocks')
    BY <1>1, <1>8
  <2>4. \A n \in scan'.first : scan'.seen[n] <= 1 /\ (scan'.at = "done" => scan'.seen[n] = 1)
    BY <1>8, <2>1
  <2>5. ASSUME scan'.at = "open", NEW n \in scan'.first, NEW b, NEW o, NEW i,
               Live(mem', blocks', b, o, n, i)
        PROVE  scan'.seen[n] = IF Passed(scan'.pos, b, o) THEN 1 ELSE 0
    <3>1. n \in scan.first /\ scan.at = "open"
      BY <1>8, <2>5
    <3>2. \E j : Live(mem, blocks, b, o, n, j)
      BY <1>1, <2>1, <2>2, <2>5, <3>1
    <3> QED BY <1>8, <2>1, <3>1, <3>2
  <2> QED BY <2>3, <2>4, <2>5 DEF ScanListed
<1> QED BY <1>1, <1>5, <1>6, <1>7, <1>8, <1>9 DEF Inv

LEMMA NowIs == Now = Dir(mem, blocks, <<>>) /\ Present = NamesIn(mem, blocks)
                 /\ Content = ContentOf(mem, blocks)
  BY DEF Now, Dir, Present, Content, ContentOf

\* Each call is one of the changes above.
LEMMA LinkIs ==
  ASSUME Inv, NEW n \in Labels, NEW i \in Targets, Link(n, i)
  PROVE  \E d : /\ Change(d) /\ CallOk(mem, blocks, d) /\ n \notin NamesIn(mem, blocks)
                /\ ContentOf(d.mem, d.blocks) = ContentOf(mem, blocks) \cup {<<n, i>>}
<1>1. /\ n \notin NamesIn(mem, blocks) /\ Change(Added(Dir(mem, blocks, <<>>), n, i))
      /\ blocks < MaxBlocks \/ Rooms(mem, blocks, n) # {}
  BY NowIs DEF Link, Fits
<1> DEFINE d == Added(Dir(mem, blocks, <<>>), n, i)
<1>2. /\ CallOk(mem, blocks, d)
      /\ ContentOf(d.mem, d.blocks) = ContentOf(mem, blocks) \cup {<<n, i>>}
  BY <1>1, LinkOk DEF Inv
<1> HIDE DEF d
<1>3. Change(d)
  BY <1>1 DEF d
<1> QED BY <1>1, <1>2, <1>3

LEMMA UnlinkIs ==
  ASSUME Inv, NEW n \in Labels, Unlink(n)
  PROVE  \E d : /\ Change(d) /\ CallOk(mem, blocks, d)
                /\ \E e \in ContentOf(mem, blocks) :
                     ContentOf(d.mem, d.blocks) = ContentOf(mem, blocks) \ {e}
<1>1. n \in NamesIn(mem, blocks) /\ Change(Removed(Dir(mem, blocks, <<>>), n))
  BY NowIs DEF Unlink
<1> DEFINE d == Removed(Dir(mem, blocks, <<>>), n)
<1>2. /\ CallOk(mem, blocks, d)
      /\ \E e \in ContentOf(mem, blocks) :
           ContentOf(d.mem, d.blocks) = ContentOf(mem, blocks) \ {e}
  BY <1>1, UnlinkOk DEF Inv
<1> HIDE DEF d
<1>3. Change(d)
  BY <1>1 DEF d
<1> QED BY <1>2, <1>3

LEMMA RenameIs ==
  ASSUME Inv, NEW n \in Labels, NEW m \in Labels, Rename(n, m)
  PROVE  \E d : /\ Change(d) /\ CallOk(mem, blocks, d) /\ n # m
                /\ \E i : /\ <<n, i>> \in ContentOf(mem, blocks)
                          /\ ContentOf(d.mem, d.blocks) =
                               {x \in ContentOf(mem, blocks) \ {<<n, i>>} : x[1] # m}
                                 \cup {<<m, i>>}
<1>1. PICK i \in Targets :
        /\ <<n, i>> \in ContentOf(mem, blocks) /\ <<m, i>> \notin ContentOf(mem, blocks)
        /\ m \in NamesIn(mem, blocks) \/ blocks < MaxBlocks \/ Rooms(mem, blocks, m) # {}
        /\ Change(Renamed(Dir(mem, blocks, <<>>), n, m, i))
  BY NowIs DEF Rename, Fits
<1>2. n # m /\ Good(mem, blocks)
  BY <1>1 DEF Inv
<1>3. CASE m \in NamesIn(mem, blocks)
  <2> DEFINE d == Removed(Replaced(Dir(mem, blocks, <<>>), m, i), n)
  <2>1. Renamed(Dir(mem, blocks, <<>>), n, m, i) = d
    BY <1>3, NowIs, Zenon DEF Renamed
  <2>2. /\ CallOk(mem, blocks, d)
        /\ ContentOf(d.mem, d.blocks) =
             {x \in ContentOf(mem, blocks) \ {<<n, i>>} : x[1] # m} \cup {<<m, i>>}
    BY <1>1, <1>2, <1>3, RenameOverOk
  <2> HIDE DEF d
  <2>3. Change(d)
    BY <1>1, <2>1
  <2> QED BY <1>1, <1>2, <2>2, <2>3
<1>4. CASE m \notin NamesIn(mem, blocks)
  <2> DEFINE d == Removed(Added(Dir(mem, blocks, <<>>), m, i), n)
  <2>1. Renamed(Dir(mem, blocks, <<>>), n, m, i) = d
    BY <1>4, NowIs, Zenon DEF Renamed
  <2>2. /\ CallOk(mem, blocks, d)
        /\ ContentOf(d.mem, d.blocks) =
             {x \in ContentOf(mem, blocks) \ {<<n, i>>} : x[1] # m} \cup {<<m, i>>}
    BY <1>1, <1>2, <1>4, RenameNewOk
  <2> HIDE DEF d
  <2>3. Change(d)
    BY <1>1, <2>1
  <2> QED BY <1>1, <1>2, <2>2, <2>3
<1> QED BY <1>3, <1>4

LEMMA CommitSafe ==
  ASSUME Inv, Commit
  PROVE  Inv'
<1>1. /\ at' = "idle" /\ stable' = ContentOf(mem, blocks)
      /\ mem' = mem /\ blocks' = blocks /\ log' = log /\ scan' = scan
  BY NowIs DEF Commit
<1>2. Settled' /\ Undoable'
  BY <1>1 DEF Settled, Undoable
<1>3. Good(mem, blocks)'
  BY <1>1 DEF Inv
<1>4. ScanTyped' /\ ScanListed'
  BY <1>1 DEF Inv, ScanTyped, ScanListed
<1> QED BY <1>1, <1>2, <1>3, <1>4 DEF Inv

LEMMA RebootSafe ==
  ASSUME Inv, Reboot
  PROVE  Inv' /\ ContentOf(mem', blocks') = stable /\ stable' = stable
<1>1. at' = "idle" /\ stable' = stable /\ scan' = NoScan
  BY DEF Reboot
<1>2. Good(mem', blocks') /\ ContentOf(mem', blocks') = stable
  <2>1. CASE at = "changed"
    <3>1. mem' = Undone(log.words, mem) /\ blocks' = log.blocks
      BY <2>1, Zenon DEF Reboot, Undone
    <3> QED BY <2>1, <3>1 DEF Inv, Undoable
  <2>2. CASE at # "changed"
    <3>1. mem' = mem /\ blocks' = blocks /\ at = "idle"
      BY <2>2 DEF Reboot, Inv
    <3> QED BY <3>1 DEF Inv, Settled
  <2> QED BY <2>1, <2>2
<1>3. Settled' /\ Undoable'
  BY <1>1, <1>2 DEF Settled, Undoable
<1>4. ScanTyped' /\ ScanListed'
  BY <1>1 DEF ScanTyped, ScanListed, NoScan
<1> QED BY <1>1, <1>2, <1>3, <1>4 DEF Inv

\* The directory is as before; only the scan moves.
LEMMA ScanSafe ==
  ASSUME Inv, UNCHANGED <<mem, blocks, log, at, stable>>, ScanTyped', ScanListed'
  PROVE  Inv'
<1>1. Good(mem, blocks)' /\ Settled' /\ Undoable' /\ at' \in {"idle", "changed"}
  BY DEF Inv, Settled, Undoable
<1> QED BY <1>1 DEF Inv

LEMMA ScanStartSafe ==
  ASSUME Inv, ScanStart
  PROVE  Inv'
<1>1. /\ UNCHANGED <<mem, blocks, log, at, stable>>
      /\ scan' = [NoScan EXCEPT !.at = "open", !.first = NamesIn(mem, blocks)]
  BY NowIs DEF ScanStart
<1>2. scan' = [at |-> "open", pos |-> <<1, 0>>, first |-> NamesIn(mem, blocks),
               seen |-> [n \in Labels |-> 0]]
  BY <1>1 DEF NoScan
<1>3. ScanTyped'
  BY <1>2 DEF ScanTyped, NamesIn
<1>4. ASSUME NEW b, NEW o, NEW n, NEW i, Live(mem, blocks, b, o, n, i)
      PROVE  ~Passed(<<1, 0>>, b, o)
  <2>1. b \in 1..blocks /\ blocks \in Nat /\ o \in Nat
    BY <1>4, GoodFields DEF Inv, Good, Tiles, Live, LiveIn
  <2> QED BY <2>1 DEF Passed
<1>5. ScanListed'
  <2>1. /\ scan'.first = NamesIn(mem, blocks) /\ scan'.at = "open" /\ scan'.pos = <<1, 0>>
        /\ scan'.seen = [n \in Labels |-> 0]
    BY <1>2
  <2>2. NamesIn(mem, blocks) \subseteq Labels
    BY DEF NamesIn
  <2> QED BY <1>1, <1>4, <2>1, <2>2 DEF ScanListed
<1> QED BY <1>1, <1>3, <1>5, ScanSafe

LEMMA ScanRecordSafe ==
  ASSUME Inv, ScanRecord
  PROVE  Inv'
<1>1. /\ ScanTyped /\ ScanListed /\ Tiles(mem, blocks) /\ Unique(mem, blocks)
  BY DEF Inv, Good
<1>2. PICK b, o : scan.pos[1] = b /\ scan.pos[2] = o /\ scan.pos = <<b, o>> /\ b \in Nat \ {0}
  BY <1>1 DEF ScanTyped
<1> DEFINE r    == mem[b]
           de   == r[o]
           pos  == IF o + de.len = Block THEN <<b + 1, 0>> ELSE <<b, o + de.len>>
           seen == IF de.ino \in Targets THEN [scan.seen EXCEPT ![de.name] = @ + 1] ELSE scan.seen
<1>3. /\ at = "idle" /\ scan.at = "open" /\ b <= blocks /\ o \in Records(r)
      /\ UNCHANGED <<mem, blocks, log, at, stable>>
      /\ scan' = [scan EXCEPT !.pos = pos, !.seen = seen]
  <2>1. /\ at = "idle" /\ scan.at = "open" /\ b <= blocks /\ o \in Records(r)
        /\ UNCHANGED <<mem, blocks, log, at, stable>>
    BY <1>2 DEF ScanRecord
  <2>2. scan' = [scan EXCEPT !.pos = pos, !.seen = seen]
    BY <1>2, Zenon DEF ScanRecord
  <2> QED BY <2>1, <2>2
<1>4. b \in 1..blocks /\ blocks \in Nat /\ GoodBlock(r)
  BY <1>1, <1>2, <1>3 DEF Tiles
<1>5. /\ o \in Nat /\ de.len \in Nat /\ de.len >= 1 /\ o + de.len <= Block /\ Block \in Nat
      /\ Fit(de)
  BY <1>3, <1>4, GoodFields
<1> HIDE DEF r, pos, seen
<1>6. /\ scan'.at = scan.at /\ scan'.first = scan.first /\ scan'.pos = pos /\ scan'.seen = seen
      /\ scan.first \subseteq Labels /\ scan.seen \in [Labels -> Nat]
  BY <1>1, <1>3 DEF ScanTyped
<1>7. ScanTyped'
  <2>1. pos \in (Nat \ {0}) \X Nat
    BY <1>2, <1>5 DEF pos
  <2>2. seen \in [Labels -> Nat]
    <3>1. de.ino \in Targets => de.name \in Labels
      BY <1>5 DEF Fit
    <3> HIDE DEF de
    <3> QED BY <3>1, <1>6 DEF seen
  <2> QED BY <1>1, <1>3, <2>1, <2>2 DEF ScanTyped
\* Only the record at the position is passed.
<1>8. ASSUME NEW c, NEW p, NEW n, NEW i, Live(mem, blocks, c, p, n, i)
      PROVE  Passed(pos, c, p) <=> Passed(<<b, o>>, c, p) \/ (c = b /\ p = o)
  <2>1. c \in 1..blocks /\ GoodBlock(mem[c]) /\ p \in Records(mem[c])
    BY <1>1, <1>8 DEF Live, LiveIn, Tiles
  <2>2. c \in Nat /\ p \in Nat /\ p < Block
    <3>1. p \in Nat /\ mem[c][p].len \in Nat /\ mem[c][p].len >= 1
          /\ p + mem[c][p].len <= Block /\ Block \in Nat
      BY <2>1, GoodFields
    <3> QED BY <2>1, <3>1, <1>4
  <2>3. CASE c = b
    <3>1. p < o \/ p = o \/ o + de.len <= p
      BY <1>3, <1>4, <2>1, <2>3, Apart DEF r
    <3> HIDE DEF de
    <3> QED BY <2>2, <2>3, <3>1, <1>2, <1>5 DEF Passed, pos
  <2>4. CASE c # b
    <3> HIDE DEF de
    <3> QED BY <2>2, <2>4, <1>2, <1>5 DEF Passed, pos
  <2> QED BY <2>3, <2>4
<1>9. /\ scan.first \subseteq NamesIn(mem, blocks)
      /\ \A n \in scan.first : scan.seen[n] <= 1
      /\ \A n \in scan.first : \A c, p, i :
           Live(mem, blocks, c, p, n, i) =>
             scan.seen[n] = IF Passed(<<b, o>>, c, p) THEN 1 ELSE 0
  BY <1>1, <1>2, <1>3 DEF ScanListed
\* What is listed is the record at the position, if it is an entry.
<1>10. ASSUME NEW n \in scan.first, NEW c, NEW p, NEW i, Live(mem, blocks, c, p, n, i)
       PROVE  /\ c = b /\ p = o => seen[n] = scan.seen[n] + 1
              /\ ~(c = b /\ p = o) => seen[n] = scan.seen[n]
  <2>1. n \in Labels /\ i \in Targets
    BY <1>1, <1>6, <1>10, LiveFields DEF Live, Tiles
  <2>2. CASE c = b /\ p = o
    <3>1. de.name = n /\ de.ino = i
      BY <1>10, <2>2 DEF Live, LiveIn, r
    <3> HIDE DEF de
    <3> QED BY <2>1, <2>2, <3>1, <1>6 DEF seen
  <2>3. CASE ~(c = b /\ p = o)
    <3>1. de.ino \in Targets => de.name # n
      <4> SUFFICES ASSUME de.ino \in Targets, de.name = n PROVE FALSE
        OBVIOUS
      <4>1. Live(mem, blocks, b, o, n, de.ino)
        BY <1>3, <1>4, DirectoryAssumption DEF Live, LiveIn, r
      <4> QED BY <1>1, <1>10, <2>3, <4>1 DEF Unique
    <3> HIDE DEF de
    <3> QED BY <2>1, <2>3, <3>1, <1>6 DEF seen
  <2> QED BY <2>2, <2>3
<1> HIDE DEF de
<1>11. ASSUME NEW n \in scan.first, NEW c, NEW p, NEW i, Live(mem, blocks, c, p, n, i)
       PROVE  seen[n] = IF Passed(pos, c, p) THEN 1 ELSE 0
  <2>1. scan.seen[n] = IF Passed(<<b, o>>, c, p) THEN 1 ELSE 0
    BY <1>9, <1>11
  <2>2. CASE c = b /\ p = o
    <3>1. ~Passed(<<b, o>>, c, p)
      BY <1>2, <1>5, <2>2 DEF Passed
    <3> QED BY <1>8, <1>10, <1>11, <2>1, <2>2, <3>1
  <2>3. CASE ~(c = b /\ p = o)
    BY <1>8, <1>10, <1>11, <2>1, <2>3
  <2> QED BY <2>2, <2>3
<1>12. \A n \in scan.first : seen[n] <= 1
  <2> SUFFICES ASSUME NEW n \in scan.first PROVE seen[n] <= 1
    OBVIOUS
  <2>1. PICK c, p, i : Live(mem, blocks, c, p, n, i)
    BY <1>1, <1>9, ContentIs
  <2>2. seen[n] = 1 \/ seen[n] = 0
    BY <1>11, <2>1
  <2> QED BY <2>2
<1>13. ScanListed'
  BY <1>3, <1>6, <1>9, <1>11, <1>12 DEF ScanListed
<1> QED BY <1>3, <1>7, <1>13, ScanSafe

LEMMA ScanStaleSafe ==
  ASSUME Inv, ScanStale
  PROVE  Inv'
<1>1. UNCHANGED <<mem, blocks, log, at, stable>> /\ scan' = [scan EXCEPT !.at = "lost"]
  BY DEF ScanStale
<1>2. ScanTyped' /\ ScanListed'
  BY <1>1 DEF Inv, ScanTyped, ScanListed
<1> QED BY <1>1, <1>2, ScanSafe

LEMMA ScanEndSafe ==
  ASSUME Inv, ScanEnd
  PROVE  Inv'
<1>1. /\ scan.at = "open" /\ scan.pos[1] > blocks
      /\ UNCHANGED <<mem, blocks, log, at, stable>> /\ scan' = [scan EXCEPT !.at = "done"]
  BY DEF ScanEnd
<1>2. /\ scan'.first = scan.first /\ scan'.seen = scan.seen /\ scan'.at = "done" /\ ScanTyped'
  BY <1>1 DEF Inv, ScanTyped
<1>3. Tiles(mem, blocks) /\ ScanListed /\ ScanTyped
  BY DEF Inv, Good
<1>4. ASSUME NEW n \in scan.first PROVE scan.seen[n] = 1
  <2>1. PICK b, o, i : Live(mem, blocks, b, o, n, i)
    BY <1>3, ContentIs DEF ScanListed
  <2>2. b \in 1..blocks /\ blocks \in Nat /\ scan.pos[1] \in Nat
    BY <1>3, <2>1 DEF Live, Tiles, ScanTyped
  <2>3. Passed(scan.pos, b, o)
    BY <1>1, <2>2 DEF Passed
  <2> QED BY <1>1, <1>3, <2>1, <2>3 DEF ScanListed
<1>5. ScanListed'
  BY <1>1, <1>2, <1>3, <1>4 DEF ScanListed
<1> QED BY <1>1, <1>2, <1>5, ScanSafe

LEMMA NextInvariant == Inv /\ [Next]_vars => Inv'
<1> SUFFICES ASSUME Inv, [Next]_vars PROVE Inv'
  OBVIOUS
<1>1. ASSUME NEW n \in Labels, NEW i \in Targets, Link(n, i) PROVE Inv'
  BY <1>1, LinkIs, ChangeSafe
<1>2. ASSUME NEW n \in Labels, Unlink(n) PROVE Inv'
  BY <1>2, UnlinkIs, ChangeSafe
<1>3. ASSUME NEW n \in Labels, NEW m \in Labels, Rename(n, m) PROVE Inv'
  BY <1>3, RenameIs, ChangeSafe
<1>4. CASE Commit
  BY <1>4, CommitSafe
<1>5. CASE Reboot
  BY <1>5, RebootSafe
<1>6. CASE ScanStart
  BY <1>6, ScanStartSafe
<1>7. CASE ScanRecord
  BY <1>7, ScanRecordSafe
<1>8. CASE ScanStale
  BY <1>8, ScanStaleSafe
<1>9. CASE ScanEnd
  BY <1>9, ScanEndSafe
<1>10. CASE UNCHANGED vars
  <2>1. UNCHANGED <<mem, blocks, log, at, scan, stable>>
    BY <1>10 DEF vars
  <2>2. ScanTyped' /\ ScanListed'
    BY <2>1 DEF Inv, ScanTyped, ScanListed
  <2> QED BY <2>1, <2>2, ScanSafe
<1> QED BY <1>1, <1>2, <1>3, <1>4, <1>5, <1>6, <1>7, <1>8, <1>9, <1>10 DEF Next

THEOREM Invariance == Spec => []Inv
<1> QED BY InitInvariant, NextInvariant, PTL DEF Spec

\* The records tile every block, are as long as their names need, and a name is there once,
\* whatever was added, removed and restored: pmfs_check_dir_entry never finds an error.
THEOREM AlwaysTiled == Spec => []Tiled
<1>1. Inv => Tiled
  <2> SUFFICES ASSUME Inv PROVE Tiled
    OBVIOUS
  <2>1. Tiles(mem, blocks) /\ Unique(mem, blocks)
    BY DEF Inv, Good
  <2>2. mem \in [1..MaxBlocks -> [Offsets -> Record \cup {Junk}]] /\ blocks \in 1..MaxBlocks
    BY <2>1 DEF Tiles, Blocks
  <2>3. \A b \in 1..blocks :
          /\ Block \in Walk(mem[b])
          /\ \A o \in Records(mem[b]) : mem[b][o].len >= Size[mem[b][o].name]
    BY <2>1 DEF Tiles, GoodBlock, Fit
  <2>4. ASSUME NEW n \in Labels PROVE Cardinality(Find(mem, blocks, n)) <= 1
    <3> DEFINE F == Find(mem, blocks, n)
    <3>1. ASSUME NEW s \in F, NEW t \in F PROVE s = t
      <4>1. /\ s = <<s[1], s[2]>> /\ Live(mem, blocks, s[1], s[2], n, mem[s[1]][s[2]].ino)
            /\ t = <<t[1], t[2]>> /\ Live(mem, blocks, t[1], t[2], n, mem[t[1]][t[2]].ino)
        BY <2>1, FindIs
      <4>2. s[1] = t[1] /\ s[2] = t[2]
        BY <2>1, <4>1 DEF Unique
      <4> QED BY <4>1, <4>2
    <3> HIDE DEF F
    <3>2. CASE F = {}
      BY <3>2, FS_EmptySet DEF F
    <3>3. CASE F # {}
      <4>1. PICK s \in F : TRUE
        BY <3>3
      <4>2. F = {s}
        BY <3>1, <4>1
      <4>3. Cardinality({s}) = 1
        BY FS_Singleton, Zenon
      <4>4. Cardinality(F) = 1
        BY <4>2, <4>3
      <4> QED BY <4>4 DEF F
    <3> QED BY <3>2, <3>3
  <2> QED BY <2>2, <2>3, <2>4 DEF Tiled
<1> QED BY <1>1, Invariance, PTL

\* A readdir that calls interrupt lists an entry that stays once.
THEOREM AlwaysListedOnce == Spec => []ListedOnce
<1>1. Inv => ListedOnce
  BY DEF Inv, ScanListed, ListedOnce
<1> QED BY <1>1, Invariance, PTL

-----------------------------------------------------------------------------
(* The refinement of the map.                                                               *)

LEMMA MapNames ==
  ASSUME NEW n, \A e \in Content : e[1] # n
  PROVE  n \notin AsMap!Names
  BY DEF AsMap!Names

LEMMA ChangeMaps ==
  ASSUME Inv, NEW d, Change(d)
  PROVE  /\ Content = stable /\ stable' = stable
         /\ Content = ContentOf(mem, blocks) /\ Content' = ContentOf(d.mem, d.blocks)
<1>1. at = "idle" /\ mem' = d.mem /\ blocks' = d.blocks /\ stable' = stable
  BY DEF Change
<1>2. Content = ContentOf(mem, blocks) /\ Content' = ContentOf(mem', blocks')
  BY DEF Content, ContentOf
<1> QED BY <1>1, <1>2 DEF Inv, Settled

LEMMA NextMaps == Inv /\ [Next]_vars => [AsMap!Next]_AsMap!vars
<1> SUFFICES ASSUME Inv, [Next]_vars PROVE AsMap!Next \/ UNCHANGED <<Content, stable>>
  BY DEF AsMap!vars
<1>1. ASSUME NEW n \in Labels, NEW i \in Targets, Link(n, i) PROVE AsMap!Call
  <2>1. PICK d : /\ Change(d) /\ n \notin NamesIn(mem, blocks)
                 /\ ContentOf(d.mem, d.blocks) = ContentOf(mem, blocks) \cup {<<n, i>>}
    BY <1>1, LinkIs
  <2>2. /\ Content = stable /\ stable' = stable /\ Content' = Content \cup {<<n, i>>}
        /\ Content = ContentOf(mem, blocks)
    BY <2>1, ChangeMaps
  <2>3. n \notin AsMap!Names
    <3> SUFFICES ASSUME NEW e \in Content, e[1] = n PROVE FALSE
      BY MapNames
    <3>1. Tiles(mem, blocks)
      BY DEF Inv, Good
    <3>2. e = <<e[1], e[2]>> /\ e[1] \in Labels
      BY <2>2, <3>1, ContentIs
    <3>3. \E b, o : Live(mem, blocks, b, o, n, e[2])
      BY <2>2, <3>1, <3>2, ContentIs
    <3> QED BY <2>1, <3>1, <3>3, ContentIs
  <2>4. AsMap!Add(n, i)
    BY <2>2, <2>3 DEF AsMap!Add
  <2> QED BY <2>2, <2>4 DEF AsMap!Call
<1>2. ASSUME NEW n \in Labels, Unlink(n) PROVE AsMap!Call
  <2>1. PICK d : /\ Change(d)
                 /\ \E e \in ContentOf(mem, blocks) :
                      ContentOf(d.mem, d.blocks) = ContentOf(mem, blocks) \ {e}
    BY <1>2, UnlinkIs
  <2>2. PICK e \in Content : Content' = Content \ {e} /\ Content = stable /\ stable' = stable
    BY <2>1, ChangeMaps
  <2>3. AsMap!Remove(e)
    BY <2>2 DEF AsMap!Remove
  <2> QED BY <2>2, <2>3 DEF AsMap!Call
<1>3. ASSUME NEW n \in Labels, NEW m \in Labels, Rename(n, m) PROVE AsMap!Call
  <2>1. PICK d : /\ Change(d) /\ n # m
                 /\ \E i : /\ <<n, i>> \in ContentOf(mem, blocks)
                           /\ ContentOf(d.mem, d.blocks) =
                                {x \in ContentOf(mem, blocks) \ {<<n, i>>} : x[1] # m}
                                  \cup {<<m, i>>}
    BY <1>3, RenameIs
  <2>2. PICK i : /\ <<n, i>> \in Content /\ Content = stable /\ stable' = stable
                 /\ Content' = {x \in Content \ {<<n, i>>} : x[1] # m} \cup {<<m, i>>}
    BY <2>1, ChangeMaps
  <2>3. AsMap!Move(<<n, i>>, m)
    BY <2>1, <2>2 DEF AsMap!Move
  <2> QED BY <2>2, <2>3 DEF AsMap!Call
<1>4. CASE Commit
  <2>1. stable' = Content /\ Content' = Content
    BY <1>4 DEF Commit, Content
  <2> QED BY <2>1 DEF AsMap!Next, AsMap!Commit
<1>5. CASE Reboot
  <2>1. Content' = stable /\ stable' = stable
    <3>1. Content' = ContentOf(mem', blocks')
      BY DEF Content, ContentOf
    <3> QED BY <1>5, <3>1, RebootSafe
  <2> QED BY <2>1 DEF AsMap!Next, AsMap!PowerFails
<1>6. CASE ScanStart \/ ScanRecord \/ ScanStale \/ ScanEnd \/ UNCHANGED vars
  <2>1. UNCHANGED <<mem, blocks, stable>>
    BY <1>6 DEF ScanStart, ScanRecord, ScanStale, ScanEnd, vars
  <2> QED BY <2>1 DEF Content
<1> QED BY <1>1, <1>2, <1>3, <1>4, <1>5, <1>6 DEF Next, AsMap!Next

\* The records implement the map of module DirMap: a call changes the entries it is about, all
\* at once, and the undo of a call that has not committed takes back that call and no other.
THEOREM DirectoryIsMap == Spec => ImplementsDir
<1>1. Init => AsMap!Init
  <2> SUFFICES ASSUME Init PROVE AsMap!Init
    OBVIOUS
  <2>1. Inv /\ at = "idle" /\ stable = {}
    BY InitInvariant DEF Init
  <2>2. Content = {}
    BY <2>1, NowIs DEF Inv, Settled
  <2> QED BY <2>1, <2>2 DEF AsMap!Init
<1> QED BY <1>1, NextMaps, Invariance, PTL DEF Spec, ImplementsDir, AsMap!Spec
=============================================================================
