------------------------- MODULE TruncateListProofs -------------------------
(***************************************************************************)
(* Proofs about TruncateList, for any number of inodes and any bounds: the *)
(* list on the media is the list of VFS inodes, until one of the cases of  *)
(* Mark happens.                                                           *)
(***************************************************************************)
EXTENDS TruncateList, TLAPS, WellFoundedInduction

-----------------------------------------------------------------------------
(* What editing a list does to each of its indices.                        *)

\* The length of a concatenation.
LEMMA ConcatLen ==
  ASSUME NEW S, NEW a \in Seq(S), NEW b \in Seq(S)
  PROVE  a \o b \in Seq(S) /\ Len(a \o b) = Len(a) + Len(b)
  OBVIOUS

\* What RemoveAt does to each index.
LEMMA RemoveAtIndex ==
  ASSUME NEW S, NEW s \in Seq(S), NEW i \in 1 .. Len(s)
  PROVE  LET t == RemoveAt(s, i) IN
         /\ t \in Seq(S) /\ Len(t) = Len(s) - 1
         /\ \A k \in 1 .. i - 1 : t[k] = s[k]
         /\ \A k \in i .. Len(s) - 1 : t[k] = s[k + 1]
  <1> DEFINE a == SubSeq(s, 1, i - 1)
             b == SubSeq(s, i + 1, Len(s))
  <1>1. a \in Seq(S) /\ Len(a) = i - 1 /\ \A k \in 1 .. i - 1 : a[k] = s[k]
    OBVIOUS
  <1>2. b \in Seq(S) /\ Len(b) = Len(s) - i /\ \A k \in 1 .. Len(s) - i : b[k] = s[i + k]
    OBVIOUS
  <1> HIDE DEF a, b
  <1>3. a \o b \in Seq(S) /\ Len(a \o b) = Len(s) - 1
    <2>1. a \o b \in Seq(S) /\ Len(a \o b) = Len(a) + Len(b)
      BY <1>1, <1>2, ConcatLen, Zenon
    <2>2. Len(s) \in Nat
      OBVIOUS
    <2> QED BY <1>1, <1>2, <2>1, <2>2
  <1>4. \A k \in 1 .. i - 1 : (a \o b)[k] = s[k]
    BY <1>1, <1>2
  <1>5. \A k \in i .. Len(s) - 1 : (a \o b)[k] = s[k + 1]
    <2> TAKE k \in i .. Len(s) - 1
    <2>1. (a \o b)[k] = b[k - (i - 1)]
      BY <1>1, <1>2
    <2>2. b[k - (i - 1)] = s[i + (k - (i - 1))]
      BY <1>2
    <2> QED BY <2>1, <2>2
  <1>6. RemoveAt(s, i) = a \o b
    BY DEF RemoveAt, a, b
  <1> QED BY <1>3, <1>4, <1>5, <1>6

-----------------------------------------------------------------------------
(* The inductive invariant.                                                *)

Adding == {"truncate_add", "unlink_add"}
Gone   == {"none", "freed"}

\* There are VFS inodes, and the list has members, only while the volume is
\* mounted; when recovery is done the list on the media is empty.
MountedOnly ==
  /\ mode # "up" => list = <<>> /\ lock = <<>> /\ vfs = [o \in Objs |-> None]
  /\ mode = "recovered" => heads = <<NoIno>>

\* The lock is held exactly from the item to the head.
LockHeld == \A o \in Objs : vfs[o].pc \in Adding <=> lock = o

\* One of the two VFS inodes of a number is in use.
OneInUse == \A o \in Objs : vfs[o].pc \notin Gone => vfs[Twin(o)].pc \in Gone

\* The list on the media is the list of VFS inodes.
Agree ==
  /\ Head0 = IF list = <<>> THEN NoIno ELSE Ino(list[1])
  /\ \A k \in 1 .. Len(list) :
       next[Ino(list[k])] = IF k = Len(list) THEN NoIno ELSE Ino(list[k + 1])

\* No item is on it twice.
Distinct == \A k, l \in 1 .. Len(list) : Ino(list[k]) = Ino(list[l]) => k = l

\* The item that is being added points to the head and is not on the list.
NewItem ==
  \A o \in Objs : lock = o =>
    next[Ino(o)] = Head0 /\ \A k \in 1 .. Len(list) : Ino(list[k]) # Ino(o)

\* A VFS inode on the list is in a truncation or an unlink, or has no name,
\* and the other one of its number is not in use.
Members ==
  \A k \in 1 .. Len(list) :
    /\ \/ vfs[list[k]].pc \in Busy \ Adding
       \/ vfs[list[k]].pc \in {"idle", "freed"} /\ nlink[Ino(list[k])] = 0
    /\ vfs[Twin(list[k])].pc \in Gone

ListInv == Agree /\ Distinct /\ NewItem /\ Members

IInv ==
  /\ TypeOK /\ MountedOnly /\ LockHeld /\ OneInUse
  /\ mode = "up" /\ ~tainted => ListInv

-----------------------------------------------------------------------------
(* VFS inodes.                                                             *)

\* The two VFS inodes of a number.
LEMMA Twins ==
  /\ <<>> \notin Objs
  /\ \A o \in Objs : /\ Ino(o) \in Inos /\ Ino(o) # NoIno
                     /\ Twin(o) \in Objs /\ Twin(o) # o /\ Twin(Twin(o)) = o
                     /\ Ino(Twin(o)) = Ino(o)
                     /\ \A p \in Objs : Ino(p) = Ino(o) => p = o \/ p = Twin(o)
  <1>1. <<>> \notin Objs
    BY DEF Objs
  <1>2. ASSUME NEW o \in Objs
        PROVE  /\ Ino(o) \in Inos /\ Ino(o) # NoIno
               /\ Twin(o) \in Objs /\ Twin(o) # o /\ Twin(Twin(o)) = o
               /\ Ino(Twin(o)) = Ino(o)
    BY InosAssumption DEF Objs, Ino, Twin
  <1>3. ASSUME NEW o \in Objs, NEW p \in Objs, Ino(p) = Ino(o)
        PROVE  p = o \/ p = Twin(o)
    BY <1>3 DEF Objs, Ino, Twin
  <1> QED BY <1>1, <1>2, <1>3

Phases == Busy \cup {"none", "idle", "freed"}

\* What Go changes.
LEMMA Gone1 ==
  ASSUME vfs \in [Objs -> [pc : Phases, want : Sizes]],
         NEW o \in Objs, NEW pc \in Phases, Go(o, pc)
  PROVE  /\ vfs' \in [Objs -> [pc : Phases, want : Sizes]]
         /\ vfs'[o].pc = pc /\ vfs'[o].want = vfs[o].want
         /\ \A p \in Objs : p # o => vfs'[p] = vfs[p]
  BY DEF Go

\* What setting both fields changes.
LEMMA Set1 ==
  ASSUME vfs \in [Objs -> [pc : Phases, want : Sizes]],
         NEW o \in Objs, NEW pc \in Phases, NEW s \in Sizes,
         vfs' = [vfs EXCEPT ![o] = [pc |-> pc, want |-> s]]
  PROVE  /\ vfs' \in [Objs -> [pc : Phases, want : Sizes]]
         /\ vfs'[o].pc = pc
         /\ \A p \in Objs : p # o => vfs'[p] = vfs[p]
  OBVIOUS

\* The parts of the type that the proofs below use.
LEMMA Shapes ==
  ASSUME TypeOK
  PROVE  /\ vfs \in [Objs -> [pc : Phases, want : Sizes]]
         /\ list \in Seq(Objs) /\ heads \in Seq(Inos \cup {NoIno}) /\ heads # <<>>
         /\ next \in [Inos -> Inos \cup {NoIno}] /\ nlink \in [Inos -> {0, 1}]
         /\ Head0 \in Inos \cup {NoIno}
  BY DEF TypeOK, Phases, Head0

\* Where an inode on the list is.
LEMMA Placed ==
  ASSUME list \in Seq(Objs), NEW o, Listed(o)
  PROVE  Place(o) \in 1 .. Len(list) /\ list[Place(o)] = o
  BY DEF Listed, Elems, Place

-----------------------------------------------------------------------------
(* Types.                                                                  *)

LEMMA ListDelTypes ==
  ASSUME TypeOK, NEW o \in Objs, Listed(o), ListDel(o)
  PROVE  /\ list' \in Seq(Objs)
         /\ heads' \in Seq(Inos \cup {NoIno}) /\ heads' # <<>>
         /\ next' \in [Inos -> Inos \cup {NoIno}]
  <1> DEFINE k == Place(o)
  <1>1. k \in 1 .. Len(list) /\ list[k] = o
    BY Placed, Shapes
  <1>2. list' \in Seq(Objs)
    BY <1>1, RemoveAtIndex, Shapes DEF ListDel
  <1>3. next[Ino(o)] \in Inos \cup {NoIno}
    BY Shapes, Twins
  <1>4. CASE k = 1
    <2>1. heads' = <<next[Ino(o)]>> /\ next' = next
      BY <1>4 DEF ListDel
    <2>2. heads' \in Seq(Inos \cup {NoIno}) /\ heads' # <<>>
      BY <1>3, <2>1
    <2> QED BY <1>2, <2>1, <2>2, Shapes
  <1>5. CASE k # 1
    <2>1. list[k - 1] \in Objs
      BY <1>1, <1>5, Shapes
    <2> QED BY <1>2, <1>3, <1>5, <2>1, Shapes, Twins DEF ListDel
  <1> QED BY <1>4, <1>5

\* The commit of an unlink drops older heads, never the current one.
LEMMA CommitHeads ==
  ASSUME heads \in Seq(Inos \cup {NoIno}), heads # <<>>, NEW o \in Objs, UnlinkCommit(o)
  PROVE  /\ heads' \in Seq(Inos \cup {NoIno}) /\ heads' # <<>>
         /\ heads'[Len(heads')] = heads[Len(heads)]
  <1> DEFINE K == {k \in 1 .. Len(heads) : heads[k] = Ino(o)}
             m == CHOOSE k \in K : \A l \in K : l <= k
  <1>1. CASE K = {}
    BY <1>1 DEF UnlinkCommit
  <1>2. CASE K # {}
    <2>1. \E k \in K : \A l \in K : l <= k
      <3> DEFINE T == {Len(heads) - k : k \in K}
      <3>1. T # {} /\ T \subseteq Nat
        BY <1>2
      <3>2. PICK x \in T : \A y \in T : ~(y < x)
        <4> HIDE DEF T
        <4>1. PICK x \in T : \A y \in T : ~(<<y, x>> \in OpToRel(<, Nat))
          BY <3>1, NatLessThanWellFounded, WFMin, Zenon
        <4> QED BY <3>1, <4>1 DEF OpToRel
      <3>3. PICK k \in K : x = Len(heads) - k
        BY <3>2
      <3>4. ASSUME NEW l \in K PROVE l <= k
        <4>1. Len(heads) - l \in T
          OBVIOUS
        <4>2. ~(Len(heads) - l < Len(heads) - k)
          BY <3>2, <3>3, <4>1
        <4>3. l \in Int /\ k \in Int /\ Len(heads) \in Int
          OBVIOUS
        <4> HIDE DEF K
        <4> QED BY <4>2, <4>3
      <3> QED BY <3>3, <3>4
    <2>2. m \in 1 .. Len(heads)
      BY <2>1
    <2>3. heads' = SubSeq(heads, m, Len(heads))
      BY <1>2 DEF UnlinkCommit
    <2> HIDE DEF m
    <2>4. /\ SubSeq(heads, m, Len(heads)) \in Seq(Inos \cup {NoIno})
          /\ Len(SubSeq(heads, m, Len(heads))) = Len(heads) - m + 1
          /\ \A j \in 1 .. Len(heads) - m + 1 : SubSeq(heads, m, Len(heads))[j] = heads[m + j - 1]
      BY <2>2
    <2>5. Len(heads) \in Nat /\ Len(heads) - m + 1 \in 1 .. Len(heads) - m + 1
      BY <2>2
    <2>6. SubSeq(heads, m, Len(heads))[Len(heads) - m + 1] = heads[Len(heads)]
      BY <2>2, <2>4, <2>5
    <2>7. SubSeq(heads, m, Len(heads)) # <<>>
      BY <2>4, <2>5
    <2> QED BY <2>3, <2>4, <2>6, <2>7
  <1> QED BY <1>1, <1>2

\* Every step keeps the type.
LEMMA TypeStep ==
  ASSUME TypeOK, [Next]_vars
  PROVE  TypeOK'
  <1> USE DEF itemVars, fileVars, linkVars, countVars
  <1> SUFFICES ASSUME Step, tainted' \in BOOLEAN
               PROVE  TypeOK'
    <2>1. CASE UNCHANGED vars
      BY <2>1 DEF vars, TypeOK
    <2>2. ASSUME Mark PROVE tainted' \in BOOLEAN
      BY <2>2 DEF Mark, TypeOK
    <2> QED BY <2>1, <2>2 DEF Next
  <1>1. /\ NoIno \in Inos \cup {NoIno} /\ 0 \in Sizes /\ Targets \subseteq Sizes
        /\ <<NoIno>> \in Seq(Inos \cup {NoIno}) /\ <<NoIno>> # <<>>
    BY SizesAssumption DEF Sizes
  <1>2. \A o \in Objs : Ino(o) \in Inos
    BY Twins
  <1>3. ASSUME NEW o \in Objs, NEW pc \in Phases, Go(o, pc)
        PROVE  vfs' \in [Objs -> [pc : Phases, want : Sizes]]
    BY <1>3, Shapes, Gone1, Zenon
  <1>4. ASSUME NEW o \in Objs, Iget(o) \/ Forget(o)
        PROVE  TypeOK'
    <2>1. vfs' \in [Objs -> [pc : Phases, want : Sizes]]
      BY <1>3, <1>4 DEF Iget, Forget, Phases
    <2> QED BY <1>4, <2>1 DEF Iget, Forget, TypeOK, Phases
  <1>5. ASSUME NEW o \in Objs, Create(o)
        PROVE  TypeOK'
    <2>1. vfs' \in [Objs -> [pc : Phases, want : Sizes]]
      BY <1>3, <1>5 DEF Create, Phases
    <2> QED BY <1>2, <1>5, <2>1, BoundsAssumption DEF Create, TypeOK, Phases
  <1>6. ASSUME NEW o \in Objs, NEW s \in Sizes, Extend(o, s)
        PROVE  TypeOK'
    BY <1>2, <1>6 DEF Extend, TypeOK
  <1>7. ASSUME NEW o \in Objs, NEW s \in Sizes, NEW pc \in Phases, AddItem(o, s, pc)
        PROVE  /\ vfs' \in [Objs -> [pc : Phases, want : Sizes]]
               /\ lock' \in Objs \cup {<<>>}
               /\ next' \in [Inos -> Inos \cup {NoIno}] /\ tsize' \in [Inos -> Sizes]
    BY <1>2, <1>7, Shapes DEF AddItem, TypeOK
  <1>8. ASSUME NEW o \in Objs, NEW s \in Targets, Truncate(o, s)
        PROVE  TypeOK'
    <2>1. CASE Listed(o)
      <3>1. vfs' \in [Objs -> [pc : Phases, want : Sizes]]
        BY <1>1, <1>8, <2>1, Shapes, Set1 DEF Truncate, Phases, Busy
      <3> QED BY <1>8, <2>1, <3>1 DEF Truncate, TypeOK, Phases
    <2>2. CASE ~Listed(o)
      <3>1. AddItem(o, s, "truncate_add")
        BY <1>8, <2>2 DEF Truncate
      <3>2. /\ vfs' \in [Objs -> [pc : Phases, want : Sizes]]
            /\ lock' \in Objs \cup {<<>>}
            /\ next' \in [Inos -> Inos \cup {NoIno}] /\ tsize' \in [Inos -> Sizes]
        BY <1>1, <1>7, <3>1 DEF Phases, Busy
      <3> QED BY <1>8, <3>2 DEF Truncate, TypeOK, Phases
    <2> QED BY <2>1, <2>2
  <1>9. ASSUME NEW o \in Objs, Cut(o)
        PROVE  TypeOK'
    <2>1. vfs' \in [Objs -> [pc : Phases, want : Sizes]]
      BY <1>3, <1>9 DEF Cut, Phases, Busy
    <2>2. vfs[o].want \in Sizes /\ tree[Ino(o)] \in Sizes
      BY <1>2, Shapes DEF TypeOK
    <2>3. CutBlocks(tree[Ino(o)], isize[Ino(o)], vfs[o].want) \in Sizes
      BY <2>2 DEF CutBlocks
    <2>4. tree' \in [Inos -> Sizes] /\ ptree' \in [Inos -> SUBSET Sizes]
      BY <1>2, <1>9, <2>3 DEF Cut, TypeOK
    <2> QED BY <1>9, <2>1, <2>4 DEF Cut, TypeOK, Phases
  <1>10. ASSUME NEW o \in Objs, SetSize(o)
         PROVE  TypeOK'
    <2>1. vfs' \in [Objs -> [pc : Phases, want : Sizes]]
      BY <1>3, <1>10 DEF SetSize, Phases, Busy
    <2>2. vfs[o].want \in Sizes /\ tree[Ino(o)] \in Sizes
      BY <1>2, Shapes DEF TypeOK
    <2>3. /\ isize' \in [Inos -> Sizes] /\ pisize' \in [Inos -> SUBSET Sizes]
          /\ ptree' \in [Inos -> SUBSET Sizes]
      BY <1>2, <1>10, <2>2 DEF SetSize, TypeOK
    <2> QED BY <1>10, <2>1, <2>3 DEF SetSize, TypeOK, Phases
  <1>11. ASSUME NEW o \in Objs, Unlink(o)
         PROVE  TypeOK'
    <2>1. isize[Ino(o)] \in Sizes
      BY <1>2 DEF TypeOK
    <2>2. AddItem(o, isize[Ino(o)], "unlink_add")
      BY <1>11 DEF Unlink
    <2>3. /\ vfs' \in [Objs -> [pc : Phases, want : Sizes]]
          /\ lock' \in Objs \cup {<<>>}
          /\ next' \in [Inos -> Inos \cup {NoIno}] /\ tsize' \in [Inos -> Sizes]
      BY <1>7, <2>1, <2>2 DEF Phases, Busy
    <2> QED BY <1>11, <2>3 DEF Unlink, TypeOK, Phases
  <1>12. ASSUME NEW o \in Objs, UnlinkCommit(o)
         PROVE  TypeOK'
    <2>1. vfs' \in [Objs -> [pc : Phases, want : Sizes]]
      BY <1>3, <1>12 DEF UnlinkCommit, Phases
    <2>2. heads' \in Seq(Inos \cup {NoIno}) /\ heads' # <<>>
      BY <1>12, CommitHeads, Shapes DEF UnlinkCommit
    <2> QED BY <1>2, <1>12, <2>1, <2>2 DEF UnlinkCommit, TypeOK, Phases
  <1>13. ASSUME NEW o \in Objs, FreeInode(Ino(o))
         PROVE  /\ dead' \in [Inos -> BOOLEAN]
                /\ isize' \in [Inos -> Sizes] /\ pisize' \in [Inos -> SUBSET Sizes]
                /\ tree' \in [Inos -> Sizes] /\ ptree' \in [Inos -> SUBSET Sizes]
    BY <1>1, <1>2, <1>13 DEF FreeInode, TypeOK
  <1>14. ASSUME NEW o \in Objs, Evict(o) \/ EvictFails(o)
         PROVE  TypeOK'
    <2>1. vfs' \in [Objs -> [pc : Phases, want : Sizes]]
      BY <1>3, <1>14 DEF Evict, EvictFails, Phases
    <2>2. CASE Evict(o)
      BY <1>13, <2>1, <2>2 DEF Evict, TypeOK, Phases
    <2>3. CASE EvictFails(o)
      BY <2>1, <2>3, BoundsAssumption DEF EvictFails, TypeOK, Phases
    <2> QED BY <1>14, <2>2, <2>3
  <1>15. ASSUME NEW o \in Objs, AddHead(o)
         PROVE  TypeOK'
    <2>1. vfs' \in [Objs -> [pc : Phases, want : Sizes]]
      BY <1>3, <1>15 DEF AddHead, Phases, Busy
    <2>2. list' \in Seq(Objs)
      BY <1>15, Shapes DEF AddHead
    <2>3. heads' \in Seq(Inos \cup {NoIno}) /\ heads' # <<>>
      <3>1. Ino(o) \in Inos \cup {NoIno}
        BY <1>2
      <3>2. <<Ino(o)>> \in Seq(Inos \cup {NoIno}) /\ <<Ino(o)>> # <<>>
        BY <3>1
      <3>3. Append(heads, Ino(o)) \in Seq(Inos \cup {NoIno}) /\ Append(heads, Ino(o)) # <<>>
        BY <3>1, Shapes
      <3> QED BY <1>15, <3>2, <3>3 DEF AddHead
    <2> QED BY <1>15, <2>1, <2>2, <2>3 DEF AddHead, TypeOK, Phases
  <1>16. ASSUME NEW o \in Objs, TruncateDel(o)
         PROVE  TypeOK'
    <2>1. vfs' \in [Objs -> [pc : Phases, want : Sizes]]
      BY <1>3, <1>16 DEF TruncateDel, Phases
    <2>2. /\ list' \in Seq(Objs)
          /\ heads' \in Seq(Inos \cup {NoIno}) /\ heads' # <<>>
          /\ next' \in [Inos -> Inos \cup {NoIno}]
      <3>1. CASE Listed(o)
        BY <1>16, <3>1, ListDelTypes DEF TruncateDel
      <3>2. CASE ~Listed(o)
        BY <1>16, <3>2, Shapes DEF TruncateDel
      <3> QED BY <3>1, <3>2
    <2>3. pisize' \in [Inos -> SUBSET Sizes] /\ ptree' \in [Inos -> SUBSET Sizes]
      <3>1. Ino(o) \in Inos /\ isize[Ino(o)] \in Sizes /\ tree[Ino(o)] \in Sizes
        BY <1>2 DEF TypeOK
      <3>2. {isize[Ino(o)]} \in SUBSET Sizes /\ {tree[Ino(o)]} \in SUBSET Sizes
        BY <3>1
      <3>3. CASE Listed(o)
        BY <1>16, <3>1, <3>2, <3>3 DEF TruncateDel, TypeOK
      <3>4. CASE ~Listed(o)
        BY <1>16, <3>4 DEF TruncateDel, TypeOK
      <3> QED BY <3>3, <3>4
    <2> QED BY <1>16, <2>1, <2>2, <2>3 DEF TruncateDel, TypeOK, Phases
  <1>17. ASSUME Crash
         PROVE  TypeOK'
    <2>1. vfs' \in [Objs -> [pc : Phases, want : Sizes]]
      BY <1>1, <1>17 DEF Crash, None, Phases
    <2>2. /\ heads' \in Seq(Inos \cup {NoIno}) /\ heads' # <<>>
          /\ rec' \in Inos \cup {NoIno}
      <3>1. PICK h \in Elems(heads) : heads' = <<h>> /\ rec' = h
        BY <1>17 DEF Crash
      <3>2. h \in Inos \cup {NoIno}
        BY Shapes DEF Elems
      <3> QED BY <3>1, <3>2
    <2>3. isize' \in [Inos -> Sizes] /\ tree' \in [Inos -> Sizes]
      BY <1>17 DEF Crash
    <2>4. pisize' \in [Inos -> SUBSET Sizes] /\ ptree' \in [Inos -> SUBSET Sizes]
      BY <1>17, <2>3 DEF Crash
    <2>5. list' \in Seq(Objs)
      BY <1>17 DEF Crash
    <2> QED BY <1>17, <2>1, <2>2, <2>3, <2>4, <2>5, BoundsAssumption DEF Crash, TypeOK, Phases
  <1>18. ASSUME Recover
         PROVE  TypeOK'
    <2>1. CASE RecoverTruncate
      <3>1. rec \in Inos
        BY <2>1 DEF RecoverTruncate, TypeOK
      <3>2. CutBlocks(tree[rec], isize[rec], tsize[rec]) \in Sizes /\ tsize[rec] \in Sizes
            /\ next[rec] \in Inos \cup {NoIno}
        BY <3>1 DEF CutBlocks, TypeOK
      <3>3. /\ tree' \in [Inos -> Sizes] /\ ptree' \in [Inos -> SUBSET Sizes]
            /\ isize' \in [Inos -> Sizes] /\ pisize' \in [Inos -> SUBSET Sizes]
        BY <2>1, <3>1, <3>2 DEF RecoverTruncate, TypeOK
      <3> QED BY <2>1, <3>2, <3>3 DEF RecoverTruncate, TypeOK
    <2>2. CASE RecoverOrphan
      <3>1. rec \in Inos
        BY <2>2 DEF RecoverOrphan, TypeOK
      <3>2. next[rec] \in Inos \cup {NoIno}
        BY <3>1 DEF TypeOK
      <3>3. /\ dead' \in [Inos -> BOOLEAN]
            /\ isize' \in [Inos -> Sizes] /\ pisize' \in [Inos -> SUBSET Sizes]
            /\ tree' \in [Inos -> Sizes] /\ ptree' \in [Inos -> SUBSET Sizes]
        BY <1>1, <2>2, <3>1 DEF RecoverOrphan, FreeInode, TypeOK
      <3> QED BY <2>2, <3>2, <3>3 DEF RecoverOrphan, TypeOK
    <2>3. CASE RecoverStale
      BY <2>3 DEF RecoverStale, TypeOK
    <2>4. CASE RecoverEnd
      <3>1. pisize' \in [Inos -> SUBSET Sizes]
        BY <2>4 DEF RecoverEnd, TypeOK
      <3> QED BY <1>1, <2>4, <3>1 DEF RecoverEnd, TypeOK
    <2>5. CASE Mounted
      BY <2>5 DEF Mounted, TypeOK
    <2>6. CASE GivenUp
      <3>1. rec \in Inos /\ next[rec] \in Inos \cup {NoIno}
        BY <2>6 DEF GivenUp, RecoverOrphanFails, RecoverNoMem, TypeOK
      <3>2. fulls' \in 0 .. MaxFull
        BY <2>6, BoundsAssumption DEF GivenUp, RecoverOrphanFails, RecoverNoMem, TypeOK
      <3> QED
        BY <1>1, <2>6, <3>1, <3>2 DEF GivenUp, RecoverOrphanFails, RecoverNoMem, TypeOK
    <2> QED BY <1>18, <2>1, <2>2, <2>3, <2>4, <2>5, <2>6 DEF Recover, GivenUp
  <1> QED
    BY <1>4, <1>5, <1>6, <1>8, <1>9, <1>10, <1>11, <1>12, <1>14, <1>15, <1>16, <1>17, <1>18
    DEF Step

-----------------------------------------------------------------------------
(* Every step keeps the inductive invariant.                               *)

\* Actions that change the phase of one VFS inode and leave the list alone.
LEMMA PhaseChange ==
  ASSUME IInv, TypeOK', mode = "up", mode' = "up", ~tainted' => ~tainted,
         next' = next, Head0' = Head0, list' = list, lock' = lock,
         NEW o \in Objs, vfs[o].pc \notin Adding, vfs'[o].pc \notin Adding,
         \A p \in Objs : p # o => vfs'[p] = vfs[p],
         vfs'[o].pc \in Gone \/ vfs[Twin(o)].pc \in Gone,
         ListInv /\ ~tainted' => Members'
  PROVE  IInv'
  <1>1. MountedOnly'
    BY DEF MountedOnly
  <1>2. LockHeld'
    BY DEF LockHeld, IInv
  <1>3. OneInUse'
    <2> SUFFICES ASSUME NEW p \in Objs, vfs'[p].pc \notin Gone
                 PROVE  vfs'[Twin(p)].pc \in Gone
      BY DEF OneInUse
    <2>1. CASE p = o
      BY <2>1, Twins
    <2>2. CASE p = Twin(o)
      BY <2>2, Twins DEF IInv, OneInUse
    <2>3. CASE p # o /\ p # Twin(o)
      <3>1. Twin(p) # o /\ Twin(p) \in Objs
        BY <2>3, Twins
      <3> QED BY <2>3, <3>1 DEF IInv, OneInUse
    <2> QED BY <2>1, <2>2, <2>3
  <1>4. ASSUME ~tainted' PROVE ListInv'
    <2>1. ListInv
      BY <1>4 DEF IInv
    <2>2. Agree' /\ Distinct'
      BY <2>1 DEF ListInv, Agree, Distinct
    <2>3. NewItem'
      BY <2>1 DEF ListInv, NewItem
    <2> QED BY <1>4, <2>1, <2>2, <2>3 DEF ListInv
  <1> QED BY <1>1, <1>2, <1>3, <1>4 DEF IInv

\* A VFS inode in use belongs to a mounted volume.
LEMMA InUseMounted ==
  ASSUME IInv, NEW o \in Objs, vfs[o].pc # "none"
  PROVE  mode = "up"
  BY DEF IInv, MountedOnly, None

\* When a VFS inode is in use, the other one of its number is not on the list.
LEMMA TwinUnlisted ==
  ASSUME Members, list \in Seq(Objs), NEW o \in Objs, vfs[o].pc \notin Gone,
         NEW k \in 1 .. Len(list)
  PROVE  list[k] # Twin(o)
  <1>1. SUFFICES ASSUME list[k] = Twin(o) PROVE FALSE
    OBVIOUS
  <1>2. vfs[Twin(list[k])].pc \in Gone
    BY DEF Members
  <1> QED BY <1>1, <1>2, Twins

\* Members, when only the phase of o changes and its number keeps its links.
LEMMA MembersKept ==
  ASSUME Members, list \in Seq(Objs), list' = list, NEW o \in Objs,
         \A p \in Objs : p # o => vfs'[p] = vfs[p],
         vfs'[o].pc \in Gone \/ vfs[o].pc \notin Gone,
         \A k \in 1 .. Len(list) :
           nlink[Ino(list[k])] = 0 => nlink'[Ino(list[k])] = 0,
         \A k \in 1 .. Len(list) : list[k] = o =>
           \/ vfs'[o].pc \in Busy \ Adding
           \/ vfs'[o].pc \in {"idle", "freed"} /\ nlink'[Ino(o)] = 0
  PROVE  Members'
  <1> SUFFICES ASSUME NEW k \in 1 .. Len(list)
               PROVE  /\ \/ vfs'[list[k]].pc \in Busy \ Adding
                         \/ vfs'[list[k]].pc \in {"idle", "freed"} /\ nlink'[Ino(list[k])] = 0
                      /\ vfs'[Twin(list[k])].pc \in Gone
    BY DEF Members
  <1>1. list[k] \in Objs /\ Twin(list[k]) \in Objs
    BY Twins
  <1>2. vfs'[Twin(list[k])].pc \in Gone
    <2>1. CASE Twin(list[k]) = o
      <3>1. list[k] = Twin(o)
        BY <1>1, <2>1, Twins
      <3> QED BY <2>1, <3>1, TwinUnlisted
    <2>2. CASE Twin(list[k]) # o
      BY <1>1, <2>2 DEF Members
    <2> QED BY <2>1, <2>2
  <1>3. CASE list[k] = o
    BY <1>2, <1>3
  <1>4. CASE list[k] # o
    BY <1>1, <1>2, <1>4 DEF Members
  <1> QED BY <1>3, <1>4

LEMMA IgetInvariant ==
  ASSUME IInv, TypeOK', Mark, NEW o \in Objs, Iget(o)
  PROVE  IInv'
  <1>1. /\ vfs'[o].pc = "idle" /\ \A p \in Objs : p # o => vfs'[p] = vfs[p]
        /\ "idle" \in Phases
    BY Gone1, Shapes DEF IInv, Iget, Phases
  <1>2. ASSUME ListInv PROVE Members'
    <2>1. ASSUME NEW k \in 1 .. Len(list)
          PROVE  /\ list[k] \in Objs /\ list[k] # o
                 /\ Twin(list[k]) \in Objs /\ Twin(list[k]) # o
      <3>1. vfs[list[k]].pc # "none" /\ list[k] \in Objs
        <4>1. list[k] \in Objs
          BY Shapes DEF IInv
        <4> QED BY <1>2, <4>1 DEF ListInv, Members, Busy
      <3> QED BY <3>1, Twins DEF Iget
    <2> QED BY <1>1, <1>2, <2>1 DEF ListInv, Members, Iget, linkVars
  <1> QED BY <1>1, <1>2, PhaseChange DEF Iget, itemVars, Head0, Adding, Gone, Mark

LEMMA ForgetInvariant ==
  ASSUME IInv, TypeOK', Mark, NEW o \in Objs, Forget(o)
  PROVE  IInv'
  <1>1. /\ vfs'[o].pc = "none" /\ \A p \in Objs : p # o => vfs'[p] = vfs[p]
    BY Gone1, Shapes DEF IInv, Forget, Phases
  <1>2. mode = "up"
    BY InUseMounted DEF Forget
  <1>3. ASSUME ListInv PROVE Members'
    <2>1. \A k \in 1 .. Len(list) : list[k] # o
      BY <1>3 DEF Forget, ListInv, Members, Busy
    <2> QED BY <1>1, <1>3, <2>1, MembersKept, Shapes DEF ListInv, Forget, linkVars, Gone, IInv
  <1> QED BY <1>1, <1>2, <1>3, PhaseChange DEF Forget, itemVars, Head0, Adding, Gone, Mark

\* A new inode takes a number whose old VFS inode is on the list only in a case
\* of Mark.
LEMMA CreateInvariant ==
  ASSUME IInv, TypeOK', Mark, NEW o \in Objs, Create(o)
  PROVE  IInv'
  <1>1. /\ vfs'[o].pc = "idle" /\ \A p \in Objs : p # o => vfs'[p] = vfs[p]
    BY Gone1, Shapes DEF IInv, Create, Phases
  <1>2. ASSUME ListInv, ~tainted' PROVE Members'
    <2>1. ASSUME NEW k \in 1 .. Len(list)
          PROVE  /\ list[k] \in Objs /\ list[k] # o
                 /\ Twin(list[k]) \in Objs /\ Twin(list[k]) # o
                 /\ Ino(list[k]) # Ino(o)
      <3>1. list[k] \in Objs
        BY Shapes DEF IInv
      <3>2. list[k] # o
        BY <1>2, <3>1 DEF ListInv, Members, Busy, Create
      <3>3. SUFFICES ASSUME Ino(list[k]) = Ino(o) PROVE FALSE
        BY <3>1, <3>2, Twins
      <3>4. Listed(list[k])
        BY DEF Listed, Elems
      <3>5. dead[Ino(o)] /\ ~dead'[Ino(o)]
        BY Twins DEF Create, IInv, TypeOK
      <3>6. Reused
        BY <3>1, <3>3, <3>4, <3>5 DEF Reused
      <3> QED BY <1>2, <3>6 DEF Mark
    <2>2. \A k \in 1 .. Len(list) : nlink'[Ino(list[k])] = nlink[Ino(list[k])]
      BY <2>1, Twins, Shapes DEF Create, IInv
    <2> QED BY <1>1, <1>2, <2>1, <2>2 DEF ListInv, Members, Create
  <1> QED BY <1>1, <1>2, PhaseChange DEF Create, itemVars, Head0, Adding, Gone, Mark

LEMMA ExtendInvariant ==
  ASSUME IInv, TypeOK', Mark, NEW o \in Objs, NEW s \in Sizes, Extend(o, s)
  PROVE  IInv'
  BY DEF Extend, IInv, itemVars, linkVars, MountedOnly, LockHeld, OneInUse, ListInv, Agree,
         Distinct, NewItem, Members, Head0, Mark

\* An item is filled behind the inode of o, which is not on the list.
LEMMA AddItemInvariant ==
  ASSUME IInv, TypeOK', Mark, NEW o \in Objs, NEW s \in Sizes, NEW pc \in Adding,
         AddItem(o, s, pc), vfs[o].pc = "idle",
         ListInv => \A k \in 1 .. Len(list) : list[k] # o,
         UNCHANGED <<heads, linkVars, list, mode>>
  PROVE  IInv'
  <1>1. /\ vfs'[o].pc = pc /\ vfs[o].pc \notin Gone
        /\ \A p \in Objs : p # o => vfs'[p] = vfs[p]
    BY Set1, Shapes DEF IInv, AddItem, Phases, Adding, Busy, Gone
  <1>2. mode = "up" /\ mode' = "up"
    BY InUseMounted
  <1>3. MountedOnly'
    BY <1>2 DEF MountedOnly
  <1>4. LockHeld'
    <2>1. \A p \in Objs : vfs[p].pc \notin Adding
      BY Twins DEF AddItem, IInv, LockHeld
    <2> QED BY <1>1, <2>1 DEF AddItem, LockHeld
  <1>5. OneInUse'
    <2>1. vfs[Twin(o)].pc \in Gone
      BY <1>1 DEF IInv, OneInUse
    <2> QED BY <1>1, <2>1, Twins DEF IInv, OneInUse
  <1>6. ASSUME ~tainted' PROVE ListInv'
    <2>1. ListInv
      BY <1>2, <1>6 DEF Mark, IInv
    <2>2. ASSUME NEW k \in 1 .. Len(list)
          PROVE  list[k] \in Objs /\ Ino(list[k]) \in Inos /\ Ino(list[k]) # Ino(o)
      <3>1. list[k] \in Objs /\ list[k] # o
        BY <2>1, Shapes DEF IInv
      <3>2. list[k] # Twin(o)
        BY <1>1, <2>1, TwinUnlisted, Shapes DEF ListInv, IInv
      <3> QED BY <3>1, <3>2, Twins
    <2>3. /\ next'[Ino(o)] = Head0 /\ Head0' = Head0
          /\ \A i \in Inos : i # Ino(o) => next'[i] = next[i]
      BY Shapes, Twins DEF AddItem, IInv, Head0
    <2>4. Agree' /\ Distinct'
      BY <2>1, <2>2, <2>3 DEF ListInv, Agree, Distinct
    <2>5. NewItem'
      BY <2>2, <2>3, Twins DEF NewItem, AddItem
    <2>6. Members'
      <3>1. \A k \in 1 .. Len(list) : Twin(list[k]) \in Objs /\ Twin(list[k]) # o /\ list[k] # o
        BY <2>2, Twins
      <3> QED BY <1>1, <2>1, <2>2, <3>1 DEF ListInv, Members, linkVars
    <2> QED BY <2>4, <2>5, <2>6 DEF ListInv
  <1> QED BY <1>3, <1>4, <1>5, <1>2, <1>6 DEF IInv

LEMMA TruncateInvariant ==
  ASSUME IInv, TypeOK', Mark, NEW o \in Objs, NEW s \in Targets, Truncate(o, s)
  PROVE  IInv'
  <1>1. s \in Sizes /\ mode = "up"
    BY SizesAssumption, InUseMounted DEF Sizes, Truncate
  <1>2. CASE Listed(o)
    <2>1. /\ vfs'[o].pc = "cut" /\ \A p \in Objs : p # o => vfs'[p] = vfs[p]
      BY <1>1, <1>2, Set1, Shapes DEF IInv, Truncate, Phases, Busy
    <2>2. ASSUME ListInv PROVE Members'
      BY <2>1, <2>2, MembersKept, Shapes DEF ListInv, Truncate, linkVars, Gone, IInv, Busy, Adding
    <2>3. vfs[Twin(o)].pc \in Gone
      BY DEF Truncate, IInv, OneInUse, Gone
    <2> QED BY <1>1, <1>2, <2>1, <2>2, <2>3, PhaseChange
            DEF Truncate, itemVars, Head0, Adding, Mark
  <1>3. CASE ~Listed(o)
    <2>1. \A k \in 1 .. Len(list) : list[k] # o
      BY <1>3 DEF Listed, Elems
    <2> QED BY <1>1, <1>3, <2>1, AddItemInvariant DEF Truncate, Adding
  <1> QED BY <1>2, <1>3

LEMMA UnlinkInvariant ==
  ASSUME IInv, TypeOK', Mark, NEW o \in Objs, Unlink(o)
  PROVE  IInv'
  <1>1. isize[Ino(o)] \in Sizes
    BY Twins DEF IInv, TypeOK
  <1>2. ASSUME ListInv, NEW k \in 1 .. Len(list) PROVE list[k] # o
    BY <1>2 DEF ListInv, Members, Unlink, Busy
  <1> QED BY <1>1, <1>2, AddItemInvariant DEF Unlink, Adding

LEMMA CutInvariant ==
  ASSUME IInv, TypeOK', Mark, NEW o \in Objs, Cut(o) \/ SetSize(o)
  PROVE  IInv'
  <1>1. /\ vfs'[o].pc \in {"setsize", "truncate_del"} /\ vfs[o].pc \in {"cut", "setsize"}
        /\ \A p \in Objs : p # o => vfs'[p] = vfs[p]
    BY Gone1, Shapes DEF IInv, Cut, SetSize, Phases, Busy
  <1>2. mode = "up" /\ vfs[Twin(o)].pc \in Gone
    BY <1>1, InUseMounted DEF IInv, OneInUse, Gone
  <1>3. UNCHANGED <<next, nlink, heads, list, lock, mode>>
    BY DEF Cut, SetSize, itemVars, linkVars
  <1>4. ASSUME ListInv PROVE Members'
    BY <1>1, <1>3, <1>4, MembersKept, Shapes DEF ListInv, Gone, IInv, Busy, Adding
  <1> QED BY <1>1, <1>2, <1>3, <1>4, PhaseChange DEF Head0, Adding, Mark

LEMMA UnlinkCommitInvariant ==
  ASSUME IInv, TypeOK', Mark, NEW o \in Objs, UnlinkCommit(o)
  PROVE  IInv'
  <1>1. /\ vfs'[o].pc = "idle" /\ vfs[o].pc = "unlink_commit"
        /\ \A p \in Objs : p # o => vfs'[p] = vfs[p]
    BY Gone1, Shapes DEF IInv, UnlinkCommit, Phases
  <1>2. mode = "up" /\ vfs[Twin(o)].pc \in Gone
    BY <1>1, InUseMounted DEF IInv, OneInUse, Gone
  <1>3. Head0' = Head0
    BY CommitHeads, Shapes DEF Head0, IInv
  <1>4. /\ nlink'[Ino(o)] = 0
        /\ \A i \in Inos : nlink[i] = 0 => nlink'[i] = 0
    BY Shapes, Twins DEF UnlinkCommit, IInv
  <1>5. ASSUME ListInv PROVE Members'
    <2>1. \A k \in 1 .. Len(list) : Ino(list[k]) \in Inos
      BY Shapes, Twins DEF IInv
    <2> QED BY <1>1, <1>4, <1>5, <2>1, MembersKept, Shapes DEF UnlinkCommit, ListInv, Gone, IInv
  <1> QED BY <1>1, <1>2, <1>3, <1>5, PhaseChange DEF UnlinkCommit, itemVars, Adding, Mark

LEMMA EvictInvariant ==
  ASSUME IInv, TypeOK', Mark, NEW o \in Objs, Evict(o) \/ EvictFails(o)
  PROVE  IInv'
  <1>1. /\ vfs'[o].pc = "freed" /\ vfs[o].pc = "idle"
        /\ \A p \in Objs : p # o => vfs'[p] = vfs[p]
    BY Gone1, Shapes DEF IInv, Evict, EvictFails, Phases
  <1>2. mode = "up"
    BY <1>1, InUseMounted
  <1>3. UNCHANGED <<next, nlink, heads, list, lock, mode>> /\ nlink[Ino(o)] = 0
    BY DEF Evict, EvictFails, itemVars, linkVars
  <1>4. ASSUME ListInv PROVE Members'
    BY <1>1, <1>3, <1>4, MembersKept, Shapes DEF ListInv, Gone, IInv
  <1> QED BY <1>1, <1>2, <1>3, <1>4, PhaseChange DEF Head0, Adding, Gone, Mark

LEMMA AddHeadInvariant ==
  ASSUME IInv, TypeOK', Mark, NEW o \in Objs, AddHead(o)
  PROVE  IInv'
  <1>1. /\ vfs[o].pc \in Adding /\ vfs'[o].pc \in {"cut", "unlink_commit"}
        /\ \A p \in Objs : p # o => vfs'[p] = vfs[p]
    BY Gone1, Shapes DEF IInv, AddHead, Phases, Busy, Adding
  <1>2. mode = "up" /\ mode' = "up"
    BY <1>1, InUseMounted DEF AddHead, Adding
  <1>3. MountedOnly'
    BY <1>2 DEF MountedOnly
  <1>4. LockHeld'
    <2>1. \A p \in Objs : p # o => vfs[p].pc \notin Adding
      BY DEF AddHead, IInv, LockHeld
    <2> QED BY <1>1, <2>1, Twins DEF AddHead, LockHeld, Adding
  <1>5. vfs[Twin(o)].pc \in Gone
    BY <1>1 DEF IInv, OneInUse, Gone, Adding
  <1>6. OneInUse'
    BY <1>1, <1>5, Twins DEF IInv, OneInUse, Gone
  <1>7. ASSUME ~tainted' PROVE ListInv'
    <2>1. ListInv
      BY <1>2, <1>7 DEF Mark, IInv
    <2>2. /\ next' = next /\ nlink' = nlink /\ lock' = <<>>
          /\ next[Ino(o)] = Head0 /\ \A k \in 1 .. Len(list) : Ino(list[k]) # Ino(o)
      BY <2>1 DEF AddHead, itemVars, linkVars, ListInv, NewItem
    <2>3. list \in Seq(Objs) /\ Len(list) \in Nat /\ list' = <<o>> \o list
      BY Shapes DEF IInv, AddHead
    <2>4. /\ Len(list') = Len(list) + 1 /\ list'[1] = o /\ list' # <<>>
          /\ \A k \in 2 .. Len(list) + 1 : list'[k] = list[k - 1]
      BY <2>3
    <2>5. Head0' = Ino(o)
      <3>1. CASE heads' = <<Ino(o)>>
        BY <3>1 DEF Head0
      <3>2. CASE heads' = Append(heads, Ino(o))
        <4>1. heads \in Seq(Inos \cup {NoIno}) /\ Ino(o) \in Inos \cup {NoIno}
          BY Shapes, Twins DEF IInv
        <4>2. Len(heads') = Len(heads) + 1 /\ heads'[Len(heads) + 1] = Ino(o)
          BY <3>2, <4>1
        <4> QED BY <4>2 DEF Head0
      <3> QED BY <3>1, <3>2 DEF AddHead
    <2>6. Agree'
      <3>1. ASSUME NEW k \in 1 .. Len(list')
            PROVE  next'[Ino(list'[k])] = IF k = Len(list') THEN NoIno ELSE Ino(list'[k + 1])
        <4>1. CASE k = 1
          <5>1. next'[Ino(list'[k])] = Head0
            BY <2>2, <2>4, <4>1
          <5>2. CASE list = <<>>
            <6>1. Head0 = NoIno /\ Len(list') = 1
              BY <2>1, <2>4, <5>2 DEF ListInv, Agree
            <6> QED BY <4>1, <5>1, <6>1
          <5>3. CASE list # <<>>
            <6>1. Head0 = Ino(list[1]) /\ Len(list) # 0
              BY <2>1, <2>3, <5>3 DEF ListInv, Agree
            <6>2. list'[2] = list[1] /\ k # Len(list')
              BY <2>3, <2>4, <4>1, <6>1
            <6> QED BY <4>1, <5>1, <6>1, <6>2
          <5> QED BY <5>2, <5>3
        <4>2. CASE k # 1
          <5>1. k - 1 \in 1 .. Len(list) /\ k \in 2 .. Len(list) + 1
            BY <2>3, <2>4, <4>2
          <5>2. next[Ino(list[k - 1])] = IF k - 1 = Len(list) THEN NoIno ELSE Ino(list[(k - 1) + 1])
            BY <2>1, <5>1 DEF ListInv, Agree
          <5>3. list'[k] = list[k - 1] /\ (k # Len(list') => list'[k + 1] = list[k])
            BY <2>3, <2>4, <5>1
          <5> QED BY <2>2, <2>3, <2>4, <5>1, <5>2, <5>3
        <4> QED BY <4>1, <4>2
      <3> QED BY <2>4, <2>5, <3>1 DEF Agree
    <2>7. Distinct'
      <3> SUFFICES ASSUME NEW k \in 1 .. Len(list'), NEW l \in 1 .. Len(list'),
                          Ino(list'[k]) = Ino(list'[l])
                   PROVE  k = l
        BY DEF Distinct
      <3>1. \A n \in 1 .. Len(list') : n = 1 \/ (n - 1 \in 1 .. Len(list) /\ list'[n] = list[n - 1])
        BY <2>3, <2>4
      <3> QED BY <2>1, <2>2, <2>4, <3>1 DEF ListInv, Distinct
    <2>8. NewItem'
      BY <2>2, Twins DEF NewItem
    <2>9. Members'
      <3>1. \A k \in 1 .. Len(list) : list[k] # o /\ Twin(list[k]) # o
                                      /\ list[k] \in Objs /\ Twin(list[k]) \in Objs
        BY <2>2, <2>3, Twins
      <3>2. \A n \in 1 .. Len(list') : list'[n] = o \/ \E k \in 1 .. Len(list) : list'[n] = list[k]
        <4> TAKE n \in 1 .. Len(list')
        <4>1. CASE n = 1
          BY <2>4, <4>1
        <4>2. CASE n # 1
          <5>1. n - 1 \in 1 .. Len(list) /\ list'[n] = list[n - 1]
            BY <2>3, <2>4, <4>2
          <5> QED BY <5>1
        <4> QED BY <4>1, <4>2
      <3>3. ASSUME NEW k \in 1 .. Len(list)
            PROVE  /\ \/ vfs'[list[k]].pc \in Busy \ Adding
                      \/ vfs'[list[k]].pc \in {"idle", "freed"} /\ nlink'[Ino(list[k])] = 0
                   /\ vfs'[Twin(list[k])].pc \in Gone
        BY <1>1, <2>1, <2>2, <3>1 DEF ListInv, Members
      <3>4. vfs'[o].pc \in Busy \ Adding /\ vfs'[Twin(o)].pc \in Gone
        BY <1>1, <1>5, Twins DEF Busy, Adding
      <3> QED BY <3>2, <3>3, <3>4 DEF Members
    <2> QED BY <2>6, <2>7, <2>8, <2>9 DEF ListInv
  <1> QED BY <1>2, <1>3, <1>4, <1>6, <1>7 DEF IInv

\* Taking o off both lists keeps them the same.
LEMMA ListDelAgree ==
  ASSUME TypeOK, Agree, Distinct, NEW o \in Objs, Listed(o), ListDel(o)
  PROVE  /\ Agree' /\ Distinct'
         /\ \A j \in 1 .. Len(list') :
              \E m \in 1 .. Len(list) : list'[j] = list[m] /\ Ino(list[m]) # Ino(o)
  <1> DEFINE k == Place(o)
             n == Len(list)
  <1>1. k \in 1 .. n /\ list[k] = o /\ n \in Nat /\ list \in Seq(Objs)
    BY Placed, Shapes
  <1>2. /\ list' \in Seq(Objs) /\ Len(list') = n - 1
        /\ \A j \in 1 .. k - 1 : list'[j] = list[j]
        /\ \A j \in k .. n - 1 : list'[j] = list[j + 1]
    BY <1>1, RemoveAtIndex DEF ListDel
  <1>3. /\ k = 1 => heads' = <<next[Ino(o)]>> /\ next' = next
        /\ k # 1 => heads' = heads /\ next' = [next EXCEPT ![Ino(list[k - 1])] = next[Ino(o)]]
    BY DEF ListDel
  <1>4. next \in [Inos -> Inos \cup {NoIno}] /\ \A m \in 1 .. n : Ino(list[m]) \in Inos
    BY <1>1, Shapes, Twins
  <1>5. \A m \in 1 .. n : next[Ino(list[m])] = IF m = n THEN NoIno ELSE Ino(list[m + 1])
    BY DEF Agree
  <1>6. \A l, m \in 1 .. n : Ino(list[l]) = Ino(list[m]) => l = m
    BY DEF Distinct
  <1>7. next[Ino(o)] = IF k = n THEN NoIno ELSE Ino(list[k + 1])
    BY <1>1, <1>5
  <1>8. Head0 = Ino(list[1])
    BY <1>1 DEF Agree
  <1> HIDE DEF k, n
  <1>9. \A j \in 1 .. n - 1 : \E m \in 1 .. n : m # k /\ list'[j] = list[m]
                                                 /\ m = IF j < k THEN j ELSE j + 1
    BY <1>1, <1>2
  <1>10. Head0' = IF list' = <<>> THEN NoIno ELSE Ino(list'[1])
    <2>1. list' = <<>> <=> n = 1
      BY <1>1, <1>2
    <2>2. CASE k = 1
      <3>1. Head0' = next[Ino(o)]
        <4>1. heads' = <<next[Ino(o)]>>
          BY <1>3, <2>2
        <4>2. Len(heads') = 1 /\ heads'[1] = next[Ino(o)]
          BY <4>1
        <4> QED BY <4>2 DEF Head0
      <3>2. n # 1 => list'[1] = list[2]
        BY <1>1, <1>2, <2>2
      <3> QED BY <1>7, <2>1, <2>2, <3>1, <3>2
    <2>3. CASE k # 1
      <3>1. Head0' = Head0
        BY <1>3, <2>3 DEF Head0
      <3>2. n # 1 /\ list'[1] = list[1]
        BY <1>1, <1>2, <2>3
      <3> QED BY <1>8, <2>1, <3>1, <3>2
    <2> QED BY <2>2, <2>3
  <1>11. ASSUME NEW j \in 1 .. n - 1
         PROVE  next'[Ino(list'[j])] = IF j = n - 1 THEN NoIno ELSE Ino(list'[j + 1])
    <2>1. CASE k = 1
      <3>1. list'[j] = list[j + 1] /\ (j # n - 1 => list'[j + 1] = list[(j + 1) + 1])
        BY <1>1, <1>2, <2>1
      <3>2. j + 1 \in 1 .. n
        BY <1>1
      <3>3. next[Ino(list[j + 1])] = IF j + 1 = n THEN NoIno ELSE Ino(list[(j + 1) + 1])
        BY <1>5, <3>2
      <3>4. (j + 1 = n) <=> (j = n - 1)
        BY <1>1
      <3> QED BY <1>3, <2>1, <3>1, <3>3, <3>4
    <2>2. CASE k # 1 /\ j = k - 1
      <3>1. list'[j] = list[k - 1] /\ k - 1 \in 1 .. n
        BY <1>1, <1>2, <2>2
      <3>2. next'[Ino(list'[j])] = next[Ino(o)]
        BY <1>3, <1>4, <2>2, <3>1
      <3>3. k # n => list'[j + 1] = list[k + 1]
        BY <1>1, <1>2, <2>2
      <3>4. (j = n - 1) <=> (k = n)
        BY <1>1, <2>2
      <3> QED BY <1>7, <3>2, <3>3, <3>4
    <2>3. CASE k # 1 /\ j < k - 1
      <3>1. list'[j] = list[j] /\ list'[j + 1] = list[j + 1] /\ j \in 1 .. n /\ j # n /\ j # n - 1
            /\ k - 1 \in 1 .. n /\ j # k - 1
        BY <1>1, <1>2, <2>3
      <3>2. next'[Ino(list[j])] = next[Ino(list[j])]
        BY <1>3, <1>4, <1>6, <2>3, <3>1
      <3> QED BY <1>5, <3>1, <3>2
    <2>4. CASE k # 1 /\ j >= k
      <3>1. list'[j] = list[j + 1] /\ (j # n - 1 => list'[j + 1] = list[(j + 1) + 1])
            /\ j + 1 \in 1 .. n /\ k - 1 \in 1 .. n /\ j + 1 # k - 1
        BY <1>1, <1>2, <2>4
      <3>2. next'[Ino(list[j + 1])] = next[Ino(list[j + 1])]
        BY <1>3, <1>4, <1>6, <2>4, <3>1
      <3>3. next[Ino(list[j + 1])] = IF j + 1 = n THEN NoIno ELSE Ino(list[(j + 1) + 1])
        BY <1>5, <3>1
      <3>4. (j + 1 = n) <=> (j = n - 1)
        BY <1>1
      <3> QED BY <3>1, <3>2, <3>3, <3>4
    <2> QED BY <1>1, <2>1, <2>2, <2>3, <2>4
  <1>12. Agree'
    BY <1>2, <1>10, <1>11 DEF Agree
  <1>13. Distinct'
    <2> SUFFICES ASSUME NEW j \in 1 .. n - 1, NEW l \in 1 .. n - 1, Ino(list'[j]) = Ino(list'[l])
                 PROVE  j = l
      BY <1>2 DEF Distinct
    <2>1. PICK a \in 1 .. n : list'[j] = list[a] /\ a = IF j < k THEN j ELSE j + 1
      BY <1>9
    <2>2. PICK b \in 1 .. n : list'[l] = list[b] /\ b = IF l < k THEN l ELSE l + 1
      BY <1>9
    <2>3. a = b
      BY <1>6, <2>1, <2>2
    <2> QED BY <1>1, <2>1, <2>2, <2>3
  <1>14. \A j \in 1 .. n - 1 : \E m \in 1 .. n : list'[j] = list[m] /\ Ino(list[m]) # Ino(o)
    BY <1>1, <1>6, <1>9
  <1> QED BY <1>2, <1>12, <1>13, <1>14 DEF n

LEMMA TruncateDelInvariant ==
  ASSUME IInv, TypeOK', Mark, NEW o \in Objs, TruncateDel(o)
  PROVE  IInv'
  <1>1. /\ vfs[o].pc \in {"truncate_del", "freed"} /\ vfs'[o].pc \in {"none", "idle"}
        /\ vfs[o].pc = "freed" => vfs'[o].pc = "none"
        /\ \A p \in Objs : p # o => vfs'[p] = vfs[p]
    BY Gone1, Shapes DEF IInv, TruncateDel, Phases
  <1>2. mode = "up" /\ mode' = "up" /\ lock = <<>> /\ lock' = <<>> /\ nlink' = nlink
    BY <1>1, InUseMounted DEF TruncateDel, linkVars
  <1>3. vfs'[o].pc \in Gone \/ vfs[Twin(o)].pc \in Gone
    BY <1>1 DEF IInv, OneInUse, Gone
  <1>4. CASE ~Listed(o)
    <2>1. UNCHANGED <<list, heads, next>>
      BY <1>4 DEF TruncateDel
    <2>2. \A k \in 1 .. Len(list) : list[k] # o
      BY <1>4 DEF Listed, Elems
    <2>3. ASSUME ListInv PROVE Members'
      BY <1>1, <1>2, <2>1, <2>2, <2>3, MembersKept, Shapes DEF ListInv, Gone, IInv
    <2> QED BY <1>1, <1>2, <1>3, <2>1, <2>3, PhaseChange DEF Head0, Adding, Mark
  <1>5. CASE Listed(o)
    <2>1. MountedOnly'
      BY <1>2 DEF MountedOnly
    <2>2. LockHeld'
      BY <1>1, <1>2, Twins DEF IInv, LockHeld, Adding
    <2>3. OneInUse'
      <3>1. \A p \in Objs : vfs'[p].pc \notin Gone => vfs[p].pc \notin Gone
        BY <1>1 DEF Gone
      <3>2. \A p \in Objs : p # Twin(o) /\ p # o => Twin(p) \in Objs /\ Twin(p) # o
        BY Twins
      <3> QED BY <1>1, <1>3, <3>1, <3>2, Twins DEF IInv, OneInUse, Gone
    <2>4. ASSUME ~tainted' PROVE ListInv'
      <3>1. ListInv
        BY <1>2, <2>4 DEF Mark, IInv
      <3>2. ListDel(o)
        BY <1>5 DEF TruncateDel
      <3>3. /\ Agree' /\ Distinct'
            /\ \A j \in 1 .. Len(list') :
                 \E m \in 1 .. Len(list) : list'[j] = list[m] /\ Ino(list[m]) # Ino(o)
        BY <1>5, <3>1, <3>2, ListDelAgree DEF IInv, ListInv
      <3>4. NewItem'
        BY <1>2, Twins DEF NewItem
      <3>5. ASSUME NEW m \in 1 .. Len(list), Ino(list[m]) # Ino(o)
            PROVE  /\ \/ vfs'[list[m]].pc \in Busy \ Adding
                      \/ vfs'[list[m]].pc \in {"idle", "freed"} /\ nlink'[Ino(list[m])] = 0
                   /\ vfs'[Twin(list[m])].pc \in Gone
        <4>1. list[m] \in Objs
          BY Shapes DEF IInv
        <4>2. list[m] # o /\ Twin(list[m]) # o /\ Twin(list[m]) \in Objs
          BY <3>5, <4>1, Twins
        <4> QED BY <1>1, <1>2, <3>1, <4>1, <4>2 DEF ListInv, Members
      <3>6. Members'
        BY <3>3, <3>5 DEF Members
      <3> QED BY <3>3, <3>4, <3>6 DEF ListInv
    <2> QED BY <1>2, <2>1, <2>2, <2>3, <2>4 DEF IInv
  <1> QED BY <1>4, <1>5

LEMMA CrashInvariant ==
  ASSUME IInv, TypeOK', Crash
  PROVE  IInv'
  <1>1. \A o \in Objs : vfs'[o].pc = "none" /\ lock' # o
    BY Twins DEF Crash, None
  <1>2. MountedOnly'
    BY DEF Crash, MountedOnly
  <1>3. LockHeld' /\ OneInUse'
    BY <1>1, Twins DEF LockHeld, OneInUse, Adding, Gone
  <1> QED BY <1>2, <1>3 DEF IInv, Crash

LEMMA RecoverInvariant ==
  ASSUME IInv, TypeOK', Recover
  PROVE  IInv'
  <1>1. UNCHANGED <<list, lock, vfs>> /\ mode # "up"
    BY DEF Recover, RecoverTruncate, RecoverOrphan, RecoverOrphanFails, RecoverNoMem,
           RecoverStale, RecoverEnd, Mounted
  <1>2. LockHeld' /\ OneInUse'
    BY <1>1 DEF IInv, LockHeld, OneInUse
  <1>3. MountedOnly'
    <2>1. mode' = "up" \/ mode' = "recover" \/ (mode' = "recovered" /\ heads' = <<NoIno>>)
      BY DEF Recover, RecoverTruncate, RecoverOrphan, RecoverOrphanFails, RecoverNoMem,
             RecoverStale, RecoverEnd, Mounted
    <2> QED BY <1>1, <2>1 DEF IInv, MountedOnly
  <1>4. ASSUME mode' = "up" PROVE ListInv'
    <2>1. heads' = <<NoIno>> /\ list' = <<>> /\ lock' = <<>>
      BY <1>1, <1>4 DEF IInv, MountedOnly, Recover, RecoverTruncate, RecoverOrphan,
                        RecoverOrphanFails, RecoverNoMem, RecoverStale, RecoverEnd, Mounted
    <2>2. Head0' = NoIno /\ Len(list') = 0
      BY <2>1 DEF Head0
    <2> QED BY <2>1, <2>2, Twins DEF ListInv, Agree, Distinct, NewItem, Members
  <1> QED BY <1>2, <1>3, <1>4 DEF IInv

LEMMA InitInvariant == Init => IInv
  <1> SUFFICES ASSUME Init PROVE IInv
    OBVIOUS
  <1>1. TypeOK
    <2>1. 0 \in Sizes /\ 1 \in Sizes /\ <<NoIno>> \in Seq(Inos \cup {NoIno}) /\ <<NoIno>> # <<>>
      BY SizesAssumption DEF Sizes
    <2>2. list \in Seq(Objs) /\ lock \in Objs \cup {<<>>} /\ heads \in Seq(Inos \cup {NoIno})
          /\ heads # <<>>
      BY <2>1 DEF Init
    <2>3. vfs \in [Objs -> [pc : Busy \cup {"none", "idle", "freed"}, want : Sizes]]
      BY <2>1 DEF Init, None
    <2>4. /\ isize \in [Inos -> Sizes] /\ pisize \in [Inos -> SUBSET Sizes]
          /\ tree \in [Inos -> Sizes] /\ ptree \in [Inos -> SUBSET Sizes]
          /\ next \in [Inos -> Inos \cup {NoIno}] /\ tsize \in [Inos -> Sizes]
          /\ nlink \in [Inos -> {0, 1}] /\ dead \in [Inos -> BOOLEAN]
      BY <2>1 DEF Init
    <2>5. /\ creates \in 0 .. MaxCreate /\ fulls \in 0 .. MaxFull /\ boots \in 0 .. MaxBoot
      BY BoundsAssumption DEF Init
    <2>6. mode \in {"up", "recover", "recovered"} /\ rec \in Inos \cup {NoIno}
      BY DEF Init
    <2>7. tainted \in BOOLEAN
      BY DEF Init
    <2> QED BY <2>2, <2>3, <2>4, <2>5, <2>6, <2>7 DEF TypeOK
  <1>2. \A o \in Objs : vfs[o].pc = "none" /\ lock # o
    BY Twins DEF Init, None
  <1>3. Head0 = NoIno /\ list = <<>> /\ Len(list) = 0
    BY DEF Init, Head0
  <1>4. ListInv
    BY <1>2, <1>3 DEF ListInv, Agree, Distinct, NewItem, Members
  <1> QED BY <1>1, <1>2, <1>4, Twins
          DEF Init, IInv, MountedOnly, LockHeld, OneInUse, Adding, Gone

LEMMA StepInvariant == IInv /\ [Next]_vars => IInv'
  <1> SUFFICES ASSUME IInv, [Next]_vars PROVE IInv'
    OBVIOUS
  <1>1. TypeOK'
    BY TypeStep DEF IInv
  <1>2. CASE UNCHANGED vars
    BY <1>2 DEF vars, IInv, TypeOK, MountedOnly, LockHeld, OneInUse, ListInv, Agree,
                Distinct, NewItem, Members, Head0
  <1>3. CASE Step /\ Mark
    BY <1>1, <1>3, IgetInvariant, ForgetInvariant, CreateInvariant, ExtendInvariant,
       TruncateInvariant, CutInvariant, UnlinkInvariant, UnlinkCommitInvariant,
       EvictInvariant, AddHeadInvariant, TruncateDelInvariant, CrashInvariant,
       RecoverInvariant DEF Step
  <1> QED BY <1>2, <1>3 DEF Next

LEMMA Invariance == Spec => []IInv
  BY InitInvariant, StepInvariant, PTL DEF Spec

-----------------------------------------------------------------------------
(* The result.                                                             *)

\* Until one of the cases of Mark happens, pmfs_truncate_del finds on the media
\* the item it is about to change: the persistent list is the list of VFS inodes,
\* in the same order, whatever the threads of the two VFS inodes of a number,
\* power failures and recoveries do in between.
THEOREM ListsStayEqual == Spec => []ListsAgree
  <1>1. IInv => ListsAgree
    BY DEF IInv, ListInv, Agree, ListsAgree
  <1> QED BY <1>1, Invariance, PTL

-----------------------------------------------------------------------------
(* What a crash finds: the files, the heads on the media, the inodes on    *)
(* the list.                                                               *)

Orphan(i) == nlink[i] = 0 /\ ~dead[i]

\* A file has no blocks behind its end, whatever the media holds; a free inode has
\* none at all and is not in use.
FileOk(i) ==
  /\ isize[i] \in pisize[i] /\ tree[i] \in ptree[i]
  /\ \A t \in ptree[i], s \in pisize[i] : t <= s
  /\ dead[i] => nlink[i] = 0 /\ pisize[i] = {0}
  /\ dead[i] => \A o \in Objs : Ino(o) = i => vfs[o].pc \in Gone
Files == \A i \in Inos : FileOk(i)

\* A head that the media may hold is that of the list, or of the list before the
\* last unlinks began; those that have committed are behind every head.
HeadAt(n) == IF n = Len(list) + 1 THEN NoIno ELSE Ino(list[n])
Heads ==
  /\ Len(heads) <= Len(list) + 1
  /\ \A j \in 1 .. Len(heads) : heads[j] = HeadAt(Len(heads) - j + 1)
  /\ \A k \in 1 .. Len(list) : vfs[list[k]].pc # "unlink_commit" => Len(heads) <= k

\* An inode in a truncation or an unlink is on the list, with the size asked for.
OnItsWay(o) ==
  /\ vfs[o].pc \in Busy \ Adding => Listed(o)
  /\ vfs[o].pc \in {"unlink_add", "unlink_commit"} => nlink[Ino(o)] = 1
  /\ vfs[o].pc \in Busy /\ nlink[Ino(o)] = 1 => tsize[Ino(o)] = vfs[o].want
  /\ vfs[o].pc = "setsize" => tree[Ino(o)] <= vfs[o].want
UnderWay == \A o \in Objs : OnItsWay(o)

\* So is an inode with work left.
Covered(i) ==
  /\ Orphan(i) => \E o \in Objs : Listed(o) /\ Ino(o) = i
  /\ pisize[i] # {isize[i]} => \E o \in Objs : Ino(o) = i /\ vfs[o].pc = "truncate_del"
WorkLeft == \A i \in Inos : Covered(i)

\* Recovery has come to rec: orphans are still ahead.
Ahead ==
  /\ mode = "recover" =>
       /\ Len(heads) = 1
       /\ Reach(rec) \subseteq Reach(Head0)
       /\ \A i \in Inos :
            /\ Orphan(i) => i \in Reach(rec)
            /\ pisize[i] # {isize[i]} => i \in Reach(Head0)
  /\ mode = "recovered" => \A i \in Inos : ~Orphan(i) /\ pisize[i] = {isize[i]}

CrashInv ==
  /\ Files
  /\ mode = "up" => Heads /\ UnderWay /\ WorkLeft
  /\ mode # "up" => Ahead

CInv == IInv /\ (~tainted => CrashInv)

-----------------------------------------------------------------------------
(* Following the list.                                                     *)

LEMMA ReachSteps ==
  ASSUME next \in [Inos -> Inos \cup {NoIno}]
  PROVE  /\ Reach(NoIno) = {}
         /\ \A h \in Inos : /\ h \in Reach(h)
                            /\ Reach(h) \subseteq {h} \cup Reach(next[h])
                            /\ Reach(next[h]) \subseteq Reach(h)
  <1>1. Reach(NoIno) = {}
    <2> SUFFICES ASSUME NEW i \in Reach(NoIno) PROVE FALSE
      OBVIOUS
    <2>1. {NoIno} \in SUBSET (Inos \cup {NoIno}) /\ NoIno \in {NoIno} /\ Follows({NoIno})
      BY DEF Follows
    <2>2. i \in Inos /\ i \in {NoIno}
      BY <2>1 DEF Reach
    <2> QED BY <2>2, InosAssumption
  <1>2. ASSUME NEW h \in Inos
        PROVE  /\ h \in Reach(h)
               /\ Reach(h) \subseteq {h} \cup Reach(next[h])
               /\ Reach(next[h]) \subseteq Reach(h)
    <2>1. h \in Reach(h)
      BY DEF Reach
    <2>2. ASSUME NEW i \in Reach(h), i # h PROVE i \in Reach(next[h])
      <3> SUFFICES ASSUME NEW S \in SUBSET (Inos \cup {NoIno}), next[h] \in S, Follows(S)
                   PROVE  i \in S
        BY <2>2 DEF Reach
      <3>1. S \cup {h} \in SUBSET (Inos \cup {NoIno}) /\ h \in S \cup {h} /\ Follows(S \cup {h})
        BY DEF Follows
      <3>2. i \in S \cup {h}
        BY <3>1 DEF Reach
      <3> QED BY <2>2, <3>2
    <2>3. ASSUME NEW i \in Reach(next[h]) PROVE i \in Reach(h)
      <3> SUFFICES ASSUME NEW S \in SUBSET (Inos \cup {NoIno}), h \in S, Follows(S)
                   PROVE  i \in S
        BY DEF Reach
      <3>1. next[h] \in S
        BY InosAssumption DEF Follows
      <3> QED BY <3>1 DEF Reach
    <2> QED BY <2>1, <2>2, <2>3
  <1> QED BY <1>1, <1>2

LEMMA ReachSame ==
  ASSUME next' = next
  PROVE  \A h : Reach(h)' = Reach(h)
  BY DEF Reach, Follows

\* From place m of the list on, all its inodes are met, and nothing else.
LEMMA ListReach ==
  ASSUME TypeOK, Agree, NEW m \in 1 .. Len(list) + 1
  PROVE  /\ \A k \in m .. Len(list) : Ino(list[k]) \in Reach(HeadAt(m))
         /\ \A i \in Reach(HeadAt(m)) : \E k \in 1 .. Len(list) : i = Ino(list[k])
  <1>1. list \in Seq(Objs) /\ Len(list) \in Nat /\ \A k \in 1 .. Len(list) : Ino(list[k]) \in Inos
    <2>1. list \in Seq(Objs) /\ Len(list) \in Nat
      BY Shapes
    <2>2. \A k \in 1 .. Len(list) : list[k] \in Objs
      BY <2>1
    <2> QED BY <2>1, <2>2, Twins
  <1>2. \A k \in 1 .. Len(list) : next[Ino(list[k])] = HeadAt(k + 1)
    BY <1>1 DEF Agree, HeadAt
  <1>3. ASSUME NEW S \in SUBSET (Inos \cup {NoIno}), HeadAt(m) \in S, Follows(S),
               NEW k \in m .. Len(list)
        PROVE  Ino(list[k]) \in S
    <2> DEFINE T == {n \in Nat : n >= m /\ n <= Len(list) /\ Ino(list[n]) \notin S}
    <2> SUFFICES ASSUME T # {} PROVE FALSE
      BY <1>1
    <2>1. T \subseteq Nat
      OBVIOUS
    <2>2. PICK n \in T : \A l \in T : ~(<<l, n>> \in OpToRel(<, Nat))
      <3> HIDE DEF T
      <3> QED BY <2>1, NatLessThanWellFounded, WFMin, Zenon
    <2>3. n \in Nat /\ n >= m /\ n <= Len(list) /\ Ino(list[n]) \notin S
      OBVIOUS
    <2>4. CASE n = m
      BY <1>1, <1>3, <2>3, <2>4 DEF HeadAt
    <2>5. CASE n # m
      <3>1. n - 1 \in Nat /\ n - 1 >= m /\ n - 1 < n /\ n - 1 <= Len(list) /\ n - 1 \in 1 .. Len(list)
        BY <1>1, <2>3, <2>5
      <3>2. <<n - 1, n>> \in OpToRel(<, Nat)
        BY <2>3, <3>1 DEF OpToRel
      <3>3. Ino(list[n - 1]) \in S
        BY <2>2, <3>1, <3>2
      <3>4. next[Ino(list[n - 1])] = Ino(list[n])
        BY <1>1, <1>2, <2>3, <3>1 DEF HeadAt
      <3>5. next[Ino(list[n - 1])] \in S
        BY <1>1, <1>3, <3>1, <3>3, InosAssumption DEF Follows
      <3> QED BY <2>3, <3>4, <3>5
    <2> QED BY <2>4, <2>5
  <1>4. ASSUME NEW k \in m .. Len(list)
        PROVE  Ino(list[k]) \in Reach(HeadAt(m))
    <2>1. k \in 1 .. Len(list)
      BY <1>1
    <2> QED BY <1>1, <1>3, <2>1 DEF Reach
  <1>5. ASSUME NEW i \in Reach(HeadAt(m))
        PROVE  \E k \in 1 .. Len(list) : i = Ino(list[k])
    <2> DEFINE S == {NoIno} \cup {Ino(list[k]) : k \in 1 .. Len(list)}
    <2>1. S \in SUBSET (Inos \cup {NoIno})
      BY <1>1
    <2>2. \A k \in 1 .. Len(list) + 1 : HeadAt(k) \in S
      BY <1>1 DEF HeadAt
    <2>3. Follows(S)
      <3>1. ASSUME NEW k \in 1 .. Len(list) PROVE next[Ino(list[k])] \in S
        <4>1. k + 1 \in 1 .. Len(list) + 1
          BY <1>1
        <4> QED BY <1>2, <2>2, <4>1
      <3> QED BY <3>1 DEF Follows
    <2>4. HeadAt(m) \in S
      BY <2>2
    <2>5. i \in S /\ i \in Inos
      BY <2>1, <2>3, <2>4 DEF Reach
    <2> QED BY <2>5, InosAssumption
  <1> QED BY <1>4, <1>5

\* Whatever head the media has: the inodes that are met from there.
LEMMA HeadsReach ==
  ASSUME TypeOK, Agree, Heads, NEW h \in Elems(heads)
  PROVE  /\ \A k \in 1 .. Len(list) :
              vfs[list[k]].pc # "unlink_commit" => Ino(list[k]) \in Reach(h)
         /\ \A i \in Reach(h) : \E k \in 1 .. Len(list) : i = Ino(list[k])
  <1>1. Len(list) \in Nat /\ Len(heads) \in Nat
    BY Shapes
  <1>2. PICK j \in 1 .. Len(heads) : h = heads[j]
    BY DEF Elems
  <1>3. PICK m \in 1 .. Len(list) + 1 : m = Len(heads) - j + 1
    BY <1>1 DEF Heads
  <1>4. h = HeadAt(m) /\ m <= Len(heads)
    BY <1>1, <1>2, <1>3 DEF Heads
  <1>5. /\ \A k \in m .. Len(list) : Ino(list[k]) \in Reach(HeadAt(m))
        /\ \A i \in Reach(HeadAt(m)) : \E k \in 1 .. Len(list) : i = Ino(list[k])
    BY ListReach
  <1>6. ASSUME NEW k \in 1 .. Len(list), vfs[list[k]].pc # "unlink_commit"
        PROVE  Ino(list[k]) \in Reach(h)
    <2>1. Len(heads) <= k
      BY <1>6 DEF Heads
    <2>2. k \in m .. Len(list)
      BY <1>1, <1>4, <2>1
    <2> QED BY <1>4, <1>5, <2>2
  <1> QED BY <1>4, <1>5, <1>6

-----------------------------------------------------------------------------
(* What the steps leave alone.                                             *)

\* What holds on a mounted volume before a step that is none of the cases of Mark.
LEMMA UpFacts ==
  ASSUME CInv, Mark, ~tainted', mode = "up"
  PROVE  /\ ~tainted /\ TypeOK /\ ListInv /\ Agree /\ Distinct /\ Members
         /\ Files /\ Heads /\ UnderWay /\ WorkLeft
         /\ list \in Seq(Objs) /\ Len(list) \in Nat /\ Len(heads) \in Nat \ {0}
         /\ \A k \in 1 .. Len(list) :
              list[k] \in Objs /\ Listed(list[k]) /\ Ino(list[k]) \in Inos
  <1>1. ~tainted
    BY DEF Mark, CInv, IInv, TypeOK
  <1>2. TypeOK /\ ListInv /\ CrashInv
    BY <1>1 DEF CInv, IInv
  <1>3. list \in Seq(Objs) /\ Len(list) \in Nat /\ Len(heads) \in Nat \ {0}
    BY <1>2, Shapes
  <1>4. \A k \in 1 .. Len(list) : list[k] \in Objs /\ Listed(list[k])
    BY <1>3 DEF Listed, Elems
  <1> QED BY <1>1, <1>2, <1>3, <1>4, Twins DEF ListInv, CrashInv

\* A step of o that leaves the list and the head alone.
LEMMA HeadsKept ==
  ASSUME Heads, list \in Seq(Objs), list' = list, heads' = heads, NEW o \in Objs,
         \A p \in Objs : p # o => vfs'[p] = vfs[p],
         vfs[o].pc = "unlink_commit" => vfs'[o].pc = "unlink_commit"
  PROVE  Heads'
  <1>1. \A n : HeadAt(n)' = HeadAt(n)
    BY DEF HeadAt
  <1>2. \A k \in 1 .. Len(list) : list[k] \in Objs
    OBVIOUS
  <1> QED BY <1>1, <1>2 DEF Heads

\* A step of o that leaves the files of the other inodes alone.
LEMMA OneFile ==
  ASSUME Files, UnderWay, WorkLeft, NEW o \in Objs,
         \A p \in Objs : p # o => vfs'[p] = vfs[p],
         \A i \in Inos : i # Ino(o) =>
           /\ nlink'[i] = nlink[i] /\ dead'[i] = dead[i] /\ tsize'[i] = tsize[i]
           /\ isize'[i] = isize[i] /\ pisize'[i] = pisize[i]
           /\ tree'[i] = tree[i] /\ ptree'[i] = ptree[i],
         \A p \in Objs : Ino(p) # Ino(o) /\ Listed(p) => Listed(p)',
         FileOk(Ino(o))', OnItsWay(o)', Covered(Ino(o))',
         vfs[Twin(o)].pc \in Gone \/ OnItsWay(Twin(o))'
  PROVE  Files' /\ UnderWay' /\ WorkLeft'
  <1>1. \A p \in Objs : Ino(p) \in Inos /\ (Ino(p) # Ino(o) => p # o)
    BY Twins
  <1>2. ASSUME NEW i \in Inos PROVE FileOk(i)'
    <2>1. CASE i = Ino(o)
      BY <2>1
    <2>2. CASE i # Ino(o)
      <3>1. \A p \in Objs : Ino(p) = i => vfs'[p] = vfs[p]
        BY <1>1, <2>2
      <3> QED BY <2>2, <3>1 DEF Files, FileOk
    <2> QED BY <2>1, <2>2
  <1>3. ASSUME NEW p \in Objs PROVE OnItsWay(p)'
    <2>1. CASE p = o
      BY <2>1
    <2>2. CASE p = Twin(o)
      <3>1. CASE vfs[p].pc \in Gone
        <4>1. vfs'[p].pc \in Gone
          BY <2>2, <3>1, Twins
        <4> QED BY <4>1 DEF OnItsWay, Gone, Busy
      <3> QED BY <2>2, <3>1
    <2>3. CASE p # o /\ p # Twin(o)
      <3>1. Ino(p) # Ino(o)
        BY <2>3, Twins
      <3>2. vfs'[p] = vfs[p] /\ Ino(p) \in Inos /\ (Listed(p) => Listed(p)')
        BY <1>1, <3>1
      <3> QED BY <3>1, <3>2 DEF UnderWay, OnItsWay
    <2> QED BY <2>1, <2>2, <2>3
  <1>4. ASSUME NEW i \in Inos PROVE Covered(i)'
    <2>1. CASE i = Ino(o)
      BY <2>1
    <2>2. CASE i # Ino(o)
      <3>1. \A p \in Objs : Ino(p) = i => vfs'[p] = vfs[p] /\ (Listed(p) => Listed(p)')
        BY <1>1, <2>2
      <3> QED BY <2>2, <3>1 DEF WorkLeft, Covered, Orphan
    <2> QED BY <2>1, <2>2
  <1> QED BY <1>2, <1>3, <1>4 DEF Files, UnderWay, WorkLeft

\* The truncation that has not stored its size yet is not that of o.
LEMMA OtherWork ==
  ASSUME WorkLeft, NEW o \in Objs, vfs[o].pc # "truncate_del",
         vfs[Twin(o)].pc # "truncate_del"
  PROVE  pisize[Ino(o)] = {isize[Ino(o)]}
  BY Twins DEF WorkLeft, Covered

\* The other VFS inode of a number in use is not.
LEMMA TwinGone ==
  ASSUME CInv, NEW o \in Objs, vfs[o].pc \notin Gone
  PROVE  vfs[Twin(o)].pc \in Gone /\ mode = "up"
  BY InUseMounted DEF CInv, IInv, OneInUse, Gone

-----------------------------------------------------------------------------
(* Every step keeps CrashInv, unless it is a case of Mark.                 *)

LEMMA IgetSafe ==
  ASSUME CInv, Mark, ~tainted', NEW o \in Objs, Iget(o)
  PROVE  CrashInv'
  <1>1. Files /\ Heads /\ UnderWay /\ WorkLeft /\ TypeOK /\ list \in Seq(Objs)
    BY UpFacts DEF Iget
  <1>2. /\ vfs'[o].pc = "idle" /\ \A p \in Objs : p # o => vfs'[p] = vfs[p]
    BY <1>1, Gone1, Shapes DEF Iget, Phases
  <1>3. /\ UNCHANGED <<tsize, heads, nlink, dead, isize, pisize, tree, ptree, list>>
        /\ vfs[o].pc = "none" /\ vfs[Twin(o)].pc = "none" /\ nlink[Ino(o)] = 1 /\ mode' = "up"
    BY DEF Iget, itemVars, linkVars, fileVars
  <1>4. Heads'
    BY <1>1, <1>2, <1>3, HeadsKept
  <1>5. FileOk(Ino(o))'
    BY <1>1, <1>3, Twins DEF Files, FileOk
  <1>6. Covered(Ino(o))'
    BY <1>1, <1>3, OtherWork DEF Covered, Orphan
  <1>7. OnItsWay(o)'
    BY <1>2 DEF OnItsWay, Busy
  <1>8. \A p \in Objs : Listed(p) => Listed(p)'
    BY <1>3 DEF Listed, Elems
  <1>9. Files' /\ UnderWay' /\ WorkLeft'
    BY <1>1, <1>2, <1>3, <1>5, <1>6, <1>7, <1>8, OneFile DEF Gone
  <1> QED BY <1>3, <1>4, <1>9 DEF CrashInv

LEMMA ForgetSafe ==
  ASSUME CInv, Mark, ~tainted', NEW o \in Objs, Forget(o)
  PROVE  CrashInv'
  <1>1. mode = "up" /\ vfs[Twin(o)].pc \in Gone
    BY TwinGone DEF Forget, Gone
  <1>2. Files /\ Heads /\ UnderWay /\ WorkLeft /\ TypeOK /\ list \in Seq(Objs)
    BY <1>1, UpFacts
  <1>3. /\ vfs'[o].pc = "none" /\ \A p \in Objs : p # o => vfs'[p] = vfs[p]
    BY <1>2, Gone1, Shapes DEF Forget, Phases
  <1>4. /\ UNCHANGED <<tsize, heads, nlink, dead, isize, pisize, tree, ptree, list>>
        /\ vfs[o].pc = "idle" /\ nlink[Ino(o)] = 1 /\ mode' = "up"
    BY <1>1 DEF Forget, itemVars, linkVars, fileVars
  <1>5. Heads'
    BY <1>2, <1>3, <1>4, HeadsKept
  <1>6. FileOk(Ino(o))'
    BY <1>2, <1>4, Twins DEF Files, FileOk
  <1>7. Covered(Ino(o))'
    BY <1>1, <1>2, <1>4, OtherWork DEF Covered, Orphan, Gone
  <1>8. OnItsWay(o)'
    BY <1>3 DEF OnItsWay, Busy
  <1>9. \A p \in Objs : Listed(p) => Listed(p)'
    BY <1>4 DEF Listed, Elems
  <1>10. Files' /\ UnderWay' /\ WorkLeft'
    BY <1>1, <1>2, <1>3, <1>4, <1>6, <1>7, <1>8, <1>9, OneFile
  <1> QED BY <1>4, <1>5, <1>10 DEF CrashInv

LEMMA CreateSafe ==
  ASSUME CInv, Mark, ~tainted', NEW o \in Objs, Create(o)
  PROVE  CrashInv'
  <1>1. Files /\ Heads /\ UnderWay /\ WorkLeft /\ TypeOK /\ list \in Seq(Objs)
    BY UpFacts DEF Create
  <1>2. /\ vfs'[o].pc = "idle" /\ \A p \in Objs : p # o => vfs'[p] = vfs[p]
    BY <1>1, Gone1, Shapes DEF Create, Phases
  <1>3. /\ UNCHANGED <<tsize, heads, isize, pisize, tree, ptree, list>>
        /\ vfs[o].pc = "none" /\ vfs[Twin(o)].pc \in Gone /\ mode' = "up"
    BY DEF Create, itemVars, fileVars, Gone
  <1>4. /\ nlink'[Ino(o)] = 1 /\ ~dead'[Ino(o)]
        /\ \A i \in Inos : i # Ino(o) => nlink'[i] = nlink[i] /\ dead'[i] = dead[i]
    BY <1>1, Twins DEF Create, TypeOK
  <1>5. Heads'
    BY <1>1, <1>2, <1>3, HeadsKept
  <1>6. FileOk(Ino(o))'
    BY <1>1, <1>3, <1>4, Twins DEF Files, FileOk
  <1>7. Covered(Ino(o))'
    BY <1>1, <1>3, <1>4, OtherWork DEF Covered, Orphan, Gone
  <1>8. OnItsWay(o)'
    BY <1>2 DEF OnItsWay, Busy
  <1>9. \A p \in Objs : Listed(p) => Listed(p)'
    BY <1>3 DEF Listed, Elems
  <1>10. Files' /\ UnderWay' /\ WorkLeft'
    BY <1>1, <1>2, <1>3, <1>4, <1>6, <1>7, <1>8, <1>9, OneFile
  <1> QED BY <1>3, <1>5, <1>10 DEF CrashInv

LEMMA ExtendSafe ==
  ASSUME CInv, Mark, ~tainted', NEW o \in Objs, NEW s \in Sizes, Extend(o, s)
  PROVE  CrashInv'
  <1>1. mode = "up" /\ vfs[Twin(o)].pc \in Gone
    BY TwinGone DEF Extend, Gone
  <1>2. Files /\ Heads /\ UnderWay /\ WorkLeft /\ TypeOK /\ list \in Seq(Objs)
    BY <1>1, UpFacts
  <1>3. /\ UNCHANGED <<tsize, heads, nlink, dead, vfs, list>>
        /\ vfs[o].pc = "idle" /\ mode' = "up"
    BY <1>1 DEF Extend, itemVars, linkVars
  <1>4. /\ isize'[Ino(o)] = s /\ pisize'[Ino(o)] = {s}
        /\ tree'[Ino(o)] = s /\ ptree'[Ino(o)] = {s}
        /\ \A i \in Inos : i # Ino(o) =>
             /\ isize'[i] = isize[i] /\ pisize'[i] = pisize[i]
             /\ tree'[i] = tree[i] /\ ptree'[i] = ptree[i]
    BY <1>2, Twins DEF Extend, TypeOK
  <1>5. Heads'
    BY <1>2, <1>3, HeadsKept
  <1>6. FileOk(Ino(o))'
    <2>1. ~dead[Ino(o)]
      BY <1>2, <1>3, Twins DEF Files, FileOk, Gone
    <2>2. s <= s
      BY SizesAssumption DEF Sizes
    <2> QED BY <1>3, <1>4, <2>1, <2>2 DEF FileOk
  <1>7. Covered(Ino(o))'
    <2>1. \A p : Listed(p)' <=> Listed(p)
      BY <1>3 DEF Listed, Elems
    <2> QED BY <1>2, <1>3, <1>4, <2>1, Twins DEF WorkLeft, Covered, Orphan
  <1>8. OnItsWay(o)'
    BY <1>3 DEF OnItsWay, Busy
  <1>9. \A p \in Objs : Listed(p) => Listed(p)'
    BY <1>3 DEF Listed, Elems
  <1>10. Files' /\ UnderWay' /\ WorkLeft'
    BY <1>1, <1>2, <1>3, <1>4, <1>6, <1>7, <1>8, <1>9, OneFile
  <1> QED BY <1>3, <1>5, <1>10 DEF CrashInv

\* Truncate and Unlink up to the head: an item is filled, or already there.
LEMMA BeginSafe ==
  ASSUME CInv, Mark, ~tainted', NEW o \in Objs, vfs[o].pc = "idle",
         UNCHANGED <<heads, linkVars, fileVars, list, mode>>,
         \A p \in Objs : p # o => vfs'[p] = vfs[p],
         \A i \in Inos : i # Ino(o) => tsize'[i] = tsize[i],
         vfs'[o].pc \in {"truncate_add", "unlink_add", "cut"},
         vfs'[o].pc = "cut" => Listed(o),
         vfs'[o].pc = "unlink_add" => nlink[Ino(o)] = 1,
         nlink[Ino(o)] = 1 => tsize'[Ino(o)] = vfs'[o].want
  PROVE  CrashInv'
  <1>1. mode = "up" /\ vfs[Twin(o)].pc \in Gone
    BY TwinGone DEF Gone
  <1>2. Files /\ Heads /\ UnderWay /\ WorkLeft /\ TypeOK /\ list \in Seq(Objs)
    BY <1>1, UpFacts
  <1>3. UNCHANGED <<heads, nlink, dead, isize, pisize, tree, ptree, list>> /\ mode' = "up"
    BY <1>1 DEF linkVars, fileVars
  <1>4. \A p : Listed(p)' <=> Listed(p)
    BY <1>3 DEF Listed, Elems
  <1>5. Heads'
    BY <1>2, <1>3, HeadsKept
  <1>6. FileOk(Ino(o))'
    <2>1. ~dead[Ino(o)]
      BY <1>2, Twins DEF Files, FileOk, Gone
    <2> QED BY <1>2, <1>3, <2>1, Twins DEF Files, FileOk
  <1>7. Covered(Ino(o))'
    <2>1. pisize[Ino(o)] = {isize[Ino(o)]}
      BY <1>1, <1>2, OtherWork DEF Gone
    <2> QED BY <1>2, <1>3, <1>4, <2>1, Twins DEF WorkLeft, Covered, Orphan
  <1>8. OnItsWay(o)'
    BY <1>3, <1>4 DEF OnItsWay, Busy, Adding
  <1>9. Files' /\ UnderWay' /\ WorkLeft'
    BY <1>1, <1>2, <1>3, <1>4, <1>6, <1>7, <1>8, OneFile
  <1> QED BY <1>3, <1>5, <1>9 DEF CrashInv

LEMMA TruncateSafe ==
  ASSUME CInv, Mark, ~tainted', NEW o \in Objs, NEW s \in Targets, Truncate(o, s)
  PROVE  CrashInv'
  <1>1. s \in Sizes /\ vfs[o].pc = "idle" /\ mode = "up"
    BY SizesAssumption, TwinGone DEF Sizes, Truncate, Gone
  <1>2. TypeOK /\ Members /\ UNCHANGED <<heads, linkVars, fileVars, list, mode>>
    BY <1>1, UpFacts DEF Truncate
  <1>3. vfs \in [Objs -> [pc : Phases, want : Sizes]] /\ tsize \in [Inos -> Sizes]
    BY <1>2, Shapes DEF TypeOK
  <1>4. CASE Listed(o)
    <2>1. vfs' = [vfs EXCEPT ![o] = [pc |-> "cut", want |-> s]] /\ tsize' = tsize
      BY <1>4 DEF Truncate, itemVars
    <2>2. vfs'[o].pc = "cut" /\ \A p \in Objs : p # o => vfs'[p] = vfs[p]
      BY <1>3, <2>1
    <2>3. nlink[Ino(o)] # 1
      BY <1>1, <1>2, <1>4 DEF Listed, Elems, Members, Busy
    <2> QED BY <1>1, <1>2, <1>4, <2>1, <2>2, <2>3, BeginSafe
  <1>5. CASE ~Listed(o)
    <2>1. AddItem(o, s, "truncate_add")
      BY <1>5 DEF Truncate
    <2>2. /\ vfs'[o].pc = "truncate_add" /\ vfs'[o].want = s
          /\ \A p \in Objs : p # o => vfs'[p] = vfs[p]
      BY <1>3, <2>1 DEF AddItem
    <2>3. tsize'[Ino(o)] = s /\ \A i \in Inos : i # Ino(o) => tsize'[i] = tsize[i]
      BY <1>3, <2>1, Twins DEF AddItem
    <2> QED BY <1>1, <1>2, <2>2, <2>3, BeginSafe
  <1> QED BY <1>4, <1>5

LEMMA UnlinkSafe ==
  ASSUME CInv, Mark, ~tainted', NEW o \in Objs, Unlink(o)
  PROVE  CrashInv'
  <1> DEFINE s == isize[Ino(o)]
  <1>1. vfs[o].pc = "idle" /\ mode = "up" /\ nlink[Ino(o)] = 1
    BY TwinGone DEF Unlink, Gone
  <1>2. TypeOK /\ UNCHANGED <<heads, linkVars, fileVars, list, mode>>
    BY <1>1, UpFacts DEF Unlink
  <1>3. vfs \in [Objs -> [pc : Phases, want : Sizes]] /\ tsize \in [Inos -> Sizes]
    BY <1>2, Shapes DEF TypeOK
  <1>4. AddItem(o, s, "unlink_add")
    BY DEF Unlink
  <1> HIDE DEF s
  <1>5. /\ vfs'[o].pc = "unlink_add" /\ vfs'[o].want = s
        /\ \A p \in Objs : p # o => vfs'[p] = vfs[p]
    BY <1>3, <1>4 DEF AddItem
  <1>6. tsize'[Ino(o)] = s /\ \A i \in Inos : i # Ino(o) => tsize'[i] = tsize[i]
    BY <1>3, <1>4, Twins DEF AddItem
  <1> QED BY <1>1, <1>2, <1>5, <1>6, BeginSafe

\* What is cut from a file that has no blocks behind its end.
LEMMA CutLeaves ==
  ASSUME NEW b \in Int, NEW old \in Int, NEW new \in Int, b <= old
  PROVE  LET t == CutBlocks(b, old, new) IN t \in Int /\ t <= b /\ t <= new
  BY DEF CutBlocks

LEMMA CutSafe ==
  ASSUME CInv, Mark, ~tainted', NEW o \in Objs, Cut(o)
  PROVE  CrashInv'
  <1> DEFINE i == Ino(o)
             t == CutBlocks(tree[i], isize[i], vfs[o].want)
  <1>1. mode = "up" /\ vfs[Twin(o)].pc \in Gone
    BY TwinGone DEF Cut, Gone
  <1>2. Files /\ Heads /\ UnderWay /\ WorkLeft /\ TypeOK /\ list \in Seq(Objs)
    BY <1>1, UpFacts
  <1>3. /\ vfs'[o].pc = "setsize" /\ vfs'[o].want = vfs[o].want
        /\ \A p \in Objs : p # o => vfs'[p] = vfs[p]
    BY <1>2, Gone1, Shapes DEF Cut, Phases, Busy
  <1>4. /\ UNCHANGED <<tsize, heads, nlink, dead, isize, pisize, list>>
        /\ vfs[o].pc = "cut" /\ mode' = "up"
    BY <1>1 DEF Cut, itemVars, linkVars
  <1>5. /\ tree'[i] = t /\ ptree'[i] = ptree[i] \cup {t}
        /\ \A j \in Inos : j # i => tree'[j] = tree[j] /\ ptree'[j] = ptree[j]
    BY <1>2, Twins DEF Cut, TypeOK
  <1>6. /\ tree[i] \in Int /\ isize[i] \in Int /\ vfs[o].want \in Int
        /\ \A s \in pisize[i] : s \in Int
    <2>1. vfs[o].want \in Sizes
      BY <1>2, Shapes
    <2>2. /\ tree[i] \in Sizes /\ isize[i] \in Sizes /\ pisize[i] \subseteq Sizes
          /\ Sizes \subseteq Int
      BY <1>2, Twins DEF TypeOK, Sizes
    <2> QED BY <2>1, <2>2
  <1>7. /\ isize[i] \in pisize[i] /\ tree[i] \in ptree[i] /\ ~dead[i]
        /\ \A x \in ptree[i], s \in pisize[i] : x <= s
    BY <1>2, <1>4, Twins DEF Files, FileOk, Gone
  <1>8. tree[i] <= isize[i] /\ t <= tree[i] /\ t <= vfs[o].want /\ t \in Int
    <2>1. tree[i] <= isize[i]
      BY <1>7
    <2> QED BY <1>6, <2>1, CutLeaves
  <1> HIDE DEF t
  <1>9. Heads'
    BY <1>2, <1>3, <1>4, HeadsKept
  <1>10. FileOk(Ino(o))'
    <2>1. \A s \in pisize[i] : t <= s
      <3> TAKE s \in pisize[i]
      <3>1. tree[i] <= s /\ s \in Int
        BY <1>6, <1>7
      <3> QED BY <1>6, <1>8, <3>1
    <2> QED BY <1>4, <1>5, <1>7, <2>1 DEF FileOk
  <1>11. \A p : Listed(p)' <=> Listed(p)
    BY <1>4 DEF Listed, Elems
  <1>12. Covered(Ino(o))'
    <2>1. pisize[i] = {isize[i]}
      BY <1>1, <1>2, <1>4, OtherWork DEF Gone
    <2> QED BY <1>2, <1>4, <1>11, <2>1, Twins DEF WorkLeft, Covered, Orphan
  <1>13. OnItsWay(o)'
    BY <1>2, <1>3, <1>4, <1>5, <1>8, <1>11 DEF UnderWay, OnItsWay, Busy, Adding
  <1>14. Files' /\ UnderWay' /\ WorkLeft'
    BY <1>1, <1>2, <1>3, <1>4, <1>5, <1>10, <1>11, <1>12, <1>13, OneFile
  <1> QED BY <1>4, <1>9, <1>14 DEF CrashInv

LEMMA SetSizeSafe ==
  ASSUME CInv, Mark, ~tainted', NEW o \in Objs, SetSize(o)
  PROVE  CrashInv'
  <1> DEFINE i == Ino(o)
  <1>1. mode = "up" /\ vfs[Twin(o)].pc \in Gone
    BY TwinGone DEF SetSize, Gone
  <1>2. Files /\ Heads /\ UnderWay /\ WorkLeft /\ TypeOK /\ list \in Seq(Objs)
    BY <1>1, UpFacts
  <1>3. /\ vfs'[o].pc = "truncate_del" /\ vfs'[o].want = vfs[o].want
        /\ \A p \in Objs : p # o => vfs'[p] = vfs[p]
    BY <1>2, Gone1, Shapes DEF SetSize, Phases, Busy
  <1>4. /\ UNCHANGED <<tsize, heads, nlink, dead, tree, list>>
        /\ vfs[o].pc = "setsize" /\ mode' = "up"
    BY <1>1 DEF SetSize, itemVars, linkVars
  <1>5. /\ ptree'[i] = {tree[i]} /\ isize'[i] = vfs[o].want
        /\ pisize'[i] = pisize[i] \cup {vfs[o].want}
        /\ \A j \in Inos : j # i =>
             ptree'[j] = ptree[j] /\ isize'[j] = isize[j] /\ pisize'[j] = pisize[j]
    BY <1>2, Twins DEF SetSize, TypeOK
  <1>6. /\ tree[i] \in ptree[i] /\ ~dead[i]
        /\ \A x \in ptree[i], s \in pisize[i] : x <= s
    BY <1>2, <1>4, Twins DEF Files, FileOk, Gone
  <1>7. tree[i] <= vfs[o].want
    BY <1>2, <1>4 DEF UnderWay, OnItsWay
  <1>8. Heads'
    BY <1>2, <1>3, <1>4, HeadsKept
  <1>9. FileOk(Ino(o))'
    BY <1>4, <1>5, <1>6, <1>7 DEF FileOk
  <1>10. \A p : Listed(p)' <=> Listed(p)
    BY <1>4 DEF Listed, Elems
  <1>11. Covered(Ino(o))'
    BY <1>2, <1>3, <1>4, <1>10, Twins DEF WorkLeft, Covered, Orphan
  <1>12. OnItsWay(o)'
    BY <1>2, <1>3, <1>4, <1>10 DEF UnderWay, OnItsWay, Busy, Adding
  <1>13. Files' /\ UnderWay' /\ WorkLeft'
    BY <1>1, <1>2, <1>3, <1>4, <1>5, <1>9, <1>10, <1>11, <1>12, OneFile
  <1> QED BY <1>4, <1>8, <1>13 DEF CrashInv

LEMMA EvictSafe ==
  ASSUME CInv, Mark, ~tainted', NEW o \in Objs, Evict(o) \/ EvictFails(o)
  PROVE  CrashInv'
  <1> DEFINE i == Ino(o)
  <1>1. /\ mode = "up" /\ vfs[Twin(o)].pc \in Gone
        /\ vfs[o].pc = "idle" /\ nlink[i] = 0
    BY TwinGone DEF Evict, EvictFails, Gone
  <1>2. Files /\ Heads /\ UnderWay /\ WorkLeft /\ TypeOK /\ list \in Seq(Objs)
    BY <1>1, UpFacts
  <1>3. /\ vfs'[o].pc = "freed" /\ \A p \in Objs : p # o => vfs'[p] = vfs[p]
    BY <1>2, Gone1, Shapes DEF Evict, EvictFails, Phases
  <1>4. UNCHANGED <<tsize, heads, nlink, list>> /\ mode' = "up"
    BY <1>1 DEF Evict, EvictFails, itemVars, linkVars
  <1>5. \/ UNCHANGED <<dead, isize, pisize, tree, ptree>>
        \/ /\ dead'[i] /\ isize'[i] = 0 /\ pisize'[i] = {0} /\ tree'[i] = 0 /\ ptree'[i] = {0}
           /\ \A j \in Inos : j # i =>
                /\ dead'[j] = dead[j] /\ isize'[j] = isize[j] /\ pisize'[j] = pisize[j]
                /\ tree'[j] = tree[j] /\ ptree'[j] = ptree[j]
    BY <1>2, Twins DEF Evict, EvictFails, FreeInode, TypeOK, linkVars, fileVars
  <1>6. Heads'
    BY <1>1, <1>2, <1>3, <1>4, HeadsKept
  <1>7. FileOk(Ino(o))'
    <2>1. \A p \in Objs : Ino(p) = i => vfs'[p].pc \in Gone
      BY <1>1, <1>3, Twins DEF Gone
    <2> QED BY <1>1, <1>2, <1>4, <1>5, <2>1, Twins DEF Files, FileOk
  <1>8. \A p : Listed(p)' <=> Listed(p)
    BY <1>4 DEF Listed, Elems
  <1>9. Covered(Ino(o))'
    <2>1. pisize[i] = {isize[i]}
      BY <1>1, <1>2, OtherWork DEF Gone
    <2> QED BY <1>2, <1>4, <1>5, <1>8, <2>1, Twins DEF WorkLeft, Covered, Orphan
  <1>10. OnItsWay(o)'
    BY <1>3 DEF OnItsWay, Busy
  <1>11. Files' /\ UnderWay' /\ WorkLeft'
    BY <1>1, <1>2, <1>3, <1>4, <1>5, <1>7, <1>8, <1>9, <1>10, OneFile
  <1> QED BY <1>4, <1>6, <1>11 DEF CrashInv

\* The commit of the unlink of o fences the head that o was added with: older
\* heads are gone.
LEMMA CommitFences ==
  ASSUME Heads, TypeOK, Distinct, NEW o \in Objs, UnlinkCommit(o),
         NEW p \in 1 .. Len(list), list[p] = o
  PROVE  /\ p <= Len(heads) => Len(heads') = p
         /\ p > Len(heads) => heads' = heads
         /\ Len(heads') <= Len(heads)
         /\ \A j \in 1 .. Len(heads') : heads'[j] = HeadAt(Len(heads') - j + 1)
  <1> DEFINE L == Len(heads)
             K == {k \in 1 .. L : heads[k] = Ino(o)}
             m == CHOOSE k \in K : \A l \in K : l <= k
  <1>1. /\ L \in Nat \ {0} /\ Len(list) \in Nat /\ heads \in Seq(Inos \cup {NoIno})
        /\ \A k \in 1 .. Len(list) : list[k] \in Objs
    BY Shapes
  <1>2. ASSUME NEW k \in 1 .. L PROVE heads[k] = Ino(o) <=> L - k + 1 = p
    <2>1. L - k + 1 \in 1 .. Len(list) + 1
      BY <1>1 DEF Heads
    <2>2. CASE L - k + 1 = Len(list) + 1
      <3>1. heads[k] = NoIno
        BY <2>2 DEF Heads, HeadAt
      <3> QED BY <1>1, <2>2, <3>1, Twins
    <2>3. CASE L - k + 1 # Len(list) + 1
      <3>1. L - k + 1 \in 1 .. Len(list)
        BY <1>1, <2>1, <2>3
      <3>2. heads[k] = Ino(list[L - k + 1])
        BY <2>3 DEF Heads, HeadAt
      <3> QED BY <3>1, <3>2 DEF Distinct
    <2> QED BY <2>2, <2>3
  <1>3. heads' = IF K = {} THEN heads ELSE SubSeq(heads, m, L)
    BY DEF UnlinkCommit
  <1>4. CASE p > L
    <2>1. K = {}
      BY <1>1, <1>2, <1>4
    <2>2. heads' = heads
      BY <1>3, <2>1
    <2> QED BY <1>1, <1>4, <2>2 DEF Heads
  <1>5. CASE p <= L
    <2>1. K = {L - p + 1}
      <3>1. L - p + 1 \in 1 .. L /\ L - (L - p + 1) + 1 = p
        BY <1>1, <1>5
      <3>2. \A k \in K : k = L - p + 1
        BY <1>1, <1>2
      <3>3. L - p + 1 \in K
        BY <1>2, <3>1
      <3> QED BY <3>2, <3>3
    <2>2. m = L - p + 1
      <3> DEFINE q == L - p + 1
      <3>1. q \in Int /\ K = {q}
        BY <1>1, <2>1
      <3>2. q <= q
        BY <3>1
      <3>3. \E k \in K : \A l \in K : l <= k
        BY <3>1, <3>2
      <3>4. m \in K
        BY <3>3
      <3> QED BY <3>1, <3>4
    <2> HIDE DEF m, K
    <2>3. heads' = SubSeq(heads, L - p + 1, L)
      BY <1>3, <2>1, <2>2
    <2>4. /\ Len(heads') = p
          /\ \A j \in 1 .. p : heads'[j] = heads[L - p + j] /\ L - p + j \in 1 .. L
      BY <1>1, <1>5, <2>3
    <2>5. ASSUME NEW j \in 1 .. p PROVE heads'[j] = HeadAt(p - j + 1)
      <3>1. heads[L - p + j] = HeadAt(L - (L - p + j) + 1)
        BY <2>4 DEF Heads
      <3>2. L - (L - p + j) + 1 = p - j + 1
        BY <1>1
      <3> QED BY <2>4, <3>1, <3>2
    <2> QED BY <1>1, <1>5, <2>4, <2>5
  <1> QED BY <1>1, <1>4, <1>5

LEMMA UnlinkCommitSafe ==
  ASSUME CInv, Mark, ~tainted', NEW o \in Objs, UnlinkCommit(o)
  PROVE  CrashInv'
  <1> DEFINE i == Ino(o)
  <1>1. mode = "up" /\ vfs[Twin(o)].pc \in Gone /\ vfs[o].pc = "unlink_commit"
    BY TwinGone DEF UnlinkCommit, Gone
  <1>2. /\ Files /\ Heads /\ UnderWay /\ WorkLeft /\ TypeOK /\ Distinct
        /\ list \in Seq(Objs) /\ Len(list) \in Nat /\ Len(heads) \in Nat
        /\ \A k \in 1 .. Len(list) : list[k] \in Objs
    BY <1>1, UpFacts
  <1>3. /\ vfs'[o].pc = "idle" /\ \A p \in Objs : p # o => vfs'[p] = vfs[p]
    BY <1>2, Gone1, Shapes DEF UnlinkCommit, Phases
  <1>4. /\ UNCHANGED <<tsize, dead, isize, pisize, tree, ptree, list>> /\ mode' = "up"
    BY <1>1 DEF UnlinkCommit, itemVars, fileVars
  <1>5. nlink'[i] = 0 /\ \A j \in Inos : j # i => nlink'[j] = nlink[j]
    BY <1>2, Twins DEF UnlinkCommit, TypeOK
  <1>6. Listed(o)
    BY <1>1, <1>2 DEF UnderWay, OnItsWay, Busy, Adding
  <1>7. PICK p \in 1 .. Len(list) : list[p] = o
    BY <1>6 DEF Listed, Elems
  <1>8. /\ p <= Len(heads) => Len(heads') = p
        /\ p > Len(heads) => heads' = heads
        /\ Len(heads') <= Len(heads)
        /\ \A j \in 1 .. Len(heads') : heads'[j] = HeadAt(Len(heads') - j + 1)
    BY <1>2, <1>7, CommitFences
  <1>9. Heads'
    <2>1. Len(heads') \in Nat
      BY <1>2, CommitHeads, Shapes
    <2>2. \A n : HeadAt(n)' = HeadAt(n)
      BY <1>4 DEF HeadAt
    <2>3. ASSUME NEW k \in 1 .. Len(list), vfs'[list[k]].pc # "unlink_commit"
          PROVE  Len(heads') <= k
      <3>1. CASE k = p
        <4>1. Len(heads') = p \/ (p > Len(heads) /\ Len(heads') <= Len(heads))
          BY <1>2, <1>8
        <4> QED BY <1>2, <2>1, <3>1, <4>1
      <3>2. CASE k # p
        <4>1. list[k] \in Objs /\ list[k] # o
          BY <1>2, <1>7, <3>2 DEF Distinct
        <4>2. Len(heads) <= k
          BY <1>2, <1>3, <2>3, <4>1 DEF Heads
        <4> QED BY <1>2, <1>8, <2>1, <4>2
      <3> QED BY <3>1, <3>2
    <2>4. Len(heads') <= Len(list) + 1
      BY <1>2, <1>8, <2>1 DEF Heads
    <2> QED BY <1>4, <1>8, <2>2, <2>3, <2>4 DEF Heads
  <1>10. FileOk(Ino(o))'
    <2>1. ~dead[i]
      BY <1>1, <1>2, Twins DEF Files, FileOk, Gone
    <2> QED BY <1>2, <1>4, <2>1, Twins DEF Files, FileOk
  <1>11. \A q : Listed(q)' <=> Listed(q)
    BY <1>4 DEF Listed, Elems
  <1>12. Covered(Ino(o))'
    <2>1. pisize[i] = {isize[i]}
      BY <1>1, <1>2, OtherWork DEF Gone
    <2> QED BY <1>4, <1>6, <1>11, <2>1 DEF Covered
  <1>13. OnItsWay(o)'
    BY <1>3 DEF OnItsWay, Busy
  <1>14. Files' /\ UnderWay' /\ WorkLeft'
    BY <1>1, <1>2, <1>3, <1>4, <1>5, <1>10, <1>11, <1>12, <1>13, OneFile
  <1> QED BY <1>4, <1>9, <1>14 DEF CrashInv

LEMMA AddHeadSafe ==
  ASSUME CInv, Mark, ~tainted', NEW o \in Objs, AddHead(o)
  PROVE  CrashInv'
  <1> DEFINE i == Ino(o)
             n == Len(list)
             L == Len(heads)
             NewHeadAt(k) == IF k = Len(list') + 1 THEN NoIno ELSE Ino(list'[k])
  <1>1. /\ mode = "up" /\ vfs[Twin(o)].pc \in Gone
        /\ vfs[o].pc \in {"truncate_add", "unlink_add"}
    BY TwinGone DEF AddHead, Gone
  <1>2. /\ Files /\ Heads /\ UnderWay /\ WorkLeft /\ TypeOK /\ ListInv
        /\ list \in Seq(Objs) /\ n \in Nat /\ L \in Nat \ {0}
        /\ \A k \in 1 .. n : list[k] \in Objs
    BY <1>1, UpFacts
  <1>3. /\ vfs'[o].want = vfs[o].want /\ \A p \in Objs : p # o => vfs'[p] = vfs[p]
        /\ \/ vfs[o].pc = "truncate_add" /\ vfs'[o].pc = "cut" /\ heads' = <<i>>
           \/ vfs[o].pc = "unlink_add" /\ vfs'[o].pc = "unlink_commit" /\ heads' = Append(heads, i)
    BY <1>2, Gone1, Shapes DEF AddHead, Phases, Busy
  <1>4. /\ UNCHANGED <<tsize, nlink, dead, isize, pisize, tree, ptree>> /\ mode' = "up"
    BY <1>1 DEF AddHead, itemVars, linkVars, fileVars
  <1>5. /\ list' = <<o>> \o list /\ Len(list') = n + 1 /\ list'[1] = o
        /\ \A k \in 1 .. n : list'[k + 1] = list[k]
    BY <1>2 DEF AddHead
  <1>6. \A k \in 1 .. n : list[k] # o
    BY <1>2 DEF AddHead, ListInv, NewItem
  <1>7. Listed(o)' /\ \A p : Listed(p) => Listed(p)'
    <2>1. 1 \in 1 .. Len(list') /\ \A k \in 1 .. n : k + 1 \in 1 .. Len(list')
      BY <1>2, <1>5
    <2> QED BY <1>5, <2>1 DEF Listed, Elems
  <1>8. /\ NewHeadAt(1) = i
        /\ \A k \in 1 .. n + 1 : NewHeadAt(k + 1) = HeadAt(k)
    <2>1. NewHeadAt(1) = i
      BY <1>2, <1>5 DEF HeadAt
    <2>2. ASSUME NEW k \in 1 .. n + 1 PROVE NewHeadAt(k + 1) = HeadAt(k)
      <3>1. CASE k = n + 1
        BY <1>2, <1>5, <3>1 DEF HeadAt
      <3>2. CASE k # n + 1
        <4>1. k \in 1 .. n /\ k + 1 # Len(list') + 1
          BY <1>2, <1>5, <3>2
        <4> QED BY <1>5, <3>2, <4>1 DEF HeadAt
      <3> QED BY <3>1, <3>2
    <2> QED BY <2>1, <2>2
  <1> HIDE DEF NewHeadAt
  <1>9. Heads'
    <2>1. CASE heads' = <<i>>
      <3>1. Len(heads') = 1 /\ heads'[1] = i
        BY <2>1
      <3>2. \A j \in 1 .. Len(heads') : heads'[j] = NewHeadAt(Len(heads') - j + 1)
        BY <1>8, <3>1
      <3> QED BY <1>2, <1>5, <3>1, <3>2 DEF Heads, HeadAt, NewHeadAt
    <2>2. CASE heads' = Append(heads, i) /\ vfs'[o].pc = "unlink_commit"
      <3>1. Len(heads') = L + 1 /\ heads'[L + 1] = i /\ \A j \in 1 .. L : heads'[j] = heads[j]
        BY <1>2, <2>2, Shapes
      <3>2. ASSUME NEW j \in 1 .. Len(heads')
            PROVE  heads'[j] = NewHeadAt(Len(heads') - j + 1)
        <4>1. CASE j = L + 1
          <5>1. Len(heads') - j + 1 = 1
            BY <1>2, <3>1, <4>1
          <5> QED BY <1>8, <3>1, <4>1, <5>1
        <4>2. CASE j # L + 1
          <5>1. j \in 1 .. L /\ L - j + 1 \in 1 .. n + 1
            BY <1>2, <3>1, <4>2 DEF Heads
          <5>2. Len(heads') - j + 1 = (L - j + 1) + 1
            BY <1>2, <3>1, <5>1
          <5>3. heads'[j] = HeadAt(L - j + 1)
            BY <1>2, <3>1, <5>1 DEF Heads
          <5> QED BY <1>8, <5>1, <5>2, <5>3
        <4> QED BY <4>1, <4>2
      <3>3. ASSUME NEW k \in 1 .. Len(list'), vfs'[list'[k]].pc # "unlink_commit"
            PROVE  Len(heads') <= k
        <4>1. k # 1
          BY <1>5, <2>2, <3>3
        <4>2. k - 1 \in 1 .. n /\ (k - 1) + 1 = k
          BY <1>2, <1>5, <4>1
        <4>3. list'[k] = list[k - 1] /\ list[k - 1] \in Objs /\ list[k - 1] # o
          BY <1>2, <1>5, <1>6, <4>2
        <4>4. L <= k - 1
          BY <1>2, <1>3, <3>3, <4>2, <4>3 DEF Heads
        <4> QED BY <1>2, <3>1, <4>2, <4>4
      <3>4. Len(heads') <= Len(list') + 1
        BY <1>2, <1>5, <3>1 DEF Heads
      <3> QED BY <3>2, <3>3, <3>4 DEF Heads, HeadAt, NewHeadAt
    <2> QED BY <1>3, <2>1, <2>2
  <1>10. FileOk(Ino(o))'
    <2>1. ~dead[i]
      BY <1>1, <1>2, Twins DEF Files, FileOk, Gone
    <2> QED BY <1>2, <1>4, <2>1, Twins DEF Files, FileOk
  <1>11. Covered(Ino(o))'
    <2>1. pisize[i] = {isize[i]}
      BY <1>1, <1>2, OtherWork DEF Gone
    <2> QED BY <1>4, <1>7, <2>1 DEF Covered
  <1>12. OnItsWay(o)'
    BY <1>2, <1>3, <1>4, <1>7 DEF UnderWay, OnItsWay, Busy
  <1>13. Files' /\ UnderWay' /\ WorkLeft'
    BY <1>1, <1>2, <1>3, <1>4, <1>7, <1>10, <1>11, <1>12, OneFile
  <1> QED BY <1>4, <1>9, <1>13 DEF CrashInv

\* The heads when o has left the list, unless the media may still hold o as head.
LEMMA DelHeads ==
  ASSUME TypeOK, Heads, Agree, Distinct, NEW o \in Objs, Listed(o), ListDel(o),
         \A p \in Objs : p # o => vfs'[p] = vfs[p],
         ~(Ino(o) \in Elems(heads'))
  PROVE  Heads' /\ \A p \in Objs : Ino(p) # Ino(o) /\ Listed(p) => Listed(p)'
  <1> DEFINE k == Place(o)
             n == Len(list)
             L == Len(heads)
             NewHeadAt(m) == IF m = Len(list') + 1 THEN NoIno ELSE Ino(list'[m])
  <1>1. k \in 1 .. n /\ list[k] = o /\ n \in Nat /\ L \in Nat \ {0} /\ list \in Seq(Objs)
    BY Placed, Shapes
  <1>2. /\ list' \in Seq(Objs) /\ Len(list') = n - 1
        /\ \A j \in 1 .. k - 1 : list'[j] = list[j]
        /\ \A j \in k .. n - 1 : list'[j] = list[j + 1]
    BY <1>1, RemoveAtIndex DEF ListDel
  <1>3. \A j \in 1 .. n : list[j] \in Objs
    BY <1>1
  <1>4. /\ k = 1 => heads' = <<next[Ino(o)]>>
        /\ k # 1 => heads' = heads
    BY DEF ListDel
  <1> HIDE DEF k, n
  <1>5. ASSUME NEW p \in Objs, Ino(p) # Ino(o), Listed(p) PROVE Listed(p)'
    <2>1. PICK j \in 1 .. n : list[j] = p
      BY <1>5 DEF Listed, Elems, n
    <2>2. j # k
      BY <1>1, <1>5, <2>1
    <2>3. CASE j < k
      <3>1. j \in 1 .. Len(list') /\ list'[j] = p
        BY <1>1, <1>2, <2>1, <2>3
      <3> QED BY <3>1 DEF Listed, Elems
    <2>4. CASE j > k
      <3>1. j - 1 \in 1 .. Len(list') /\ j - 1 \in k .. n - 1 /\ (j - 1) + 1 = j
        BY <1>1, <1>2, <2>4
      <3>2. list'[j - 1] = p
        BY <1>2, <2>1, <3>1
      <3> QED BY <3>1, <3>2 DEF Listed, Elems
    <2> QED BY <1>1, <2>2, <2>3, <2>4
  <1>6. CASE k = 1
    <2>1. Len(heads') = 1 /\ heads'[1] = next[Ino(o)]
      BY <1>4, <1>6
    <2>2. heads'[1] = IF list' = <<>> THEN NoIno ELSE Ino(list'[1])
      <3>1. Agree'
        BY ListDelAgree
      <3> QED BY <2>1, <3>1 DEF Agree, Head0
    <2>3. heads'[1] = NewHeadAt(1)
      <3>1. list' = <<>> <=> 1 = Len(list') + 1
        BY <1>1, <1>2
      <3> QED BY <2>2, <3>1
    <2>4. Len(heads') <= Len(list') + 1 /\ \A j \in 1 .. Len(list') : Len(heads') <= j
      BY <1>1, <1>2, <2>1
    <2>5. \A j \in 1 .. Len(heads') : heads'[j] = NewHeadAt(Len(heads') - j + 1)
      BY <2>1, <2>3
    <2> QED BY <1>5, <2>4, <2>5 DEF Heads, HeadAt
  <1>7. CASE k # 1
    <2>1. heads' = heads
      BY <1>4, <1>7
    <2>2. \A j \in 1 .. L : /\ L - j + 1 \in 1 .. L
                            /\ heads[j] = HeadAt(L - j + 1)
      BY <1>1 DEF Heads
    <2>3. L < k
      <3> SUFFICES ASSUME k <= L PROVE FALSE
        BY <1>1
      <3>1. L - k + 1 \in 1 .. L /\ L - (L - k + 1) + 1 = k
        BY <1>1
      <3>2. heads[L - k + 1] = HeadAt(k)
        BY <2>2, <3>1
      <3>3. k # n + 1
        BY <1>1
      <3>4. HeadAt(k) = Ino(o)
        BY <1>1, <3>3 DEF HeadAt, n
      <3> QED BY <2>1, <3>1, <3>2, <3>4 DEF Elems
    <2>4. ASSUME NEW j \in 1 .. L PROVE heads[j] = NewHeadAt(L - j + 1)
      <3> DEFINE m == L - j + 1
      <3>1. m \in 1 .. L /\ heads[j] = HeadAt(m)
        BY <2>2
      <3> HIDE DEF m
      <3>2. m # n + 1 /\ m # Len(list') + 1 /\ m \in 1 .. k - 1
        BY <1>1, <1>2, <2>3, <3>1
      <3>3. heads[j] = Ino(list[m])
        BY <3>1, <3>2 DEF HeadAt, n
      <3>4. NewHeadAt(m) = Ino(list[m])
        BY <1>2, <3>2
      <3> QED BY <3>3, <3>4 DEF m
    <2>5. L <= Len(list') + 1
      BY <1>1, <1>2, <2>3
    <2>6. ASSUME NEW j \in 1 .. Len(list'), vfs'[list'[j]].pc # "unlink_commit"
          PROVE  L <= j
      <3>1. CASE j < k
        <4>1. j \in 1 .. n /\ list'[j] = list[j] /\ list[j] \in Objs
          BY <1>1, <1>2, <1>3, <3>1
        <4>2. Ino(list[j]) # Ino(o)
          BY <1>1, <3>1, <4>1 DEF Distinct, n
        <4> QED BY <2>6, <4>1, <4>2 DEF Heads, n
      <3>2. CASE j >= k
        BY <1>1, <1>2, <2>3, <3>2
      <3> QED BY <1>1, <1>2, <3>1, <3>2
    <2> HIDE DEF L
    <2>7. L = Len(heads')
      BY <2>1 DEF L
    <2> QED BY <1>5, <2>1, <2>4, <2>5, <2>6, <2>7 DEF Heads, HeadAt
  <1> QED BY <1>6, <1>7

LEMMA TruncateDelSafe ==
  ASSUME CInv, Mark, ~tainted', NEW o \in Objs, TruncateDel(o)
  PROVE  CrashInv'
  <1> DEFINE i == Ino(o)
  <1>1. mode = "up" /\ mode' = "up" /\ vfs[o].pc \in {"truncate_del", "freed"}
    BY InUseMounted DEF TruncateDel, CInv
  <1>2. /\ Files /\ Heads /\ UnderWay /\ WorkLeft /\ TypeOK /\ Agree /\ Distinct /\ Members
        /\ list \in Seq(Objs)
    BY <1>1, UpFacts
  <1>3. /\ \/ vfs[o].pc = "truncate_del" /\ vfs'[o].pc = "idle"
           \/ vfs[o].pc = "freed" /\ vfs'[o].pc = "none"
        /\ \A p \in Objs : p # o => vfs'[p] = vfs[p]
    BY <1>2, Gone1, Shapes DEF TruncateDel, Phases
  <1>4. UNCHANGED <<tsize, nlink, dead, isize, tree>>
    BY DEF TruncateDel, linkVars
  <1>5. OnItsWay(o)'
    BY <1>3 DEF OnItsWay, Busy
  <1>6. \A p \in Objs : Ino(p) = i /\ vfs[p].pc \in Gone => vfs'[p].pc \in Gone
    BY <1>3 DEF Gone
  <1>7. dead[i] => vfs'[o].pc \in Gone
    BY <1>2, <1>3, Twins DEF Files, FileOk, Gone
  <1>8. CASE ~Listed(o)
    <2>1. UNCHANGED <<list, heads, pisize, ptree>>
      BY <1>8 DEF TruncateDel
    <2>2. vfs[o].pc = "freed"
      BY <1>1, <1>2, <1>8 DEF UnderWay, OnItsWay, Busy, Adding
    <2>3. \A p : Listed(p)' <=> Listed(p)
      BY <2>1 DEF Listed, Elems
    <2>4. Heads'
      BY <1>2, <1>3, <2>1, <2>2, HeadsKept
    <2>5. FileOk(Ino(o))'
      BY <1>2, <1>4, <1>6, <2>1, Twins DEF Files, FileOk
    <2>6. Covered(Ino(o))'
      <3>1. \A p \in Objs : vfs[p].pc = "truncate_del" => vfs'[p].pc = "truncate_del"
        BY <1>3, <2>2
      <3> QED BY <1>2, <1>4, <2>1, <2>3, <3>1, Twins DEF WorkLeft, Covered, Orphan
    <2>7. OnItsWay(Twin(o))'
      <3>1. vfs'[Twin(o)] = vfs[Twin(o)]
        BY <1>3, Twins
      <3> QED BY <1>2, <1>4, <2>3, <3>1, Twins DEF UnderWay, OnItsWay
    <2>8. Files' /\ UnderWay' /\ WorkLeft'
      BY <1>2, <1>3, <1>4, <1>5, <2>1, <2>3, <2>5, <2>6, <2>7, OneFile
    <2> QED BY <1>1, <2>4, <2>8 DEF CrashInv
  <1>9. CASE Listed(o)
    <2>1. /\ ListDel(o) /\ pisize' = [pisize EXCEPT ![i] = {isize[i]}]
          /\ ptree' = [ptree EXCEPT ![i] = {tree[i]}]
      BY <1>9 DEF TruncateDel
    <2>2. /\ pisize'[i] = {isize[i]} /\ ptree'[i] = {tree[i]}
          /\ \A j \in Inos : j # i => pisize'[j] = pisize[j] /\ ptree'[j] = ptree[j]
      BY <1>2, <2>1, Twins DEF TypeOK
    <2>3. Left(o)
      <3>1. \A j \in 1 .. Len(list') : list'[j] # o
        BY <1>2, <1>9, <2>1, ListDelAgree
      <3> QED BY <1>1, <1>9, <3>1 DEF Left, Elems
    <2>4. ~Orphan(i)
      BY <2>3 DEF Mark, OrphanDropped, Orphan
    <2>5. ~(i \in Elems(heads'))
      BY <2>3 DEF Mark, StaleHead
    <2>6. Heads' /\ \A p \in Objs : Ino(p) # Ino(o) /\ Listed(p) => Listed(p)'
      BY <1>2, <1>3, <1>9, <2>1, <2>5, DelHeads
    <2>7. FileOk(Ino(o))'
      <3>1. isize[i] \in pisize[i] /\ tree[i] \in ptree[i]
        BY <1>2, Twins DEF Files, FileOk
      <3>2. dead[i] => \A p \in Objs : Ino(p) = i => vfs'[p].pc \in Gone
        BY <1>2, <1>6, Twins DEF Files, FileOk
      <3> QED BY <1>2, <1>4, <2>2, <3>1, <3>2, Twins DEF Files, FileOk
    <2>8. Covered(Ino(o))'
      BY <1>4, <2>2, <2>4 DEF Covered, Orphan
    <2>9. vfs[Twin(o)].pc \in Gone
      BY <1>2, <1>9 DEF Members, Listed, Elems
    <2>10. Files' /\ UnderWay' /\ WorkLeft'
      BY <1>2, <1>3, <1>4, <1>5, <2>2, <2>6, <2>7, <2>8, <2>9, OneFile
    <2> QED BY <1>1, <2>6, <2>10 DEF CrashInv
  <1> QED BY <1>8, <1>9

\* Whatever the media holds when power fails, the inodes with work left are met
\* from the head it holds.
LEMMA CrashSafe ==
  ASSUME CInv, Mark, ~tainted', Crash
  PROVE  CrashInv'
  <1>1. ~tainted /\ TypeOK /\ Files /\ IInv
    BY DEF Mark, CInv, IInv, TypeOK, CrashInv
  <1>2. PICK h \in Elems(heads) : heads' = <<h>> /\ rec' = h
    BY DEF Crash
  <1>3. /\ next' = next /\ nlink' = nlink /\ dead' = dead /\ mode' = "recover"
        /\ \A o \in Objs : vfs'[o].pc = "none"
        /\ \A i \in Inos : /\ isize'[i] \in pisize[i] /\ tree'[i] \in ptree[i]
                           /\ pisize'[i] = {isize'[i]} /\ ptree'[i] = {tree'[i]}
    BY DEF Crash, itemVars, linkVars, None
  <1>4. Len(heads') = 1 /\ Head0' = h
    BY <1>2 DEF Head0
  <1>5. Files'
    BY <1>1, <1>3 DEF Files, FileOk, Gone
  <1>6. ASSUME NEW i \in Inos, Orphan(i) PROVE i \in Reach(h)
    <2>1. CASE mode = "up"
      <3>1. /\ Agree /\ Members /\ Heads /\ UnderWay /\ WorkLeft
            /\ \A k \in 1 .. Len(list) : list[k] \in Objs
        BY <2>1, UpFacts
      <3>2. PICK k \in 1 .. Len(list) : Ino(list[k]) = i
        BY <1>6, <3>1 DEF WorkLeft, Covered, Listed, Elems
      <3>3. vfs[list[k]].pc # "unlink_commit"
        BY <1>6, <3>1, <3>2 DEF UnderWay, OnItsWay, Orphan
      <3> QED BY <1>1, <3>1, <3>2, <3>3, HeadsReach
    <2>2. CASE mode = "recover"
      <3>1. Ahead
        BY <1>1, <2>2 DEF CInv, CrashInv
      <3>2. Len(heads) = 1 /\ i \in Reach(rec) /\ Reach(rec) \subseteq Reach(Head0)
        BY <1>6, <2>2, <3>1 DEF Ahead
      <3>3. h = Head0
        BY <3>2 DEF Elems, Head0
      <3> QED BY <3>2, <3>3
    <2>3. CASE mode = "recovered"
      BY <1>1, <1>6, <2>3 DEF CInv, CrashInv, Ahead
    <2> QED BY <1>1, <2>1, <2>2, <2>3 DEF TypeOK
  <1>7. \A i : Orphan(i)' <=> Orphan(i)
    BY <1>3 DEF Orphan
  <1>8. Reach(h)' = Reach(h)
    BY <1>3, ReachSame
  <1>9. Ahead'
    <2>1. Reach(rec)' = Reach(h) /\ Reach(Head0)' = Reach(h)
      BY <1>2, <1>3, <1>4 DEF Reach, Follows
    <2> QED BY <1>3, <1>4, <1>6, <1>7, <2>1 DEF Ahead
  <1> QED BY <1>3, <1>5, <1>9 DEF CrashInv

\* Recovery goes on from rec to h: the inodes behind h are still to come.
LEMMA GoesOn ==
  ASSUME CInv, ~tainted, mode = "recover", mode' = "recover",
         next' = next, heads' = heads, NEW h, rec' = h,
         Reach(h) \subseteq Reach(rec),
         \A i \in Inos : Orphan(i)' => Orphan(i) /\ i \in Reach(h),
         \A i \in Inos : pisize'[i] # {isize'[i]} => pisize[i] # {isize[i]} \/ i \in Reach(rec)
  PROVE  Ahead'
  <1>1. Ahead
    BY DEF CInv, CrashInv
  <1>2. Reach(rec)' = Reach(h) /\ Reach(Head0)' = Reach(Head0) /\ Len(heads') = Len(heads)
    BY DEF Reach, Follows, Head0
  <1> QED BY <1>1, <1>2 DEF Ahead

LEMMA RecoverTruncateSafe ==
  ASSUME CInv, Mark, ~tainted', RecoverTruncate
  PROVE  CrashInv'
  <1> DEFINE t == CutBlocks(tree[rec], isize[rec], tsize[rec])
  <1>1. ~tainted /\ TypeOK /\ Files /\ Ahead /\ rec \in Inos /\ nlink[rec] = 1
    BY DEF Mark, CInv, IInv, TypeOK, CrashInv, RecoverTruncate
  <1>2. /\ tree'[rec] = t /\ ptree'[rec] = {t} /\ isize'[rec] = tsize[rec]
        /\ pisize'[rec] = pisize[rec] \cup {tsize[rec]}
        /\ \A j \in Inos : j # rec =>
             /\ tree'[j] = tree[j] /\ ptree'[j] = ptree[j]
             /\ isize'[j] = isize[j] /\ pisize'[j] = pisize[j]
    BY <1>1 DEF RecoverTruncate, TypeOK
  <1>3. /\ UNCHANGED <<next, heads, nlink, dead, vfs>> /\ rec' = next[rec]
        /\ mode = "recover" /\ mode' = "recover"
    BY DEF RecoverTruncate, itemVars, linkVars
  <1>4. /\ tree[rec] \in Int /\ isize[rec] \in Int /\ tsize[rec] \in Int
        /\ \A s \in pisize[rec] : s \in Int
    <2>1. /\ tree[rec] \in Sizes /\ isize[rec] \in Sizes /\ tsize[rec] \in Sizes
          /\ pisize[rec] \subseteq Sizes /\ Sizes \subseteq Int
      BY <1>1 DEF TypeOK, Sizes
    <2> QED BY <2>1
  <1>5. /\ isize[rec] \in pisize[rec] /\ tree[rec] \in ptree[rec] /\ ~dead[rec]
        /\ \A x \in ptree[rec], s \in pisize[rec] : x <= s
    BY <1>1 DEF Files, FileOk
  <1>6. t \in Int /\ t <= tree[rec] /\ t <= tsize[rec]
    <2>1. tree[rec] <= isize[rec]
      BY <1>5
    <2> QED BY <1>4, <2>1, CutLeaves
  <1> HIDE DEF t
  <1>7. Files'
    <2>1. \A s \in pisize[rec] : t <= s
      <3> TAKE s \in pisize[rec]
      <3>1. tree[rec] <= s /\ s \in Int
        BY <1>4, <1>5
      <3> QED BY <1>4, <1>6, <3>1
    <2>2. ASSUME NEW i \in Inos, i = rec PROVE FileOk(i)'
      BY <1>2, <1>3, <1>5, <1>6, <2>1, <2>2 DEF FileOk
    <2>3. ASSUME NEW i \in Inos, i # rec PROVE FileOk(i)'
      BY <1>1, <1>2, <1>3, <2>3 DEF Files, FileOk
    <2> QED BY <2>2, <2>3 DEF Files
  <1>8. Ahead'
    <2>1. next[rec] \in Inos \cup {NoIno} /\ next \in [Inos -> Inos \cup {NoIno}]
      BY <1>1 DEF TypeOK
    <2>2. /\ rec \in Reach(rec) /\ Reach(next[rec]) \subseteq Reach(rec)
          /\ Reach(rec) \subseteq {rec} \cup Reach(next[rec])
      BY <1>1, <2>1, ReachSteps
    <2>3. \A i \in Inos : Orphan(i)' => Orphan(i) /\ i \in Reach(next[rec])
      BY <1>1, <1>3, <2>2 DEF Orphan, Ahead
    <2> QED BY <1>1, <1>2, <1>3, <2>2, <2>3, GoesOn
  <1> QED BY <1>3, <1>7, <1>8 DEF CrashInv

LEMMA RecoverOrphanSafe ==
  ASSUME CInv, Mark, ~tainted', RecoverOrphan
  PROVE  CrashInv'
  <1>1. ~tainted /\ TypeOK /\ Files /\ Ahead /\ rec \in Inos /\ nlink[rec] = 0
    BY DEF Mark, CInv, IInv, TypeOK, CrashInv, RecoverOrphan
  <1>2. /\ tree'[rec] = 0 /\ ptree'[rec] = {0} /\ isize'[rec] = 0 /\ pisize'[rec] = {0}
        /\ dead'[rec]
        /\ \A j \in Inos : j # rec =>
             /\ tree'[j] = tree[j] /\ ptree'[j] = ptree[j] /\ dead'[j] = dead[j]
             /\ isize'[j] = isize[j] /\ pisize'[j] = pisize[j]
    BY <1>1 DEF RecoverOrphan, FreeInode, TypeOK
  <1>3. /\ UNCHANGED <<next, heads, nlink, vfs>> /\ rec' = next[rec]
        /\ mode = "recover" /\ mode' = "recover"
    BY DEF RecoverOrphan, itemVars
  <1>4. \A o \in Objs : vfs[o].pc \in Gone
    BY <1>3 DEF CInv, IInv, MountedOnly, None, Gone
  <1>5. Files'
    BY <1>1, <1>2, <1>3, <1>4 DEF Files, FileOk
  <1>6. Ahead'
    <2>1. next[rec] \in Inos \cup {NoIno} /\ next \in [Inos -> Inos \cup {NoIno}]
      BY <1>1 DEF TypeOK
    <2>2. /\ Reach(next[rec]) \subseteq Reach(rec)
          /\ Reach(rec) \subseteq {rec} \cup Reach(next[rec])
      BY <1>1, <2>1, ReachSteps
    <2>3. \A i \in Inos : Orphan(i)' => Orphan(i) /\ i \in Reach(next[rec])
      BY <1>1, <1>2, <1>3, <2>2 DEF Orphan, Ahead
    <2> QED BY <1>1, <1>2, <1>3, <2>2, <2>3, GoesOn
  <1> QED BY <1>3, <1>5, <1>6 DEF CrashInv

\* A free inode ends the loop; it has nothing behind it, or this is a case of Mark.
LEMMA RecoverStaleSafe ==
  ASSUME CInv, Mark, ~tainted', RecoverStale
  PROVE  CrashInv'
  <1>1. ~tainted /\ TypeOK /\ Files /\ Ahead /\ rec \in Inos /\ dead[rec]
    BY DEF Mark, CInv, IInv, TypeOK, CrashInv, RecoverStale
  <1>2. /\ UNCHANGED <<next, heads, nlink, dead, isize, pisize, tree, ptree, vfs>>
        /\ rec' = NoIno /\ mode = "recover" /\ mode' = "recover"
    BY DEF RecoverStale, itemVars, linkVars, fileVars
  <1>3. next[rec] = NoIno
    BY DEF Mark, StaleStop
  <1>4. Files'
    BY <1>1, <1>2 DEF Files, FileOk
  <1>5. Ahead'
    <2>1. next \in [Inos -> Inos \cup {NoIno}]
      BY <1>1 DEF TypeOK
    <2>2. Reach(rec) \subseteq {rec} /\ Reach(NoIno) = {}
      BY <1>1, <1>3, <2>1, ReachSteps
    <2>3. \A i \in Inos : ~Orphan(i)
      BY <1>1, <1>2, <2>2 DEF Orphan, Ahead
    <2>4. \A i : Orphan(i)' <=> Orphan(i)
      BY <1>2 DEF Orphan
    <2>5. Reach(NoIno) \subseteq Reach(rec)
      BY <2>2
    <2> QED BY <1>1, <1>2, <2>3, <2>4, <2>5, GoesOn
  <1> QED BY <1>2, <1>4, <1>5 DEF CrashInv

LEMMA RecoverEndSafe ==
  ASSUME CInv, Mark, ~tainted', RecoverEnd
  PROVE  CrashInv'
  <1>1. ~tainted /\ TypeOK /\ Files /\ Ahead
    BY DEF Mark, CInv, IInv, TypeOK, CrashInv, RecoverEnd
  <1>2. /\ UNCHANGED <<next, nlink, dead, isize, tree, ptree, vfs>>
        /\ rec = NoIno /\ mode = "recover" /\ mode' = "recovered"
        /\ \A i \in Inos : pisize'[i] = {isize[i]}
    BY DEF RecoverEnd, itemVars, linkVars
  <1>3. Files'
    BY <1>1, <1>2 DEF Files, FileOk
  <1>4. Ahead'
    <2>1. Reach(rec) = {}
      BY <1>1, <1>2, ReachSteps DEF TypeOK
    <2>2. \A i \in Inos : ~Orphan(i)
      BY <1>1, <1>2, <2>1 DEF Ahead
    <2> QED BY <1>2, <2>2 DEF Ahead, Orphan
  <1> QED BY <1>2, <1>3, <1>4 DEF CrashInv

LEMMA MountedSafe ==
  ASSUME CInv, Mark, ~tainted', Mounted
  PROVE  CrashInv'
  <1>1. ~tainted /\ TypeOK /\ Files /\ Ahead /\ IInv
    BY DEF Mark, CInv, IInv, TypeOK, CrashInv, Mounted
  <1>2. /\ UNCHANGED <<tsize, heads, nlink, dead, isize, pisize, tree, ptree, list, vfs>>
        /\ mode = "recovered" /\ mode' = "up"
    BY DEF Mounted, itemVars, linkVars, fileVars
  <1>3. heads' = <<NoIno>> /\ list' = <<>> /\ \A o \in Objs : vfs'[o].pc = "none"
    BY <1>1, <1>2 DEF IInv, MountedOnly, None
  <1>4. Files'
    BY <1>1, <1>2 DEF Files, FileOk
  <1>5. Heads'
    <2>1. Len(list') = 0 /\ Len(heads') = 1 /\ heads'[1] = NoIno
      BY <1>3
    <2> QED BY <2>1 DEF Heads, HeadAt
  <1>6. UnderWay'
    BY <1>3 DEF UnderWay, OnItsWay, Busy
  <1>7. WorkLeft'
    BY <1>1, <1>2 DEF WorkLeft, Covered, Ahead, Orphan
  <1> QED BY <1>2, <1>4, <1>5, <1>6, <1>7 DEF CrashInv

LEMMA RecoverSafe ==
  ASSUME CInv, Mark, ~tainted', Recover
  PROVE  CrashInv'
  <1>1. ~GivenUp
    BY DEF Mark
  <1> QED
    BY <1>1, RecoverTruncateSafe, RecoverOrphanSafe, RecoverStaleSafe, RecoverEndSafe,
       MountedSafe
    DEF Recover, GivenUp

LEMMA CrashInvariance == Spec => []CInv
  <1>1. Init => CInv
    <2> SUFFICES ASSUME Init PROVE CrashInv
      BY InitInvariant DEF CInv
    <2>1. \A o \in Objs : vfs[o].pc = "none"
      BY DEF Init, None
    <2>2. \A i \in Inos : /\ isize[i] = 1 /\ pisize[i] = {1} /\ tree[i] = 1 /\ ptree[i] = {1}
                          /\ nlink[i] = 1 /\ ~dead[i]
      BY DEF Init
    <2>3. Files /\ UnderWay /\ WorkLeft
      BY <2>1, <2>2 DEF Files, FileOk, UnderWay, OnItsWay, WorkLeft, Covered, Orphan, Busy
    <2>4. Heads
      <3>1. Len(list) = 0 /\ Len(heads) = 1 /\ heads[1] = NoIno
        BY DEF Init
      <3> QED BY <3>1 DEF Heads, HeadAt
    <2> QED BY <2>3, <2>4 DEF CrashInv, Init
  <1>2. CInv /\ [Next]_vars => CInv'
    <2> SUFFICES ASSUME CInv, [Next]_vars, ~tainted' PROVE CrashInv'
      BY StepInvariant DEF CInv
    <2>1. CASE UNCHANGED vars
      <3>1. ~tainted /\ CrashInv
        BY <2>1 DEF vars, CInv
      <3>2. Files' /\ (Heads /\ UnderWay /\ WorkLeft => Heads' /\ UnderWay' /\ WorkLeft')
        BY <2>1, <3>1 DEF vars, CrashInv, Files, FileOk, Heads, HeadAt, UnderWay, OnItsWay,
                          WorkLeft, Covered, Orphan, Listed, Elems
      <3>3. Ahead => Ahead'
        BY <2>1 DEF vars, Ahead, Orphan, Reach, Follows, Head0
      <3> QED BY <2>1, <3>1, <3>2, <3>3 DEF vars, CrashInv
    <2>2. CASE Step /\ Mark
      BY <2>2, IgetSafe, ForgetSafe, CreateSafe, ExtendSafe, TruncateSafe, CutSafe,
         SetSizeSafe, UnlinkSafe, UnlinkCommitSafe, EvictSafe, AddHeadSafe,
         TruncateDelSafe, CrashSafe, RecoverSafe DEF Step
    <2> QED BY <2>1, <2>2 DEF Next
  <1> QED BY <1>1, <1>2, PTL DEF Spec

-----------------------------------------------------------------------------
(* The results about power failures.                                       *)

\* A file without work left is not pending: the blocks behind its end are gone.
LEMMA PendingParts ==
  ASSUME TypeOK, Files, NEW i \in Inos, Pending(i)
  PROVE  Orphan(i) \/ pisize[i] # {isize[i]}
  <1>1. \A t \in ptree[i], s \in pisize[i] : t \in Int /\ s \in Int /\ t <= s
    <2>1. ptree[i] \subseteq Sizes /\ pisize[i] \subseteq Sizes /\ Sizes \subseteq Int
      BY DEF TypeOK, Sizes
    <2> QED BY <2>1 DEF Files, FileOk
  <1>2. \A t \in ptree[i], s \in pisize[i] : ~(t > s)
    BY <1>1
  <1> QED BY <1>2 DEF Pending, Orphan

\* "a linked list of inodes which require further processing in case of a power
\* failure": an inode that is unlinked and not freed, and a file that is being
\* truncated, are met from every head that the media may hold, whenever power
\* fails and however often recovery is cut short by the next failure; until one of
\* the cases of Mark happens.
THEOREM CrashFindsList == Spec => []ListedOrDone
  <1>1. CInv => ListedOrDone
    <2> SUFFICES ASSUME CInv, mode # "recovered", ~tainted, NEW i \in Inos, Pending(i)
                 PROVE  IF mode = "up" THEN \A h \in Elems(heads) : i \in Reach(h)
                                       ELSE i \in Reach(Head0)
      BY DEF ListedOrDone
    <2>1. TypeOK /\ CrashInv /\ (Orphan(i) \/ pisize[i] # {isize[i]})
      BY PendingParts DEF CInv, IInv, CrashInv
    <2>2. CASE mode = "up"
      <3>1. Agree /\ Members /\ Heads /\ UnderWay /\ WorkLeft
        BY <2>1, <2>2 DEF CInv, IInv, ListInv, CrashInv
      <3>2. \A k \in 1 .. Len(list) : list[k] \in Objs
        BY <2>1, Shapes
      <3>3. \E o \in Objs : Listed(o) /\ Ino(o) = i /\ vfs[o].pc # "unlink_commit"
        <4>1. CASE Orphan(i)
          BY <3>1, <4>1 DEF WorkLeft, Covered, UnderWay, OnItsWay, Orphan
        <4>2. CASE pisize[i] # {isize[i]}
          BY <3>1, <4>2 DEF WorkLeft, Covered, UnderWay, OnItsWay, Busy, Adding
        <4> QED BY <2>1, <4>1, <4>2
      <3>4. PICK k \in 1 .. Len(list) : Ino(list[k]) = i /\ vfs[list[k]].pc # "unlink_commit"
        BY <3>3 DEF Listed, Elems
      <3> QED BY <2>1, <2>2, <3>1, <3>4, HeadsReach
    <2>3. CASE mode # "up"
      <3>1. mode = "recover" /\ Ahead
        BY <2>1, <2>3 DEF TypeOK, CrashInv
      <3> QED BY <2>1, <2>3, <3>1 DEF Ahead
    <2> QED BY <2>2, <2>3
  <1> QED BY <1>1, CrashInvariance, PTL

\* No file is cut behind its user's back: of the items that recovery would meet,
\* those of files with a name hold the size that a thread is truncating the file to
\* at that moment; until one of the cases of Mark happens.
THEOREM NeverCutsBehind == Spec => []TruncatesAsAsked
  <1>1. CInv => TruncatesAsAsked
    <2> SUFFICES ASSUME CInv, mode = "up", ~tainted,
                        NEW h \in Elems(heads), NEW i \in Reach(h), nlink[i] = 1
                 PROVE  \E o \in Objs : Ino(o) = i /\ vfs[o].pc \in Busy /\ tsize[i] = vfs[o].want
      BY DEF TruncatesAsAsked, AsAsked
    <2>1. TypeOK /\ Agree /\ Members /\ Heads /\ UnderWay
      BY DEF CInv, IInv, ListInv, CrashInv
    <2>2. PICK k \in 1 .. Len(list) : Ino(list[k]) = i
      BY <2>1, HeadsReach
    <2>3. list[k] \in Objs
      BY <2>1, Shapes
    <2>4. vfs[list[k]].pc \in Busy
      BY <2>1, <2>2 DEF Members
    <2> QED BY <2>1, <2>2, <2>3, <2>4 DEF UnderWay, OnItsWay
  <1> QED BY <1>1, CrashInvariance, PTL

\* "PMFS will free the remaining blocks during the next mount": when recovery is
\* done every inode without a name is free and holds no block, and no file has
\* blocks behind its end, now or after another power failure; until one of the
\* cases of Mark happens.
THEOREM RecoveryFinishes == Spec => []Recovered
  <1>1. CInv => Recovered
    <2> SUFFICES ASSUME CInv, mode = "recovered", ~tainted, NEW i \in Inos
                 PROVE  ~Pending(i) /\ (dead[i] => tree[i] = 0)
      BY DEF Recovered
    <2>1. TypeOK /\ Files /\ Ahead
      BY DEF CInv, IInv, CrashInv
    <2>2. ~Pending(i)
      BY <2>1, PendingParts DEF Ahead
    <2>3. ASSUME dead[i] PROVE tree[i] = 0
      <3>1. tree[i] \in ptree[i] /\ 0 \in pisize[i]
        BY <2>1, <2>3 DEF Files, FileOk
      <3>2. tree[i] <= 0 /\ tree[i] \in 0 .. MaxSize
        BY <2>1, <3>1 DEF Files, FileOk, TypeOK, Sizes
      <3> QED BY <3>2, SizesAssumption
    <2> QED BY <2>2, <2>3
  <1> QED BY <1>1, CrashInvariance, PTL
=============================================================================
