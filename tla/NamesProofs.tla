----------------------------- MODULE NamesProofs -----------------------------
(***************************************************************************)
(* The tree of names stays sound, and no inode number is lost. A crash     *)
(* undoes every call that has not committed, so the tree must be sound     *)
(* with any of them taken back: the invariant speaks of the tables and     *)
(* entries without the calls of a set T of threads, for every T. A call is *)
(* the same edit of the tree in all of them that do not take it back.      *)
(***************************************************************************)
EXTENDS Names, FiniteSetTheorems, WellFoundedInduction, TLAPS

-----------------------------------------------------------------------------
(* Trees: an inode table P, entries E; V, M and L are the directories that count a link too *)
(* many, the inodes that are being made, and the truncate list.                             *)

EntIn(E, i) == {e \in E : e[3] = i}
IsDirIn(P, E, i) == P[i].mode = "dir" /\ (i = Root \/ EntIn(E, i) # {})
Closed(E, S) == \A e \in E : e[1] \in S => e[3] \in S
BelowIn(E, i) == {j \in Inos : \A S \in SUBSET Inos : i \in S /\ Closed(E, S) => j \in S}
SubdirsIn(P, E, d) == {e \in E : e[1] = d /\ P[e[3]].mode = "dir"}

\* The shape of a table and of entries.
Shaped(P, E) ==
  /\ P \in [Inos -> Image] /\ E \subseteq Inos \X Labels \X Numbers /\ IsFiniteSet(E)
  /\ P[Root].mode = "dir" /\ ~P[Root].dead

\* Entries lead from directories to inodes in use.
Leads(P, E, M) ==
  \A e \in E : /\ IsDirIn(P, E, e[1]) /\ ~P[e[1]].dead
               /\ P[e[3]].links > 0 /\ ~P[e[3]].dead /\ P[e[3]].mode # "none"
               /\ e[1] \notin M /\ e[3] \notin M

\* A name is there once, and a directory has one name, below the root.
Tree(P, E) ==
  /\ \A e, x \in E : e[1] = x[1] /\ e[2] = x[2] => e = x
  /\ \A e, x \in E : e[3] = x[3] /\ P[e[3]].mode = "dir" => e = x
  /\ \A e \in E : P[e[3]].mode = "dir" => e[3] \in BelowIn(E, Root)

\* A directory with links has a name.
Named(P, E, V, M) ==
  \A i \in Numbers \ (M \cup V) : P[i].mode = "dir" /\ P[i].links > 0 => EntIn(E, i) # {}

Linked(P, E, V, M) ==
  \A i \in Inos \ M :
    /\ P[i].mode = "file" => P[i].links = Cardinality(EntIn(E, i))
    /\ IsDirIn(P, E, i) => IF i \in V THEN P[i].links >= 2 + Cardinality(SubdirsIn(P, E, i))
                           ELSE P[i].links = 2 + Cardinality(SubdirsIn(P, E, i))

\* An inode without links waits on the truncate list.
Waits(P, M, L) ==
  \A i \in Numbers \ M : P[i].links = 0 /\ ~Unused(P[i]) => i \in L

Sound(P, E, V, M, L) ==
  /\ Shaped(P, E) /\ Leads(P, E, M) /\ Tree(P, E)
  /\ Named(P, E, V, M) /\ Linked(P, E, V, M) /\ Waits(P, M, L)

-----------------------------------------------------------------------------
(* What the calls do to table P and entries E, which become Q and F.                        *)

\* pmfs_link.
LinkEdit(P, E, Q, F, M, i, d, n) ==
  /\ i \in Numbers \ M /\ d \in Inos \ M /\ n \in Labels
  /\ P[i].mode = "file" /\ P[i].links > 0 /\ ~P[i].dead /\ IsDirIn(P, E, d) /\ ~P[d].dead
  /\ \A e \in E : e[1] = d => e[2] # n
  /\ Q \in [Inos -> Image] /\ \A k \in Inos : k # i => Q[k] = P[k]
  /\ Q[i] = [P[i] EXCEPT !.links = @ + 1]
  /\ F = E \cup {<<d, n, i>>}

\* pmfs_add_entry of a new inode.
EnterEdit(P, E, Q, F, M, i, d, n) ==
  /\ i \in Numbers /\ i \in M /\ d \in Inos \ M /\ n \in Labels
  /\ P[i].mode \in {"file", "dir"} /\ P[i].links = 1 /\ ~P[i].dead
  /\ IsDirIn(P, E, d) /\ ~P[d].dead /\ \A e \in E : e[1] = d => e[2] # n
  /\ Q \in [Inos -> Image] /\ \A k \in Inos : k # i /\ k # d => Q[k] = P[k]
  /\ Q[i] = [P[i] EXCEPT !.links = IF P[i].mode = "dir" THEN 2 ELSE 1]
  /\ Q[d] = IF P[i].mode = "dir" THEN [P[d] EXCEPT !.links = @ + 1] ELSE P[d]
  /\ F = E \cup {<<d, n, i>>}

\* pmfs_unlink.
UnlinkEdit(P, E, Q, F, L, K, e) ==
  /\ e \in E /\ P[e[3]].mode = "file"
  /\ Q \in [Inos -> Image] /\ \A k \in Inos : k # e[3] => Q[k] = P[k]
  /\ Q[e[3]] = [P[e[3]] EXCEPT !.links = @ - 1]
  /\ F = E \ {e}
  /\ L \subseteq K /\ (P[e[3]].links = 1 => e[3] \in K)

\* pmfs_rmdir, and what a rename does to the directory it replaces.
RmdirEdit(P, E, Q, F, V, L, K, e, l) ==
  /\ e \in E /\ P[e[3]].mode = "dir" /\ \A y \in E : y[1] # e[3]
  /\ l \in Nat /\ (l > 0 => e[3] \in V)
  /\ Q \in [Inos -> Image] /\ \A k \in Inos : k # e[3] /\ k # e[1] => Q[k] = P[k]
  /\ Q[e[3]] = [P[e[3]] EXCEPT !.links = l] /\ Q[e[1]] = [P[e[1]] EXCEPT !.links = @ - 1]
  /\ F = E \ {e}
  /\ L \subseteq K /\ (l = 0 => e[3] \in K)

\* A rename to a name that does not exist.
MoveEdit(P, E, Q, F, M, e, d, n) ==
  /\ e \in E /\ d \in Inos \ M /\ n \in Labels
  /\ IsDirIn(P, E, d) /\ ~P[d].dead /\ \A y \in E : y[1] = d => y[2] # n
  /\ P[e[3]].mode = "dir" /\ d # e[1] => d \notin BelowIn(E, e[3])
  /\ Q \in [Inos -> Image] /\ \A k \in Inos : k # d /\ k # e[1] => Q[k] = P[k]
  /\ IF P[e[3]].mode = "dir" /\ d # e[1]
     THEN /\ Q[d] = [P[d] EXCEPT !.links = @ + 1]
          /\ Q[e[1]] = [P[e[1]] EXCEPT !.links = @ - 1]
     ELSE Q[d] = P[d] /\ Q[e[1]] = P[e[1]]
  /\ F = (E \ {e}) \cup {<<d, n, e[3]>>}

\* Links that count too many, and inodes that are listed.
SlackEdit(P, E, Q, V, W, L, K) ==
  /\ V \subseteq W /\ L \subseteq K /\ Q \in [Inos -> Image]
  /\ \A k \in Inos : /\ Q[k].mode = P[k].mode /\ Q[k].dead = P[k].dead
                     /\ Q[k].links >= P[k].links
                     /\ Q[k].links = P[k].links \/ (k \in W /\ IsDirIn(P, E, k))

\* An inode without a name becomes one that is being made.
MadeEdit(P, E, Q, V, W, i) ==
  /\ i \in Numbers /\ \A e \in E : e[1] # i /\ e[3] # i
  /\ Q \in [Inos -> Image] /\ \A k \in Inos : k # i => Q[k] = P[k]
  /\ V \ {i} \subseteq W /\ W \subseteq V

\* An inode without a name is free again.
UnmadeEdit(P, E, Q, M, N, L, K, i) ==
  /\ i \in Numbers /\ \A e \in E : e[1] # i /\ e[3] # i
  /\ Q \in [Inos -> Image] /\ \A k \in Inos : k # i => Q[k] = P[k]
  /\ Unused(Q[i])
  /\ M \ {i} \subseteq N /\ N \subseteq M /\ L \ {i} \subseteq K

\* A rename over a name.
OverEdit(P, E, Q, F, V, W, L, K, e, x, l) ==
  /\ e \in E /\ x \in E /\ e[3] # x[3] /\ P[e[3]].mode = P[x[3]].mode
  /\ P[e[3]].mode = "dir" => (\A y \in E : y[1] # x[3]) /\ (x[1] # e[1] => x[1] \notin BelowIn(E, e[3]))
  /\ l = P[x[3]].links - IF P[e[3]].mode = "dir" THEN 2 ELSE 1
  /\ Q \in [Inos -> Image] /\ \A k \in Inos : k # x[3] => Q[k] = P[k]
  /\ Q[x[3]] = [P[x[3]] EXCEPT !.links = l]
  /\ F = (E \ {e, x}) \cup {<<x[1], x[2], e[3]>>}
  /\ W = V \cup (IF P[e[3]].mode = "dir" THEN {e[1]} ELSE {})
  /\ L \subseteq K /\ (l = 0 => x[3] \in K)

-----------------------------------------------------------------------------
(* What is left when calls are taken back.                                                  *)

\* A call that has changed what was there, under locks, and has not committed.
Changer(h) == h.at = "ready" /\ h.kind = "none"
\* A call that has made an inode, and has not committed.
Maker(h) == h.at = "ready" /\ h.kind # "none"

\* h has logged image a of inode i, which it has locked.
Says(h, i, a) == Changer(h) /\ i \in h.held /\ <<i, a>> \in h.log

\* The images that the calls of T have logged of inode i.
Said(H, T, i) == {a \in Image : \E t \in T : Says(H[t], i, a)}

\* The table P and the entries E, where the threads have the calls H, without those of T.
PiBack(P, H, T) ==
  [i \in Inos |-> IF Said(H, T, i) = {} THEN P[i] ELSE CHOOSE a \in Said(H, T, i) : TRUE]
EntBack(E, H, T) ==
  {e \in E : \A t \in T : Changer(H[t]) => e[1] \notin H[t].changes} \cup
  {e \in Inos \X Labels \X Numbers : \E t \in T : Changer(H[t]) /\ e \in H[t].was}

\* None of them renames between directories.
NoMove(H, T) == \A t \in T : Changer(H[t]) => \A c, d \in H[t].changes : c = d

\* A call taken back leaves directories where they are, except for a rename between two.
Agree(P, E, Q, F, quiet) ==
  /\ \A i \in Inos : Q[i].mode = P[i].mode
  /\ \A i \in Inos : P[i].mode = "dir" /\ EntIn(E, i) # {} => EntIn(F, i) # {}
  /\ quiet => \A e \in F : P[e[3]].mode = "dir" =>
       \/ \E x \in E : x[3] = e[3] /\ x[1] = e[1]
       \/ EntIn(E, e[3]) = {} /\ \A y \in F : y[1] # e[3]

Backs ==
  \A T \in SUBSET Threads :
    /\ Sound(PiBack(pi, th, T), EntBack(ent, th, T), over, Made, listed)
    /\ Agree(pi, ent, PiBack(pi, th, T), EntBack(ent, th, T), NoMove(th, T))

-----------------------------------------------------------------------------
(* The threads.                                                                             *)

Shapes ==
  /\ th \in [Threads -> [at : {"idle", "picked", "published", "aborting", "ready"},
                         kind : Modes, dir : Inos, name : Labels \cup {NoLabel}, ino : Inos,
                         held : SUBSET Inos, log : SUBSET (Inos \X Image),
                         changes : SUBSET Inos, was : SUBSET (Inos \X Labels \X Numbers)]]
  /\ listed \subseteq Inos /\ over \subseteq Inos
  /\ count \in Count0..MaxCount /\ hint \in Start..count + 1
  /\ calls \in 0..MaxCalls /\ boots \in 0..MaxBoot

Locks ==
  /\ \A t, u \in Threads : t # u => th[t].held \cap th[u].held = {}
  /\ \A t \in Threads : \A i \in th[t].held : pi[i].mode # "none" /\ ~pi[i].dead /\ i \notin Made

\* A thread that makes an inode, until the inode has its name.
MakingOk(t) ==
  LET h == th[t] IN
  /\ h.kind \in {"file", "dir"} /\ h.ino \in Start..count /\ h.name \in Labels
  /\ h.held = {h.dir} /\ h.changes = {} /\ h.was = {}
  /\ IsDirIn(pi, ent, h.dir) /\ \A e \in ent : e[1] = h.dir => e[2] # h.name
  /\ \E im \in Image : Unused(im) /\ h.log = {<<h.ino, im>>}
  /\ h.at \in {"picked", "published"} => ~pi[h.ino].dead
  /\ h.at = "picked" => pi[h.ino].links = 0
  /\ h.at = "published" => pi[h.ino].mode = h.kind /\ pi[h.ino].links = 1

\* A thread that has made one.
MakerOk(t) ==
  LET h == th[t]
      e == <<h.dir, h.name, h.ino>>
  IN  /\ h.held = {h.dir} /\ h.changes = {h.dir}
      /\ h.kind \in {"file", "dir"} /\ h.ino \in Numbers /\ h.name \in Labels
      /\ h.ino # h.dir /\ e \in ent /\ h.was = {x \in ent : x[1] = h.dir /\ x # e}
      /\ \E im \in Image, old \in Image :
           /\ Unused(im) /\ h.log = {<<h.ino, im>>, <<h.dir, old>>}
           /\ pi[h.dir] = IF h.kind = "dir" THEN [old EXCEPT !.links = @ + 1] ELSE old

ChangerOk(h) ==
  /\ h.changes \subseteq h.held /\ h.ino = Root
  /\ \A e \in h.was : e[1] \in h.changes
  /\ \A x, y \in h.log : x[1] = y[1] => x = y
  /\ \A x \in h.log : x[1] \notin h.held => x[1] # Root

Callers ==
  \A t \in Threads :
    /\ th[t].at = "idle" => th[t] = Idle
    /\ t \in Making => MakingOk(t)
    /\ Maker(th[t]) => MakerOk(t)
    /\ Changer(th[t]) => ChangerOk(th[t])

\* No number is given out twice.
Apart == \A t, u \in Making : th[t].ino = th[u].ino => t = u

ListedOk ==
  \A i \in listed : i \in Numbers \ Made /\ pi[i].links = 0 /\ ~Unused(pi[i])

\* The table ends with count.
Beyond == \A i \in Numbers : i > count => Unused(pi[i])

Inv ==
  /\ Shapes /\ TreeTypes
  /\ ~tainted => /\ Backs /\ Locks /\ Callers /\ Apart /\ ListedOk /\ Beyond
                 /\ NumbersKept

-----------------------------------------------------------------------------
(* Facts about trees.                                                                       *)

\* The root is no number that is given out.
LEMMA Inodes ==
  /\ Root \in Inos /\ Root \notin Numbers /\ Numbers \subseteq Inos /\ Numbers \subseteq Nat
  /\ \A i \in Inos : i # Root => i \in Numbers
  /\ Numbers = 1..MaxCount /\ MaxCount \in Nat /\ Inos \subseteq Nat
  BY NamesAssumption DEF Inos, Numbers, Root, Start

\* The fields of an image.
LEMMA ImageFields ==
  ASSUME NEW im \in Image
  PROVE  /\ im.links \in Nat /\ im.mode \in {"none", "file", "dir"} /\ im.dead \in BOOLEAN
         /\ Unused(im) => im.links = 0
         /\ im = [links |-> im.links, mode |-> im.mode, dead |-> im.dead]
  BY DEF Image, Modes, Unused

\* The fields of a table.
LEMMA TableFields ==
  ASSUME NEW P \in [Inos -> Image], NEW i \in Inos
  PROVE  /\ P[i] \in Image /\ P[i].links \in Nat /\ P[i].mode \in {"none", "file", "dir"}
         /\ P[i].dead \in BOOLEAN
  BY DEF Image, Modes

\* The fields of an entry.
LEMMA EntryFields ==
  ASSUME NEW E, E \subseteq Inos \X Labels \X Numbers, NEW e \in E
  PROVE  /\ e = <<e[1], e[2], e[3]>>
         /\ e[1] \in Inos /\ e[2] \in Labels /\ e[3] \in Numbers /\ e[3] \in Inos /\ e[3] # Root
  BY Inodes

\* Sets of entries are finite and can be counted.
LEMMA Counts ==
  ASSUME NEW E, IsFiniteSet(E)
  PROVE  /\ \A i : IsFiniteSet(EntIn(E, i)) /\ Cardinality(EntIn(E, i)) \in Nat
         /\ \A P, d : IsFiniteSet(SubdirsIn(P, E, d)) /\ Cardinality(SubdirsIn(P, E, d)) \in Nat
<1>1. \A S : S \subseteq E => IsFiniteSet(S) /\ Cardinality(S) \in Nat
  BY FS_Subset, FS_CardinalityType
<1>2. \A i : EntIn(E, i) \subseteq E
  BY DEF EntIn
<1>3. \A P, d : SubdirsIn(P, E, d) \subseteq E
  BY DEF SubdirsIn
<1> QED BY <1>1, <1>2, <1>3

\* One more.
LEMMA CountAdd ==
  ASSUME NEW S, IsFiniteSet(S), NEW x, x \notin S
  PROVE  Cardinality(S \cup {x}) = Cardinality(S) + 1
  BY FS_AddElement, Zenon

\* One less.
LEMMA CountRemove ==
  ASSUME NEW S, IsFiniteSet(S), NEW x \in S
  PROVE  /\ Cardinality(S \ {x}) = Cardinality(S) - 1
         /\ Cardinality(S) > 0
<1>1. IsFiniteSet(S \ {x}) /\ Cardinality(S \ {x}) = Cardinality(S) - 1
  BY FS_RemoveElement, Zenon
<1>2. Cardinality(S) \in Nat /\ Cardinality(S \ {x}) \in Nat
  BY <1>1, FS_CardinalityType, Zenon
<1> QED BY <1>1, <1>2

\* One more entry counts for the inode it leads to.
LEMMA EntryAdded ==
  ASSUME NEW E, IsFiniteSet(E), NEW x, x \notin E
  PROVE  Cardinality(EntIn(E \cup {x}, x[3])) = Cardinality(EntIn(E, x[3])) + 1
<1>1. IsFiniteSet(EntIn(E, x[3]))
  BY Counts
<1>2. x \notin EntIn(E, x[3]) /\ EntIn(E \cup {x}, x[3]) = EntIn(E, x[3]) \cup {x}
  BY DEF EntIn
<1>3. Cardinality(EntIn(E, x[3]) \cup {x}) = Cardinality(EntIn(E, x[3])) + 1
  BY <1>1, <1>2, CountAdd, Zenon
<1> QED BY <1>2, <1>3

\* One more directory counts for its parent.
LEMMA SubdirAdded ==
  ASSUME NEW E, IsFiniteSet(E), NEW x, x \notin E, NEW P, NEW d,
         x \in SubdirsIn(P, E \cup {x}, d)
  PROVE  Cardinality(SubdirsIn(P, E \cup {x}, d)) = Cardinality(SubdirsIn(P, E, d)) + 1
<1>1. IsFiniteSet(SubdirsIn(P, E, d))
  BY Counts
<1>2. /\ x \notin SubdirsIn(P, E, d)
      /\ SubdirsIn(P, E \cup {x}, d) = SubdirsIn(P, E, d) \cup {x}
  BY DEF SubdirsIn
<1>3. Cardinality(SubdirsIn(P, E, d) \cup {x}) = Cardinality(SubdirsIn(P, E, d)) + 1
  BY <1>1, <1>2, CountAdd, Zenon
<1> QED BY <1>2, <1>3

\* One entry less.
LEMMA EntryRemoved ==
  ASSUME NEW E, IsFiniteSet(E), NEW x \in E
  PROVE  Cardinality(EntIn(E \ {x}, x[3])) = Cardinality(EntIn(E, x[3])) - 1
<1>1. IsFiniteSet(EntIn(E, x[3]))
  BY Counts
<1>2. x \in EntIn(E, x[3]) /\ EntIn(E \ {x}, x[3]) = EntIn(E, x[3]) \ {x}
  BY DEF EntIn
<1>3. Cardinality(EntIn(E, x[3]) \ {x}) = Cardinality(EntIn(E, x[3])) - 1
  BY <1>1, <1>2, CountRemove, Zenon
<1> QED BY <1>2, <1>3

\* One directory less.
LEMMA SubdirRemoved ==
  ASSUME NEW E, IsFiniteSet(E), NEW P, NEW d, NEW x, x \in SubdirsIn(P, E, d)
  PROVE  /\ Cardinality(SubdirsIn(P, E \ {x}, d)) = Cardinality(SubdirsIn(P, E, d)) - 1
         /\ Cardinality(SubdirsIn(P, E, d)) > 0
<1>1. IsFiniteSet(SubdirsIn(P, E, d))
  BY Counts
<1>2. SubdirsIn(P, E \ {x}, d) = SubdirsIn(P, E, d) \ {x}
  BY DEF SubdirsIn
<1>3. /\ Cardinality(SubdirsIn(P, E, d) \ {x}) = Cardinality(SubdirsIn(P, E, d)) - 1
      /\ Cardinality(SubdirsIn(P, E, d)) > 0
  BY <1>1, <1>2, CountRemove, Zenon
<1> QED BY <1>2, <1>3

\* What an inode that has an entry counts.
LEMMA EntryCounted ==
  ASSUME NEW E, IsFiniteSet(E), NEW x \in E, NEW i, x[3] = i
  PROVE  Cardinality(EntIn(E, i)) > 0
<1>1. x \in EntIn(E, i)
  BY DEF EntIn
<1>2. IsFiniteSet(EntIn(E, i))
  BY Counts
<1> QED BY <1>1, <1>2, CountRemove

\* Subdirectories are told by the modes.
LEMMA SubdirsSame ==
  ASSUME NEW E, NEW P, NEW Q, \A e \in E : Q[e[3]].mode = P[e[3]].mode
  PROVE  \A d : SubdirsIn(Q, E, d) = SubdirsIn(P, E, d)
  BY DEF SubdirsIn

\* The root has its "." and its "..".
LEMMA RootLinks ==
  ASSUME NEW P, NEW E, NEW V, NEW M, NEW L, Sound(P, E, V, M, L), NEW i \in Inos \ M,
         IsDirIn(P, E, i)
  PROVE  P[i].links >= 2 + Cardinality(SubdirsIn(P, E, i)) /\ P[i].links >= 2
<1>1. Cardinality(SubdirsIn(P, E, i)) \in Nat
  BY Counts DEF Sound, Shaped
<1>2. P[i].links \in Nat
  BY TableFields DEF Sound, Shaped
<1>3. IF i \in V THEN P[i].links >= 2 + Cardinality(SubdirsIn(P, E, i))
      ELSE P[i].links = 2 + Cardinality(SubdirsIn(P, E, i))
  BY DEF Sound, Linked
<1> QED BY <1>1, <1>2, <1>3

\* Inodes without links have no names, and are not in the tree.
LEMMA Nameless ==
  ASSUME NEW P, NEW E, NEW V, NEW M, NEW L, Sound(P, E, V, M, L), NEW i \in Inos,
         i \in M \/ P[i].links = 0
  PROVE  \A e \in E : e[1] # i /\ e[3] # i
<1> SUFFICES ASSUME NEW e \in E, e[1] = i \/ e[3] = i PROVE FALSE
  OBVIOUS
<1>1. /\ IsDirIn(P, E, e[1]) /\ P[e[3]].links > 0 /\ e[1] \notin M /\ e[3] \notin M
      /\ e[1] \in Inos /\ e[3] \in Inos
  BY EntryFields DEF Sound, Leads, Shaped
<1>2. i \notin M /\ P[i].links = 0
  BY <1>1
<1>3. e[1] = i
  BY <1>1, <1>2, Inodes
<1>4. P[i].links >= 2
  BY <1>1, <1>2, <1>3, RootLinks
<1> QED BY <1>2, <1>4

-----------------------------------------------------------------------------
(* Edits of a tree.                                                                         *)

\* The tree is sound after LinkEdit.
LEMMA LinkSound ==
  ASSUME NEW P, NEW E, NEW V, NEW M, NEW L, Sound(P, E, V, M, L),
         NEW Q, NEW F, NEW i, NEW d, NEW n,
         LinkEdit(P, E, Q, F, M, i, d, n)
  PROVE  Sound(Q, F, V, M, L)
<1> USE DEF LinkEdit
<1>1. Shaped(P, E) /\ Leads(P, E, M) /\ Tree(P, E) /\ Named(P, E, V, M) /\ Linked(P, E, V, M)
      /\ Waits(P, M, L)
  BY DEF Sound
<1> DEFINE x == <<d, n, i>>
<1>2. /\ P \in [Inos -> Image] /\ E \subseteq Inos \X Labels \X Numbers /\ IsFiniteSet(E)
      /\ P[Root].mode = "dir" /\ ~P[Root].dead
  BY <1>1 DEF Shaped
<1>3. /\ \A k \in Inos : Q[k].mode = P[k].mode /\ Q[k].dead = P[k].dead
      /\ Q[i].links = P[i].links + 1 /\ i \in Inos /\ Q[i].links > 0
      /\ \A k \in Inos : P[k].links > 0 => Q[k].links > 0
  <2>1. i \in Inos /\ P[i] \in Image /\ P[i].links \in Nat
    BY <1>2, TableFields, Inodes
  <2>2. Q[i].links = P[i].links + 1 /\ Q[i].mode = P[i].mode /\ Q[i].dead = P[i].dead
    BY <2>1 DEF Image
  <2>3. Q[i].links > 0
    BY <2>1, <2>2
  <2> QED BY <2>1, <2>2, <2>3
<1>4. /\ x \in Inos \X Labels \X Numbers /\ x \notin E /\ x[1] = d /\ x[2] = n /\ x[3] = i
      /\ F = E \cup {x}
  OBVIOUS
<1>5. F \subseteq Inos \X Labels \X Numbers /\ IsFiniteSet(F) /\ E \subseteq F
  <2>1. IsFiniteSet(E \cup {x})
    BY <1>2, FS_AddElement, Zenon
  <2> QED BY <2>1, <1>2, <1>4
<1>6. Shaped(Q, F)
  BY <1>2, <1>3, <1>5, Inodes DEF Shaped
<1>7. \A k : EntIn(F, k) = IF k = i THEN EntIn(E, i) \cup {x} ELSE EntIn(E, k)
  BY <1>4 DEF EntIn
<1> HIDE DEF x
<1>8. \A k \in Inos : IsDirIn(P, E, k) => IsDirIn(Q, F, k)
  BY <1>3, <1>7 DEF IsDirIn
<1>9. \A k \in Inos : IsDirIn(Q, F, k) => IsDirIn(P, E, k) /\ k # i
  BY <1>3, <1>7 DEF IsDirIn
<1>10. Leads(Q, F, M)
  <2> SUFFICES ASSUME NEW e \in F
               PROVE  /\ IsDirIn(Q, F, e[1]) /\ ~Q[e[1]].dead
                      /\ Q[e[3]].links > 0 /\ ~Q[e[3]].dead /\ Q[e[3]].mode # "none"
                      /\ e[1] \notin M /\ e[3] \notin M
    BY DEF Leads
  <2>1. CASE e = x
    BY <2>1, <1>3, <1>4, <1>8
  <2>2. CASE e \in E
    <3>1. e[1] \in Inos /\ e[3] \in Inos
      BY <2>2, <1>2, EntryFields
    <3>2. /\ IsDirIn(P, E, e[1]) /\ ~P[e[1]].dead /\ e[1] \notin M /\ e[3] \notin M
          /\ P[e[3]].links > 0 /\ ~P[e[3]].dead /\ P[e[3]].mode # "none"
      BY <1>1, <2>2 DEF Leads
    <3>3. Q[e[3]].links > 0
      BY <3>1, <3>2, <1>3
    <3> QED BY <3>1, <3>2, <3>3, <1>3, <1>8
  <2> QED BY <2>1, <2>2 DEF x
<1>11. Tree(Q, F)
  <2>1. \A e, y \in F : e[1] = y[1] /\ e[2] = y[2] => e = y
    BY <1>1, <1>4 DEF Tree, x
  <2>2. \A e \in F : Q[e[3]].mode = "dir" => e \in E /\ P[e[3]].mode = "dir"
    BY <1>3, <1>4, <1>5, EntryFields DEF x
  <2>3. \A e, y \in F : e[3] = y[3] /\ Q[e[3]].mode = "dir" => e = y
    BY <1>1, <2>2 DEF Tree
  <2>4. BelowIn(E, Root) \subseteq BelowIn(F, Root)
    BY <1>5 DEF BelowIn, Closed
  <2> QED BY <1>1, <2>1, <2>2, <2>3, <2>4 DEF Tree
<1>12. Named(Q, F, V, M)
  BY <1>1, <1>3, <1>7, Inodes DEF Named
<1>13. Linked(Q, F, V, M)
  <2>1. Cardinality(EntIn(F, i)) = Cardinality(EntIn(E, i)) + 1
    <3>0. IsFiniteSet(E) /\ x \notin E
      BY <1>2, <1>4
    <3>1. Cardinality(EntIn(E \cup {x}, x[3])) = Cardinality(EntIn(E, x[3])) + 1
      BY <3>0, EntryAdded
    <3> QED BY <3>1, <1>4
  <2>2. \A k : SubdirsIn(Q, F, k) = SubdirsIn(P, E, k)
    BY <1>3, <1>4, <1>5, EntryFields DEF SubdirsIn, x
  <2>3. \A k \in Inos \ M : Q[k].mode = "file" => Q[k].links = Cardinality(EntIn(F, k))
    BY <1>1, <1>3, <1>7, <2>1 DEF Linked
  <2>4. ASSUME NEW k \in Inos \ M, IsDirIn(Q, F, k)
        PROVE  IF k \in V THEN Q[k].links >= 2 + Cardinality(SubdirsIn(Q, F, k))
               ELSE Q[k].links = 2 + Cardinality(SubdirsIn(Q, F, k))
    <3>1. IsDirIn(P, E, k) /\ Q[k] = P[k]
      BY <1>9, <2>4
    <3> QED BY <3>1, <2>2, <1>1 DEF Linked
  <2> QED BY <2>3, <2>4 DEF Linked
<1>14. Waits(Q, M, L)
  <2>1. Q[i].links # 0
    BY <1>2, <1>3, TableFields
  <2> QED BY <2>1, <1>1, Inodes DEF Waits
<1> QED BY <1>6, <1>10, <1>11, <1>12, <1>13, <1>14 DEF Sound

\* The tree is sound after EnterEdit.
LEMMA EnterSound ==
  ASSUME NEW P, NEW E, NEW V, NEW M, NEW L, Sound(P, E, V, M, L),
         NEW Q, NEW F, NEW i, NEW d, NEW n,
         EnterEdit(P, E, Q, F, M, i, d, n)
  PROVE  Sound(Q, F, V, M \ {i}, L)
<1> USE DEF EnterEdit
<1>1. Shaped(P, E) /\ Leads(P, E, M) /\ Tree(P, E) /\ Named(P, E, V, M) /\ Linked(P, E, V, M)
      /\ Waits(P, M, L)
  BY DEF Sound
<1> DEFINE x == <<d, n, i>>
           dir == P[i].mode = "dir"
<1>2. /\ P \in [Inos -> Image] /\ E \subseteq Inos \X Labels \X Numbers /\ IsFiniteSet(E)
      /\ P[Root].mode = "dir" /\ ~P[Root].dead
  BY <1>1 DEF Shaped
<1>3. /\ \A k \in Inos : Q[k].mode = P[k].mode /\ Q[k].dead = P[k].dead
      /\ Q[i].links = IF dir THEN 2 ELSE 1
      /\ Q[d].links = IF dir THEN P[d].links + 1 ELSE P[d].links
      /\ i \in Inos /\ i # d /\ i # Root
      /\ \A k \in Inos : P[k].links > 0 => Q[k].links > 0
  <2>1. i \in Inos /\ P[i] \in Image /\ P[d] \in Image /\ P[d].links \in Nat /\ i # d /\ i # Root
    BY <1>2, TableFields, Inodes
  <2>2. Q[i].links = (IF dir THEN 2 ELSE 1) /\ Q[i].mode = P[i].mode /\ Q[i].dead = P[i].dead
    BY <2>1 DEF Image
  <2>3. /\ Q[d].links = IF dir THEN P[d].links + 1 ELSE P[d].links
        /\ Q[d].mode = P[d].mode /\ Q[d].dead = P[d].dead
    BY <2>1 DEF Image
  <2>4. Q[i].links > 0 /\ (P[d].links > 0 => Q[d].links > 0)
    BY <2>1, <2>2, <2>3
  <2> QED BY <2>1, <2>2, <2>3, <2>4
<1>4. /\ x \in Inos \X Labels \X Numbers /\ x \notin E /\ x[1] = d /\ x[2] = n /\ x[3] = i
      /\ F = E \cup {x}
      /\ \A e \in E : e[1] # i /\ e[3] # i
  BY <1>3, Nameless
<1>5. F \subseteq Inos \X Labels \X Numbers /\ IsFiniteSet(F) /\ E \subseteq F
  <2>1. IsFiniteSet(E \cup {x})
    BY <1>2, FS_AddElement, Zenon
  <2> QED BY <2>1, <1>2, <1>4
<1>6. Shaped(Q, F)
  BY <1>2, <1>3, <1>5, Inodes DEF Shaped
<1>7. /\ \A k : EntIn(F, k) = IF k = i THEN {x} ELSE EntIn(E, k)
      /\ EntIn(E, i) = {}
  BY <1>4 DEF EntIn
<1> HIDE DEF x, dir
<1>8. \A k \in Inos : IsDirIn(Q, F, k) <=> IF k = i THEN dir ELSE IsDirIn(P, E, k)
  BY <1>3, <1>7 DEF IsDirIn, dir
<1>9. IsDirIn(Q, F, d)
  BY <1>3, <1>8
<1>10. Leads(Q, F, M \ {i})
  <2> SUFFICES ASSUME NEW e \in F
               PROVE  /\ IsDirIn(Q, F, e[1]) /\ ~Q[e[1]].dead
                      /\ Q[e[3]].links > 0 /\ ~Q[e[3]].dead /\ Q[e[3]].mode # "none"
                      /\ e[1] \notin M \ {i} /\ e[3] \notin M \ {i}
    BY DEF Leads
  <2>1. CASE e = x
    BY <2>1, <1>3, <1>4, <1>9
  <2>2. CASE e \in E
    <3>1. e[1] \in Inos /\ e[3] \in Inos
      BY <2>2, <1>2, EntryFields
    <3>2. /\ IsDirIn(P, E, e[1]) /\ ~P[e[1]].dead /\ e[1] \notin M /\ e[3] \notin M
          /\ P[e[3]].links > 0 /\ ~P[e[3]].dead /\ P[e[3]].mode # "none"
      BY <1>1, <2>2 DEF Leads
    <3>3. Q[e[3]].links > 0 /\ e[1] # i
      BY <3>1, <3>2, <1>3
    <3> QED BY <3>1, <3>2, <3>3, <1>3, <1>8
  <2> QED BY <2>1, <2>2 DEF x
<1>11. Tree(Q, F)
  <2>1. \A e, y \in F : e[1] = y[1] /\ e[2] = y[2] => e = y
    BY <1>1, <1>4 DEF Tree, x
  <2>2. \A e \in F : e # x => e \in E /\ Q[e[3]].mode = P[e[3]].mode /\ e[3] # i
    BY <1>2, <1>3, <1>4, EntryFields DEF x
  <2>3. \A e, y \in F : e[3] = y[3] /\ Q[e[3]].mode = "dir" => e = y
    BY <1>1, <1>4, <2>2 DEF Tree
  <2>4. BelowIn(E, Root) \subseteq BelowIn(F, Root)
    BY <1>5 DEF BelowIn, Closed
  <2>5. d \in BelowIn(F, Root)
    <3>1. CASE d = Root
      BY <3>1 DEF BelowIn
    <3>2. CASE d # Root
      <4>1. PICK y \in E : y[3] = d
        BY <3>2 DEF IsDirIn, EntIn
      <4> QED BY <4>1, <1>1, <2>4 DEF Tree, IsDirIn
    <3> QED BY <3>1, <3>2
  <2>6. i \in BelowIn(F, Root)
    BY <2>5, <1>3, <1>4 DEF BelowIn, Closed, x
  <2>7. \A e \in F : Q[e[3]].mode = "dir" => e[3] \in BelowIn(F, Root)
    BY <1>1, <1>4, <2>2, <2>4, <2>6 DEF Tree
  <2> QED BY <2>1, <2>3, <2>7 DEF Tree
<1>12. Named(Q, F, V, M \ {i})
  <2> SUFFICES ASSUME NEW k \in Numbers \ ((M \ {i}) \cup V), Q[k].mode = "dir", Q[k].links > 0
               PROVE  EntIn(F, k) # {}
    BY DEF Named
  <2>1. CASE k = i
    BY <2>1, <1>7
  <2>2. CASE k # i
    <3>1. k \in Inos /\ k \in Numbers \ (M \cup V) /\ P[k].mode = "dir"
      BY <2>2, <1>3, Inodes
    <3>2. k = d => P[k].links > 0
      BY <3>1, <1>2, TableFields, RootLinks
    <3>3. P[k].links > 0
      BY <2>2, <3>1, <3>2
    <3> QED BY <2>2, <3>1, <3>3, <1>1, <1>7 DEF Named
  <2> QED BY <2>1, <2>2
<1>13. Linked(Q, F, V, M \ {i})
  <2>1. Cardinality(EntIn(F, i)) = 1 /\ Cardinality(SubdirsIn(Q, F, i)) = 0
    <3>1. EntIn(F, i) = {x} /\ SubdirsIn(Q, F, i) = {}
      BY <1>3, <1>4, <1>7 DEF SubdirsIn, x
    <3> QED BY <3>1, FS_Singleton, FS_EmptySet, Zenon
  <2>2. \A e \in F : Q[e[3]].mode = P[e[3]].mode
    BY <1>3, <1>5, EntryFields
  <2>3. /\ \A k : SubdirsIn(Q, F, k) = SubdirsIn(P, F, k)
        /\ \A k : k # d \/ ~dir => SubdirsIn(P, F, k) = SubdirsIn(P, E, k)
        /\ dir => Cardinality(SubdirsIn(P, F, d)) = Cardinality(SubdirsIn(P, E, d)) + 1
    <3>1. \A k : SubdirsIn(Q, F, k) = SubdirsIn(P, F, k)
      BY <2>2, SubdirsSame
    <3>2. \A k : k # d \/ ~dir => SubdirsIn(P, F, k) = SubdirsIn(P, E, k)
      BY <1>4 DEF SubdirsIn, x, dir
    <3>3. dir => Cardinality(SubdirsIn(P, F, d)) = Cardinality(SubdirsIn(P, E, d)) + 1
      <4> SUFFICES ASSUME dir
                   PROVE  Cardinality(SubdirsIn(P, F, d)) = Cardinality(SubdirsIn(P, E, d)) + 1
        OBVIOUS
      <4>1. IsFiniteSet(E) /\ x \notin E /\ x \in SubdirsIn(P, E \cup {x}, d)
        BY <1>2, <1>4 DEF dir, SubdirsIn
      <4>2. Cardinality(SubdirsIn(P, E \cup {x}, d)) = Cardinality(SubdirsIn(P, E, d)) + 1
        BY <4>1, SubdirAdded
      <4> QED BY <4>2, <1>4
    <3> QED BY <3>1, <3>2, <3>3
  <2>4. \A k \in Inos \ (M \ {i}) : Q[k].mode = "file" => Q[k].links = Cardinality(EntIn(F, k))
    <3> SUFFICES ASSUME NEW k \in Inos \ (M \ {i}), Q[k].mode = "file"
                 PROVE  Q[k].links = Cardinality(EntIn(F, k))
      OBVIOUS
    <3>1. CASE k = i
      BY <3>1, <1>3, <2>1 DEF dir
    <3>2. CASE k # i
      <4>1. P[k].mode = "file" /\ k \in Inos \ M /\ Q[k] = P[k] /\ EntIn(F, k) = EntIn(E, k)
        BY <3>2, <1>3, <1>7 DEF IsDirIn
      <4> QED BY <4>1, <1>1 DEF Linked
    <3> QED BY <3>1, <3>2
  <2>5. ASSUME NEW k \in Inos \ (M \ {i}), IsDirIn(Q, F, k)
        PROVE  IF k \in V THEN Q[k].links >= 2 + Cardinality(SubdirsIn(Q, F, k))
               ELSE Q[k].links = 2 + Cardinality(SubdirsIn(Q, F, k))
    <3>1. CASE k = i
      <4>1. Q[k].links = 2 /\ Cardinality(SubdirsIn(Q, F, k)) = 0
        BY <3>1, <2>1, <2>5, <1>3 DEF IsDirIn, dir
      <4>2. 2 >= 2 + 0 /\ 2 = 2 + 0
        OBVIOUS
      <4> QED BY <4>1, <4>2
    <3>2. CASE k # i /\ k # d
      <4>1. SubdirsIn(Q, F, k) = SubdirsIn(P, E, k)
        BY <3>2, <2>3
      <4>2. Q[k] = P[k] /\ IsDirIn(P, E, k) /\ k \in Inos \ M
        BY <3>2, <2>5, <1>8
      <4> QED BY <4>1, <4>2, <1>1 DEF Linked
    <3>3. CASE k = d
      <4>1. IF k \in V THEN P[k].links >= 2 + Cardinality(SubdirsIn(P, E, k))
            ELSE P[k].links = 2 + Cardinality(SubdirsIn(P, E, k))
        BY <3>3, <1>1 DEF Linked
      <4>2. CASE ~dir
        <5>1. SubdirsIn(Q, F, d) = SubdirsIn(P, E, d) /\ Q[d].links = P[d].links
          BY <4>2, <2>3, <1>3
        <5> QED BY <3>3, <4>1, <5>1
      <4>3. CASE dir
        <5>1. Cardinality(SubdirsIn(P, E, d)) \in Nat /\ P[d].links \in Nat
          BY <1>2, Counts, TableFields
        <5>2. /\ Cardinality(SubdirsIn(Q, F, d)) = Cardinality(SubdirsIn(P, E, d)) + 1
              /\ Q[d].links = P[d].links + 1
          BY <4>3, <2>3, <1>3
        <5> DEFINE c == Cardinality(SubdirsIn(P, E, d))
        <5>3. CASE k \in V
          <6>1. P[d].links >= 2 + c
            BY <3>3, <4>1, <5>3
          <6>2. P[d].links + 1 >= 2 + (c + 1)
            BY <5>1, <6>1
          <6> QED BY <3>3, <5>2, <5>3, <6>2
        <5>4. CASE k \notin V
          <6>1. P[d].links = 2 + c
            BY <3>3, <4>1, <5>4
          <6>2. P[d].links + 1 = 2 + (c + 1)
            BY <5>1, <6>1
          <6> QED BY <3>3, <5>2, <5>4, <6>2
        <5> QED BY <5>3, <5>4
      <4> QED BY <4>2, <4>3
    <3> QED BY <3>1, <3>2, <3>3
  <2> QED BY <2>4, <2>5 DEF Linked
<1>14. Waits(Q, M \ {i}, L)
  <2>1. Q[i].links # 0 /\ Q[d].links # 0
    <3>1. P[d].links > 0 /\ P[d].links \in Nat
      BY <1>2, TableFields, RootLinks
    <3> QED BY <3>1, <1>3
  <2> QED BY <2>1, <1>1, Inodes DEF Waits
<1> QED BY <1>6, <1>10, <1>11, <1>12, <1>13, <1>14 DEF Sound

\* The tree is sound after UnlinkEdit.
LEMMA UnlinkSound ==
  ASSUME NEW P, NEW E, NEW V, NEW M, NEW L, Sound(P, E, V, M, L),
         NEW Q, NEW F, NEW K, NEW e,
         UnlinkEdit(P, E, Q, F, L, K, e)
  PROVE  Sound(Q, F, V, M, K)
<1> USE DEF UnlinkEdit
<1>1. Shaped(P, E) /\ Leads(P, E, M) /\ Tree(P, E) /\ Named(P, E, V, M) /\ Linked(P, E, V, M)
      /\ Waits(P, M, L)
  BY DEF Sound
<1> DEFINE i == e[3]
<1>2. /\ P \in [Inos -> Image] /\ E \subseteq Inos \X Labels \X Numbers /\ IsFiniteSet(E)
      /\ P[Root].mode = "dir" /\ ~P[Root].dead
  BY <1>1 DEF Shaped
<1>3. /\ i \in Numbers /\ i \in Inos /\ i # Root /\ i \notin M /\ P[i].links \in Nat /\ P[i].links > 0
  BY <1>1, <1>2, EntryFields, TableFields DEF Leads
<1>4. /\ \A k \in Inos : Q[k].mode = P[k].mode /\ Q[k].dead = P[k].dead
      /\ Q[i].links = P[i].links - 1
  BY <1>2, <1>3, TableFields DEF Image
<1>5. F \subseteq E /\ F \subseteq Inos \X Labels \X Numbers /\ IsFiniteSet(F)
  BY <1>2, FS_Subset
<1>6. Shaped(Q, F)
  BY <1>2, <1>4, <1>5, Inodes DEF Shaped
<1>7. \A k : EntIn(F, k) = IF k = i THEN EntIn(E, i) \ {e} ELSE EntIn(E, k)
  BY DEF EntIn
<1>8. \A k \in Inos : IsDirIn(Q, F, k) <=> IsDirIn(P, E, k)
  BY <1>4, <1>7 DEF IsDirIn
<1>9. P[i].links = Cardinality(EntIn(E, i)) /\ Q[i].links = Cardinality(EntIn(F, i))
  <2>1. P[i].links = Cardinality(EntIn(E, i))
    BY <1>1, <1>3 DEF Linked
  <2>2. Cardinality(EntIn(F, i)) = Cardinality(EntIn(E, i)) - 1
    BY <1>2, EntryRemoved
  <2> QED BY <2>1, <2>2, <1>4
<1>10. Leads(Q, F, M)
  <2> SUFFICES ASSUME NEW y \in F
               PROVE  /\ IsDirIn(Q, F, y[1]) /\ ~Q[y[1]].dead
                      /\ Q[y[3]].links > 0 /\ ~Q[y[3]].dead /\ Q[y[3]].mode # "none"
                      /\ y[1] \notin M /\ y[3] \notin M
    BY DEF Leads
  <2>1. y[1] \in Inos /\ y[3] \in Inos /\ y \in E
    BY <1>5, EntryFields
  <2>2. /\ IsDirIn(P, E, y[1]) /\ ~P[y[1]].dead /\ y[1] \notin M /\ y[3] \notin M
        /\ P[y[3]].links > 0 /\ ~P[y[3]].dead /\ P[y[3]].mode # "none"
    BY <1>1, <2>1 DEF Leads
  <2>3. Q[y[3]].links > 0
    <3>1. CASE y[3] # i
      BY <3>1, <2>1, <2>2
    <3>2. CASE y[3] = i
      <4>1. Cardinality(EntIn(F, i)) > 0
        BY <3>2, <1>5, EntryCounted
      <4> QED BY <3>2, <4>1, <1>9
    <3> QED BY <3>1, <3>2
  <2> QED BY <2>1, <2>2, <2>3, <1>4, <1>8
<1>11. Tree(Q, F)
  <2>1. \A y \in F : Q[y[3]].mode = P[y[3]].mode
    BY <1>4, <1>5, EntryFields
  <2>2. ASSUME NEW y \in F, P[y[3]].mode = "dir"
        PROVE  y[3] \in BelowIn(F, Root)
    <3> SUFFICES ASSUME NEW S \in SUBSET Inos, Root \in S, Closed(F, S) PROVE y[3] \in S
      BY <1>5, EntryFields DEF BelowIn
    <3>1. Closed(E, S \cup {i})
      <4> SUFFICES ASSUME NEW z \in E, z[1] \in S \cup {i} PROVE z[3] \in S \cup {i}
        BY DEF Closed
      <4>1. z[1] # i
        BY <1>1 DEF Leads, IsDirIn
      <4> QED BY <4>1 DEF Closed
    <3>2. y[3] \in S \cup {i}
      BY <1>1, <1>3, <1>5, <2>2, <3>1 DEF Tree, BelowIn
    <3> QED BY <3>2, <2>2
  <2>3. \A y, z \in F : y[1] = z[1] /\ y[2] = z[2] => y = z
    BY <1>1, <1>5 DEF Tree
  <2>4. \A y, z \in F : y[3] = z[3] /\ P[y[3]].mode = "dir" => y = z
    BY <1>1, <1>5 DEF Tree
  <2> QED BY <2>1, <2>2, <2>3, <2>4 DEF Tree
<1>12. Named(Q, F, V, M)
  BY <1>1, <1>3, <1>4, <1>7, Inodes DEF Named
<1>13. Linked(Q, F, V, M)
  <2>1. \A y \in E : Q[y[3]].mode = P[y[3]].mode
    BY <1>2, <1>4, EntryFields
  <2>2. \A k : SubdirsIn(Q, F, k) = SubdirsIn(P, E, k)
    BY <2>1 DEF SubdirsIn
  <2>3. \A k \in Inos \ M : Q[k].mode = "file" => Q[k].links = Cardinality(EntIn(F, k))
    BY <1>1, <1>4, <1>7, <1>9 DEF Linked
  <2>4. ASSUME NEW k \in Inos \ M, IsDirIn(Q, F, k)
        PROVE  IF k \in V THEN Q[k].links >= 2 + Cardinality(SubdirsIn(Q, F, k))
               ELSE Q[k].links = 2 + Cardinality(SubdirsIn(Q, F, k))
    <3>1. IsDirIn(P, E, k) /\ k # i
      BY <2>4, <1>8 DEF IsDirIn
    <3> QED BY <3>1, <2>2, <1>1 DEF Linked
  <2> QED BY <2>3, <2>4 DEF Linked
<1>14. Waits(Q, M, K)
  <2> SUFFICES ASSUME NEW k \in Numbers \ M, Q[k].links = 0, ~Unused(Q[k]) PROVE k \in K
    BY DEF Waits
  <2>1. CASE k = i
    <3>1. Q[i].links = 0
      BY <2>1
    <3>2. P[i].links = 1
      BY <3>1, <1>3, <1>4
    <3> QED BY <2>1, <3>2
  <2>2. CASE k # i
    BY <2>2, <1>1, Inodes DEF Waits
  <2> QED BY <2>1, <2>2
<1> QED BY <1>6, <1>10, <1>11, <1>12, <1>13, <1>14 DEF Sound

\* The tree is sound after RmdirEdit.
LEMMA RmdirSound ==
  ASSUME NEW P, NEW E, NEW V, NEW M, NEW L, Sound(P, E, V, M, L),
         NEW Q, NEW F, NEW K, NEW e, NEW l,
         RmdirEdit(P, E, Q, F, V, L, K, e, l)
  PROVE  Sound(Q, F, V, M, K)
<1> USE DEF RmdirEdit
<1>1. Shaped(P, E) /\ Leads(P, E, M) /\ Tree(P, E) /\ Named(P, E, V, M) /\ Linked(P, E, V, M)
      /\ Waits(P, M, L)
  BY DEF Sound
<1> DEFINE i == e[3]
           d == e[1]
           c == Cardinality(SubdirsIn(P, E, d))
<1>2. /\ P \in [Inos -> Image] /\ E \subseteq Inos \X Labels \X Numbers /\ IsFiniteSet(E)
      /\ P[Root].mode = "dir" /\ ~P[Root].dead
  BY <1>1 DEF Shaped
<1>3. /\ i \in Numbers /\ i \in Inos /\ i # Root /\ i \notin M /\ P[i].links \in Nat /\ i # d
      /\ d \in Inos /\ d \notin M /\ P[d].links \in Nat /\ IsDirIn(P, E, d)
  BY <1>1, <1>2, EntryFields, TableFields DEF Leads
<1>4. /\ \A k \in Inos : Q[k].mode = P[k].mode /\ Q[k].dead = P[k].dead
      /\ Q[i].links = l /\ Q[d].links = P[d].links - 1
  BY <1>2, <1>3, TableFields DEF Image
<1>5. F \subseteq E /\ F \subseteq Inos \X Labels \X Numbers /\ IsFiniteSet(F)
  BY <1>2, FS_Subset
<1>6. Shaped(Q, F)
  BY <1>2, <1>4, <1>5, Inodes DEF Shaped
<1>7. /\ \A y \in E : y[3] = i => y = e
      /\ \A k : EntIn(F, k) = IF k = i THEN {} ELSE EntIn(E, k)
  BY <1>1 DEF EntIn, Tree
<1>8. \A k \in Inos : IsDirIn(Q, F, k) <=> IsDirIn(P, E, k) /\ k # i
  BY <1>3, <1>4, <1>7 DEF IsDirIn
<1>9. /\ c \in Nat /\ c > 0 /\ P[d].links >= 2 + c /\ Q[d].links > 0 /\ Q[d].links # 0
      /\ Cardinality(SubdirsIn(P, F, d)) = c - 1
  <2>1. P[d].links >= 2 + c
    BY <1>3, RootLinks
  <2>2. c \in Nat
    BY <1>2, Counts
  <2>3. c > 0 /\ Cardinality(SubdirsIn(P, F, d)) = c - 1
    <3>1. IsFiniteSet(E) /\ e \in SubdirsIn(P, E, d)
      BY <1>2 DEF SubdirsIn
    <3>2. /\ Cardinality(SubdirsIn(P, E \ {e}, d)) = Cardinality(SubdirsIn(P, E, d)) - 1
          /\ Cardinality(SubdirsIn(P, E, d)) > 0
      BY <3>1, SubdirRemoved
    <3> QED BY <3>2
  <2> HIDE DEF c
  <2> QED BY <2>1, <2>2, <2>3, <1>3, <1>4
<1> HIDE DEF c
<1>10. Leads(Q, F, M)
  <2> SUFFICES ASSUME NEW y \in F
               PROVE  /\ IsDirIn(Q, F, y[1]) /\ ~Q[y[1]].dead
                      /\ Q[y[3]].links > 0 /\ ~Q[y[3]].dead /\ Q[y[3]].mode # "none"
                      /\ y[1] \notin M /\ y[3] \notin M
    BY DEF Leads
  <2>1. y[1] \in Inos /\ y[3] \in Inos /\ y \in E /\ y[3] # i /\ y[1] # i
    BY <1>5, <1>7, EntryFields
  <2>2. /\ IsDirIn(P, E, y[1]) /\ ~P[y[1]].dead /\ y[1] \notin M /\ y[3] \notin M
        /\ P[y[3]].links > 0 /\ ~P[y[3]].dead /\ P[y[3]].mode # "none"
    BY <1>1, <2>1 DEF Leads
  <2>3. Q[y[3]].links > 0
    BY <2>1, <2>2, <1>3, <1>4, <1>9
  <2> QED BY <2>1, <2>2, <2>3, <1>4, <1>8
<1>11. Tree(Q, F)
  <2>1. \A y \in F : Q[y[3]].mode = P[y[3]].mode
    BY <1>4, <1>5, EntryFields
  <2>2. ASSUME NEW y \in F, P[y[3]].mode = "dir"
        PROVE  y[3] \in BelowIn(F, Root)
    <3> SUFFICES ASSUME NEW S \in SUBSET Inos, Root \in S, Closed(F, S) PROVE y[3] \in S
      BY <1>5, EntryFields DEF BelowIn
    <3>1. Closed(E, S \cup {i})
      BY DEF Closed
    <3>2. y[3] \in S \cup {i}
      BY <1>1, <1>3, <1>5, <2>2, <3>1 DEF Tree, BelowIn
    <3> QED BY <3>2, <1>5, <1>7
  <2>3. \A y, z \in F : y[1] = z[1] /\ y[2] = z[2] => y = z
    BY <1>1, <1>5 DEF Tree
  <2>4. \A y, z \in F : y[3] = z[3] /\ P[y[3]].mode = "dir" => y = z
    BY <1>1, <1>5 DEF Tree
  <2> QED BY <2>1, <2>2, <2>3, <2>4 DEF Tree
<1>12. Named(Q, F, V, M)
  <2> SUFFICES ASSUME NEW k \in Numbers \ (M \cup V), Q[k].mode = "dir", Q[k].links > 0
               PROVE  EntIn(F, k) # {}
    BY DEF Named
  <2>1. k # i
    BY <1>4
  <2>2. k \in Inos /\ P[k].mode = "dir"
    BY <1>4, Inodes
  <2>3. P[k].links > 0
    BY <2>1, <2>2, <1>3, <1>9
  <2> QED BY <2>1, <2>2, <2>3, <1>1, <1>7 DEF Named
<1>13. Linked(Q, F, V, M)
  <2>1. \A y \in F : Q[y[3]].mode = P[y[3]].mode
    BY <1>4, <1>5, EntryFields
  <2>2. \A k : SubdirsIn(Q, F, k) = SubdirsIn(P, F, k)
    BY <2>1, SubdirsSame
  <2>3. \A k : k # d => SubdirsIn(P, F, k) = SubdirsIn(P, E, k)
    BY DEF SubdirsIn
  <2>4. \A k \in Inos \ M : Q[k].mode = "file" => Q[k].links = Cardinality(EntIn(F, k))
    <3> SUFFICES ASSUME NEW k \in Inos \ M, Q[k].mode = "file"
                 PROVE  Q[k].links = Cardinality(EntIn(F, k))
      OBVIOUS
    <3>1. k # i /\ k # d /\ P[k].mode = "file"
      BY <1>3, <1>4 DEF IsDirIn
    <3>2. P[k].links = Cardinality(EntIn(E, k))
      BY <3>1, <1>1 DEF Linked
    <3> QED BY <3>1, <3>2, <1>7
  <2>5. ASSUME NEW k \in Inos \ M, IsDirIn(Q, F, k)
        PROVE  IF k \in V THEN Q[k].links >= 2 + Cardinality(SubdirsIn(Q, F, k))
               ELSE Q[k].links = 2 + Cardinality(SubdirsIn(Q, F, k))
    <3>1. IsDirIn(P, E, k) /\ k # i
      BY <2>5, <1>8
    <3>2. CASE k # d
      <4>1. Q[k] = P[k] /\ SubdirsIn(Q, F, k) = SubdirsIn(P, E, k)
        BY <3>1, <3>2, <2>2, <2>3
      <4> QED BY <3>1, <4>1, <1>1 DEF Linked
    <3>3. CASE k = d
      <4>1. Cardinality(SubdirsIn(Q, F, k)) = c - 1 /\ Q[k].links = P[d].links - 1
        BY <3>3, <2>2, <1>4, <1>9
      <4>2. CASE k \in V
        <5>1. P[d].links - 1 >= 2 + (c - 1)
          BY <1>3, <1>9
        <5> QED BY <4>1, <4>2, <5>1
      <4>3. CASE k \notin V
        <5>1. P[d].links = 2 + c
          BY <3>1, <3>3, <4>3, <1>1 DEF Linked, c
        <5>2. P[d].links - 1 = 2 + (c - 1)
          BY <5>1, <1>9
        <5> QED BY <4>1, <4>3, <5>2
      <4> QED BY <4>2, <4>3
    <3> QED BY <3>2, <3>3
  <2> QED BY <2>4, <2>5 DEF Linked
<1>14. Waits(Q, M, K)
  <2> SUFFICES ASSUME NEW k \in Numbers \ M, Q[k].links = 0, ~Unused(Q[k]) PROVE k \in K
    BY DEF Waits
  <2>1. CASE k = i
    BY <2>1, <1>4
  <2>2. CASE k # i
    <3>1. k # d
      BY <1>4, <1>9
    <3> QED BY <2>2, <3>1, <1>1, Inodes DEF Waits
  <2> QED BY <2>1, <2>2
<1> QED BY <1>6, <1>10, <1>11, <1>12, <1>13, <1>14 DEF Sound

\* The tree is sound after MoveEdit.
LEMMA MoveSound ==
  ASSUME NEW P, NEW E, NEW V, NEW M, NEW L, Sound(P, E, V, M, L),
         NEW Q, NEW F, NEW e, NEW d, NEW n,
         MoveEdit(P, E, Q, F, M, e, d, n)
  PROVE  Sound(Q, F, V, M, L)
<1> USE DEF MoveEdit
<1>1. Shaped(P, E) /\ Leads(P, E, M) /\ Tree(P, E) /\ Named(P, E, V, M) /\ Linked(P, E, V, M)
      /\ Waits(P, M, L)
  BY DEF Sound
<1> DEFINE i == e[3]
           s == e[1]
           x == <<d, n, i>>
           G == E \ {e}
           across == P[i].mode = "dir" /\ d # s
<1>2. /\ P \in [Inos -> Image] /\ E \subseteq Inos \X Labels \X Numbers /\ IsFiniteSet(E)
      /\ P[Root].mode = "dir" /\ ~P[Root].dead
  BY <1>1 DEF Shaped
<1>3. /\ i \in Numbers /\ i \in Inos /\ i # Root /\ i \notin M /\ P[i].links \in Nat
      /\ s \in Inos /\ s \notin M /\ P[s].links \in Nat /\ IsDirIn(P, E, s) /\ P[d].links \in Nat
  BY <1>1, <1>2, EntryFields, TableFields DEF Leads
<1>4. /\ \A k \in Inos : Q[k].mode = P[k].mode /\ Q[k].dead = P[k].dead
      /\ across => Q[d].links = P[d].links + 1 /\ Q[s].links = P[s].links - 1
      /\ ~across => Q = P
      /\ \A k \in Inos : k # d /\ k # s => Q[k] = P[k]
  <2>1. CASE across
    <3>1. /\ Q[d] = [P[d] EXCEPT !.links = @ + 1] /\ Q[s] = [P[s] EXCEPT !.links = @ - 1]
          /\ P[d] \in Image /\ P[s] \in Image
      BY <2>1, <1>2, <1>3, TableFields
    <3> QED BY <2>1, <3>1 DEF Image
  <2>2. CASE ~across
    <3>1. \A k \in Inos : Q[k] = P[k]
      BY <2>2
    <3>2. Q = P
      BY <3>1, <1>2
    <3> QED BY <2>2, <3>1, <3>2
  <2> QED BY <2>1, <2>2
<1>5. /\ x \in Inos \X Labels \X Numbers /\ x \notin E /\ x \notin G /\ F = G \cup {x}
      /\ x[1] = d /\ x[2] = n /\ x[3] = i /\ x # e
      /\ G \subseteq E /\ e \in E /\ e \notin G /\ e[3] = i /\ e[1] = s
      /\ \A y \in F : y # x => y \in E /\ y # e
  BY <1>3
<1>6. F \subseteq Inos \X Labels \X Numbers /\ IsFiniteSet(G) /\ IsFiniteSet(F)
  <2>1. IsFiniteSet(G)
    BY <1>2, FS_Subset
  <2>2. IsFiniteSet(G \cup {x})
    BY <2>1, FS_AddElement, Zenon
  <2> QED BY <2>1, <2>2, <1>2, <1>5
<1>7. Shaped(Q, F)
  BY <1>2, <1>4, <1>6, Inodes DEF Shaped
<1>8. /\ \A k : k # i => EntIn(F, k) = EntIn(E, k)
      /\ e \in EntIn(E, i) /\ x \in EntIn(F, i)
  BY <1>5 DEF EntIn
<1>9. Cardinality(EntIn(F, i)) = Cardinality(EntIn(E, i))
  <2>1. Cardinality(EntIn(G, i)) = Cardinality(EntIn(E, i)) - 1
    BY <1>2, EntryRemoved
  <2>2. Cardinality(EntIn(G \cup {x}, x[3])) = Cardinality(EntIn(G, x[3])) + 1
    <3>1. IsFiniteSet(G) /\ x \notin G
      BY <1>5, <1>6
    <3> HIDE DEF G, x
    <3> QED BY <3>1, EntryAdded
  <2>3. Cardinality(EntIn(E, i)) \in Nat
    BY <1>2, Counts
  <2>4. Cardinality(EntIn(F, i)) = Cardinality(EntIn(G, i)) + 1
    BY <2>2, <1>5
  <2> HIDE DEF G
  <2> QED BY <2>1, <2>3, <2>4
<1> HIDE DEF x, G, across
<1>10. \A k \in Inos : IsDirIn(Q, F, k) <=> IsDirIn(P, E, k)
  BY <1>4, <1>8 DEF IsDirIn
<1>11. /\ P[s].links >= 2 /\ P[d].links >= 2 /\ Q[d].links > 0 /\ Q[d].links # 0
       /\ Q[s].links > 0 /\ Q[s].links # 0
  <2>1. P[s].links >= 2 /\ P[d].links >= 2
    BY <1>3, RootLinks
  <2> QED BY <2>1, <1>3, <1>4 DEF across
<1>12. Leads(Q, F, M)
  <2> SUFFICES ASSUME NEW y \in F
               PROVE  /\ IsDirIn(Q, F, y[1]) /\ ~Q[y[1]].dead
                      /\ Q[y[3]].links > 0 /\ ~Q[y[3]].dead /\ Q[y[3]].mode # "none"
                      /\ y[1] \notin M /\ y[3] \notin M
    BY DEF Leads
  <2>1. y[1] \in Inos /\ y[3] \in Inos
    BY <1>6, EntryFields
  <2>2. /\ IsDirIn(P, E, y[1]) /\ ~P[y[1]].dead /\ y[1] \notin M /\ y[3] \notin M
        /\ P[y[3]].links > 0 /\ ~P[y[3]].dead /\ P[y[3]].mode # "none"
    BY <1>1, <1>5 DEF Leads
  <2>3. Q[y[3]].links > 0
    BY <2>1, <2>2, <1>4, <1>11
  <2> QED BY <2>1, <2>2, <2>3, <1>4, <1>10
<1>13. Tree(Q, F)
  <2>1. \A y \in F : Q[y[3]].mode = P[y[3]].mode
    BY <1>4, <1>6, EntryFields
  <2>2. ASSUME NEW S \in SUBSET Inos, Root \in S, Closed(F, S),
               NEW y \in E, P[y[3]].mode = "dir"
        PROVE  y[3] \in S
    <3>1. \A R \in SUBSET Inos : Root \in R /\ Closed(E, R) =>
            \A z \in E : P[z[3]].mode = "dir" => z[3] \in R
      BY <1>1 DEF Tree, BelowIn
    <3>2. \A z \in E : z # e => z \in F
      BY <1>5 DEF G
    <3>3. CASE P[i].mode # "dir"
      <4>1. Closed(E, S \cup {i})
        <5> SUFFICES ASSUME NEW z \in E, z[1] \in S \cup {i} PROVE z[3] \in S \cup {i}
          BY DEF Closed
        <5>1. z[1] # i
          BY <1>1, <3>3 DEF Leads, IsDirIn
        <5> QED BY <5>1, <3>2, <2>2 DEF Closed
      <4>2. S \cup {i} \in SUBSET Inos /\ Root \in S \cup {i}
        BY <2>2, <1>3
      <4>3. y[3] \in S \cup {i}
        BY <4>1, <4>2, <3>1, <2>2
      <4> QED BY <4>3, <3>3, <2>2
    <3>4. CASE P[i].mode = "dir" /\ d = s
      <4>1. Closed(E, S)
        <5> SUFFICES ASSUME NEW z \in E, z[1] \in S PROVE z[3] \in S
          BY DEF Closed
        <5>1. x \in F
          BY <1>5
        <5> QED BY <5>1, <3>2, <3>4, <1>5, <2>2 DEF Closed
      <4> QED BY <4>1, <3>1, <2>2
    <3>5. CASE across
      <4> DEFINE C == BelowIn(E, i)
      <4>1. C \subseteq Inos /\ i \in C /\ d \notin C
        BY <3>5, <1>3 DEF BelowIn, across
      <4>2. \A z \in E : z[1] \in C => z[3] \in C
        BY <1>2, EntryFields DEF BelowIn, Closed
      <4> HIDE DEF C
      <4>3. Closed(E, S \cup C)
        <5> SUFFICES ASSUME NEW z \in E, z[1] \in S \cup C PROVE z[3] \in S \cup C
          BY DEF Closed
        <5> QED BY <4>1, <4>2, <3>2, <1>5, <2>2 DEF Closed
      <4>4. S \cup C \in SUBSET Inos /\ Root \in S \cup C
        BY <2>2, <4>1
      <4>5. d \in S
        <5>1. CASE d = Root
          BY <5>1, <2>2
        <5>2. CASE d # Root
          <6>1. PICK z \in E : z[3] = d
            BY <5>2 DEF IsDirIn, EntIn
          <6>2. d \in S \cup C
            BY <6>1, <4>3, <4>4, <3>1 DEF IsDirIn
          <6> QED BY <6>2, <4>1
        <5> QED BY <5>1, <5>2
      <4>6. i \in S
        BY <4>5, <1>5, <2>2 DEF Closed
      <4>7. Closed(E, S)
        <5> SUFFICES ASSUME NEW z \in E, z[1] \in S PROVE z[3] \in S
          BY DEF Closed
        <5> QED BY <4>6, <3>2, <1>5, <2>2 DEF Closed
      <4> QED BY <4>7, <3>1, <2>2
    <3> QED BY <3>3, <3>4, <3>5 DEF across
  <2>3. ASSUME NEW y \in F, P[y[3]].mode = "dir"
        PROVE  y[3] \in BelowIn(F, Root)
    <3> SUFFICES ASSUME NEW S \in SUBSET Inos, Root \in S, Closed(F, S) PROVE y[3] \in S
      BY <1>6, EntryFields DEF BelowIn
    <3> QED BY <2>2, <2>3, <1>5
  <2>4. \A y, z \in F : y[1] = z[1] /\ y[2] = z[2] => y = z
    BY <1>1, <1>5 DEF Tree
  <2>5. \A y, z \in F : y[3] = z[3] /\ P[y[3]].mode = "dir" => y = z
    <3>1. \A y \in F : y[3] = i /\ P[y[3]].mode = "dir" => y = x
      BY <1>1, <1>5 DEF Tree
    <3> QED BY <3>1, <1>1, <1>5 DEF Tree
  <2>6. \A y, z \in F : y[3] = z[3] /\ Q[y[3]].mode = "dir" => y = z
    BY <2>1, <2>5
  <2>7. \A y \in F : Q[y[3]].mode = "dir" => y[3] \in BelowIn(F, Root)
    BY <2>1, <2>3
  <2> QED BY <2>4, <2>6, <2>7 DEF Tree
<1>14. Named(Q, F, V, M)
  <2> SUFFICES ASSUME NEW k \in Numbers \ (M \cup V), Q[k].mode = "dir", Q[k].links > 0
               PROVE  EntIn(F, k) # {}
    BY DEF Named
  <2>1. k \in Inos /\ P[k].mode = "dir" /\ P[k].links > 0
    <3>1. k \in Inos /\ P[k].mode = "dir"
      BY <1>4, Inodes
    <3>2. CASE k = d \/ k = s
      BY <3>1, <3>2, <1>3, <1>11
    <3>3. CASE k # d /\ k # s
      BY <3>1, <3>3, <1>4
    <3> QED BY <3>1, <3>2, <3>3
  <2>2. EntIn(E, k) # {}
    BY <2>1, <1>1 DEF Named
  <2> QED BY <2>2, <1>8
<1>15. Linked(Q, F, V, M)
  <2>1. \A y \in F : Q[y[3]].mode = P[y[3]].mode
    BY <1>4, <1>6, EntryFields
  <2>2. \A k : SubdirsIn(Q, F, k) = SubdirsIn(P, F, k)
    BY <2>1, SubdirsSame
  <2>3. /\ \A k : k # d /\ k # s => SubdirsIn(P, F, k) = SubdirsIn(P, E, k)
        /\ P[i].mode # "dir" => \A k : SubdirsIn(P, F, k) = SubdirsIn(P, E, k)
    BY <1>5 DEF SubdirsIn
  <2>4. \A k \in Inos \ M : Q[k].mode = "file" => Q[k].links = Cardinality(EntIn(F, k))
    <3> SUFFICES ASSUME NEW k \in Inos \ M, Q[k].mode = "file"
                 PROVE  Q[k].links = Cardinality(EntIn(F, k))
      OBVIOUS
    <3>1. k # s /\ k # d /\ P[k].mode = "file" /\ Q[k] = P[k]
      BY <1>3, <1>4 DEF IsDirIn
    <3>2. P[k].links = Cardinality(EntIn(E, k))
      BY <3>1, <1>1 DEF Linked
    <3> QED BY <3>1, <3>2, <1>8, <1>9
  <2>5. P[i].mode = "dir" =>
          /\ Cardinality(SubdirsIn(P, G, s)) = Cardinality(SubdirsIn(P, E, s)) - 1
          /\ Cardinality(SubdirsIn(P, F, d)) = Cardinality(SubdirsIn(P, G, d)) + 1
    <3> SUFFICES ASSUME P[i].mode = "dir"
                 PROVE  /\ Cardinality(SubdirsIn(P, G, s)) = Cardinality(SubdirsIn(P, E, s)) - 1
                        /\ Cardinality(SubdirsIn(P, F, d)) = Cardinality(SubdirsIn(P, G, d)) + 1
      OBVIOUS
    <3>1. /\ IsFiniteSet(E) /\ e \in SubdirsIn(P, E, s)
          /\ IsFiniteSet(G) /\ x \notin G /\ x \in SubdirsIn(P, G \cup {x}, d)
      BY <1>2, <1>5, <1>6 DEF SubdirsIn
    <3>2. Cardinality(SubdirsIn(P, E \ {e}, s)) = Cardinality(SubdirsIn(P, E, s)) - 1
      BY <3>1, SubdirRemoved
    <3>3. Cardinality(SubdirsIn(P, G \cup {x}, d)) = Cardinality(SubdirsIn(P, G, d)) + 1
      BY <3>1, SubdirAdded
    <3> QED BY <3>2, <3>3, <1>5 DEF G
  <2>6. d # s => SubdirsIn(P, G, d) = SubdirsIn(P, E, d) /\ SubdirsIn(P, F, s) = SubdirsIn(P, G, s)
    BY <1>5 DEF SubdirsIn, G
  <2>7. ASSUME NEW k \in Inos \ M, IsDirIn(Q, F, k)
        PROVE  IF k \in V THEN Q[k].links >= 2 + Cardinality(SubdirsIn(Q, F, k))
               ELSE Q[k].links = 2 + Cardinality(SubdirsIn(Q, F, k))
    <3> DEFINE c == Cardinality(SubdirsIn(P, E, k))
               f == Cardinality(SubdirsIn(P, F, k))
    <3>1. /\ c \in Nat /\ P[k].links \in Nat
          /\ k \in V => P[k].links >= 2 + c
          /\ k \notin V => P[k].links = 2 + c
      BY <1>1, <1>2, <1>10, <2>7, Counts, TableFields DEF Linked
    <3>2. \/ Q[k].links = P[k].links /\ f = c
          \/ Q[k].links = P[k].links + 1 /\ f = c + 1
          \/ Q[k].links = P[k].links - 1 /\ f = c - 1
      <4>1. CASE k # d /\ k # s
        BY <4>1, <1>4, <2>3
      <4>2. CASE P[i].mode # "dir"
        BY <4>2, <1>4, <2>3 DEF across
      <4>3. CASE across /\ k = d
        BY <4>3, <1>4, <2>5, <2>6 DEF across
      <4>4. CASE across /\ k = s
        BY <4>4, <1>4, <2>5, <2>6 DEF across
      <4>5. CASE P[i].mode = "dir" /\ d = s /\ k = d
        <5>1. Q[k].links = P[k].links
          BY <4>5, <1>4 DEF across
        <5>2. f = (c - 1) + 1
          BY <4>5, <2>5
        <5> HIDE DEF c, f
        <5> QED BY <5>1, <5>2, <3>1
      <4> QED BY <4>1, <4>2, <4>3, <4>4, <4>5 DEF across
    <3> HIDE DEF c, f
    <3>3. /\ k \in V => Q[k].links >= 2 + f
          /\ k \notin V => Q[k].links = 2 + f
      BY <3>1, <3>2
    <3> QED BY <3>3, <2>2 DEF f
  <2> QED BY <2>4, <2>7 DEF Linked
<1>16. Waits(Q, M, L)
  BY <1>1, <1>4, <1>11, Inodes DEF Waits
<1> QED BY <1>7, <1>12, <1>13, <1>14, <1>15, <1>16 DEF Sound

\* The tree is sound after SlackEdit.
LEMMA SlackSound ==
  ASSUME NEW P, NEW E, NEW V, NEW M, NEW L, Sound(P, E, V, M, L),
         NEW Q, NEW W, NEW K,
         SlackEdit(P, E, Q, V, W, L, K)
  PROVE  Sound(Q, E, W, M, K)
<1> USE DEF SlackEdit
<1>1. Shaped(P, E) /\ Leads(P, E, M) /\ Tree(P, E) /\ Named(P, E, V, M) /\ Linked(P, E, V, M)
      /\ Waits(P, M, L)
  BY DEF Sound
<1>2. /\ P \in [Inos -> Image] /\ E \subseteq Inos \X Labels \X Numbers /\ IsFiniteSet(E)
      /\ \A k \in Inos : P[k].links \in Nat /\ Q[k].links \in Nat
  BY <1>1, TableFields DEF Shaped
<1>3. \A y \in E : y[1] \in Inos /\ y[3] \in Inos
  BY <1>2, EntryFields
<1>4. \A k \in Inos : IsDirIn(Q, E, k) <=> IsDirIn(P, E, k)
  BY DEF IsDirIn
<1>5. Shaped(Q, E)
  BY <1>1, Inodes DEF Shaped
<1>6. Leads(Q, E, M)
  <2>1. \A k \in Inos : P[k].links > 0 => Q[k].links > 0
    BY <1>2
  <2> QED BY <2>1, <1>1, <1>3, <1>4 DEF Leads
<1>7. Tree(Q, E)
  BY <1>1, <1>3 DEF Tree
<1>8. Named(Q, E, W, M)
  BY <1>1, Inodes DEF Named
<1>9. Linked(Q, E, W, M)
  <2>1. \A k : SubdirsIn(Q, E, k) = SubdirsIn(P, E, k)
    BY <1>3, SubdirsSame
  <2>2. \A k \in Inos \ M : Q[k].mode = "file" => Q[k].links = Cardinality(EntIn(E, k))
    BY <1>1 DEF Linked, IsDirIn
  <2>3. ASSUME NEW k \in Inos \ M, IsDirIn(Q, E, k)
        PROVE  IF k \in W THEN Q[k].links >= 2 + Cardinality(SubdirsIn(Q, E, k))
               ELSE Q[k].links = 2 + Cardinality(SubdirsIn(Q, E, k))
    <3>1. P[k].links >= 2 + Cardinality(SubdirsIn(P, E, k))
      BY <1>4, <2>3, RootLinks
    <3>2. Cardinality(SubdirsIn(P, E, k)) \in Nat
      BY <1>2, Counts
    <3>3. Q[k].links >= 2 + Cardinality(SubdirsIn(P, E, k))
      BY <1>2, <3>1, <3>2
    <3>4. k \notin W => Q[k].links = P[k].links /\ P[k].links = 2 + Cardinality(SubdirsIn(P, E, k))
      BY <1>1, <1>4, <2>3 DEF Linked
    <3> QED BY <3>3, <3>4, <2>1
  <2> QED BY <2>2, <2>3 DEF Linked
<1>10. Waits(Q, M, K)
  <2> SUFFICES ASSUME NEW k \in Numbers \ M, Q[k].links = 0, ~Unused(Q[k]) PROVE k \in K
    BY DEF Waits
  <2>1. P[k].links = 0
    BY <1>2, Inodes
  <2>2. ~Unused(P[k])
    BY <2>1, Inodes DEF Unused
  <2> QED BY <2>1, <2>2, <1>1 DEF Waits
<1> QED BY <1>5, <1>6, <1>7, <1>8, <1>9, <1>10 DEF Sound

\* The tree is sound after MadeEdit.
LEMMA MadeSound ==
  ASSUME NEW P, NEW E, NEW V, NEW M, NEW L, Sound(P, E, V, M, L),
         NEW Q, NEW W, NEW i,
         MadeEdit(P, E, Q, V, W, i)
  PROVE  Sound(Q, E, W, M \cup {i}, L)
<1> USE DEF MadeEdit
<1>1. Shaped(P, E) /\ Leads(P, E, M) /\ Tree(P, E) /\ Named(P, E, V, M) /\ Linked(P, E, V, M)
      /\ Waits(P, M, L)
  BY DEF Sound
<1>2. \A e \in E : e[1] \in Inos /\ e[3] \in Inos /\ Q[e[1]] = P[e[1]] /\ Q[e[3]] = P[e[3]]
  BY <1>1, EntryFields DEF Shaped
<1>3. \A k \in Inos : k # i => (IsDirIn(Q, E, k) <=> IsDirIn(P, E, k))
  BY DEF IsDirIn
<1>4. Shaped(Q, E)
  BY <1>1, Inodes DEF Shaped
<1>5. Leads(Q, E, M \cup {i})
  BY <1>1, <1>2, <1>3 DEF Leads
<1>6. Tree(Q, E)
  BY <1>1, <1>2 DEF Tree
<1>7. Named(Q, E, W, M \cup {i})
  BY <1>1, Inodes DEF Named
<1>8. Linked(Q, E, W, M \cup {i})
  <2>1. \A k : SubdirsIn(Q, E, k) = SubdirsIn(P, E, k)
    BY <1>2, SubdirsSame
  <2>2. \A k \in Inos \ (M \cup {i}) : Q[k] = P[k] /\ (k \in W <=> k \in V)
    OBVIOUS
  <2> QED BY <2>1, <2>2, <1>1, <1>3 DEF Linked
<1>9. Waits(Q, M \cup {i}, L)
  BY <1>1, Inodes DEF Waits
<1> QED BY <1>4, <1>5, <1>6, <1>7, <1>8, <1>9 DEF Sound

\* The tree is sound after UnmadeEdit.
LEMMA UnmadeSound ==
  ASSUME NEW P, NEW E, NEW V, NEW M, NEW L, Sound(P, E, V, M, L),
         NEW Q, NEW N, NEW K, NEW i,
         UnmadeEdit(P, E, Q, M, N, L, K, i)
  PROVE  Sound(Q, E, V, N, K)
<1> USE DEF UnmadeEdit
<1>1. Shaped(P, E) /\ Leads(P, E, M) /\ Tree(P, E) /\ Named(P, E, V, M) /\ Linked(P, E, V, M)
      /\ Waits(P, M, L)
  BY DEF Sound
<1>2. \A e \in E : e[1] \in Inos /\ e[3] \in Inos /\ Q[e[1]] = P[e[1]] /\ Q[e[3]] = P[e[3]]
  BY <1>1, EntryFields DEF Shaped
<1>3. \A k \in Inos : k # i => (IsDirIn(Q, E, k) <=> IsDirIn(P, E, k))
  BY DEF IsDirIn
<1>4. EntIn(E, i) = {} /\ Q[i].links = 0 /\ ~IsDirIn(Q, E, i)
  BY Inodes DEF EntIn, IsDirIn, Unused
<1>5. Shaped(Q, E)
  BY <1>1, Inodes DEF Shaped
<1>6. Leads(Q, E, N)
  BY <1>1, <1>2, <1>3 DEF Leads
<1>7. Tree(Q, E)
  BY <1>1, <1>2 DEF Tree
<1>8. Named(Q, E, V, N)
  <2>1. ~(Q[i].links > 0)
    BY <1>4
  <2> QED BY <2>1, <1>1, Inodes DEF Named
<1>9. Linked(Q, E, V, N)
  <2>1. \A k : SubdirsIn(Q, E, k) = SubdirsIn(P, E, k)
    BY <1>2, SubdirsSame
  <2>2. Q[i].links = Cardinality(EntIn(E, i))
    BY <1>4, FS_EmptySet
  <2>3. \A k \in Inos \ N : k # i => k \in Inos \ M /\ Q[k] = P[k]
    OBVIOUS
  <2> QED BY <2>1, <2>2, <2>3, <1>1, <1>3, <1>4 DEF Linked
<1>10. Waits(Q, N, K)
  BY <1>1, Inodes DEF Waits
<1> QED BY <1>5, <1>6, <1>7, <1>8, <1>9, <1>10 DEF Sound

\* A mount after a crash: what was being made is free, and with it the entries N of new inodes;
\* what was listed without links is freed.
LEMMA UndoneSound ==
  ASSUME NEW P, NEW E, NEW V, NEW M, NEW L, Sound(P, E, V, M, L), M \subseteq Numbers,
         NEW N \in SUBSET E, \A x, y \in N : x[1] = y[1] => x = y,
         \A x \in N : \A y \in E : y[1] # x[3] /\ (y[3] = x[3] => y = x),
         NEW Q \in [Inos -> Image], \A k \in M : Unused(Q[k]),
         \A x \in N : /\ Unused(Q[x[3]])
                      /\ Q[x[1]].mode = P[x[1]].mode /\ Q[x[1]].dead = P[x[1]].dead
                      /\ Q[x[1]].links = IF P[x[3]].mode = "dir" THEN P[x[1]].links - 1
                                         ELSE P[x[1]].links,
         \A k \in Inos \ M : (\A x \in N : k # x[1] /\ k # x[3]) =>
            \/ Q[k] = P[k] /\ (k \in L /\ P[k].links = 0 => P[k].dead)
            \/ P[k].links = 0 /\ Q[k].links = 0 /\ Q[k].dead /\ Q[k].mode = P[k].mode
  PROVE  Sound(Q, E \ N, V, {}, {})
<1>1. Shaped(P, E) /\ Leads(P, E, M) /\ Tree(P, E) /\ Named(P, E, V, M) /\ Linked(P, E, V, M)
      /\ Waits(P, M, L)
  BY DEF Sound
<1> DEFINE F == E \ N
           I == {x[3] : x \in N}
           D == {x[1] : x \in N}
<1>2. /\ P \in [Inos -> Image] /\ E \subseteq Inos \X Labels \X Numbers /\ IsFiniteSet(E)
      /\ P[Root].mode = "dir" /\ ~P[Root].dead
      /\ \A k \in Inos : P[k].links \in Nat /\ Q[k].links \in Nat
  BY <1>1, TableFields DEF Shaped
<1>3. /\ F \subseteq E /\ IsFiniteSet(F) /\ F \subseteq Inos \X Labels \X Numbers
      /\ \A y \in E : y \in F \/ y \in N
  BY <1>2, FS_Subset
<1>4. /\ \A x \in N : /\ x \in E /\ x[3] \in I /\ x[1] \in D
                      /\ x[1] \in Inos /\ x[3] \in Numbers /\ x[3] \in Inos
                      /\ x[1] \notin I /\ x[1] \notin M /\ x[3] \notin M
                      /\ IsDirIn(P, E, x[1]) /\ P[x[1]].links >= 2
  <2> SUFFICES ASSUME NEW x \in N
               PROVE  /\ x \in E /\ x[3] \in I /\ x[1] \in D
                      /\ x[1] \in Inos /\ x[3] \in Numbers /\ x[3] \in Inos
                      /\ x[1] \notin I /\ x[1] \notin M /\ x[3] \notin M
                      /\ IsDirIn(P, E, x[1]) /\ P[x[1]].links >= 2
    OBVIOUS
  <2>1. x \in E /\ x[1] \in Inos /\ x[3] \in Numbers /\ x[3] \in Inos
    BY <1>2, EntryFields
  <2>2. IsDirIn(P, E, x[1]) /\ x[1] \notin M /\ x[3] \notin M
    BY <1>1, <2>1 DEF Leads
  <2>3. P[x[1]].links >= 2
    BY <2>1, <2>2, RootLinks
  <2>4. x[1] \notin I
    BY <2>1
  <2> QED BY <2>1, <2>2, <2>3, <2>4
<1>5. /\ I \subseteq Numbers
      /\ \A k \in M \cup I : Unused(Q[k]) /\ Q[k].links = 0 /\ k \in Numbers /\ k \notin D
      /\ \A y \in F : y[1] \notin I /\ y[3] \notin I /\ y[1] \notin M /\ y[3] \notin M
  <2>1. I \subseteq Numbers
    BY <1>4
  <2>2. \A k \in M \cup I : Unused(Q[k]) /\ k \in Numbers
    BY <1>4
  <2>3. \A k \in M \cup I : k \notin D
    BY <1>4
  <2>4. \A y \in F : y[1] \notin I /\ y[3] \notin I
    OBVIOUS
  <2>5. \A y \in F : y[1] \notin M /\ y[3] \notin M
    BY <1>1, <1>3 DEF Leads
  <2> QED BY <2>1, <2>2, <2>3, <2>4, <2>5 DEF Unused
<1>6. /\ \A k \in I : EntIn(F, k) = {}
      /\ \A k : k \notin I => EntIn(F, k) = EntIn(E, k)
      /\ \A k \in M : EntIn(F, k) = {}
  <2>1. /\ \A k \in I : EntIn(F, k) = {}
        /\ \A k : k \notin I => EntIn(F, k) = EntIn(E, k)
    BY DEF EntIn
  <2>2. \A k \in M : EntIn(F, k) = {}
    BY <1>5 DEF EntIn
  <2> QED BY <2>1, <2>2
<1>7. \A k \in Inos : k \notin M \cup I =>
        /\ Q[k].mode = P[k].mode
        /\ P[k].links > 0 => Q[k].links > 0 /\ Q[k].dead = P[k].dead
        /\ Q[k].links > 0 => P[k].links > 0
        /\ k \notin D => Q[k].links = P[k].links
  <2> SUFFICES ASSUME NEW k \in Inos, k \notin M \cup I
               PROVE  /\ Q[k].mode = P[k].mode
                      /\ P[k].links > 0 => Q[k].links > 0 /\ Q[k].dead = P[k].dead
                      /\ Q[k].links > 0 => P[k].links > 0
                      /\ k \notin D => Q[k].links = P[k].links
    OBVIOUS
  <2>1. CASE k \in D
    <3>1. PICK x \in N : x[1] = k
      BY <2>1
    <3>2. /\ Q[k].mode = P[k].mode /\ Q[k].dead = P[k].dead
          /\ Q[k].links = P[k].links - 1 \/ Q[k].links = P[k].links
          /\ P[k].links >= 2 /\ P[k].links \in Nat
      BY <3>1, <1>2, <1>4
    <3>3. Q[k].links > 0 /\ P[k].links > 0
      BY <3>2
    <3> QED BY <2>1, <3>2, <3>3
  <2>2. CASE k \notin D
    <3>1. \A x \in N : k # x[1] /\ k # x[3]
      BY <2>2
    <3>2. \/ Q[k] = P[k]
          \/ P[k].links = 0 /\ Q[k].links = 0 /\ Q[k].dead /\ Q[k].mode = P[k].mode
      BY <3>1
    <3> QED BY <3>2, <1>2
  <2> QED BY <2>1, <2>2
<1>8. ASSUME NEW k \in Inos PROVE IsDirIn(Q, F, k) <=> IsDirIn(P, E, k) /\ k \notin M \cup I
  <2>1. CASE k \in M \cup I
    BY <2>1, <1>5, <1>6, Inodes DEF IsDirIn
  <2>2. CASE k \notin M \cup I
    BY <2>2, <1>6, <1>7 DEF IsDirIn
  <2> QED BY <2>1, <2>2
<1>9. Shaped(Q, F)
  <2>1. IsDirIn(P, E, Root) /\ Root \notin M \cup I /\ Root \in Inos /\ Root \notin M
    BY <1>2, <1>5, Inodes DEF IsDirIn
  <2>2. P[Root].links >= 2
    BY <2>1, RootLinks
  <2>3. P[Root].links > 0
    BY <1>2, <2>1, <2>2
  <2> QED BY <2>1, <2>3, <1>2, <1>3, <1>7 DEF Shaped
<1>10. \A y \in F : /\ y \in E /\ y[1] \in Inos /\ y[3] \in Inos
                    /\ Q[y[3]].mode = P[y[3]].mode
  BY <1>3, <1>5, <1>7, EntryFields
<1> HIDE DEF F, I, D
<1>11. Leads(Q, F, {})
  <2> SUFFICES ASSUME NEW y \in F
               PROVE  /\ IsDirIn(Q, F, y[1]) /\ ~Q[y[1]].dead
                      /\ Q[y[3]].links > 0 /\ ~Q[y[3]].dead /\ Q[y[3]].mode # "none"
    BY DEF Leads
  <2>1. /\ IsDirIn(P, E, y[1]) /\ ~P[y[1]].dead /\ y[1] \notin M
        /\ P[y[3]].links > 0 /\ ~P[y[3]].dead /\ P[y[3]].mode # "none"
    BY <1>1, <1>10 DEF Leads
  <2>2. P[y[1]].links >= 2
    BY <1>10, <2>1, RootLinks
  <2>3. P[y[1]].links > 0
    BY <2>2, <1>2, <1>10
  <2> QED BY <2>1, <2>3, <1>5, <1>7, <1>8, <1>10
<1>12. Tree(Q, F)
  <2>1. ASSUME NEW y \in F, P[y[3]].mode = "dir"
        PROVE  y[3] \in BelowIn(F, Root)
    <3> SUFFICES ASSUME NEW S \in SUBSET Inos, Root \in S, Closed(F, S) PROVE y[3] \in S
      BY <1>10 DEF BelowIn
    <3>1. Closed(E, S \cup I)
      <4> SUFFICES ASSUME NEW z \in E, z[1] \in S \cup I PROVE z[3] \in S \cup I
        BY DEF Closed
      <4>1. CASE z \in F
        BY <4>1, <1>5 DEF Closed
      <4>2. CASE z \in N
        BY <4>2, <1>4
      <4> QED BY <4>1, <4>2, <1>3
    <3>2. S \cup I \in SUBSET Inos /\ Root \in S \cup I
      BY <1>5, Inodes
    <3>3. y[3] \in S \cup I
      BY <1>1, <1>10, <2>1, <3>1, <3>2 DEF Tree, BelowIn
    <3> QED BY <3>3, <1>5
  <2>2. \A y, z \in F : y[1] = z[1] /\ y[2] = z[2] => y = z
    BY <1>1, <1>10 DEF Tree
  <2>3. \A y, z \in F : y[3] = z[3] /\ Q[y[3]].mode = "dir" => y = z
    BY <1>1, <1>10 DEF Tree
  <2>4. \A y \in F : Q[y[3]].mode = "dir" => y[3] \in BelowIn(F, Root)
    BY <2>1, <1>10
  <2> QED BY <2>2, <2>3, <2>4 DEF Tree
<1>13. Named(Q, F, V, {})
  <2> SUFFICES ASSUME NEW k \in Numbers \ V, Q[k].mode = "dir", Q[k].links > 0
               PROVE  EntIn(F, k) # {}
    BY DEF Named
  <2>1. k \notin M \cup I /\ k \in Inos
    BY <1>5, Inodes
  <2>2. EntIn(E, k) # {}
    BY <2>1, <1>1, <1>7 DEF Named
  <2> QED BY <2>1, <2>2, <1>6
<1>14. Linked(Q, F, V, {})
  <2>1. \A k : SubdirsIn(Q, F, k) = SubdirsIn(P, F, k)
    BY <1>10, SubdirsSame
  <2>2. ASSUME NEW k \in Inos, Q[k].mode = "file"
        PROVE  Q[k].links = Cardinality(EntIn(F, k))
    <3>1. CASE k \in M \cup I
      BY <3>1, <1>5, <1>6, FS_EmptySet
    <3>2. CASE k \notin M \cup I
      <4>1. P[k].mode = "file" /\ k \notin D
        BY <3>2, <2>2, <1>4, <1>7 DEF D, IsDirIn
      <4>2. P[k].links = Cardinality(EntIn(E, k))
        BY <3>2, <4>1, <1>1 DEF Linked
      <4> QED BY <3>2, <4>1, <4>2, <1>6, <1>7
    <3> QED BY <3>1, <3>2
  <2>3. ASSUME NEW k \in Inos, IsDirIn(Q, F, k)
        PROVE  IF k \in V THEN Q[k].links >= 2 + Cardinality(SubdirsIn(Q, F, k))
               ELSE Q[k].links = 2 + Cardinality(SubdirsIn(Q, F, k))
    <3> DEFINE c == Cardinality(SubdirsIn(P, E, k))
               f == Cardinality(SubdirsIn(P, F, k))
    <3>1. /\ c \in Nat /\ P[k].links \in Nat
          /\ k \in V => P[k].links >= 2 + c
          /\ k \notin V => P[k].links = 2 + c
      BY <1>1, <1>2, <1>8, <2>3, Counts DEF Linked
    <3>2. \/ Q[k].links = P[k].links /\ f = c
          \/ Q[k].links = P[k].links - 1 /\ f = c - 1
      <4>1. CASE \A x \in N : x[1] = k => P[x[3]].mode # "dir"
        <5>1. SubdirsIn(P, F, k) = SubdirsIn(P, E, k)
          BY <4>1, <1>3, <1>10 DEF SubdirsIn
        <5>2. Q[k].links = P[k].links
          BY <4>1, <2>3, <1>7, <1>8 DEF D
        <5> QED BY <5>1, <5>2
      <4>2. CASE \E x \in N : x[1] = k /\ P[x[3]].mode = "dir"
        <5>1. PICK x \in N : x[1] = k /\ P[x[3]].mode = "dir"
          BY <4>2
        <5>2. SubdirsIn(P, F, k) = SubdirsIn(P, E \ {x}, k)
          BY <5>1, <1>3, <1>10 DEF SubdirsIn, F
        <5>3. IsFiniteSet(E) /\ x \in SubdirsIn(P, E, k)
          BY <5>1, <1>2 DEF SubdirsIn
        <5>4. Cardinality(SubdirsIn(P, E \ {x}, k)) = Cardinality(SubdirsIn(P, E, k)) - 1
          BY <5>3, SubdirRemoved
        <5>5. Q[k].links = P[k].links - 1
          BY <5>1
        <5> QED BY <5>1, <5>2, <5>4, <5>5
      <4> QED BY <4>1, <4>2
    <3> HIDE DEF c, f
    <3>3. /\ k \in V => Q[k].links >= 2 + f
          /\ k \notin V => Q[k].links = 2 + f
      BY <3>1, <3>2
    <3> QED BY <3>3, <2>1 DEF f
  <2> QED BY <2>2, <2>3 DEF Linked
<1>15. Waits(Q, {}, {})
  <2> SUFFICES ASSUME NEW k \in Numbers, Q[k].links = 0, ~Unused(Q[k]) PROVE FALSE
    BY DEF Waits
  <2>1. k \in Inos /\ k \notin M \cup I
    BY <1>5, Inodes
  <2>2. k \notin D
    BY <2>1, <1>2, <1>4, <1>7 DEF D
  <2>3. \A x \in N : k # x[1] /\ k # x[3]
    BY <2>1, <2>2, <1>4
  <2>4. Q[k] = P[k] /\ (k \in L /\ P[k].links = 0 => P[k].dead)
    BY <2>1, <2>3 DEF Unused
  <2>5. k \in L
    BY <2>1, <2>4, <1>1 DEF Waits
  <2> QED BY <2>4, <2>5 DEF Unused
<1> QED BY <1>9, <1>11, <1>12, <1>13, <1>14, <1>15 DEF Sound, F

\* The tree is sound after OverEdit.
LEMMA OverSound ==
  ASSUME NEW P, NEW E, NEW V, NEW M, NEW L, Sound(P, E, V, M, L),
         NEW Q, NEW F, NEW W, NEW K, NEW e, NEW x, NEW l,
         OverEdit(P, E, Q, F, V, W, L, K, e, x, l)
  PROVE  Sound(Q, F, W, M, K)
<1> USE DEF OverEdit
<1>1. Shaped(P, E) /\ Leads(P, E, M) /\ Tree(P, E) /\ Named(P, E, V, M) /\ Linked(P, E, V, M)
      /\ Waits(P, M, L)
  BY DEF Sound
<1> DEFINE i == e[3]
           j == x[3]
           s == e[1]
           d == x[1]
           E1 == E \ {x}
<1>2. /\ P \in [Inos -> Image] /\ E \subseteq Inos \X Labels \X Numbers /\ IsFiniteSet(E)
      /\ \A k \in Inos : P[k].links \in Nat
  BY <1>1, TableFields DEF Shaped
<1>3. /\ i \in Inos /\ j \in Inos /\ s \in Inos /\ d \in Inos /\ j \in Numbers /\ j # Root
      /\ x[2] \in Labels /\ e # x
      /\ IsDirIn(P, E, s) /\ IsDirIn(P, E, d) /\ ~P[s].dead /\ ~P[d].dead
      /\ s \notin M /\ d \notin M /\ j \notin M /\ P[j].links > 0
      /\ P[i].mode \in {"file", "dir"}
  <2>1. e[1] \in Inos /\ e[3] \in Inos /\ x[1] \in Inos /\ x[3] \in Inos /\ x[3] \in Numbers
        /\ x[2] \in Labels /\ x[3] # Root
    BY <1>2, EntryFields
  <2>2. P[i].mode \in {"none", "file", "dir"}
    BY <1>2, <2>1, TableFields
  <2> QED BY <2>1, <2>2, <1>1 DEF Leads
<1>4. /\ e \in E1 /\ F = (E1 \ {e}) \cup {<<d, x[2], i>>}
      /\ \A y \in E1 : y[1] = d => y[2] # x[2]
      /\ \A k : k # j => EntIn(E1, k) = EntIn(E, k)
      /\ \A k : k # j /\ EntIn(E, k) # {} => EntIn(F, k) # {}
  <2>1. e \in E1 /\ F = (E1 \ {e}) \cup {<<d, x[2], i>>}
    BY <1>3
  <2>2. \A y \in E1 : y[1] = d => y[2] # x[2]
    BY <1>1 DEF Tree
  <2>3. \A k : k # j => EntIn(E1, k) = EntIn(E, k)
    BY DEF EntIn
  <2>4. ASSUME NEW k, k # j, EntIn(E, k) # {} PROVE EntIn(F, k) # {}
    <3>1. PICK y \in E : y[3] = k
      BY <2>4 DEF EntIn
    <3>2. CASE y = e
      <4>1. <<d, x[2], i>> \in F /\ <<d, x[2], i>>[3] = k
        BY <3>1, <3>2
      <4> QED BY <4>1 DEF EntIn
    <3>3. CASE y # e
      BY <3>1, <3>3, <2>4 DEF EntIn
    <3> QED BY <3>2, <3>3
  <2> QED BY <2>1, <2>2, <2>3, <2>4
<1>5. CASE P[i].mode = "file"
  <2>1. W = V /\ l = P[j].links - 1 /\ P[j].mode = "file" /\ d # j /\ s # j /\ d # i /\ s # i
    BY <1>3, <1>5 DEF IsDirIn
  <2>2. Sound(Q, E1, V, M, K)
    <3>1. P[j].links = 1 => j \in K
      BY <2>1
    <3>2. Q[j] = [P[j] EXCEPT !.links = @ - 1]
      BY <2>1
    <3> HIDE DEF E1
    <3>3. E1 = E \ {x}
      BY DEF E1
    <3>4. UnlinkEdit(P, E, Q, E1, L, K, x)
      BY <2>1, <3>1, <3>2, <3>3 DEF UnlinkEdit
    <3> QED BY <3>4, UnlinkSound
  <2>3. IsDirIn(Q, E1, d) /\ ~Q[d].dead /\ Q[i].mode = "file"
    BY <1>3, <1>4, <1>5, <2>1 DEF IsDirIn
  <2> HIDE DEF E1
  <2>4. Q[i].mode # "dir"
    BY <2>3
  <2>5. MoveEdit(Q, E1, Q, F, M, e, d, x[2])
    BY <1>3, <1>4, <2>1, <2>3, <2>4 DEF MoveEdit
  <2> QED BY <2>1, <2>2, <2>5, MoveSound
<1>6. CASE P[i].mode = "dir"
  <2>1. /\ W = V \cup {s} /\ l = P[j].links - 2 /\ P[j].mode = "dir" /\ d # j /\ s # j
        /\ \A y \in E : y[1] # j
    BY <1>6
  <2>2. l \in Nat /\ (l > 0 => j \in V)
    <3>1. IsDirIn(P, E, j)
      BY <2>1 DEF IsDirIn, EntIn
    <3>2. P[j].links >= 2
      BY <1>3, <3>1, RootLinks
    <3>3. SubdirsIn(P, E, j) = {}
      BY <2>1 DEF SubdirsIn
    <3>4. Cardinality(SubdirsIn(P, E, j)) = 0
      BY <3>3, FS_EmptySet
    <3>5. j \notin V => P[j].links = 2 + 0
      BY <1>1, <1>3, <3>1, <3>4 DEF Linked
    <3> QED BY <1>2, <1>3, <2>1, <3>2, <3>5
  <2> DEFINE P1 == [k \in Inos |-> IF k = j THEN Q[j]
                                   ELSE IF k = d THEN [P[d] EXCEPT !.links = @ - 1] ELSE P[k]]
             P2 == [k \in Inos |-> IF k = d /\ d # s THEN P[d]
                                   ELSE IF k = s /\ d # s THEN [P[s] EXCEPT !.links = @ - 1]
                                   ELSE P1[k]]
  <2>3. P[d].links >= 2 /\ P[s].links >= 2
    BY <1>3, RootLinks
  <2>4. /\ [P[d] EXCEPT !.links = @ - 1] \in Image /\ [P[s] EXCEPT !.links = @ - 1] \in Image
        /\ P[d] = [[P[d] EXCEPT !.links = @ - 1] EXCEPT !.links = @ + 1]
    <3>1. P[d] \in Image /\ P[s] \in Image /\ P[d].links - 1 \in Nat /\ P[s].links - 1 \in Nat
          /\ (P[d].links - 1) + 1 = P[d].links
      BY <1>2, <1>3, <2>3
    <3>2. \A im \in Image, m \in Nat : [im EXCEPT !.links = m] \in Image
      BY DEF Image
    <3>3. [[P[d] EXCEPT !.links = @ - 1] EXCEPT !.links = @ + 1]
            = [P[d] EXCEPT !.links = (P[d].links - 1) + 1]
      BY <3>1 DEF Image
    <3>4. [P[d] EXCEPT !.links = P[d].links] = P[d]
      BY <3>1 DEF Image
    <3> QED BY <3>1, <3>2, <3>3, <3>4
  <2>5. P1 \in [Inos -> Image] /\ P2 \in [Inos -> Image]
    BY <1>2, <1>3, <2>4
  <2>6. /\ \A k \in Inos : k # j /\ k # d => P1[k] = P[k]
        /\ P1[j] = Q[j] /\ P1[d] = [P[d] EXCEPT !.links = @ - 1]
        /\ \A k \in Inos : k # d /\ k # s => P2[k] = P1[k]
        /\ d # s => P2[d] = P[d] /\ P2[s] = [P1[s] EXCEPT !.links = @ - 1]
        /\ d = s => P2[d] = P1[d] /\ P2[s] = P1[s]
    BY <1>3, <2>1
  <2> HIDE DEF P1, P2
  <2>7. Sound(P1, E1, V, M, K)
    <3>1. P1[j] = [P[j] EXCEPT !.links = l]
      BY <2>6
    <3> HIDE DEF E1
    <3>2. E1 = E \ {x}
      BY DEF E1
    <3>3. RmdirEdit(P, E, P1, E1, V, L, K, x, l)
      BY <2>1, <2>2, <2>5, <2>6, <3>1, <3>2 DEF RmdirEdit
    <3> QED BY <3>3, RmdirSound
  <2>8. /\ IsDirIn(P1, E1, d) /\ ~P1[d].dead /\ P1[i].mode = "dir"
        /\ P1[d].mode = P[d].mode /\ P1[d].dead = P[d].dead
    <3>1. /\ [P[d] EXCEPT !.links = @ - 1].mode = P[d].mode
          /\ [P[d] EXCEPT !.links = @ - 1].dead = P[d].dead
      BY <1>2, <1>3 DEF Image
    <3>2. P1[i].mode = "dir"
      BY <1>3, <1>6, <2>6, <3>1
    <3> QED BY <1>3, <1>4, <2>1, <2>6, <3>1, <3>2 DEF IsDirIn
  <2>9. BelowIn(E1, i) \subseteq BelowIn(E, i)
    BY DEF BelowIn, Closed
  <2>10. Sound(P2, F, V, M, K)
    <3> HIDE DEF E1
    <3>1. P1[i].mode = "dir" /\ d # s => d \notin BelowIn(E1, i)
      BY <1>6, <2>9
    <3>2. IF P1[i].mode = "dir" /\ d # s
          THEN /\ P2[d] = [P1[d] EXCEPT !.links = @ + 1]
               /\ P2[s] = [P1[s] EXCEPT !.links = @ - 1]
          ELSE P2[d] = P1[d] /\ P2[s] = P1[s]
      BY <2>4, <2>6, <2>8
    <3>3. MoveEdit(P1, E1, P2, F, M, e, d, x[2])
      BY <1>3, <1>4, <2>5, <2>6, <2>8, <3>1, <3>2 DEF MoveEdit
    <3> QED BY <2>7, <3>3, MoveSound
  <2>11. ASSUME NEW k \in Inos
         PROVE  /\ Q[k].mode = P2[k].mode /\ Q[k].dead = P2[k].dead
                /\ Q[k].links >= P2[k].links
                /\ Q[k].links = P2[k].links \/ k = s
    <3>1. CASE k # s
      <4>1. Q[k] = P2[k]
        BY <3>1, <1>3, <2>1, <2>6
      <4>2. Q[k].links \in Nat
        BY TableFields
      <4> QED BY <4>1, <4>2
    <3>2. CASE k = s
      <4>1. P2[s] = [P[s] EXCEPT !.links = @ - 1] /\ Q[s] = P[s]
        BY <1>3, <2>1, <2>6
      <4>2. /\ P2[s].mode = P[s].mode /\ P2[s].dead = P[s].dead
            /\ P2[s].links = P[s].links - 1 /\ P[s].links \in Nat
        BY <1>2, <1>3, <4>1 DEF Image
      <4> QED BY <3>2, <4>1, <4>2
    <3> QED BY <3>1, <3>2
  <2>12. IsDirIn(P2, F, s)
    BY <1>3, <1>4, <2>1, <2>11 DEF IsDirIn
  <2>13. \A k \in Inos : /\ Q[k].mode = P2[k].mode /\ Q[k].dead = P2[k].dead
                         /\ Q[k].links >= P2[k].links
                         /\ Q[k].links = P2[k].links \/ (k \in W /\ IsDirIn(P2, F, k))
    BY <2>1, <2>11, <2>12
  <2>14. SlackEdit(P2, F, Q, V, W, K, K)
    BY <2>1, <2>13 DEF SlackEdit
  <2> QED BY <2>10, <2>14, SlackSound
<1> QED BY <1>3, <1>5, <1>6

-----------------------------------------------------------------------------
(* Calls taken back.                                                                        *)

\* What the table is without the calls of T.
LEMMA PiBackAt ==
  ASSUME NEW P, NEW H, NEW T, NEW i \in Inos
  PROVE  /\ (\A t \in T : \A a \in Image : ~Says(H[t], i, a)) => PiBack(P, H, T)[i] = P[i]
         /\ \A t \in T : \A a \in Image :
              Says(H[t], i, a) /\ (\A u \in T : \A b \in Image : Says(H[u], i, b) => b = a) =>
                PiBack(P, H, T)[i] = a
         /\ (\E t \in T : \E a \in Image : Says(H[t], i, a)) =>
              \E t \in T : \E a \in Image : Says(H[t], i, a) /\ PiBack(P, H, T)[i] = a
<1>1. (\A t \in T : \A a \in Image : ~Says(H[t], i, a)) => PiBack(P, H, T)[i] = P[i]
  BY DEF PiBack, Said
<1>2. ASSUME NEW t \in T, NEW a \in Image, Says(H[t], i, a)
      PROVE  /\ \E u \in T : \E b \in Image : Says(H[u], i, b) /\ PiBack(P, H, T)[i] = b
  <2> DEFINE b == CHOOSE x \in Said(H, T, i) : TRUE
  <2>1. a \in Said(H, T, i)
    BY <1>2 DEF Said
  <2>2. b \in Image /\ \E u \in T : Says(H[u], i, b)
    BY <2>1 DEF Said
  <2>3. PiBack(P, H, T)[i] = b
    BY <2>1 DEF PiBack
  <2> HIDE DEF b
  <2> QED BY <2>2, <2>3
<1> QED BY <1>1, <1>2

\* It is a table.
LEMMA PiBackType ==
  ASSUME NEW P \in [Inos -> Image], NEW H, NEW T
  PROVE  PiBack(P, H, T) \in [Inos -> Image]
<1>1. ASSUME NEW i \in Inos PROVE PiBack(P, H, T)[i] \in Image
  <2>1. CASE \A t \in T : \A a \in Image : ~Says(H[t], i, a)
    BY <2>1, PiBackAt
  <2>2. CASE \E t \in T : \E a \in Image : Says(H[t], i, a)
    BY <2>2, PiBackAt
  <2> QED BY <2>1, <2>2
<1>2. PiBack(P, H, T) = [i \in Inos |-> PiBack(P, H, T)[i]]
  BY DEF PiBack
<1> QED BY <1>1, <1>2

\* What the entries are without the calls of T.
LEMMA EntBackAt ==
  ASSUME NEW E, NEW H, NEW T, NEW e
  PROVE  /\ (\A t \in T : Changer(H[t]) => e[1] \notin H[t].changes /\ e \notin H[t].was) =>
              (e \in EntBack(E, H, T) <=> e \in E)
         /\ e \in EntBack(E, H, T) <=>
              \/ e \in E /\ \A t \in T : Changer(H[t]) => e[1] \notin H[t].changes
              \/ e \in Inos \X Labels \X Numbers /\ \E t \in T : Changer(H[t]) /\ e \in H[t].was
  BY DEF EntBack

\* The threads of T are the same in H2 as far as their calls can be taken back, and have
\* locked nothing in K.
Away(H, H2, T, K) ==
  \A t \in T :
    /\ Changer(H2[t]) <=> Changer(H[t])
    /\ Changer(H[t]) =>
         /\ H2[t] = H[t] /\ H[t].held \cap K = {}
         /\ H[t].changes \subseteq H[t].held /\ \A e \in H[t].was : e[1] \in H[t].changes

\* A step changes the table in K, and entries of directories in K: R go, A come.
PiStep(P, Q, K) == \A i \in Inos : i \notin K => Q[i] = P[i]
EntStep(E, F, R, A, K) ==
  F = (E \ R) \cup A /\ R \subseteq E /\ (\A r \in R : r[1] \in K) /\ \A a \in A : a[1] \in K

\* A call on other inodes changes the table that is left.
LEMMA PiBackOthers ==
  ASSUME NEW P, NEW Q, NEW H, NEW H2, NEW T, NEW K, Away(H, H2, T, K),
         PiStep(P, Q, K), NEW i \in Inos
  PROVE  /\ i \in K => PiBack(P, H, T)[i] = P[i] /\ PiBack(Q, H2, T)[i] = Q[i]
         /\ i \notin K => PiBack(Q, H2, T)[i] = PiBack(P, H, T)[i]
<1> USE DEF PiStep
<1>1. \A t \in T : \A a \in Image : Says(H2[t], i, a) <=> Says(H[t], i, a)
  BY DEF Away, Says
<1>2. CASE i \in K
  <2>1. \A t \in T : \A a \in Image : ~Says(H[t], i, a)
    BY <1>2 DEF Away, Says
  <2> QED BY <1>2, <1>1, <2>1, PiBackAt
<1>3. CASE i \notin K
  <2>1. Said(H2, T, i) = Said(H, T, i)
    BY <1>1 DEF Said
  <2> QED BY <1>3, <2>1 DEF PiBack
<1> QED BY <1>2, <1>3

\* And the entries.
LEMMA EntBackOthers ==
  ASSUME NEW E, NEW F, NEW H, NEW H2, NEW T, NEW K, Away(H, H2, T, K),
         NEW R, NEW A, EntStep(E, F, R, A, K)
  PROVE  /\ EntBack(F, H2, T) = (EntBack(E, H, T) \ R) \cup A
         /\ R \subseteq EntBack(E, H, T)
         /\ \A e : e[1] \in K => (e \in EntBack(E, H, T) <=> e \in E)
<1> USE DEF EntStep
<1>1. ASSUME NEW e, e[1] \in K
      PROVE  (e \in EntBack(E, H, T) <=> e \in E) /\ (e \in EntBack(F, H2, T) <=> e \in F)
  <2>1. \A t \in T : Changer(H[t]) => e[1] \notin H[t].changes /\ e \notin H[t].was
    BY <1>1 DEF Away
  <2>2. \A t \in T : Changer(H2[t]) => e[1] \notin H2[t].changes /\ e \notin H2[t].was
    BY <2>1 DEF Away
  <2> QED BY <2>1, <2>2, EntBackAt
<1>2. ASSUME NEW e, e[1] \notin K
      PROVE  e \in EntBack(F, H2, T) <=> e \in EntBack(E, H, T)
  <2>1. e \in F <=> e \in E
    BY <1>2
  <2>2. (\A t \in T : Changer(H2[t]) => e[1] \notin H2[t].changes) <=>
        (\A t \in T : Changer(H[t]) => e[1] \notin H[t].changes)
    BY DEF Away
  <2>3. (\E t \in T : Changer(H2[t]) /\ e \in H2[t].was) <=>
        (\E t \in T : Changer(H[t]) /\ e \in H[t].was)
    BY DEF Away
  <2> QED BY <2>1, <2>2, <2>3, EntBackAt
<1>3. ASSUME NEW e
      PROVE  e \in EntBack(F, H2, T) <=> e \in (EntBack(E, H, T) \ R) \cup A
  <2>1. CASE e[1] \in K
    BY <1>1, <2>1
  <2>2. CASE e[1] \notin K
    BY <1>2, <2>2
  <2> QED BY <2>1, <2>2
<1> QED BY <1>1, <1>3

\* Call h of thread u under locks that no other thread has, which logs what it changes.
Mine(P, E, Q, F, H, u, h, T) ==
  /\ Changer(h) /\ ~Changer(H[u]) /\ u \in T
  /\ \A t \in T : Changer(H[t]) =>
       /\ H[t].held \cap h.held = {}
       /\ H[t].changes \subseteq H[t].held /\ \A e \in H[t].was : e[1] \in H[t].changes
  /\ \A i \in Inos : Q[i] # P[i] => i \in h.held /\ <<i, P[i]>> \in h.log
  /\ \A i, a : <<i, a>> \in h.log => a = P[i]
  /\ h.changes \subseteq h.held
  /\ h.was = {e \in E : e[1] \in h.changes}
  /\ \A e : e[1] \notin h.changes => (e \in F <=> e \in E)
  /\ P \in [Inos -> Image] /\ E \subseteq Inos \X Labels \X Numbers

\* Taking it back leaves what was.
LEMMA BackMine ==
  ASSUME NEW P, NEW E, NEW Q, NEW F, NEW H, NEW H2, NEW u, NEW h, NEW T,
         H2[u] = h, \A t \in T : t # u => H2[t] = H[t], Mine(P, E, Q, F, H, u, h, T)
  PROVE  PiBack(Q, H2, T) = PiBack(P, H, T) /\ EntBack(F, H2, T) = EntBack(E, H, T)
<1> USE DEF Mine
<1>1. ASSUME NEW i \in Inos PROVE PiBack(Q, H2, T)[i] = PiBack(P, H, T)[i]
  <2>1. CASE i \in h.held
    <3>1. \A t \in T : \A a \in Image : ~Says(H[t], i, a)
      BY <2>1 DEF Says
    <3>2. PiBack(P, H, T)[i] = P[i]
      BY <3>1, PiBackAt
    <3>3. \A t \in T : \A a \in Image : Says(H2[t], i, a) => t = u /\ a = P[i]
      BY <3>1 DEF Says
    <3>4. CASE Says(h, i, P[i])
      BY <3>2, <3>3, <3>4, PiBackAt
    <3>5. CASE ~Says(h, i, P[i])
      <4>1. Q[i] = P[i]
        BY <3>5, <2>1 DEF Says
      <4>2. \A t \in T : \A a \in Image : ~Says(H2[t], i, a)
        BY <3>3, <3>5
      <4> QED BY <3>2, <4>1, <4>2, PiBackAt
    <3> QED BY <3>4, <3>5
  <2>2. CASE i \notin h.held
    <3>1. \A t \in T : \A a \in Image : Says(H2[t], i, a) <=> Says(H[t], i, a)
      BY <2>2 DEF Says
    <3>2. Q[i] = P[i]
      BY <2>2
    <3>3. Said(H2, T, i) = Said(H, T, i)
      BY <3>1 DEF Said
    <3> QED BY <3>2, <3>3 DEF PiBack
  <2> QED BY <2>1, <2>2
<1>2. PiBack(Q, H2, T) = PiBack(P, H, T)
  BY <1>1 DEF PiBack
<1>3. ASSUME NEW e PROVE e \in EntBack(F, H2, T) <=> e \in EntBack(E, H, T)
  <2>1. CASE e[1] \in h.changes
    <3>1. \A t \in T : Changer(H[t]) => e[1] \notin H[t].changes /\ e \notin H[t].was
      BY <2>1
    <3>2. e \in EntBack(E, H, T) <=> e \in E
      BY <3>1, EntBackAt
    <3>3. e \in EntBack(F, H2, T) <=> e \in Inos \X Labels \X Numbers /\ e \in h.was
      BY <2>1, <3>1, EntBackAt
    <3> QED BY <2>1, <3>2, <3>3
  <2>2. CASE e[1] \notin h.changes
    <3>1. e \notin h.was /\ (e \in F <=> e \in E)
      BY <2>2
    <3>2. (\A t \in T : Changer(H2[t]) => e[1] \notin H2[t].changes) <=>
          (\A t \in T : Changer(H[t]) => e[1] \notin H[t].changes)
      BY <2>2
    <3>3. (\E t \in T : Changer(H2[t]) /\ e \in H2[t].was) <=>
          (\E t \in T : Changer(H[t]) /\ e \in H[t].was)
      BY <3>1
    <3> QED BY <3>1, <3>2, <3>3, EntBackAt
  <2> QED BY <2>1, <2>2
<1>4. EntBack(F, H2, T) = EntBack(E, H, T)
  <2> HIDE DEF Mine
  <2>1. EntBack(F, H2, T) \subseteq EntBack(E, H, T)
    BY <1>3
  <2>2. EntBack(E, H, T) \subseteq EntBack(F, H2, T)
    BY <1>3
  <2> QED BY <2>1, <2>2
<1> QED BY <1>2, <1>4

\* The same edit of what is and of what is left keeps them in agreement: entries R go, A come.
SameEdit(P, E, F, R, A) ==
  /\ R \subseteq E /\ R \subseteq F
  /\ \A a \in A :
       /\ a[3] \in Inos /\ (a[1] = Root \/ EntIn(E, a[1]) # {})
       /\ P[a[3]].mode = "dir" => (\E r \in R : r[3] = a[3]) \/ EntIn(F, a[3]) = {}

LEMMA AgreeSame ==
  ASSUME NEW P, NEW E, NEW Q, NEW F, NEW V, NEW M, NEW L,
         Sound(P, E, V, M, L), Sound(Q, F, V, M, L), NEW quiet, Agree(P, E, Q, F, quiet),
         NEW R, NEW A, SameEdit(P, E, F, R, A),
         NEW PP, NEW QQ, \A i \in Inos : PP[i].mode = P[i].mode /\ QQ[i].mode = Q[i].mode
  PROVE  Agree(PP, (E \ R) \cup A, QQ, (F \ R) \cup A, quiet)
<1> DEFINE E2 == (E \ R) \cup A
           F2 == (F \ R) \cup A
<1>1. /\ \A e, x \in E : e[3] = x[3] /\ P[e[3]].mode = "dir" => e = x
      /\ \A e, x \in F : e[3] = x[3] /\ Q[e[3]].mode = "dir" => e = x
      /\ \A e \in E : e[1] \in Inos /\ e[3] \in Inos /\ e[3] # Root
      /\ \A e \in F : e[1] \in Inos /\ e[3] \in Inos /\ e[3] # Root
  BY EntryFields DEF Sound, Tree, Shaped
<1>2. /\ \A i \in Inos : Q[i].mode = P[i].mode
      /\ \A i \in Inos : P[i].mode = "dir" /\ EntIn(E, i) # {} => EntIn(F, i) # {}
  BY DEF Agree
<1>3. ASSUME NEW i \in Inos, P[i].mode = "dir", EntIn(E2, i) # {} PROVE EntIn(F2, i) # {}
  <2>1. PICK z \in E2 : z[3] = i
    BY <1>3 DEF EntIn
  <2>2. CASE z \in A
    BY <2>1, <2>2 DEF EntIn
  <2>3. CASE z \in E /\ z \notin R
    <3>1. PICK w \in F : w[3] = i
      BY <1>2, <1>3, <2>1, <2>3 DEF EntIn
    <3>2. w \notin R
      BY <1>1, <1>3, <2>1, <2>3, <3>1 DEF SameEdit
    <3> QED BY <3>1, <3>2 DEF EntIn
  <2> QED BY <2>1, <2>2, <2>3
<1>4. ASSUME quiet, NEW e \in F2, P[e[3]].mode = "dir"
      PROVE  \/ \E x \in E2 : x[3] = e[3] /\ x[1] = e[1]
             \/ EntIn(E2, e[3]) = {} /\ \A y \in F2 : y[1] # e[3]
  <2>1. CASE e \in A
    BY <2>1
  <2>2. CASE e \in F /\ e \notin R
    <3>1. e[3] \in Inos /\ e[3] # Root /\ Q[e[3]].mode = "dir"
      BY <1>1, <1>2, <1>4, <2>2
    <3>2. CASE \E x \in E : x[3] = e[3] /\ x[1] = e[1]
      <4>1. PICK x \in E : x[3] = e[3] /\ x[1] = e[1]
        BY <3>2
      <4>2. x \notin R
        BY <1>1, <2>2, <3>1, <4>1 DEF SameEdit
      <4> QED BY <4>1, <4>2
    <3>3. CASE EntIn(E, e[3]) = {} /\ \A y \in F : y[1] # e[3]
      <4>1. \A a \in A : a[3] # e[3]
        <5> SUFFICES ASSUME NEW a \in A, a[3] = e[3] PROVE FALSE
          OBVIOUS
        <5>1. (\E r \in R : r[3] = a[3]) \/ EntIn(F, a[3]) = {}
          BY <1>4 DEF SameEdit
        <5>2. \A r \in R : r[3] # a[3]
          BY <3>3 DEF SameEdit, EntIn
        <5> QED BY <5>1, <5>2, <2>2 DEF EntIn
      <4>2. EntIn(E2, e[3]) = {}
        BY <3>3, <4>1 DEF EntIn
      <4>3. \A y \in F2 : y[1] # e[3]
        BY <3>1, <3>3 DEF SameEdit
      <4> QED BY <4>2, <4>3
    <3> QED BY <3>2, <3>3, <1>4, <2>2 DEF Agree
  <2> QED BY <2>1, <2>2
<1>5. \A e \in F2 : e[3] \in Inos
  BY <1>1 DEF SameEdit
<1> HIDE DEF E2, F2
<1>6. Agree(PP, E2, QQ, F2, quiet)
  <2>1. \A i \in Inos : QQ[i].mode = PP[i].mode
    BY <1>2
  <2>2. \A i \in Inos : PP[i].mode = "dir" /\ EntIn(E2, i) # {} => EntIn(F2, i) # {}
    BY <1>3
  <2>3. quiet => \A e \in F2 : PP[e[3]].mode = "dir" =>
       \/ \E x \in E2 : x[3] = e[3] /\ x[1] = e[1]
       \/ EntIn(E2, e[3]) = {} /\ \A y \in F2 : y[1] # e[3]
    BY <1>4, <1>5
  <2> QED BY <2>1, <2>2, <2>3 DEF Agree
<1> QED BY <1>6 DEF E2, F2

\* A call leaves what is without it where it was: every directory keeps its name and, unless it
\* moves, its parent, or it goes and was empty.
OwnEdit(P, E, F, R, A, quiet) ==
  /\ R \subseteq E
  /\ \A a \in A : P[a[3]].mode = "dir" => \E r \in R : r[3] = a[3]
  /\ quiet => \A r \in R : P[r[3]].mode = "dir" =>
       \/ \E a \in A : a[3] = r[3] /\ a[1] = r[1]
       \/ (\A a \in A : a[3] # r[3]) /\ \A y \in F : y[1] # r[3]

LEMMA AgreeOwn ==
  ASSUME NEW P, NEW E, NEW Q, NEW F, NEW V, NEW M, NEW L,
         Sound(P, E, V, M, L), Sound(Q, F, V, M, L), NEW before, Agree(P, E, Q, F, before),
         NEW quiet, quiet => before, NEW R, NEW A, OwnEdit(P, E, F, R, A, quiet),
         NEW PP, \A i \in Inos : PP[i].mode = P[i].mode
  PROVE  Agree(PP, (E \ R) \cup A, Q, F, quiet)
<1> DEFINE E2 == (E \ R) \cup A
<1>1. /\ \A e, x \in E : e[3] = x[3] /\ P[e[3]].mode = "dir" => e = x
      /\ \A e \in F : e[3] \in Inos
  BY EntryFields DEF Sound, Tree, Shaped
<1>2. /\ \A i \in Inos : Q[i].mode = P[i].mode
      /\ \A i \in Inos : P[i].mode = "dir" /\ EntIn(E, i) # {} => EntIn(F, i) # {}
  BY DEF Agree
<1>3. ASSUME NEW i \in Inos, P[i].mode = "dir", EntIn(E2, i) # {} PROVE EntIn(F, i) # {}
  <2>1. PICK z \in E2 : z[3] = i
    BY <1>3 DEF EntIn
  <2>2. \E w \in E : w[3] = i
    BY <1>3, <2>1 DEF OwnEdit
  <2> QED BY <2>2, <1>2, <1>3 DEF EntIn
<1>4. ASSUME quiet, NEW e \in F, P[e[3]].mode = "dir"
      PROVE  \/ \E x \in E2 : x[3] = e[3] /\ x[1] = e[1]
             \/ EntIn(E2, e[3]) = {} /\ \A y \in F : y[1] # e[3]
  <2>1. CASE \E x \in E : x[3] = e[3] /\ x[1] = e[1]
    <3>1. PICK x \in E : x[3] = e[3] /\ x[1] = e[1]
      BY <2>1
    <3>2. CASE x \notin R
      BY <3>1, <3>2
    <3>3. CASE \E a \in A : a[3] = x[3] /\ a[1] = x[1]
      BY <3>1, <3>3
    <3>4. CASE x \in R /\ (\A a \in A : a[3] # x[3]) /\ \A y \in F : y[1] # x[3]
      <4>1. EntIn(E2, e[3]) = {}
        BY <1>1, <1>4, <3>1, <3>4 DEF EntIn
      <4> QED BY <3>1, <3>4, <4>1
    <3> QED BY <3>1, <3>2, <3>3, <3>4, <1>4 DEF OwnEdit
  <2>2. CASE EntIn(E, e[3]) = {} /\ \A y \in F : y[1] # e[3]
    <3>1. EntIn(E2, e[3]) = {}
      BY <2>2, <1>4 DEF EntIn, OwnEdit
    <3> QED BY <2>2, <3>1
  <2> QED BY <2>1, <2>2, <1>4 DEF Agree
<1> HIDE DEF E2
<1>5. Agree(PP, E2, Q, F, quiet)
  <2>1. \A i \in Inos : Q[i].mode = PP[i].mode
    BY <1>2
  <2>2. \A i \in Inos : PP[i].mode = "dir" /\ EntIn(E2, i) # {} => EntIn(F, i) # {}
    BY <1>3
  <2>3. quiet => \A e \in F : PP[e[3]].mode = "dir" =>
       \/ \E x \in E2 : x[3] = e[3] /\ x[1] = e[1]
       \/ EntIn(E2, e[3]) = {} /\ \A y \in F : y[1] # e[3]
    BY <1>1, <1>4
  <2> QED BY <2>1, <2>2, <2>3 DEF Agree
<1> QED BY <1>5 DEF E2

\* An inode without a name changes.
LEMMA AgreeInode ==
  ASSUME NEW P, NEW E, NEW Q, NEW F, NEW quiet, Agree(P, E, Q, F, quiet),
         NEW i, \A e \in E : e[3] # i, \A e \in F : e[3] # i /\ e[3] \in Inos,
         NEW PP, NEW QQ, \A k \in Inos : k # i => PP[k] = P[k] /\ QQ[k] = Q[k],
         QQ[i].mode = PP[i].mode
  PROVE  Agree(PP, E, QQ, F, quiet)
<1>1. \A k \in Inos : QQ[k].mode = PP[k].mode
  BY DEF Agree
<1>2. \A k \in Inos : PP[k].mode = "dir" /\ EntIn(E, k) # {} => EntIn(F, k) # {}
  BY DEF Agree, EntIn
<1>3. quiet => \A e \in F : PP[e[3]].mode = "dir" =>
       \/ \E x \in E : x[3] = e[3] /\ x[1] = e[1]
       \/ EntIn(E, e[3]) = {} /\ \A y \in F : y[1] # e[3]
  BY DEF Agree
<1> QED BY <1>1, <1>2, <1>3 DEF Agree

\* A directory that is not below another one is not below it without the calls of others.
LEMMA StillAbove ==
  ASSUME NEW P, NEW E, NEW Q, NEW F, NEW V, NEW M, NEW L,
         Sound(P, E, V, M, L), Sound(Q, F, V, M, L), Agree(P, E, Q, F, TRUE),
         NEW i \in Inos, NEW d \in Inos, IsDirIn(P, E, d), d \notin BelowIn(E, i)
  PROVE  d \notin BelowIn(F, i)
<1> DEFINE B == BelowIn(E, i)
           C == B \cup {j \in Inos : j # Root /\ (P[j].mode # "dir" \/ EntIn(E, j) = {})}
<1>1. /\ \A e \in E : e[1] \in Inos /\ e[3] \in Inos /\ e[3] # Root /\ IsDirIn(P, E, e[1])
      /\ \A e \in F : e[1] \in Inos /\ e[3] \in Inos /\ e[3] # Root /\ IsDirIn(Q, F, e[1])
      /\ \A k \in Inos : Q[k].mode = P[k].mode
  BY EntryFields DEF Sound, Leads, Shaped, Agree
<1>2. /\ B \subseteq Inos /\ i \in B
      /\ \A e \in E : e[1] \in B => e[3] \in B
  BY <1>1 DEF BelowIn, Closed
<1> HIDE DEF B
<1>3. ASSUME NEW e \in F, e[1] \in C PROVE e[3] \in C
  <2>1. CASE P[e[3]].mode # "dir"
    BY <2>1, <1>1
  <2>2. CASE \E x \in E : x[3] = e[3] /\ x[1] = e[1]
    <3>1. PICK x \in E : x[3] = e[3] /\ x[1] = e[1]
      BY <2>2
    <3>2. x[1] \in B
      BY <3>1, <1>1, <1>3 DEF IsDirIn
    <3> QED BY <3>1, <3>2, <1>2
  <2>3. CASE EntIn(E, e[3]) = {}
    BY <2>3, <1>1
  <2> QED BY <2>1, <2>2, <2>3 DEF Agree
<1>4. C \in SUBSET Inos /\ i \in C /\ Closed(F, C)
  BY <1>2, <1>3 DEF Closed
<1>5. d \notin C
  BY DEF IsDirIn, B
<1> QED BY <1>4, <1>5 DEF BelowIn

-----------------------------------------------------------------------------
(* The state.                                                                               *)

\* The tree that is there is sound, and so is what is left of it without the calls of T.
LEMMA BacksAt ==
  ASSUME Inv, ~tainted, NEW T \in SUBSET Threads
  PROVE  /\ Sound(pi, ent, over, Made, listed)
         /\ Sound(PiBack(pi, th, T), EntBack(ent, th, T), over, Made, listed)
         /\ Agree(pi, ent, PiBack(pi, th, T), EntBack(ent, th, T), NoMove(th, T))
<1>1. PiBack(pi, th, {}) = pi
  <2>1. pi \in [Inos -> Image]
    BY DEF Inv, TreeTypes
  <2>2. \A i \in Inos : PiBack(pi, th, {})[i] = pi[i]
    BY PiBackAt
  <2>3. PiBack(pi, th, {}) \in [Inos -> Image]
    BY <2>1, PiBackType
  <2> QED BY <2>1, <2>2, <2>3
<1>2. EntBack(ent, th, {}) = ent
  BY DEF EntBack
<1>3. {} \in SUBSET Threads
  OBVIOUS
<1>4. Sound(PiBack(pi, th, {}), EntBack(ent, th, {}), over, Made, listed)
  BY <1>3 DEF Inv, Backs
<1> QED BY <1>1, <1>2, <1>4 DEF Inv, Backs

\* What is there.
LEMMA NowFacts ==
  ASSUME Inv, ~tainted
  PROVE  /\ Sound(pi, ent, over, Made, listed)
         /\ pi \in [Inos -> Image] /\ ent \subseteq Inos \X Labels \X Numbers /\ IsFiniteSet(ent)
         /\ \A e \in ent :
              /\ e[1] \in Inos /\ e[2] \in Labels /\ e[3] \in Numbers /\ e[3] \in Inos
              /\ e[3] # Root /\ e = <<e[1], e[2], e[3]>>
              /\ IsDirIn(pi, ent, e[1]) /\ ~pi[e[1]].dead /\ e[1] \notin Made
              /\ pi[e[3]].links > 0 /\ ~pi[e[3]].dead /\ pi[e[3]].mode # "none"
              /\ e[3] \notin Made
         /\ \A d \in Inos : IsDirIn(pi, ent, d) =>
              pi[d].mode = "dir" /\ ~pi[d].dead /\ d \notin Made /\ pi[d].links > 0
         /\ Made \subseteq Numbers
<1>1. Sound(pi, ent, over, Made, listed)
  BY BacksAt
<1>2. pi \in [Inos -> Image] /\ ent \subseteq Inos \X Labels \X Numbers /\ IsFiniteSet(ent)
      /\ ~pi[Root].dead
  BY <1>1 DEF Sound, Shaped
<1>3. \A e \in ent :
        /\ e[1] \in Inos /\ e[2] \in Labels /\ e[3] \in Numbers /\ e[3] \in Inos
        /\ e[3] # Root /\ e = <<e[1], e[2], e[3]>>
  BY <1>2, EntryFields
<1>4. \A e \in ent :
        /\ IsDirIn(pi, ent, e[1]) /\ ~pi[e[1]].dead /\ e[1] \notin Made
        /\ pi[e[3]].links > 0 /\ ~pi[e[3]].dead /\ pi[e[3]].mode # "none"
        /\ e[3] \notin Made
  BY <1>1 DEF Sound, Leads
<1>5. Made \subseteq Numbers
  <2>1. \A t \in Making : th[t].ino \in Start..count /\ count \in Nat /\ count <= MaxCount
    BY NamesAssumption DEF Inv, Callers, MakingOk, Shapes, Making
  <2>2. Start..count \subseteq Numbers
    BY NamesAssumption DEF Inv, Shapes, Numbers, Start
  <2> QED BY <2>1, <2>2 DEF Made
<1>6. ASSUME NEW d \in Inos, IsDirIn(pi, ent, d)
      PROVE  pi[d].mode = "dir" /\ ~pi[d].dead /\ d \notin Made /\ pi[d].links > 0
  <2>1. pi[d].mode = "dir" /\ ~pi[d].dead /\ d \notin Made
    <3>1. CASE d = Root
      BY <3>1, <1>2, <1>5, <1>6, Inodes DEF IsDirIn
    <3>2. CASE d # Root
      BY <3>2, <1>4, <1>6 DEF IsDirIn, EntIn
    <3> QED BY <3>1, <3>2
  <2>2. pi[d].links >= 2 /\ pi[d].links \in Nat
    BY <1>1, <1>2, <1>6, <2>1, RootLinks, TableFields
  <2> QED BY <2>1, <2>2
<1> QED BY <1>1, <1>2, <1>3, <1>4, <1>5, <1>6

\* The fields of a call that has logged what it changes.
LEMMA LogFields ==
  ASSUME NEW L, NEW S, NEW D
  PROVE  LET h == Log(L, S, D)
         IN  /\ h = [at |-> "ready", kind |-> "none", dir |-> Root, name |-> NoLabel, ino |-> Root,
                     held |-> L, log |-> {<<i, pi[i]>> : i \in S}, changes |-> D,
                     was |-> {e \in ent : e[1] \in D}]
             /\ Changer(h) /\ ~Maker(h) /\ h.at = "ready" /\ h.held = L /\ h.changes = D
             /\ h.ino = Root
             /\ h.log = {<<i, pi[i]>> : i \in S} /\ h.was = {e \in ent : e[1] \in D}
<1>1. Log(L, S, D) =
        [at |-> "ready", kind |-> "none", dir |-> Root, name |-> NoLabel, ino |-> Root,
         held |-> L, log |-> {<<i, pi[i]>> : i \in S}, changes |-> D,
         was |-> {e \in ent : e[1] \in D}]
  <2> DEFINE l == {<<i, pi[i]>> : i \in S}
             w == {e \in ent : e[1] \in D}
  <2>1. Log(L, S, D) = [Idle EXCEPT !.at = "ready", !.held = L, !.changes = D, !.log = l, !.was = w]
    BY DEF Log
  <2> HIDE DEF l, w
  <2>2. Log(L, S, D) =
          [at |-> "ready", kind |-> "none", dir |-> Root, name |-> NoLabel, ino |-> Root,
           held |-> L, log |-> l, changes |-> D, was |-> w]
    BY <2>1 DEF Idle
  <2> QED BY <2>2 DEF l, w
<1> QED BY <1>1 DEF Changer, Maker

\* A call of u locks L, logs S and changes the directories in D: the entries R go, A come.
Changes(u, L, S, D, R, A) ==
  /\ u \in Threads /\ th[u].at = "idle" /\ calls < MaxCalls /\ calls' = calls + 1
  /\ L \cap Held = {} /\ D \subseteq L /\ L \subseteq Inos /\ S \subseteq Inos
  /\ \A k \in S : k \notin L => k # Root
  /\ \A k \in L : pi[k].mode # "none" /\ ~pi[k].dead /\ k \notin Made
  /\ th' = [th EXCEPT ![u] = Log(L, S, D)]
  /\ pi' \in [Inos -> Image]
  /\ \A k \in Inos : /\ pi'[k] # pi[k] => k \in L /\ k \in S
                     /\ pi'[k].mode = pi[k].mode /\ pi'[k].dead = pi[k].dead
  /\ ent' = (ent \ R) \cup A /\ R \subseteq ent /\ A \subseteq Inos \X Labels \X Numbers
  /\ (\A r \in R : r[1] \in D) /\ \A a \in A : a[1] \in D
  /\ \A k \in Inos : k \notin L /\ pi[k].mode = "dir" /\ EntIn(ent, k) # {} => EntIn(ent', k) # {}
  /\ over \subseteq over' /\ over' \subseteq Inos /\ listed \subseteq listed' /\ listed' \subseteq Inos
  /\ UNCHANGED <<count, nfree, hint, boots, tainted>>

\* The threads after it.
LEMMA ChangesThreads ==
  ASSUME Inv, ~tainted, NEW u, NEW L, NEW S, NEW D, NEW R, NEW A, Changes(u, L, S, D, R, A)
  PROVE  /\ Making' = Making /\ Made' = Made /\ u \notin Making
         /\ \A t \in Threads : t # u => th'[t] = th[t]
         /\ th'[u] = Log(L, S, D) /\ th[u] = Idle /\ Changer(th'[u])
         /\ ~Changer(th[u]) /\ ~Maker(th'[u])
<1> USE DEF Changes
<1>1. th' = [t \in Threads |-> IF t = u THEN Log(L, S, D) ELSE th[t]]
  BY DEF Inv, Shapes
<1>2. th'[u] = Log(L, S, D) /\ \A t \in Threads : t # u => th'[t] = th[t]
  BY <1>1
<1>3. Changer(th'[u]) /\ ~Maker(th'[u]) /\ th'[u].at = "ready" /\ ~Changer(th[u])
  BY <1>2, LogFields DEF Changer
<1>4. Making' = Making /\ u \notin Making
  BY <1>2, <1>3 DEF Making
<1>5. Made' = Made
  BY <1>2, <1>4 DEF Made, Making
<1>6. th[u] = Idle
  BY DEF Inv, Callers
<1> QED BY <1>2, <1>3, <1>4, <1>5, <1>6

\* The parts of the invariant that do not speak of the tree.
LEMMA ChangesKeep ==
  ASSUME Inv, ~tainted, NEW u, NEW L, NEW S, NEW D, NEW R, NEW A, Changes(u, L, S, D, R, A)
  PROVE  /\ Shapes' /\ TreeTypes' /\ Locks' /\ Callers' /\ Apart' /\ Beyond' /\ NumbersKept'
         /\ ~tainted'
<1>1. /\ Making' = Making /\ Made' = Made /\ u \notin Making
      /\ \A t \in Threads : t # u => th'[t] = th[t]
      /\ th'[u] = Log(L, S, D) /\ th[u] = Idle /\ Changer(th'[u])
      /\ ~Changer(th[u]) /\ ~Maker(th'[u])
  BY ChangesThreads
<1>2. /\ th'[u] = [at |-> "ready", kind |-> "none", dir |-> Root, name |-> NoLabel, ino |-> Root,
                   held |-> L, log |-> {<<i, pi[i]>> : i \in S}, changes |-> D,
                   was |-> {e \in ent : e[1] \in D}]
      /\ th'[u].at = "ready" /\ th'[u].held = L /\ th'[u].changes = D /\ th'[u].ino = Root
      /\ th'[u].log = {<<i, pi[i]>> : i \in S} /\ th'[u].was = {e \in ent : e[1] \in D}
  BY <1>1, LogFields
<1>3. /\ pi \in [Inos -> Image] /\ ent \subseteq Inos \X Labels \X Numbers
      /\ Made \subseteq Numbers
  BY NowFacts
<1>4. ent' \subseteq Inos \X Labels \X Numbers
  BY <1>3 DEF Changes
<1>5. Shapes'
  <2>1. th'[u] \in [at : {"idle", "picked", "published", "aborting", "ready"},
                    kind : Modes, dir : Inos, name : Labels \cup {NoLabel}, ino : Inos,
                    held : SUBSET Inos, log : SUBSET (Inos \X Image),
                    changes : SUBSET Inos, was : SUBSET (Inos \X Labels \X Numbers)]
    <3>1. /\ Root \in Inos /\ "none" \in Modes /\ D \subseteq Inos /\ L \subseteq Inos
          /\ {<<i, pi[i]>> : i \in S} \subseteq Inos \X Image
          /\ {e \in ent : e[1] \in D} \subseteq Inos \X Labels \X Numbers
      BY <1>3, Inodes DEF Changes, Modes
    <3> QED BY <1>2, <3>1
  <2>2. th' = [th EXCEPT ![u] = th'[u]]
    BY <1>1 DEF Changes
  <2>3. calls' \in 0..MaxCalls /\ boots' \in 0..MaxBoot
    BY NamesAssumption DEF Changes, Inv, Shapes
  <2>4. listed' \subseteq Inos /\ over' \subseteq Inos
        /\ count' \in Count0..MaxCount /\ hint' \in Start..count' + 1
    BY DEF Changes, Inv, Shapes
  <2>5. th' \in [Threads -> [at : {"idle", "picked", "published", "aborting", "ready"},
                    kind : Modes, dir : Inos, name : Labels \cup {NoLabel}, ino : Inos,
                    held : SUBSET Inos, log : SUBSET (Inos \X Image),
                    changes : SUBSET Inos, was : SUBSET (Inos \X Labels \X Numbers)]]
    <3>1. th \in [Threads -> [at : {"idle", "picked", "published", "aborting", "ready"},
                    kind : Modes, dir : Inos, name : Labels \cup {NoLabel}, ino : Inos,
                    held : SUBSET Inos, log : SUBSET (Inos \X Image),
                    changes : SUBSET Inos, was : SUBSET (Inos \X Labels \X Numbers)]]
      BY DEF Inv, Shapes
    <3> QED BY <2>1, <2>2, <3>1
  <2> QED BY <2>3, <2>4, <2>5 DEF Shapes
<1>6. TreeTypes'
  <2>1. \A t \in Threads :
       /\ th'[t].at \in {"idle", "picked", "published", "aborting", "ready"}
       /\ th'[t].kind \in Modes /\ th'[t].name \in Labels \cup {NoLabel}
       /\ {th'[t].dir, th'[t].ino} \cup th'[t].held \cup th'[t].changes \subseteq Inos
       /\ th'[t].log \subseteq Inos \X Image /\ th'[t].was \subseteq Inos \X Labels \X Inos
    BY <1>5, Inodes DEF Shapes
  <2>2. ent' \subseteq Inos \X Labels \X Inos
    BY <1>4, Inodes
  <2> QED BY <1>5, <2>1, <2>2 DEF TreeTypes, Shapes, Changes, Inv
<1>7. Locks'
  <2>1. \A t \in Threads : t # u => L \cap th[t].held = {}
    BY DEF Changes, Held
  <2>2. \A t, w \in Threads : t # w => th'[t].held \cap th'[w].held = {}
    BY <1>1, <1>2, <2>1 DEF Inv, Locks
  <2>3. \A t \in Threads : \A i \in th'[t].held : i \in Inos /\ pi[i].mode # "none" /\ ~pi[i].dead /\ i \notin Made
    BY <1>1, <1>2 DEF Inv, Locks, Changes, Shapes
  <2>4. \A t \in Threads : \A i \in th'[t].held : pi'[i].mode # "none" /\ ~pi'[i].dead /\ i \notin Made'
    BY <1>1, <2>3 DEF Changes
  <2> QED BY <2>2, <2>4 DEF Locks
<1>8. Callers'
  <2> SUFFICES ASSUME NEW t \in Threads
               PROVE  /\ th'[t].at = "idle" => th'[t] = Idle
                      /\ t \in Making' => MakingOk(t)'
                      /\ Maker(th'[t]) => MakerOk(t)'
                      /\ Changer(th'[t]) => ChangerOk(th'[t])
    BY DEF Callers
  <2>1. CASE t = u
    <3>1. ChangerOk(th'[u])
      BY <1>2 DEF ChangerOk, Changes
    <3> QED BY <2>1, <1>1, <1>2, <3>1
  <2>2. CASE t # u
    <3>1. th'[t] = th[t]
      BY <1>1, <2>2
    <3>2. /\ th[t].at = "idle" => th[t] = Idle
          /\ t \in Making => MakingOk(t)
          /\ Maker(th[t]) => MakerOk(t)
          /\ Changer(th[t]) => ChangerOk(th[t])
      BY DEF Inv, Callers
    <3>3. \A k \in th[t].held : k \notin L /\ k \in Inos
      BY DEF Changes, Held, Inv, Shapes
    <3>4. \A k \in th[t].held : pi'[k] = pi[k] /\ \A e : e[1] = k => (e \in ent' <=> e \in ent)
      BY <3>3 DEF Changes
    <3>5. ASSUME t \in Making PROVE MakingOk(t)'
      <4>1. MakingOk(t)
        BY <3>2, <3>5
      <4>2. th[t].dir \in th[t].held /\ th[t].ino \in Made /\ th[t].ino \in Inos
        BY <3>5, <4>1, <1>3, Inodes DEF MakingOk, Made
      <4>3. pi'[th[t].ino] = pi[th[t].ino]
        BY <4>2 DEF Changes
      <4>4. IsDirIn(pi', ent', th[t].dir)
        BY <3>3, <3>4, <4>1, <4>2 DEF MakingOk, IsDirIn, Changes
      <4>5. \A e \in ent' : e[1] = th[t].dir => e[2] # th[t].name
        BY <3>4, <4>1, <4>2 DEF MakingOk
      <4>6. count' = count
        BY DEF Changes
      <4> QED BY <3>1, <4>1, <4>3, <4>4, <4>5, <4>6 DEF MakingOk
    <3>6. ASSUME Maker(th[t]) PROVE MakerOk(t)'
      <4>1. MakerOk(t)
        BY <3>2, <3>6
      <4>2. th[t].dir \in th[t].held
        BY <4>1 DEF MakerOk
      <4>3. pi'[th[t].dir] = pi[th[t].dir]
        BY <3>4, <4>2
      <4>4. <<th[t].dir, th[t].name, th[t].ino>> \in ent'
        BY <3>4, <4>1, <4>2 DEF MakerOk
      <4>5. {x \in ent' : x[1] = th[t].dir /\ x # <<th[t].dir, th[t].name, th[t].ino>>}
            = {x \in ent : x[1] = th[t].dir /\ x # <<th[t].dir, th[t].name, th[t].ino>>}
        BY <3>4, <4>2
      <4> QED BY <3>1, <4>1, <4>3, <4>4, <4>5 DEF MakerOk
    <3> QED BY <1>1, <3>1, <3>2, <3>5, <3>6
  <2> QED BY <2>1, <2>2
<1>9. Apart'
  <2>1. \A t \in Making : th'[t] = th[t]
    BY <1>1 DEF Making
  <2> QED BY <1>1, <2>1 DEF Apart, Inv
<1>10. \A i \in Inos : Unused(pi'[i]) <=> Unused(pi[i])
  <2> SUFFICES ASSUME NEW i \in Inos PROVE Unused(pi'[i]) <=> Unused(pi[i])
    OBVIOUS
  <2>1. CASE i \in L
    BY <2>1 DEF Unused, Changes
  <2>2. CASE i \notin L
    BY <2>2 DEF Changes
  <2> QED BY <2>1, <2>2
<1>11. count' = count /\ nfree' = nfree /\ hint' = hint /\ tainted' = tainted
  BY DEF Changes
<1>12. Beyond'
  BY <1>10, <1>11, Inodes DEF Beyond, Inv
<1>13. NumbersKept'
  <2>1. Start..count \subseteq Inos
    BY NamesAssumption DEF Inv, Shapes, Inos, Numbers, Start
  <2>2. {t \in Threads : th'[t].at \in {"picked", "published"}} = {t \in Threads : th[t].at \in {"picked", "published"}}
    BY <1>1, <1>2 DEF Idle
  <2>3. {th'[t].ino : t \in {w \in Threads : th'[w].at \in {"picked", "published"}}}
        = {th[t].ino : t \in {w \in Threads : th[w].at \in {"picked", "published"}}}
    BY <1>1, <1>2, <2>2 DEF Idle
  <2>4. {i \in Start..count : Unused(pi'[i]) \/ i \in Made'} = {i \in Start..count : Unused(pi[i]) \/ i \in Made}
    BY <1>1, <1>10, <2>1
  <2>5. Available' = Available
    BY <1>11, <2>3, <2>4 DEF Available
  <2> QED BY <1>11, <2>5 DEF NumbersKept, Inv
<1> QED BY <1>5, <1>6, <1>7, <1>8, <1>9, <1>11, <1>12, <1>13

\* The threads whose calls can be taken back have locked nothing in K.
LEMMA FarAway ==
  ASSUME Inv, ~tainted, NEW T \in SUBSET Threads, NEW K, NEW H,
         \A t \in T : Changer(H[t]) <=> Changer(th[t]),
         \A t \in T : Changer(th[t]) => H[t] = th[t] /\ th[t].held \cap K = {}
  PROVE  Away(th, H, T, K)
<1>1. \A t \in Threads : Changer(th[t]) => ChangerOk(th[t])
  BY DEF Inv, Callers
<1> QED BY <1>1 DEF Away, ChangerOk

\* What is left without the calls of others is edited as what is there.
LEMMA BackAfter ==
  ASSUME Inv, ~tainted, NEW u, NEW L, NEW S, NEW D, NEW R, NEW A, Changes(u, L, S, D, R, A),
         NEW T \in SUBSET Threads, u \notin T
  PROVE  /\ EntBack(ent', th', T) = (EntBack(ent, th, T) \ R) \cup A
         /\ R \subseteq EntBack(ent, th, T)
         /\ \A e : e[1] \in L => (e \in EntBack(ent, th, T) <=> e \in ent)
         /\ \A k \in Inos :
              /\ k \in L => PiBack(pi, th, T)[k] = pi[k] /\ PiBack(pi', th', T)[k] = pi'[k]
              /\ k \notin L => PiBack(pi', th', T)[k] = PiBack(pi, th, T)[k]
         /\ PiBack(pi, th, T) \in [Inos -> Image] /\ PiBack(pi', th', T) \in [Inos -> Image]
         /\ NoMove(th', T) = NoMove(th, T)
<1>1. \A t \in T : t # u /\ th'[t] = th[t]
  BY ChangesThreads
<1>2. Away(th, th', T, L)
  <2>1. \A t \in T : th[t].held \cap L = {}
    BY DEF Changes, Held
  <2> QED BY <1>1, <2>1, FarAway
<1>3. pi \in [Inos -> Image] /\ pi' \in [Inos -> Image]
  BY NowFacts DEF Changes
<1>4. EntStep(ent, ent', R, A, L)
  BY DEF Changes, EntStep
<1>5. PiStep(pi, pi', L)
  BY DEF Changes, PiStep
<1>6. NoMove(th', T) = NoMove(th, T)
  BY <1>1 DEF NoMove
<1>7. /\ EntBack(ent', th', T) = (EntBack(ent, th, T) \ R) \cup A
      /\ R \subseteq EntBack(ent, th, T)
      /\ \A e : e[1] \in L => (e \in EntBack(ent, th, T) <=> e \in ent)
  BY <1>2, <1>4, EntBackOthers
<1>8. \A k \in Inos :
        /\ k \in L => PiBack(pi, th, T)[k] = pi[k] /\ PiBack(pi', th', T)[k] = pi'[k]
        /\ k \notin L => PiBack(pi', th', T)[k] = PiBack(pi, th, T)[k]
  BY <1>2, <1>5, PiBackOthers
<1> QED BY <1>3, <1>6, <1>7, <1>8, PiBackType

\* Without the call itself the same is left as before.
LEMMA BackBefore ==
  ASSUME Inv, ~tainted, NEW u, NEW L, NEW S, NEW D, NEW R, NEW A, Changes(u, L, S, D, R, A),
         NEW T \in SUBSET Threads, u \in T
  PROVE  /\ PiBack(pi', th', T) = PiBack(pi, th, T) /\ EntBack(ent', th', T) = EntBack(ent, th, T)
         /\ NoMove(th', T) => NoMove(th, T) /\ \A c, d \in D : c = d
<1>1. /\ \A t \in T : t # u => th'[t] = th[t]
      /\ th'[u] = Log(L, S, D) /\ Changer(th'[u]) /\ ~Changer(th[u])
  BY ChangesThreads
<1>2. /\ th'[u].held = L /\ th'[u].changes = D /\ th'[u].log = {<<i, pi[i]>> : i \in S}
      /\ th'[u].was = {e \in ent : e[1] \in D}
  BY <1>1, LogFields
<1>3. Mine(pi, ent, pi', ent', th, u, th'[u], T)
  <2>1. \A t \in T : Changer(th[t]) =>
          /\ th[t].held \cap L = {}
          /\ th[t].changes \subseteq th[t].held /\ \A e \in th[t].was : e[1] \in th[t].changes
    BY DEF Inv, Callers, ChangerOk, Changes, Held
  <2>2. /\ \A i \in Inos : pi'[i] # pi[i] => i \in L /\ <<i, pi[i]>> \in th'[u].log
        /\ \A i, a : <<i, a>> \in th'[u].log => a = pi[i]
    BY <1>2 DEF Changes
  <2>3. /\ pi \in [Inos -> Image] /\ ent \subseteq Inos \X Labels \X Numbers
        /\ D \subseteq L /\ \A e : e[1] \notin D => (e \in ent' <=> e \in ent)
    BY NowFacts DEF Changes
  <2> QED BY <1>1, <1>2, <2>1, <2>2, <2>3 DEF Mine
<1>4. PiBack(pi', th', T) = PiBack(pi, th, T) /\ EntBack(ent', th', T) = EntBack(ent, th, T)
  BY <1>1, <1>3, BackMine
<1>5. NoMove(th', T) => NoMove(th, T) /\ \A c, d \in D : c = d
  BY <1>1, <1>2 DEF NoMove
<1> QED BY <1>4, <1>5

\* It edits what is there and what is left alike.
ChangesTree(u, L, D, R, A) ==
  /\ \A T \in SUBSET Threads : u \notin T =>
       /\ Sound(PiBack(pi', th', T), EntBack(ent', th', T), over', Made, listed')
       /\ SameEdit(pi, ent, EntBack(ent, th, T), R, A)
  /\ \A T \in SUBSET Threads :
       OwnEdit(pi, ent, EntBack(ent, th, T), R, A, \A c, d \in D : c = d)
  /\ \A i \in listed' : i \in listed \/ (i \in Numbers /\ i \in L /\ pi'[i].links = 0)
  /\ \A i \in listed : pi'[i] = pi[i]

\* Then it keeps the invariant.
LEMMA ChangesInv ==
  ASSUME Inv, ~tainted, NEW u, NEW L, NEW S, NEW D, NEW R, NEW A, Changes(u, L, S, D, R, A),
         ChangesTree(u, L, D, R, A)
  PROVE  Inv'
<1> USE DEF ChangesTree
<1>1. /\ Shapes' /\ TreeTypes' /\ Locks' /\ Callers' /\ Apart' /\ Beyond' /\ NumbersKept'
      /\ ~tainted'
  BY ChangesKeep
<1>2. Made' = Made
  BY ChangesThreads
<1>3. \A i \in Inos : pi'[i].mode = pi[i].mode
  BY DEF Changes
<1>4. ent' = (ent \ R) \cup A
  BY DEF Changes
<1>5. Backs'
  <2> SUFFICES ASSUME NEW T \in SUBSET Threads
               PROVE  /\ Sound(PiBack(pi', th', T), EntBack(ent', th', T), over', Made, listed')
                      /\ Agree(pi', ent', PiBack(pi', th', T), EntBack(ent', th', T), NoMove(th', T))
    BY <1>2 DEF Backs
  <2> DEFINE P == PiBack(pi, th, T)
             E == EntBack(ent, th, T)
             Q == PiBack(pi', th', T)
             F == EntBack(ent', th', T)
  <2>1. /\ Sound(pi, ent, over, Made, listed) /\ Sound(P, E, over, Made, listed)
        /\ Agree(pi, ent, P, E, NoMove(th, T))
    BY BacksAt
  <2>2. CASE u \notin T
    <3>1. /\ F = (E \ R) \cup A
          /\ \A k \in Inos :
              /\ k \in L => P[k] = pi[k] /\ Q[k] = pi'[k]
              /\ k \notin L => Q[k] = P[k]
          /\ NoMove(th', T) = NoMove(th, T)
      BY <2>2, BackAfter
    <3>2. \A i \in Inos : pi'[i].mode = pi[i].mode /\ Q[i].mode = P[i].mode
      BY <1>3, <3>1
    <3>3. SameEdit(pi, ent, E, R, A)
      BY <2>2
    <3> HIDE DEF P, E, Q, F
    <3>4. Agree(pi', (ent \ R) \cup A, Q, (E \ R) \cup A, NoMove(th, T))
      BY <2>1, <3>2, <3>3, AgreeSame
    <3>5. Agree(pi', ent', Q, F, NoMove(th', T))
      BY <3>1, <3>4, <1>4
    <3> QED BY <2>2, <3>5 DEF Q, F
  <2>3. CASE u \in T
    <3>1. Q = P /\ F = E /\ (NoMove(th', T) => NoMove(th, T) /\ \A c, d \in D : c = d)
      BY <2>3, BackBefore
    <3>2. OwnEdit(pi, ent, E, R, A, NoMove(th', T))
      <4>1. OwnEdit(pi, ent, E, R, A, \A c, d \in D : c = d)
        OBVIOUS
      <4> HIDE DEF P, E, Q, F
      <4> QED BY <3>1, <4>1 DEF OwnEdit
    <3>3. P \in [Inos -> Image] /\ over \subseteq over' /\ listed \subseteq listed'
      BY NowFacts, PiBackType DEF Changes
    <3> HIDE DEF P, E, Q, F
    <3>4. Agree(pi', (ent \ R) \cup A, P, E, NoMove(th', T))
      BY <2>1, <3>1, <3>2, <1>3, AgreeOwn
    <3>5. \A k \in Inos : P[k].links >= P[k].links
      BY <3>3, TableFields
    <3>6. SlackEdit(P, E, P, over, over', listed, listed')
      BY <3>3, <3>5 DEF SlackEdit
    <3>7. Sound(P, E, over', Made, listed')
      BY <2>1, <3>6, SlackSound
    <3> QED BY <3>1, <3>4, <3>7, <1>4 DEF Q, F
  <2> QED BY <2>2, <2>3
<1>6. ListedOk'
  <2> SUFFICES ASSUME NEW i \in listed'
               PROVE  i \in Numbers \ Made /\ pi'[i].links = 0 /\ ~Unused(pi'[i])
    BY <1>2 DEF ListedOk
  <2>1. CASE i \in listed
    BY <2>1 DEF Inv, ListedOk
  <2>2. CASE i \in Numbers /\ i \in L /\ pi'[i].links = 0
    BY <2>2, Inodes DEF Changes, Unused
  <2> QED BY <2>1, <2>2
<1> QED BY <1>1, <1>5, <1>6 DEF Inv

-----------------------------------------------------------------------------
(* The calls that change names.                                                             *)

\* What the guards of the calls say.
LEMMA Guards ==
  ASSUME NEW d
  PROVE  /\ IsDir(d) <=> IsDirIn(pi, ent, d)
         /\ EntriesOf(d) = EntIn(ent, d) /\ Below(d) = BelowIn(ent, d)
         /\ Entries(d) = {} <=> \A y \in ent : y[1] # d
         /\ \A n : Lookup(d, n) = {} <=> \A e \in ent : e[1] = d => e[2] # n
  BY DEF IsDir, IsDirIn, EntriesOf, EntIn, Below, BelowIn, Closed, Entries, Lookup

\* What is not locked is as it is without the calls of others.
LEMMA Untouched ==
  ASSUME Inv, ~tainted, NEW T \in SUBSET Threads, NEW k \in Inos, k \notin Held
  PROVE  /\ PiBack(pi, th, T)[k] = pi[k]
         /\ \A e : e[1] = k => (e \in EntBack(ent, th, T) <=> e \in ent)
<1>1. \A t \in T : k \notin th[t].held /\ (Changer(th[t]) => ChangerOk(th[t]))
  BY DEF Held, Inv, Callers
<1>2. \A t \in T : \A a \in Image : ~Says(th[t], k, a)
  BY <1>1 DEF Says
<1>3. \A e : e[1] = k => \A t \in T : Changer(th[t]) => e[1] \notin th[t].changes /\ e \notin th[t].was
  BY <1>1 DEF ChangerOk
<1> QED BY <1>2, <1>3, PiBackAt, EntBackAt

\* Directories are directories without the calls of others.
LEMMA DirBack ==
  ASSUME Inv, ~tainted, NEW T \in SUBSET Threads, NEW k \in Inos
  PROVE  /\ PiBack(pi, th, T)[k].mode = pi[k].mode
         /\ IsDirIn(pi, ent, k) => IsDirIn(PiBack(pi, th, T), EntBack(ent, th, T), k)
  BY BacksAt DEF Agree, IsDirIn

\* pmfs_link.
LEMMA LinkKeeps ==
  ASSUME Inv, NEW t \in Threads, NEW i \in Inos, NEW d \in Inos, NEW n \in Labels,
         Link(t, i, d, n)
  PROVE  Inv'
<1> DEFINE L == {i, d}
           S == {i}
           D == {d}
           R == {}
           A == {<<d, n, i>>}
<1>1. /\ th[t].at = "idle" /\ calls < MaxCalls /\ ~tainted /\ L \cap Held = {} /\ calls' = calls + 1
      /\ pi[i].mode = "file" /\ EntIn(ent, i) # {} /\ IsDirIn(pi, ent, d)
      /\ \A e \in ent : e[1] = d => e[2] # n
      /\ ent' = ent \cup {<<d, n, i>>} /\ pi' = [pi EXCEPT ![i].links = @ + 1]
      /\ th' = [th EXCEPT ![t] = Log({i, d}, {i}, {d})]
      /\ UNCHANGED <<listed, count, nfree, hint, over, boots, tainted>>
  BY Guards DEF Link, Call
<1>2. /\ pi \in [Inos -> Image] /\ i \in Numbers /\ i \notin Made /\ pi[i].links > 0 /\ ~pi[i].dead
      /\ d \notin Made /\ ~pi[d].dead /\ pi[d].mode = "dir" /\ i # d /\ pi[i].links \in Nat
  <2>1. PICK e \in ent : e[3] = i
    BY <1>1 DEF EntIn
  <2> QED BY <1>1, <2>1, NowFacts, TableFields
<1>3. /\ pi' \in [Inos -> Image] /\ \A k \in Inos : k # i => pi'[k] = pi[k]
      /\ pi'[i] = [pi[i] EXCEPT !.links = @ + 1]
      /\ pi'[i].mode = pi[i].mode /\ pi'[i].dead = pi[i].dead
  <2>1. /\ pi'[i] = [pi[i] EXCEPT !.links = @ + 1] /\ \A k \in Inos : k # i => pi'[k] = pi[k]
        /\ pi' = [k \in Inos |-> pi'[k]]
    BY <1>1, <1>2
  <2>2. pi[i] \in Image
    BY <1>2
  <2>3. /\ [pi[i] EXCEPT !.links = @ + 1] \in Image
        /\ [pi[i] EXCEPT !.links = @ + 1].mode = pi[i].mode
        /\ [pi[i] EXCEPT !.links = @ + 1].dead = pi[i].dead
    BY <2>2 DEF Image
  <2> QED BY <2>1, <2>3, <1>2
<1>4. Changes(t, L, S, D, R, A)
  <2>1. \A k \in Inos : EntIn(ent, k) # {} => EntIn(ent', k) # {}
    BY <1>1 DEF EntIn
  <2>2. over' \subseteq Inos /\ listed' \subseteq Inos
    BY <1>1 DEF Inv, Shapes
  <2>3. ent' = (ent \ R) \cup A /\ R \subseteq ent /\ A \subseteq Inos \X Labels \X Numbers
    BY <1>1, <1>2
  <2>4. \A k \in L : pi[k].mode # "none" /\ ~pi[k].dead /\ k \notin Made
    BY <1>1, <1>2
  <2>5. \A k \in Inos : /\ pi'[k] # pi[k] => k \in L /\ k \in S
                        /\ pi'[k].mode = pi[k].mode /\ pi'[k].dead = pi[k].dead
    BY <1>3
  <2>6. (\A r \in R : r[1] \in D) /\ \A a \in A : a[1] \in D
    OBVIOUS
  <2>7. /\ D \subseteq L /\ L \subseteq Inos /\ S \subseteq Inos /\ \A k \in S : k \notin L => k # Root
        /\ over \subseteq over' /\ listed \subseteq listed' /\ th' = [th EXCEPT ![t] = Log(L, S, D)]
    BY <1>1
  <2> HIDE DEF L, S, D, R, A
  <2> QED BY <1>1, <1>3, <2>1, <2>2, <2>3, <2>4, <2>5, <2>6, <2>7 DEF Changes
<1>5. ASSUME NEW T \in SUBSET Threads, t \notin T
      PROVE  /\ Sound(PiBack(pi', th', T), EntBack(ent', th', T), over', Made, listed')
             /\ SameEdit(pi, ent, EntBack(ent, th, T), R, A)
  <2> HIDE DEF L, S, D, R, A
  <2> DEFINE P == PiBack(pi, th, T)
             E == EntBack(ent, th, T)
             Q == PiBack(pi', th', T)
             F == EntBack(ent', th', T)
  <2>1. /\ F = (E \ R) \cup A
        /\ \A e : e[1] \in L => (e \in E <=> e \in ent)
        /\ \A k \in Inos :
              /\ k \in L => P[k] = pi[k] /\ Q[k] = pi'[k]
              /\ k \notin L => Q[k] = P[k]
        /\ P \in [Inos -> Image] /\ Q \in [Inos -> Image]
    <3>1. ~tainted
      BY <1>1
    <3> QED BY <3>1, <1>4, <1>5, BackAfter
  <2>2. Sound(P, E, over, Made, listed) /\ IsDirIn(P, E, d)
    BY <1>1, BacksAt, DirBack
  <2> HIDE DEF P, E, Q, F
  <2> USE DEF L, R, A
  <2>3. LinkEdit(P, E, Q, F, Made, i, d, n)
    BY <1>1, <1>2, <1>3, <2>1, <2>2 DEF LinkEdit
  <2>4. Sound(Q, F, over, Made, listed)
    BY <2>2, <2>3, LinkSound
  <2>5. SameEdit(pi, ent, E, R, A)
    BY <1>1, <1>2 DEF SameEdit, IsDirIn
  <2> QED BY <1>1, <2>4, <2>5 DEF Q, F, E
<1>6. \A T \in SUBSET Threads : OwnEdit(pi, ent, EntBack(ent, th, T), R, A, \A c, k \in D : c = k)
  BY <1>1 DEF OwnEdit
<1>7. /\ \A k \in listed' : k \in listed \/ (k \in Numbers /\ k \in L /\ pi'[k].links = 0)
      /\ \A k \in listed : pi'[k] = pi[k]
  <2>1. \A k \in listed : k \in Inos /\ k # i
    BY <1>1, <1>2 DEF Inv, ListedOk, Shapes
  <2> QED BY <1>1, <1>3, <2>1
<1> HIDE DEF L, S, D, R, A
<1>8. ChangesTree(t, L, D, R, A)
  BY <1>5, <1>6, <1>7 DEF ChangesTree
<1> QED BY <1>1, <1>4, <1>8, ChangesInv

\* pmfs_unlink.
LEMMA UnlinkKeeps ==
  ASSUME Inv, NEW t \in Threads, NEW e \in ent, Unlink(t, e)
  PROVE  Inv'
<1> DEFINE i == e[3]
           L == {e[1], i}
           S == {i}
           D == {e[1]}
           R == {e}
           A == {}
<1>1. /\ th[t].at = "idle" /\ calls < MaxCalls /\ ~tainted /\ L \cap Held = {} /\ calls' = calls + 1
      /\ pi[i].mode = "file"
      /\ ent' = ent \ {e} /\ pi' = [pi EXCEPT ![i].links = @ - 1]
      /\ listed' = IF pi[i].links = 1 THEN listed \cup {i} ELSE listed
      /\ th' = [th EXCEPT ![t] = Log({i, e[1]}, {i}, {e[1]})]
      /\ UNCHANGED <<count, nfree, hint, over, boots, tainted>>
  BY DEF Unlink, Call
<1>2. /\ pi \in [Inos -> Image] /\ i \in Numbers /\ i \in Inos /\ i \notin Made /\ pi[i].links > 0
      /\ ~pi[i].dead /\ pi[i].links \in Nat
      /\ e[1] \in Inos /\ e[1] \notin Made /\ ~pi[e[1]].dead /\ pi[e[1]].mode = "dir" /\ i # e[1]
      /\ ent \subseteq Inos \X Labels \X Numbers
  BY <1>1, NowFacts, TableFields
<1>3. /\ pi' \in [Inos -> Image] /\ \A k \in Inos : k # i => pi'[k] = pi[k]
      /\ pi'[i] = [pi[i] EXCEPT !.links = @ - 1] /\ pi'[i].links = pi[i].links - 1
      /\ pi'[i].mode = pi[i].mode /\ pi'[i].dead = pi[i].dead
  <2>1. /\ pi'[i] = [pi[i] EXCEPT !.links = @ - 1] /\ \A k \in Inos : k # i => pi'[k] = pi[k]
        /\ pi' = [k \in Inos |-> pi'[k]]
    BY <1>1, <1>2
  <2>2. pi[i] \in Image /\ pi[i].links - 1 \in Nat
    BY <1>2
  <2>3. /\ [pi[i] EXCEPT !.links = @ - 1] \in Image
        /\ [pi[i] EXCEPT !.links = @ - 1].mode = pi[i].mode
        /\ [pi[i] EXCEPT !.links = @ - 1].dead = pi[i].dead
        /\ [pi[i] EXCEPT !.links = @ - 1].links = pi[i].links - 1
    BY <2>2 DEF Image
  <2> QED BY <2>1, <2>3, <1>2
<1>4. Changes(t, L, S, D, R, A)
  <2>1. \A k \in Inos : k \notin L /\ EntIn(ent, k) # {} => EntIn(ent', k) # {}
    BY <1>1 DEF EntIn
  <2>2. over' \subseteq Inos /\ listed' \subseteq Inos /\ listed \subseteq listed'
    BY <1>1, <1>2 DEF Inv, Shapes
  <2>3. {i, e[1]} = L
    OBVIOUS
  <2> QED BY <1>1, <1>2, <1>3, <2>1, <2>2, <2>3 DEF Changes
<1>5. ASSUME NEW T \in SUBSET Threads, t \notin T
      PROVE  /\ Sound(PiBack(pi', th', T), EntBack(ent', th', T), over', Made, listed')
             /\ SameEdit(pi, ent, EntBack(ent, th, T), R, A)
  <2> HIDE DEF L, S, D, R, A
  <2> DEFINE P == PiBack(pi, th, T)
             E == EntBack(ent, th, T)
             Q == PiBack(pi', th', T)
             F == EntBack(ent', th', T)
  <2>1. /\ F = (E \ R) \cup A /\ R \subseteq E
        /\ \A k \in Inos :
              /\ k \in L => P[k] = pi[k] /\ Q[k] = pi'[k]
              /\ k \notin L => Q[k] = P[k]
        /\ P \in [Inos -> Image] /\ Q \in [Inos -> Image]
    <3>1. ~tainted
      BY <1>1
    <3> QED BY <3>1, <1>4, <1>5, BackAfter
  <2>2. Sound(P, E, over, Made, listed)
    BY <1>1, BacksAt
  <2> HIDE DEF P, E, Q, F
  <2> USE DEF L, R, A
  <2>3. UnlinkEdit(P, E, Q, F, listed, listed', e)
    BY <1>1, <1>2, <1>3, <2>1, <2>2 DEF UnlinkEdit
  <2>4. Sound(Q, F, over, Made, listed')
    BY <2>2, <2>3, UnlinkSound
  <2>5. SameEdit(pi, ent, E, R, A)
    BY <2>1 DEF SameEdit
  <2> QED BY <1>1, <2>4, <2>5 DEF Q, F, E
<1>6. \A T \in SUBSET Threads :
        OwnEdit(pi, ent, EntBack(ent, th, T), R, A, \A c, k \in D : c = k)
  BY <1>1 DEF OwnEdit
<1>7. /\ \A k \in listed' : k \in listed \/ (k \in Numbers /\ k \in L /\ pi'[k].links = 0)
      /\ \A k \in listed : pi'[k] = pi[k]
  <2>1. \A k \in listed : k \in Inos /\ k # i
    BY <1>1, <1>2 DEF Inv, ListedOk, Shapes
  <2> QED BY <1>1, <1>2, <1>3, <2>1
<1> HIDE DEF L, S, D, R, A
<1>8. ChangesTree(t, L, D, R, A)
  BY <1>5, <1>6, <1>7 DEF ChangesTree
<1> QED BY <1>1, <1>4, <1>8, ChangesInv

\* pmfs_rmdir.
LEMMA RmdirKeeps ==
  ASSUME Inv, NEW t \in Threads, NEW e \in ent, Rmdir(t, e)
  PROVE  Inv'
<1> DEFINE i == e[3]
           d == e[1]
           L == {d, i}
           S == {i, d}
           D == {d}
           R == {e}
           A == {}
<1>1. /\ th[t].at = "idle" /\ calls < MaxCalls /\ ~tainted /\ L \cap Held = {} /\ calls' = calls + 1
      /\ pi[i].mode = "dir" /\ \A y \in ent : y[1] # i
      /\ ent' = ent \ {e} /\ pi' = [pi EXCEPT ![i].links = 0, ![d].links = @ - 1]
      /\ listed' = listed \cup {i}
      /\ th' = [th EXCEPT ![t] = Log({i, d}, {i, d}, {d})]
      /\ UNCHANGED <<count, nfree, hint, over, boots, tainted>>
  BY Guards DEF Rmdir, Call
<1>2. /\ pi \in [Inos -> Image] /\ i \in Numbers /\ i \in Inos /\ i \notin Made /\ pi[i].links > 0
      /\ ~pi[i].dead /\ pi[i].links \in Nat
      /\ d \in Inos /\ d \notin Made /\ ~pi[d].dead /\ pi[d].mode = "dir" /\ i # d
      /\ pi[d].links > 0 /\ pi[d].links \in Nat
      /\ ent \subseteq Inos \X Labels \X Numbers
  BY <1>1, NowFacts, TableFields
<1>3. /\ pi' \in [Inos -> Image] /\ \A k \in Inos : k # i /\ k # d => pi'[k] = pi[k]
      /\ pi'[i] = [pi[i] EXCEPT !.links = 0] /\ pi'[i].links = 0
      /\ pi'[i].mode = pi[i].mode /\ pi'[i].dead = pi[i].dead
      /\ pi'[d] = [pi[d] EXCEPT !.links = @ - 1]
      /\ pi'[d].mode = pi[d].mode /\ pi'[d].dead = pi[d].dead
  <2>1. /\ pi'[i] = [pi[i] EXCEPT !.links = 0] /\ \A k \in Inos : k # i /\ k # d => pi'[k] = pi[k]
        /\ pi'[d] = [pi[d] EXCEPT !.links = @ - 1]
        /\ pi' = [k \in Inos |-> pi'[k]]
    BY <1>1, <1>2
  <2>2. pi[i] \in Image /\ pi[d] \in Image /\ pi[d].links - 1 \in Nat
    BY <1>2
  <2>3. /\ [pi[i] EXCEPT !.links = 0] \in Image
        /\ [pi[i] EXCEPT !.links = 0].mode = pi[i].mode
        /\ [pi[i] EXCEPT !.links = 0].dead = pi[i].dead
        /\ [pi[i] EXCEPT !.links = 0].links = 0
    BY <2>2 DEF Image
  <2>4. /\ [pi[d] EXCEPT !.links = @ - 1] \in Image
        /\ [pi[d] EXCEPT !.links = @ - 1].mode = pi[d].mode
        /\ [pi[d] EXCEPT !.links = @ - 1].dead = pi[d].dead
    BY <2>2 DEF Image
  <2> QED BY <2>1, <2>3, <2>4, <1>2
<1>4. Changes(t, L, S, D, R, A)
  <2>1. \A k \in Inos : k \notin L /\ EntIn(ent, k) # {} => EntIn(ent', k) # {}
    BY <1>1 DEF EntIn
  <2>2. over' \subseteq Inos /\ listed' \subseteq Inos
    BY <1>1, <1>2 DEF Inv, Shapes
  <2>3. ent' = (ent \ R) \cup A /\ R \subseteq ent /\ A \subseteq Inos \X Labels \X Numbers
    BY <1>1, <1>2
  <2>4. \A k \in L : pi[k].mode # "none" /\ ~pi[k].dead /\ k \notin Made
    BY <1>1, <1>2
  <2>5. \A k \in Inos : /\ pi'[k] # pi[k] => k \in L /\ k \in S
                        /\ pi'[k].mode = pi[k].mode /\ pi'[k].dead = pi[k].dead
    BY <1>3
  <2>6. (\A r \in R : r[1] \in D) /\ \A a \in A : a[1] \in D
    OBVIOUS
  <2>7. /\ D \subseteq L /\ L \subseteq Inos /\ S \subseteq Inos /\ \A k \in S : k \notin L => k # Root
        /\ over \subseteq over' /\ listed \subseteq listed'
    BY <1>1, <1>2
  <2>8. th' = [th EXCEPT ![t] = Log(L, S, D)]
    <3>1. {i, d} = L
      OBVIOUS
    <3> QED BY <1>1, <3>1
  <2> HIDE DEF L, S, D, R, A, i, d
  <2> QED BY <1>1, <1>3, <2>1, <2>2, <2>3, <2>4, <2>5, <2>6, <2>7, <2>8 DEF Changes
<1>5. ASSUME NEW T \in SUBSET Threads, t \notin T
      PROVE  /\ Sound(PiBack(pi', th', T), EntBack(ent', th', T), over', Made, listed')
             /\ SameEdit(pi, ent, EntBack(ent, th, T), R, A)
  <2> HIDE DEF L, S, D, R, A
  <2> DEFINE P == PiBack(pi, th, T)
             E == EntBack(ent, th, T)
             Q == PiBack(pi', th', T)
             F == EntBack(ent', th', T)
  <2>1. /\ F = (E \ R) \cup A /\ R \subseteq E
        /\ \A y : y[1] \in L => (y \in E <=> y \in ent)
        /\ \A k \in Inos :
              /\ k \in L => P[k] = pi[k] /\ Q[k] = pi'[k]
              /\ k \notin L => Q[k] = P[k]
        /\ P \in [Inos -> Image] /\ Q \in [Inos -> Image]
    <3>1. ~tainted
      BY <1>1
    <3> QED BY <3>1, <1>4, <1>5, BackAfter
  <2>2. Sound(P, E, over, Made, listed)
    BY <1>1, BacksAt
  <2> HIDE DEF P, E, Q, F
  <2> USE DEF L, R, A
  <2>3. RmdirEdit(P, E, Q, F, over, listed, listed', e, 0)
    BY <1>1, <1>2, <1>3, <2>1, <2>2 DEF RmdirEdit
  <2>4. Sound(Q, F, over, Made, listed')
    BY <2>2, <2>3, RmdirSound
  <2>5. SameEdit(pi, ent, E, R, A)
    BY <2>1 DEF SameEdit
  <2> QED BY <1>1, <2>4, <2>5 DEF Q, F, E
<1>6. \A T \in SUBSET Threads :
        OwnEdit(pi, ent, EntBack(ent, th, T), R, A, \A c, k \in D : c = k)
  <2> SUFFICES ASSUME NEW T \in SUBSET Threads
               PROVE  OwnEdit(pi, ent, EntBack(ent, th, T), R, A, \A c, k \in D : c = k)
    OBVIOUS
  <2>1. ~tainted /\ i \in Inos /\ i \notin Held
    BY <1>1, <1>2
  <2>2. \A y : y[1] = i => (y \in EntBack(ent, th, T) <=> y \in ent)
    BY <2>1, Untouched
  <2>3. \A y \in EntBack(ent, th, T) : y[1] # i
    BY <1>1, <2>2
  <2> QED BY <2>3 DEF OwnEdit
<1>7. /\ \A k \in listed' : k \in listed \/ (k \in Numbers /\ k \in L /\ pi'[k].links = 0)
      /\ \A k \in listed : pi'[k] = pi[k]
  <2>1. \A k \in listed : k \in Inos /\ k # i /\ k # d
    BY <1>1, <1>2 DEF Inv, ListedOk, Shapes
  <2> QED BY <1>1, <1>2, <1>3, <2>1
<1> HIDE DEF L, S, D, R, A
<1>8. ChangesTree(t, L, D, R, A)
  BY <1>5, <1>6, <1>7 DEF ChangesTree
<1> QED BY <1>1, <1>4, <1>8, ChangesInv

\* pmfs_rename to a name that does not exist.
LEMMA RenameNewKeeps ==
  ASSUME Inv, NEW t \in Threads, NEW e \in ent, NEW d \in Inos, NEW n \in Labels,
         RenameNew(t, e, d, n)
  PROVE  Inv'
<1> DEFINE i == e[3]
           s == e[1]
           dir == pi[i].mode = "dir"
           L == {s, d} \cup IF dir THEN {} ELSE {i}
           S == {i, d, s}
           D == {d, s}
           R == {e}
           A == {<<d, n, i>>}
<1>1. /\ th[t].at = "idle" /\ calls < MaxCalls /\ ~tainted /\ L \cap Held = {} /\ calls' = calls + 1
      /\ IsDirIn(pi, ent, d) /\ \A y \in ent : y[1] = d => y[2] # n
      /\ d # s => RenameMutexFree
      /\ dir => d \notin BelowIn(ent, i)
      /\ ent' = (ent \ {e}) \cup {<<d, n, i>>}
      /\ pi' = IF dir /\ d # s THEN [pi EXCEPT ![d].links = @ + 1, ![s].links = @ - 1] ELSE pi
      /\ th' = [th EXCEPT ![t] = Log(L, S, D)]
      /\ UNCHANGED <<listed, count, nfree, hint, over, boots, tainted>>
  BY Guards DEF RenameNew, Call
<1>2. /\ pi \in [Inos -> Image] /\ i \in Numbers /\ i \in Inos /\ i \notin Made /\ i # Root
      /\ ~pi[i].dead /\ pi[i].mode # "none"
      /\ s \in Inos /\ s \notin Made /\ ~pi[s].dead /\ pi[s].mode = "dir"
      /\ pi[s].links > 0 /\ pi[s].links \in Nat
      /\ d \notin Made /\ ~pi[d].dead /\ pi[d].mode = "dir"
      /\ pi[d].links > 0 /\ pi[d].links \in Nat
      /\ ent \subseteq Inos \X Labels \X Numbers
  BY <1>1, NowFacts, TableFields
<1>3. /\ pi' \in [Inos -> Image] /\ \A k \in Inos : k # d /\ k # s => pi'[k] = pi[k]
      /\ IF dir /\ d # s
         THEN /\ pi'[d] = [pi[d] EXCEPT !.links = @ + 1]
              /\ pi'[s] = [pi[s] EXCEPT !.links = @ - 1]
         ELSE pi'[d] = pi[d] /\ pi'[s] = pi[s]
      /\ pi'[d].mode = pi[d].mode /\ pi'[d].dead = pi[d].dead
      /\ pi'[s].mode = pi[s].mode /\ pi'[s].dead = pi[s].dead
  <2>1. CASE dir /\ d # s
    <3>1. /\ pi'[d] = [pi[d] EXCEPT !.links = @ + 1] /\ \A k \in Inos : k # d /\ k # s => pi'[k] = pi[k]
          /\ pi'[s] = [pi[s] EXCEPT !.links = @ - 1]
          /\ pi' = [k \in Inos |-> pi'[k]]
      BY <1>1, <1>2, <2>1
    <3>2. pi[s] \in Image /\ pi[d] \in Image /\ pi[s].links - 1 \in Nat
      BY <1>2
    <3>3. /\ [pi[d] EXCEPT !.links = @ + 1] \in Image
          /\ [pi[d] EXCEPT !.links = @ + 1].mode = pi[d].mode
          /\ [pi[d] EXCEPT !.links = @ + 1].dead = pi[d].dead
      BY <3>2 DEF Image
    <3>4. /\ [pi[s] EXCEPT !.links = @ - 1] \in Image
          /\ [pi[s] EXCEPT !.links = @ - 1].mode = pi[s].mode
          /\ [pi[s] EXCEPT !.links = @ - 1].dead = pi[s].dead
      BY <3>2 DEF Image
    <3> QED BY <2>1, <3>1, <3>3, <3>4, <1>2
  <2>2. CASE ~(dir /\ d # s)
    <3>1. pi' = pi
      BY <1>1, <2>2
    <3> QED BY <2>2, <3>1, <1>2
  <2> QED BY <2>1, <2>2
<1>4. Changes(t, L, S, D, R, A)
  <2>1. \A k \in Inos : EntIn(ent, k) # {} => EntIn(ent', k) # {}
    <3>1. <<d, n, i>> \in ent' /\ \A y \in ent : y # e => y \in ent'
      BY <1>1
    <3>2. ASSUME NEW k \in Inos, NEW y \in ent, y[3] = k PROVE \E z \in ent' : z[3] = k
      BY <3>1, <3>2
    <3> QED BY <3>2 DEF EntIn
  <2>2. over' \subseteq Inos /\ listed' \subseteq Inos
    BY <1>1 DEF Inv, Shapes
  <2>3. ent' = (ent \ R) \cup A /\ R \subseteq ent /\ A \subseteq Inos \X Labels \X Numbers
    BY <1>1, <1>2
  <2>4. \A k \in L : pi[k].mode # "none" /\ ~pi[k].dead /\ k \notin Made
    BY <1>1, <1>2
  <2>5. \A k \in Inos : /\ pi'[k] # pi[k] => k \in L /\ k \in S
                        /\ pi'[k].mode = pi[k].mode /\ pi'[k].dead = pi[k].dead
    BY <1>3
  <2>6. (\A r \in R : r[1] \in D) /\ \A a \in A : a[1] \in D
    OBVIOUS
  <2>7. /\ D \subseteq L /\ L \subseteq Inos /\ S \subseteq Inos /\ \A k \in S : k \notin L => k # Root
        /\ over \subseteq over' /\ listed \subseteq listed'
    BY <1>1, <1>2
  <2> HIDE DEF L, S, D, R, A, i, s, dir
  <2> QED BY <1>1, <1>3, <2>1, <2>2, <2>3, <2>4, <2>5, <2>6, <2>7 DEF Changes
<1>5. ASSUME NEW T \in SUBSET Threads, t \notin T
      PROVE  /\ Sound(PiBack(pi', th', T), EntBack(ent', th', T), over', Made, listed')
             /\ SameEdit(pi, ent, EntBack(ent, th, T), R, A)
  <2> HIDE DEF L, S, D, R, A
  <2> DEFINE P == PiBack(pi, th, T)
             E == EntBack(ent, th, T)
             Q == PiBack(pi', th', T)
             F == EntBack(ent', th', T)
  <2>1. /\ F = (E \ R) \cup A /\ R \subseteq E
        /\ \A y : y[1] \in L => (y \in E <=> y \in ent)
        /\ \A k \in Inos :
              /\ k \in L => P[k] = pi[k] /\ Q[k] = pi'[k]
              /\ k \notin L => Q[k] = P[k]
        /\ P \in [Inos -> Image] /\ Q \in [Inos -> Image]
    <3>1. ~tainted
      BY <1>1
    <3> QED BY <3>1, <1>4, <1>5, BackAfter
  <2>2. /\ Sound(pi, ent, over, Made, listed) /\ Sound(P, E, over, Made, listed)
        /\ Agree(pi, ent, P, E, NoMove(th, T))
    BY <1>1, BacksAt
  <2>3. IsDirIn(P, E, d) /\ P[i].mode = pi[i].mode
    BY <1>1, <1>2, DirBack
  <2>4. d # s => NoMove(th, T)
    BY <1>1 DEF RenameMutexFree, NoMove
  <2> HIDE DEF P, E, Q, F
  <2>5. dir /\ d # s => d \notin BelowIn(E, i)
    <3> SUFFICES ASSUME dir, d # s PROVE d \notin BelowIn(E, i)
      OBVIOUS
    <3>1. Agree(pi, ent, P, E, TRUE)
      BY <2>2, <2>4 DEF Agree
    <3>2. IsDirIn(pi, ent, d) /\ d \notin BelowIn(ent, i) /\ i \in Inos
      BY <1>1, <1>2
    <3> QED BY <2>2, <3>1, <3>2, StillAbove
  <2> USE DEF L, R, A
  <2>6. MoveEdit(P, E, Q, F, Made, e, d, n)
    <3>1. e \in E /\ ~P[d].dead /\ \A y \in E : y[1] = d => y[2] # n
      BY <1>1, <1>2, <2>1
    <3>2. /\ P[d] = pi[d] /\ Q[d] = pi'[d] /\ P[s] = pi[s] /\ Q[s] = pi'[s]
          /\ \A k \in Inos : k # d /\ k # s => Q[k] = P[k]
      BY <1>2, <1>3, <2>1
    <3>3. F = (E \ {e}) \cup {<<d, n, i>>}
      BY <2>1
    <3> QED BY <1>2, <1>3, <2>1, <2>3, <2>5, <3>1, <3>2, <3>3 DEF MoveEdit
  <2>7. Sound(Q, F, over, Made, listed)
    BY <2>2, <2>6, MoveSound
  <2>8. SameEdit(pi, ent, E, R, A)
    BY <1>1, <1>2, <2>1 DEF SameEdit, IsDirIn
  <2> QED BY <1>1, <2>7, <2>8 DEF Q, F, E
<1>6. \A T \in SUBSET Threads :
        OwnEdit(pi, ent, EntBack(ent, th, T), R, A, \A c, k \in D : c = k)
  BY DEF OwnEdit
<1>7. /\ \A k \in listed' : k \in listed \/ (k \in Numbers /\ k \in L /\ pi'[k].links = 0)
      /\ \A k \in listed : pi'[k] = pi[k]
  <2>1. \A k \in listed : k \in Inos /\ k # s /\ k # d
    BY <1>1, <1>2 DEF Inv, ListedOk, Shapes
  <2> QED BY <1>1, <1>3, <2>1
<1> HIDE DEF L, S, D, R, A
<1>8. ChangesTree(t, L, D, R, A)
  BY <1>5, <1>6, <1>7 DEF ChangesTree
<1> QED BY <1>1, <1>4, <1>8, ChangesInv

\* pmfs_rename over a name.
LEMMA RenameOverKeeps ==
  ASSUME Inv, NEW t \in Threads, NEW e \in ent, NEW x \in ent, RenameOver(t, e, x)
  PROVE  Inv'
<1> DEFINE i == e[3]
           j == x[3]
           s == e[1]
           d == x[1]
           dir == pi[i].mode = "dir"
           left == pi[j].links - IF dir THEN 2 ELSE 1
           L == {s, d, j} \cup IF dir THEN {} ELSE {i}
           S == {i, j, s, d}
           D == {s, d}
           R == {e, x}
           A == {<<d, x[2], i>>}
<1>1. /\ th[t].at = "idle" /\ calls < MaxCalls /\ ~tainted /\ L \cap Held = {} /\ calls' = calls + 1
      /\ i # j /\ pi[i].mode = pi[j].mode
      /\ d # s => RenameMutexFree
      /\ dir => d \notin BelowIn(ent, i) /\ \A y \in ent : y[1] # j
      /\ ent' = (ent \ {e, x}) \cup {<<d, x[2], i>>}
      /\ pi' = [pi EXCEPT ![j].links = left]
      /\ listed' = IF left = 0 THEN listed \cup {j} ELSE listed
      /\ over' = IF dir THEN over \cup {s} ELSE over
      /\ th' = [th EXCEPT ![t] = Log(L, S, D)]
      /\ UNCHANGED <<count, nfree, hint, boots, tainted>>
  BY Guards DEF RenameOver, Call
<1>2. /\ pi \in [Inos -> Image] /\ i \in Numbers /\ i \in Inos /\ i \notin Made /\ i # Root
      /\ ~pi[i].dead /\ pi[i].mode # "none"
      /\ j \in Numbers /\ j \in Inos /\ j \notin Made /\ j # Root
      /\ ~pi[j].dead /\ pi[j].mode # "none" /\ pi[j].links > 0 /\ pi[j].links \in Nat
      /\ s \in Inos /\ s \notin Made /\ ~pi[s].dead /\ pi[s].mode = "dir"
      /\ d \in Inos /\ d \notin Made /\ ~pi[d].dead /\ pi[d].mode = "dir" /\ IsDirIn(pi, ent, d)
      /\ x[2] \in Labels
      /\ ent \subseteq Inos \X Labels \X Numbers
  BY <1>1, NowFacts, TableFields
<1>3. left \in Nat
  <2>1. CASE dir
    <3>1. IsDirIn(pi, ent, j)
      BY <2>1, <1>1 DEF IsDirIn, EntIn
    <3>2. pi[j].links >= 2
      BY <3>1, <1>1, <1>2, BacksAt, RootLinks
    <3> QED BY <2>1, <3>2, <1>2
  <2>2. CASE ~dir
    BY <2>2, <1>2
  <2> QED BY <2>1, <2>2
<1>4. /\ pi' \in [Inos -> Image] /\ \A k \in Inos : k # j => pi'[k] = pi[k]
      /\ pi'[j] = [pi[j] EXCEPT !.links = left] /\ pi'[j].links = left
      /\ pi'[j].mode = pi[j].mode /\ pi'[j].dead = pi[j].dead
  <2> HIDE DEF left
  <2>1. /\ pi'[j] = [pi[j] EXCEPT !.links = left] /\ \A k \in Inos : k # j => pi'[k] = pi[k]
        /\ pi' = [k \in Inos |-> pi'[k]]
    BY <1>1, <1>2
  <2>2. pi[j] \in Image
    BY <1>2
  <2>3. /\ [pi[j] EXCEPT !.links = left] \in Image
        /\ [pi[j] EXCEPT !.links = left].mode = pi[j].mode
        /\ [pi[j] EXCEPT !.links = left].dead = pi[j].dead
        /\ [pi[j] EXCEPT !.links = left].links = left
    BY <2>2, <1>3 DEF Image
  <2> QED BY <2>1, <2>3, <1>2
<1>5. Changes(t, L, S, D, R, A)
  <2>1. \A k \in Inos : k \notin L /\ EntIn(ent, k) # {} => EntIn(ent', k) # {}
    <3>1. <<d, x[2], i>> \in ent' /\ \A y \in ent : y # e /\ y # x => y \in ent'
      BY <1>1
    <3>2. ASSUME NEW k \in Inos, k \notin L, NEW y \in ent, y[3] = k PROVE \E z \in ent' : z[3] = k
      BY <3>1, <3>2
    <3> QED BY <3>2 DEF EntIn
  <2>2. over' \subseteq Inos /\ listed' \subseteq Inos
    BY <1>1, <1>2 DEF Inv, Shapes
  <2>3. ent' = (ent \ R) \cup A /\ R \subseteq ent /\ A \subseteq Inos \X Labels \X Numbers
    BY <1>1, <1>2
  <2>4. \A k \in L : pi[k].mode # "none" /\ ~pi[k].dead /\ k \notin Made
    BY <1>1, <1>2
  <2>5. \A k \in Inos : /\ pi'[k] # pi[k] => k \in L /\ k \in S
                        /\ pi'[k].mode = pi[k].mode /\ pi'[k].dead = pi[k].dead
    BY <1>4
  <2>6. (\A r \in R : r[1] \in D) /\ \A a \in A : a[1] \in D
    OBVIOUS
  <2>7. /\ D \subseteq L /\ L \subseteq Inos /\ S \subseteq Inos /\ \A k \in S : k \notin L => k # Root
        /\ over \subseteq over' /\ listed \subseteq listed'
    BY <1>1, <1>2
  <2> HIDE DEF L, S, D, R, A, i, j, s, d, dir, left
  <2> QED BY <1>1, <1>4, <2>1, <2>2, <2>3, <2>4, <2>5, <2>6, <2>7 DEF Changes
<1>6. ASSUME NEW T \in SUBSET Threads, t \notin T
      PROVE  /\ Sound(PiBack(pi', th', T), EntBack(ent', th', T), over', Made, listed')
             /\ SameEdit(pi, ent, EntBack(ent, th, T), R, A)
  <2> HIDE DEF L, S, D, R, A
  <2> DEFINE P == PiBack(pi, th, T)
             E == EntBack(ent, th, T)
             Q == PiBack(pi', th', T)
             F == EntBack(ent', th', T)
  <2>1. /\ F = (E \ R) \cup A /\ R \subseteq E
        /\ \A y : y[1] \in L => (y \in E <=> y \in ent)
        /\ \A k \in Inos :
              /\ k \in L => P[k] = pi[k] /\ Q[k] = pi'[k]
              /\ k \notin L => Q[k] = P[k]
        /\ P \in [Inos -> Image] /\ Q \in [Inos -> Image]
    <3>1. ~tainted
      BY <1>1
    <3> QED BY <3>1, <1>5, <1>6, BackAfter
  <2>2. /\ Sound(pi, ent, over, Made, listed) /\ Sound(P, E, over, Made, listed)
        /\ Agree(pi, ent, P, E, NoMove(th, T))
    BY <1>1, BacksAt
  <2>3. P[i].mode = pi[i].mode /\ P[j].mode = pi[j].mode
    BY <1>1, <1>2, DirBack
  <2>4. d # s => NoMove(th, T)
    BY <1>1 DEF RenameMutexFree, NoMove
  <2> HIDE DEF P, E, Q, F
  <2>5. dir /\ d # s => d \notin BelowIn(E, i)
    <3> SUFFICES ASSUME dir, d # s PROVE d \notin BelowIn(E, i)
      OBVIOUS
    <3>1. Agree(pi, ent, P, E, TRUE)
      BY <2>2, <2>4 DEF Agree
    <3>2. IsDirIn(pi, ent, d) /\ d \notin BelowIn(ent, i) /\ i \in Inos
      BY <1>1, <1>2
    <3> HIDE DEF i, d, dir
    <3> QED BY <1>2, <2>2, <3>1, <3>2, StillAbove
  <2> USE DEF L, R, A
  <2>6. OverEdit(P, E, Q, F, over, over', listed, listed', e, x, left)
    <3>1. e \in E /\ x \in E /\ (dir => \A y \in E : y[1] # j)
      BY <1>1, <1>2, <2>1
    <3>2. P[j] = pi[j] /\ Q[j] = pi'[j] /\ \A k \in Inos : k # j => Q[k] = P[k]
      BY <1>2, <1>4, <2>1
    <3>3. F = (E \ {e, x}) \cup {<<d, x[2], i>>}
      BY <2>1
    <3>4. /\ over' = over \cup (IF P[i].mode = "dir" THEN {s} ELSE {})
          /\ listed \subseteq listed' /\ (left = 0 => j \in listed')
      BY <1>1, <2>3
    <3>5. left = P[j].links - IF P[i].mode = "dir" THEN 2 ELSE 1
      BY <2>3, <3>2
    <3> HIDE DEF left
    <3> QED BY <1>1, <1>4, <2>1, <2>3, <2>5, <3>1, <3>2, <3>3, <3>4, <3>5 DEF OverEdit
  <2>7. Sound(Q, F, over', Made, listed')
    BY <2>2, <2>6, OverSound
  <2>8. SameEdit(pi, ent, E, R, A)
    BY <1>1, <1>2, <2>1 DEF SameEdit, IsDirIn
  <2> QED BY <2>7, <2>8 DEF Q, F, E
<1>7. \A T \in SUBSET Threads :
        OwnEdit(pi, ent, EntBack(ent, th, T), R, A, \A c, k \in D : c = k)
  <2> SUFFICES ASSUME NEW T \in SUBSET Threads
               PROVE  OwnEdit(pi, ent, EntBack(ent, th, T), R, A, \A c, k \in D : c = k)
    OBVIOUS
  <2>1. ~tainted /\ j \in Inos /\ j \notin Held
    BY <1>1, <1>2
  <2>2. \A y : y[1] = j => (y \in EntBack(ent, th, T) <=> y \in ent)
    BY <2>1, Untouched
  <2>3. dir => \A y \in EntBack(ent, th, T) : y[1] # j
    BY <1>1, <2>2
  <2> QED BY <1>1, <2>3 DEF OwnEdit
<1>8. /\ \A k \in listed' : k \in listed \/ (k \in Numbers /\ k \in L /\ pi'[k].links = 0)
      /\ \A k \in listed : pi'[k] = pi[k]
  <2>1. \A k \in listed : k \in Inos /\ k # j
    BY <1>1, <1>2 DEF Inv, ListedOk, Shapes
  <2> QED BY <1>1, <1>2, <1>4, <2>1
<1> HIDE DEF L, S, D, R, A
<1>9. ChangesTree(t, L, D, R, A)
  BY <1>6, <1>7, <1>8 DEF ChangesTree
<1> QED BY <1>1, <1>5, <1>9, ChangesInv

-----------------------------------------------------------------------------
(* The calls that make inodes, and the truncate list.                                       *)

\* Inode i changes, which has no name; the threads in O stay as they are, and the others are
\* making an inode, or begin to or give it up.
InodeStep(i, O) ==
  /\ i \in Numbers /\ i \notin Held /\ (i \in Made \/ pi[i].links = 0)
  /\ pi' \in [Inos -> Image] /\ \A k \in Inos : k # i => pi'[k] = pi[k]
  /\ ent' = ent
  /\ O \subseteq Threads /\ \A u \in O : th'[u] = th[u] /\ (u \in Making => th[u].ino # i)
  /\ \A u \in Threads \ O : ~Changer(th[u]) /\ ~Changer(th'[u])
  /\ count' \in Nat /\ count <= count'

\* What is left when calls are taken back changes with it.
LEMMA InodeBack ==
  ASSUME Inv, ~tainted, NEW i, NEW O, InodeStep(i, O), NEW T \in SUBSET Threads
  PROVE  /\ EntBack(ent', th', T) = EntBack(ent, th, T)
         /\ PiBack(pi', th', T) \in [Inos -> Image]
         /\ \A k \in Inos : k # i => PiBack(pi', th', T)[k] = PiBack(pi, th, T)[k]
         /\ PiBack(pi', th', T)[i] = pi'[i] /\ PiBack(pi, th, T)[i] = pi[i]
         /\ \A e \in EntBack(ent, th, T) : e[1] # i /\ e[3] # i
         /\ Agree(pi', ent', PiBack(pi', th', T), EntBack(ent', th', T), NoMove(th', T))
<1>1. i \in Inos /\ i \notin Held
  BY Inodes DEF InodeStep
<1>2. Away(th, th', T, {i})
  <2>1. \A t \in T : Changer(th'[t]) <=> Changer(th[t])
    BY DEF InodeStep
  <2>2. \A t \in T : Changer(th[t]) => th'[t] = th[t] /\ th[t].held \cap {i} = {}
    BY <1>1 DEF InodeStep, Held
  <2> QED BY <2>1, <2>2, FarAway
<1>3. EntStep(ent, ent', {}, {}, {i}) /\ PiStep(pi, pi', {i})
  BY DEF InodeStep, EntStep, PiStep
<1>4. EntBack(ent', th', T) = EntBack(ent, th, T)
  BY <1>2, <1>3, EntBackOthers
<1>5. \A k \in Inos :
        /\ k \in {i} => PiBack(pi, th, T)[k] = pi[k] /\ PiBack(pi', th', T)[k] = pi'[k]
        /\ k \notin {i} => PiBack(pi', th', T)[k] = PiBack(pi, th, T)[k]
  BY <1>2, <1>3, PiBackOthers
<1>6. PiBack(pi', th', T) \in [Inos -> Image]
  BY PiBackType DEF InodeStep
<1>7. /\ Sound(pi, ent, over, Made, listed)
      /\ Sound(PiBack(pi, th, T), EntBack(ent, th, T), over, Made, listed)
      /\ Agree(pi, ent, PiBack(pi, th, T), EntBack(ent, th, T), NoMove(th, T))
  BY BacksAt
<1>8. /\ \A e \in ent : e[1] # i /\ e[3] # i
      /\ \A e \in EntBack(ent, th, T) : e[1] # i /\ e[3] # i
  <2>1. i \in Made \/ pi[i].links = 0
    BY DEF InodeStep
  <2>2. i \in Made \/ PiBack(pi, th, T)[i].links = 0
    BY <1>1, <1>5, <2>1
  <2>3. \A e \in ent : e[1] # i /\ e[3] # i
    BY <1>1, <1>7, <2>1, Nameless
  <2>4. \A e \in EntBack(ent, th, T) : e[1] # i /\ e[3] # i
    BY <1>1, <1>7, <2>2, Nameless
  <2> QED BY <2>3, <2>4
<1>9. NoMove(th', T) = NoMove(th, T)
  BY DEF NoMove, InodeStep
<1>10. \A e \in EntBack(ent, th, T) : e[3] \in Inos
  BY <1>7, EntryFields DEF Sound, Shaped
<1>11. Agree(pi', ent', PiBack(pi', th', T), EntBack(ent', th', T), NoMove(th', T))
  <2> DEFINE P == PiBack(pi, th, T)
             E == EntBack(ent, th, T)
             Q == PiBack(pi', th', T)
  <2>1. /\ \A k \in Inos : k # i => pi'[k] = pi[k] /\ Q[k] = P[k]
        /\ Q[i].mode = pi'[i].mode
    BY <1>1, <1>5 DEF InodeStep
  <2>2. Agree(pi, ent, P, E, NoMove(th, T))
    BY <1>7
  <2> HIDE DEF P, E, Q
  <2>3. (\A e \in ent : e[3] # i) /\ \A e \in E : e[3] # i /\ e[3] \in Inos
    BY <1>8, <1>10 DEF E
  <2>4. Agree(pi', ent, Q, E, NoMove(th, T))
    BY <2>1, <2>2, <2>3, AgreeInode
  <2>5. ent' = ent /\ EntBack(ent', th', T) = E
    BY <1>4 DEF InodeStep, E
  <2> QED BY <2>4, <2>5, <1>9 DEF Q
<1> QED BY <1>1, <1>4, <1>5, <1>6, <1>8, <1>11

\* The inode is one that is being made.
LEMMA InodeMade ==
  ASSUME Inv, ~tainted, NEW i, NEW O, InodeStep(i, O),
         Made' = Made \cup {i}, listed' = listed, over \ {i} \subseteq over', over' \subseteq over
  PROVE  Backs'
<1> SUFFICES ASSUME NEW T \in SUBSET Threads
             PROVE  /\ Sound(PiBack(pi', th', T), EntBack(ent', th', T), over', Made', listed')
                    /\ Agree(pi', ent', PiBack(pi', th', T), EntBack(ent', th', T), NoMove(th', T))
  BY DEF Backs
<1> DEFINE P == PiBack(pi, th, T)
           E == EntBack(ent, th, T)
           Q == PiBack(pi', th', T)
<1>1. /\ EntBack(ent', th', T) = E /\ Q \in [Inos -> Image]
      /\ \A k \in Inos : k # i => Q[k] = P[k]
      /\ \A e \in E : e[1] # i /\ e[3] # i
      /\ Agree(pi', ent', Q, EntBack(ent', th', T), NoMove(th', T))
  BY InodeBack
<1>2. Sound(P, E, over, Made, listed)
  BY BacksAt
<1> HIDE DEF P, E, Q
<1>3. MadeEdit(P, E, Q, over, over', i)
  BY <1>1 DEF MadeEdit, InodeStep
<1>4. Sound(Q, E, over', Made \cup {i}, listed)
  BY <1>2, <1>3, MadeSound
<1> QED BY <1>1, <1>4 DEF Q

\* The inode is free again.
LEMMA InodeUnmade ==
  ASSUME Inv, ~tainted, NEW i, NEW O, InodeStep(i, O), Unused(pi'[i]), over' = over,
         Made \ {i} \subseteq Made', Made' \subseteq Made, listed \ {i} \subseteq listed'
  PROVE  Backs'
<1> SUFFICES ASSUME NEW T \in SUBSET Threads
             PROVE  /\ Sound(PiBack(pi', th', T), EntBack(ent', th', T), over', Made', listed')
                    /\ Agree(pi', ent', PiBack(pi', th', T), EntBack(ent', th', T), NoMove(th', T))
  BY DEF Backs
<1> DEFINE P == PiBack(pi, th, T)
           E == EntBack(ent, th, T)
           Q == PiBack(pi', th', T)
<1>1. /\ EntBack(ent', th', T) = E /\ Q \in [Inos -> Image]
      /\ \A k \in Inos : k # i => Q[k] = P[k]
      /\ Q[i] = pi'[i]
      /\ \A e \in E : e[1] # i /\ e[3] # i
      /\ Agree(pi', ent', Q, EntBack(ent', th', T), NoMove(th', T))
  BY InodeBack
<1>2. Sound(P, E, over, Made, listed)
  BY BacksAt
<1> HIDE DEF P, E, Q
<1>3. UnmadeEdit(P, E, Q, Made, Made', listed, listed', i)
  BY <1>1 DEF UnmadeEdit, InodeStep
<1>4. Sound(Q, E, over, Made', listed')
  BY <1>2, <1>3, UnmadeSound
<1> QED BY <1>1, <1>4 DEF Q

\* What a call says of itself stays true while others work.
LEMMA StillCaller ==
  ASSUME Inv, NEW u \in Threads, ~tainted, th'[u] = th[u], count' \in Nat, count <= count',
         \A k \in Inos : k \in th[u].held \/ (u \in Making /\ k = th[u].ino) => pi'[k] = pi[k],
         \A e : e[1] \in th[u].held => (e \in ent' <=> e \in ent),
         \A k \in Inos : k \in th[u].held /\ EntIn(ent, k) # {} => EntIn(ent', k) # {}
  PROVE  /\ th'[u].at = "idle" => th'[u] = Idle
         /\ u \in Making => MakingOk(u)'
         /\ Maker(th'[u]) => MakerOk(u)'
         /\ Changer(th'[u]) => ChangerOk(th'[u])
<1>1. /\ th[u].at = "idle" => th[u] = Idle
      /\ u \in Making => MakingOk(u)
      /\ Maker(th[u]) => MakerOk(u)
      /\ Changer(th[u]) => ChangerOk(th[u])
  BY DEF Inv, Callers
<1>2. th[u].dir \in Inos /\ th[u].ino \in Inos /\ count \in Nat
  BY NamesAssumption DEF Inv, Shapes
<1>3. ASSUME u \in Making PROVE MakingOk(u)'
  <2>1. MakingOk(u)
    BY <1>1, <1>3
  <2>2. th[u].dir \in th[u].held
    BY <2>1 DEF MakingOk
  <2>3. pi'[th[u].ino] = pi[th[u].ino] /\ pi'[th[u].dir] = pi[th[u].dir]
    BY <1>2, <1>3, <2>2
  <2>4. IsDirIn(pi', ent', th[u].dir)
    BY <1>2, <2>1, <2>2, <2>3 DEF MakingOk, IsDirIn
  <2>5. \A e \in ent' : e[1] = th[u].dir => e[2] # th[u].name
    BY <2>1, <2>2 DEF MakingOk
  <2>6. th[u].ino \in Start..count'
    BY <1>2, <2>1 DEF MakingOk, Start
  <2> QED BY <2>1, <2>3, <2>4, <2>5, <2>6 DEF MakingOk
<1>4. ASSUME Maker(th[u]) PROVE MakerOk(u)'
  <2>1. MakerOk(u)
    BY <1>1, <1>4
  <2>2. th[u].dir \in th[u].held
    BY <2>1 DEF MakerOk
  <2>3. pi'[th[u].dir] = pi[th[u].dir]
    BY <1>2, <2>2
  <2>4. <<th[u].dir, th[u].name, th[u].ino>> \in ent'
    BY <2>1, <2>2 DEF MakerOk
  <2>5. {x \in ent' : x[1] = th[u].dir /\ x # <<th[u].dir, th[u].name, th[u].ino>>}
        = {x \in ent : x[1] = th[u].dir /\ x # <<th[u].dir, th[u].name, th[u].ino>>}
    BY <2>2
  <2>6. /\ th[u].held = {th[u].dir} /\ th[u].changes = {th[u].dir}
        /\ th[u].kind \in {"file", "dir"} /\ th[u].ino \in Numbers /\ th[u].name \in Labels
        /\ th[u].ino # th[u].dir
        /\ th[u].was = {x \in ent : x[1] = th[u].dir /\ x # <<th[u].dir, th[u].name, th[u].ino>>}
        /\ \E im \in Image, old \in Image :
             /\ Unused(im) /\ th[u].log = {<<th[u].ino, im>>, <<th[u].dir, old>>}
             /\ pi[th[u].dir] = IF th[u].kind = "dir" THEN [old EXCEPT !.links = @ + 1] ELSE old
    BY <2>1 DEF MakerOk
  <2>7. /\ th'[u].held = {th'[u].dir} /\ th'[u].changes = {th'[u].dir}
        /\ th'[u].kind \in {"file", "dir"} /\ th'[u].ino \in Numbers /\ th'[u].name \in Labels
        /\ th'[u].ino # th'[u].dir
        /\ th'[u].was = {x \in ent' : x[1] = th'[u].dir /\ x # <<th'[u].dir, th'[u].name, th'[u].ino>>}
    BY <2>5, <2>6
  <2>8. \E im \in Image, old \in Image :
             /\ Unused(im) /\ th'[u].log = {<<th'[u].ino, im>>, <<th'[u].dir, old>>}
             /\ pi'[th'[u].dir] = IF th'[u].kind = "dir" THEN [old EXCEPT !.links = @ + 1] ELSE old
    <3>1. PICK im \in Image, old \in Image :
             /\ Unused(im) /\ th[u].log = {<<th[u].ino, im>>, <<th[u].dir, old>>}
             /\ pi[th[u].dir] = IF th[u].kind = "dir" THEN [old EXCEPT !.links = @ + 1] ELSE old
      BY <2>6
    <3>2. /\ th'[u].log = {<<th'[u].ino, im>>, <<th'[u].dir, old>>}
          /\ pi'[th'[u].dir] = IF th'[u].kind = "dir" THEN [old EXCEPT !.links = @ + 1] ELSE old
      <4> DEFINE inc == [old EXCEPT !.links = @ + 1]
      <4> HIDE DEF inc
      <4> QED BY <2>3, <3>1 DEF inc
    <3> QED BY <3>1, <3>2, Zenon
  <2> QED BY <2>4, <2>7, <2>8 DEF MakerOk
<1> QED BY <1>1, <1>3, <1>4

\* What a step on an inode without a name leaves true.
LEMMA InodeKeeps ==
  ASSUME Inv, ~tainted, NEW i, NEW O, InodeStep(i, O),
         \A u \in Threads : \A k \in th'[u].held : k \in th[u].held \/
           (k \in Inos /\ k # i /\ k \notin Held /\ pi[k].mode # "none" /\ ~pi[k].dead /\ k \notin Made),
         Made' \subseteq Made \cup {i}, listed' \subseteq listed \ {i}, i <= count',
         \A u, w \in Threads \ O : u = w,
         \A u \in Threads \ O : u \in Making' => th'[u].ino = i
  PROVE  /\ Locks' /\ ListedOk' /\ Beyond' /\ Apart'
         /\ \A u \in O :
              /\ th'[u].at = "idle" => th'[u] = Idle
              /\ u \in Making' => MakingOk(u)'
              /\ Maker(th'[u]) => MakerOk(u)'
              /\ Changer(th'[u]) => ChangerOk(th'[u])
<1> USE DEF InodeStep
<1>1. \A t, u \in Threads : t # u => th'[t].held \cap th'[u].held = {}
  <2> SUFFICES ASSUME NEW t \in Threads, NEW u \in Threads, t # u,
                      NEW k \in th'[t].held, k \in th'[u].held
               PROVE  FALSE
    OBVIOUS
  <2>1. ~(k \in th[t].held /\ k \in th[u].held)
    BY DEF Inv, Locks
  <2>2. k \in th[t].held \/ k \in th[u].held => k \in Held
    BY DEF Held
  <2>3. t \in O \/ u \in O
    OBVIOUS
  <2> QED BY <2>1, <2>2, <2>3
<1>2. \A t \in Threads : \A k \in th'[t].held :
        k \in Inos /\ k # i /\ pi[k].mode # "none" /\ ~pi[k].dead /\ k \notin Made
  <2> SUFFICES ASSUME NEW t \in Threads, NEW k \in th'[t].held, k \in th[t].held
               PROVE  k \in Inos /\ k # i /\ pi[k].mode # "none" /\ ~pi[k].dead /\ k \notin Made
    OBVIOUS
  <2>1. k \in Held
    BY DEF Held
  <2> QED BY <2>1 DEF Inv, Locks, Shapes
<1>3. Locks'
  <2>1. \A t \in Threads : \A k \in th'[t].held : pi'[k].mode # "none" /\ ~pi'[k].dead /\ k \notin Made'
    BY <1>2
  <2> QED BY <1>1, <2>1 DEF Locks
<1>4. ListedOk'
  BY Inodes DEF Inv, ListedOk
<1>5. count \in Nat
  BY NamesAssumption DEF Inv, Shapes
<1>6. Beyond'
  <2> SUFFICES ASSUME NEW k \in Numbers, k > count' PROVE Unused(pi'[k])
    BY DEF Beyond
  <2>1. k \in Nat /\ k > count /\ k # i /\ k \in Inos
    BY <1>5, Inodes
  <2> QED BY <2>1 DEF Inv, Beyond
<1>7. \A u \in O : u \in Making' <=> u \in Making
  BY DEF Making
<1>8. Apart'
  <2> SUFFICES ASSUME NEW t \in Making', NEW u \in Making', th'[t].ino = th'[u].ino PROVE t = u
    BY DEF Apart
  <2>1. t \in Threads /\ u \in Threads
    BY DEF Making
  <2>2. CASE t \in O /\ u \in O
    BY <1>7, <2>2 DEF Inv, Apart
  <2>3. CASE t \in O /\ u \notin O
    BY <1>7, <2>1, <2>3
  <2>4. CASE t \notin O /\ u \in O
    BY <1>7, <2>1, <2>4
  <2>5. CASE t \notin O /\ u \notin O
    BY <2>1, <2>5
  <2> QED BY <2>2, <2>3, <2>4, <2>5
<1>9. ASSUME NEW u \in O
      PROVE  /\ th'[u].at = "idle" => th'[u] = Idle
             /\ u \in Making' => MakingOk(u)'
             /\ Maker(th'[u]) => MakerOk(u)'
             /\ Changer(th'[u]) => ChangerOk(th'[u])
  <2>1. u \in Threads /\ th'[u] = th[u] /\ count' \in Nat /\ count <= count' /\ ent' = ent
    OBVIOUS
  <2>2. \A k \in Inos : k \in th[u].held \/ (u \in Making /\ k = th[u].ino) => pi'[k] = pi[k]
    <3>1. \A k \in th[u].held : k # i
      BY <1>2, <2>1
    <3> QED BY <3>1
  <2> HIDE DEF InodeStep
  <2>3. /\ th'[u].at = "idle" => th'[u] = Idle
        /\ u \in Making => MakingOk(u)'
        /\ Maker(th'[u]) => MakerOk(u)'
        /\ Changer(th'[u]) => ChangerOk(th'[u])
    BY <2>1, <2>2, StillCaller
  <2> QED BY <2>3, <1>7
<1> QED BY <1>3, <1>4, <1>6, <1>8, <1>9

\* The types of the steps.
LEMMA TypesKept ==
  ASSUME Shapes', pi' \in [Inos -> Image], ent' \subseteq Inos \X Labels \X Numbers,
         nfree' \in 0..count' \/ tainted', tainted' \in BOOLEAN
  PROVE  TreeTypes'
<1>1. \A t \in Threads :
       /\ th'[t].at \in {"idle", "picked", "published", "aborting", "ready"}
       /\ th'[t].kind \in Modes /\ th'[t].name \in Labels \cup {NoLabel}
       /\ {th'[t].dir, th'[t].ino} \cup th'[t].held \cup th'[t].changes \subseteq Inos
       /\ th'[t].log \subseteq Inos \X Image /\ th'[t].was \subseteq Inos \X Labels \X Inos
  BY Inodes DEF Shapes
<1>2. ent' \subseteq Inos \X Labels \X Inos
  BY Inodes
<1> QED BY <1>1, <1>2 DEF TreeTypes, Shapes

-----------------------------------------------------------------------------
(* The inode numbers.                                                                       *)

\* The numbers that threads have picked.
Taken == {th[t].ino : t \in {u \in Threads : th[u].at \in {"picked", "published"}}}

\* Some of the numbers up to n.
LEMMA FewNumbers ==
  ASSUME NEW n \in Nat, NEW S, S \subseteq 1..n
  PROVE  IsFiniteSet(S) /\ Cardinality(S) \in 0..n
<1>1. IsFiniteSet(1..n) /\ Cardinality(1..n) = n
  BY FS_Interval
<1>2. IsFiniteSet(S) /\ Cardinality(S) <= n
  BY <1>1, FS_Subset
<1> QED BY <1>2, FS_CardinalityType

\* The free numbers are some of the table.
LEMMA AvailableFew ==
  /\ \A k : k \in Available <=> k \in Start..count /\ (Unused(pi[k]) \/ k \in Made) /\ k \notin Taken
  /\ count \in Nat => IsFiniteSet(Available) /\ Cardinality(Available) \in 0..count
<1>1. \A k : k \in Available <=> k \in Start..count /\ (Unused(pi[k]) \/ k \in Made) /\ k \notin Taken
  BY DEF Available, Taken
<1>2. ASSUME count \in Nat PROVE IsFiniteSet(Available) /\ Cardinality(Available) \in 0..count
  <2>1. Available \subseteq 1..count
    BY <1>1 DEF Start
  <2> QED BY <1>2, <2>1, FewNumbers
<1> QED BY <1>1, <1>2

\* A step on inode i leaves the other numbers as they are.
LEMMA AvailableOthers ==
  ASSUME Inv, ~tainted, NEW i, NEW O, InodeStep(i, O),
         \A u \in Threads \ O : (u \in Making => th[u].ino = i) /\ (u \in Making' => th'[u].ino = i)
  PROVE  /\ \A k : k \in Available' <=>
              k \in Start..count' /\ (Unused(pi'[k]) \/ k \in Made') /\ k \notin Taken'
         /\ \A k \in Start..count : k # i => (k \in Available' <=> k \in Available)
         /\ \A k \in Start..count' : k > count /\ k # i /\ k \in Numbers => k \in Available'
<1> USE DEF InodeStep
<1>1. \A k : k \in Available' <=>
        k \in Start..count' /\ (Unused(pi'[k]) \/ k \in Made') /\ k \notin Taken'
  BY DEF Available, Taken
<1>2. \A k : k # i => (k \in Made' <=> k \in Made)
  <2>1. \A u \in O : u \in Making' <=> u \in Making
    BY DEF Making
  <2> QED BY <2>1 DEF Made, Making
<1>3. \A k : k # i => (k \in Taken' <=> k \in Taken)
  BY DEF Taken, Making
<1>4. count \in Nat /\ Start..count \subseteq Inos /\ count <= count'
  BY NamesAssumption DEF Inv, Shapes, Inos, Numbers, Start
<1>5. ASSUME NEW k \in Start..count, k # i PROVE k \in Available' <=> k \in Available
  <2>1. k \in Start..count' /\ pi'[k] = pi[k]
    BY <1>4, <1>5 DEF Start
  <2> QED BY <1>1, <1>2, <1>3, <1>5, <2>1, AvailableFew
<1>6. ASSUME NEW k \in Start..count', k > count, k # i, k \in Numbers PROVE k \in Available'
  <2>1. Unused(pi[k]) /\ k \in Inos
    BY <1>6, Inodes DEF Inv, Beyond
  <2>2. k \notin Taken
    <3>1. \A u \in Making : th[u].ino \in Start..count
      BY DEF Inv, Callers, MakingOk, Making
    <3>2. \A u \in Threads : th[u].at \in {"picked", "published"} => u \in Making
      BY DEF Making
    <3> QED BY <1>4, <1>6, <3>1, <3>2 DEF Taken, Start
  <2> QED BY <1>1, <1>3, <1>6, <2>1, <2>2
<1> QED BY <1>1, <1>5, <1>6

\* No number becomes free, and none is taken.
LEMMA NumbersSame ==
  ASSUME Inv, ~tainted, count' = count, nfree' = nfree, hint' = hint,
         \A k \in Start..count : k \in Available' <=> k \in Available
  PROVE  NumbersKept' /\ nfree' \in 0..count'
<1>1. \A k : (k \in Available => k \in Start..count) /\ (k \in Available' => k \in Start..count')
  BY DEF Available
<1>2. Available' = Available
  <2>1. \A k : k \in Available' <=> k \in Available
    BY <1>1
  <2>2. Available' \subseteq Available /\ Available \subseteq Available'
    BY <2>1
  <2> QED BY <2>2
<1>3. nfree = Cardinality(Available) /\ \A k \in Available : hint <= k
  BY DEF Inv, NumbersKept
<1>4. nfree \in 0..count
  BY <1>3, AvailableFew, NamesAssumption DEF Inv, Shapes
<1> QED BY <1>2, <1>3, <1>4 DEF NumbersKept

\* pmfs_free_inode: a number becomes free.
LEMMA NumbersFreed ==
  ASSUME Inv, ~tainted, NEW i \in Start..count, count' = count, nfree' = nfree + 1,
         hint' = HintAfterFree(i), i \notin Available, i \in Available',
         \A k \in Start..count : k # i => (k \in Available' <=> k \in Available)
  PROVE  NumbersKept' /\ nfree' \in 0..count' /\ hint' \in Start..count' + 1
<1>1. \A k : (k \in Available => k \in Start..count) /\ (k \in Available' => k \in Start..count)
  BY DEF Available
<1>2. Available' = Available \cup {i}
  <2>1. \A k : k \in Available' <=> k \in Available \/ k = i
    BY <1>1
  <2>2. Available' \subseteq Available \cup {i} /\ Available \cup {i} \subseteq Available'
    BY <2>1
  <2> QED BY <2>2
<1>3. nfree = Cardinality(Available) /\ \A k \in Available : hint <= k
  BY DEF Inv, NumbersKept
<1>4. count \in Nat /\ IsFiniteSet(Available)
  BY AvailableFew, NamesAssumption DEF Inv, Shapes
<1>5. Cardinality(Available \cup {i}) = Cardinality(Available) + 1
  BY <1>4, CountAdd, Zenon
<1>6. nfree' = Cardinality(Available')
  BY <1>2, <1>3, <1>5
<1>7. nfree' \in 0..count
  <2>1. Available' \subseteq 1..count
    BY <1>1 DEF Start
  <2> QED BY <1>4, <1>6, <2>1, FewNumbers
<1>8. hint' \in Start..count + 1 /\ hint' <= i /\ \A k \in Available : hint' <= k
  BY <1>1, <1>3, <1>4 DEF HintAfterFree, Inv, Shapes, Start
<1> QED BY <1>2, <1>6, <1>7, <1>8 DEF NumbersKept

-----------------------------------------------------------------------------
(* The steps of the calls that make inodes.                                                 *)

\* Records of threads.
Calling ==
  [at : {"idle", "picked", "published", "aborting", "ready"},
   kind : Modes, dir : Inos, name : Labels \cup {NoLabel}, ino : Inos,
   held : SUBSET Inos, log : SUBSET (Inos \X Image),
   changes : SUBSET Inos, was : SUBSET (Inos \X Labels \X Numbers)]

\* A thread that is making an inode.
LEMMA MakingFacts ==
  ASSUME Inv, ~tainted, NEW t \in Making
  PROVE  /\ t \in Threads /\ MakingOk(t) /\ th[t] \in Calling
         /\ th[t].ino \in Numbers /\ th[t].ino \in Inos /\ th[t].ino \in Start..count
         /\ th[t].ino \in Made /\ th[t].ino \notin Held /\ th[t].ino \notin listed
         /\ th[t].ino <= count
         /\ th[t].dir \in Inos /\ th[t].dir # th[t].ino /\ th[t].held = {th[t].dir}
         /\ \A u \in Making : u # t => th[u].ino # th[t].ino
         /\ ~Changer(th[t]) /\ ~Maker(th[t])
         /\ th[t].at = "aborting" => th[t].ino \notin Taken
         /\ th[t].at # "aborting" => th[t].ino \in Taken
<1>1. t \in Threads /\ th[t].at \in {"picked", "published", "aborting"}
  BY DEF Making
<1>2. MakingOk(t) /\ th[t] \in Calling
  BY <1>1 DEF Inv, Callers, Shapes, Calling
<1>3. th[t].ino \in Made /\ Made \subseteq Numbers /\ th[t].ino \in Start..count
  BY <1>2, NowFacts DEF Made, MakingOk
<1>4. th[t].ino \in Numbers /\ th[t].ino \in Inos /\ th[t].ino <= count
  BY <1>3, Inodes DEF Start
<1>5. th[t].ino \notin Held /\ th[t].ino \notin listed
  BY <1>3 DEF Inv, Locks, ListedOk, Held
<1>6. th[t].dir \in Inos /\ th[t].held = {th[t].dir} /\ th[t].dir \in Held
  BY <1>1, <1>2 DEF MakingOk, Held, Calling
<1>7. \A u \in Making : u # t => th[u].ino # th[t].ino
  BY DEF Inv, Apart
<1>8. ~Changer(th[t]) /\ ~Maker(th[t])
  BY <1>1 DEF Changer, Maker
<1>9. /\ th[t].at = "aborting" => th[t].ino \notin Taken
      /\ th[t].at # "aborting" => th[t].ino \in Taken
  BY <1>1, <1>7 DEF Taken, Making
<1> QED BY <1>1, <1>2, <1>3, <1>4, <1>5, <1>6, <1>7, <1>8, <1>9

\* One thread goes on.
LEMMA OneThread ==
  ASSUME Inv, NEW t \in Threads, NEW h \in Calling, th' = [th EXCEPT ![t] = h],
         listed' \subseteq Inos, over' \subseteq Inos, count' \in Count0..MaxCount,
         hint' \in Start..count' + 1, calls' \in 0..MaxCalls, boots' \in 0..MaxBoot
  PROVE  Shapes' /\ th'[t] = h /\ \A u \in Threads : u # t => th'[u] = th[u]
  BY DEF Inv, Shapes, Calling

\* pmfs_update_inode and insert_inode_locked.
LEMMA PublishKeeps ==
  ASSUME Inv, NEW t \in Threads, Publish(t)
  PROVE  Inv'
<1> DEFINE i == th[t].ino
           h == [th[t] EXCEPT !.at = "published"]
           O == Threads \ {t}
<1>1. /\ th[t].at = "picked" /\ ~tainted
      /\ pi' = [pi EXCEPT ![i] = [links |-> 1, mode |-> th[t].kind, dead |-> FALSE]]
      /\ over' = over \ {i}
      /\ th' = [th EXCEPT ![t] = h]
      /\ UNCHANGED <<ent, listed, count, nfree, hint, calls, boots, tainted>>
  BY DEF Publish
<1>2. t \in Making
  BY <1>1 DEF Making
<1>3. /\ MakingOk(t) /\ th[t] \in Calling
      /\ i \in Numbers /\ i \in Inos /\ i \in Start..count /\ i <= count
      /\ i \in Made /\ i \notin Held /\ i \notin listed
      /\ th[t].dir \in Inos /\ th[t].dir # i /\ th[t].held = {th[t].dir}
      /\ \A u \in Making : u # t => th[u].ino # i
      /\ ~Changer(th[t]) /\ i \in Taken
  BY <1>1, <1>2, MakingFacts
<1>4. /\ h \in Calling /\ h.at = "published" /\ h.kind = th[t].kind /\ h.dir = th[t].dir
      /\ h.name = th[t].name /\ h.ino = i /\ h.held = th[t].held /\ h.log = th[t].log
      /\ h.changes = th[t].changes /\ h.was = th[t].was
  BY <1>3 DEF Calling
<1>5. /\ Shapes' /\ th'[t] = h /\ \A u \in Threads : u # t => th'[u] = th[u]
  <2>1. /\ listed' \subseteq Inos /\ over' \subseteq Inos /\ count' \in Count0..MaxCount
        /\ hint' \in Start..count' + 1 /\ calls' \in 0..MaxCalls /\ boots' \in 0..MaxBoot
    BY <1>1 DEF Inv, Shapes
  <2> HIDE DEF h
  <2> QED BY <1>1, <1>4, <2>1, OneThread
<1>6. /\ pi \in [Inos -> Image] /\ pi' \in [Inos -> Image] /\ \A k \in Inos : k # i => pi'[k] = pi[k]
      /\ pi'[i] = [links |-> 1, mode |-> th[t].kind, dead |-> FALSE]
      /\ ent \subseteq Inos \X Labels \X Numbers
  <2>1. pi \in [Inos -> Image] /\ ent \subseteq Inos \X Labels \X Numbers
    BY <1>1, NowFacts
  <2>2. [links |-> 1, mode |-> th[t].kind, dead |-> FALSE] \in Image
    BY <1>3 DEF Image, Calling
  <2> QED BY <1>1, <1>3, <2>1, <2>2
<1>7. /\ Making' = Making /\ Made' = Made /\ Taken' = Taken
      /\ ~Changer(th'[t]) /\ ~Maker(th'[t]) /\ th'[t].at # "idle"
  <2> HIDE DEF h
  <2>1. Making' = Making
    BY <1>1, <1>4, <1>5 DEF Making
  <2>2. \A u \in Threads : th'[u].ino = th[u].ino
    BY <1>4, <1>5
  <2>3. Made' = Made
    BY <2>1, <2>2 DEF Made, Making
  <2>4. {u \in Threads : th'[u].at \in {"picked", "published"}}
        = {u \in Threads : th[u].at \in {"picked", "published"}}
    BY <1>1, <1>4, <1>5
  <2>5. Taken' = Taken
    BY <2>2, <2>4 DEF Taken
  <2> QED BY <1>4, <1>5, <2>1, <2>3, <2>5 DEF Changer, Maker
<1>8. InodeStep(i, O)
  <2>1. count' \in Nat /\ count <= count'
    BY <1>1, NamesAssumption DEF Inv, Shapes
  <2>2. \A u \in O : th'[u] = th[u] /\ (u \in Making => th[u].ino # i)
    BY <1>3, <1>5
  <2>3. \A u \in Threads \ O : ~Changer(th[u]) /\ ~Changer(th'[u])
    BY <1>3, <1>7
  <2> HIDE DEF i, h, O
  <2> QED BY <1>1, <1>3, <1>6, <2>1, <2>2, <2>3 DEF InodeStep, O
<1>9. Backs'
  <2>1. Made' = Made \cup {i} /\ listed' = listed /\ over \ {i} \subseteq over' /\ over' \subseteq over
    BY <1>1, <1>3, <1>7
  <2> HIDE DEF i, O
  <2> QED BY <1>1, <1>8, <2>1, InodeMade
<1>10. /\ Locks' /\ ListedOk' /\ Beyond' /\ Apart'
       /\ \A u \in O :
              /\ th'[u].at = "idle" => th'[u] = Idle
              /\ u \in Making' => MakingOk(u)'
              /\ Maker(th'[u]) => MakerOk(u)'
              /\ Changer(th'[u]) => ChangerOk(th'[u])
  <2>1. /\ \A u \in Threads : \A k \in th'[u].held : k \in th[u].held
        /\ Made' \subseteq Made \cup {i} /\ listed' \subseteq listed \ {i} /\ i <= count'
        /\ \A u, w \in Threads \ O : u = w
        /\ \A u \in Threads \ O : u \in Making' => th'[u].ino = i
    BY <1>1, <1>3, <1>4, <1>5, <1>7
  <2> HIDE DEF i, O
  <2> QED BY <1>1, <1>8, <2>1, InodeKeeps
<1>11. MakingOk(t)'
  <2>1. IsDirIn(pi', ent', th[t].dir)
    BY <1>1, <1>3, <1>6 DEF MakingOk, IsDirIn
  <2> HIDE DEF h, i
  <2> QED BY <1>1, <1>3, <1>4, <1>5, <1>6, <2>1 DEF MakingOk, i
<1>12. Callers'
  BY <1>7, <1>10, <1>11 DEF Callers
<1>13. NumbersKept' /\ nfree' \in 0..count'
  <2>1. \A u \in Threads \ O : (u \in Making => th[u].ino = i) /\ (u \in Making' => th'[u].ino = i)
    BY <1>4, <1>5
  <2> HIDE DEF i, O
  <2>2. /\ \A k : k \in Available' <=>
              k \in Start..count' /\ (Unused(pi'[k]) \/ k \in Made') /\ k \notin Taken'
        /\ \A k \in Start..count : k # i => (k \in Available' <=> k \in Available)
    BY <1>1, <1>8, <2>1, AvailableOthers
  <2>3. i \notin Available /\ i \notin Available'
    BY <1>3, <1>7, <2>2, AvailableFew
  <2> QED BY <1>1, <2>2, <2>3, NumbersSame
<1>14. TreeTypes'
  BY <1>1, <1>5, <1>6, <1>13, TypesKept DEF Inv, TreeTypes
<1> QED BY <1>5, <1>9, <1>10, <1>12, <1>13, <1>14 DEF Inv

\* No room for the entry: the inode is freed.
LEMMA EnterFailsKeeps ==
  ASSUME Inv, NEW t \in Threads, EnterFails(t)
  PROVE  Inv'
<1> DEFINE i == th[t].ino
           h == [th[t] EXCEPT !.at = "aborting"]
           O == Threads \ {t}
<1>1. /\ th[t].at = "published" /\ ~tainted
      /\ pi' = [pi EXCEPT ![i].dead = TRUE, ![i].links = IF th[t].kind = "dir" THEN @ ELSE 0]
      /\ nfree' = nfree + 1 /\ hint' = HintAfterFree(i)
      /\ th' = [th EXCEPT ![t] = h]
      /\ UNCHANGED <<ent, listed, count, over, calls, boots, tainted>>
  BY DEF EnterFails
<1>2. t \in Making
  BY <1>1 DEF Making
<1>3. /\ MakingOk(t) /\ th[t] \in Calling
      /\ i \in Numbers /\ i \in Inos /\ i \in Start..count /\ i <= count
      /\ i \in Made /\ i \notin Held /\ i \notin listed
      /\ th[t].dir \in Inos /\ th[t].dir # i /\ th[t].held = {th[t].dir}
      /\ \A u \in Making : u # t => th[u].ino # i
      /\ ~Changer(th[t]) /\ i \in Taken
  BY <1>1, <1>2, MakingFacts
<1>4. /\ h \in Calling /\ h.at = "aborting" /\ h.kind = th[t].kind /\ h.dir = th[t].dir
      /\ h.name = th[t].name /\ h.ino = i /\ h.held = th[t].held /\ h.log = th[t].log
      /\ h.changes = th[t].changes /\ h.was = th[t].was
  BY <1>3 DEF Calling
<1>5. /\ hint' \in Start..count' + 1 => Shapes'
      /\ th'[t] = h /\ \A u \in Threads : u # t => th'[u] = th[u]
  <2>1. /\ listed' \subseteq Inos /\ over' \subseteq Inos /\ count' \in Count0..MaxCount
        /\ calls' \in 0..MaxCalls /\ boots' \in 0..MaxBoot
    BY <1>1 DEF Inv, Shapes
  <2> HIDE DEF h
  <2>2. th'[t] = h /\ \A u \in Threads : u # t => th'[u] = th[u]
    BY <1>1 DEF Inv, Shapes
  <2> QED BY <1>1, <1>4, <2>1, <2>2, OneThread
<1>6. /\ pi \in [Inos -> Image] /\ pi' \in [Inos -> Image] /\ \A k \in Inos : k # i => pi'[k] = pi[k]
      /\ ent \subseteq Inos \X Labels \X Numbers
  <2>1. pi \in [Inos -> Image] /\ ent \subseteq Inos \X Labels \X Numbers
    BY <1>1, NowFacts
  <2> DEFINE left == IF th[t].kind = "dir" THEN pi[i].links ELSE 0
             image == [pi[i] EXCEPT !.dead = TRUE, !.links = left]
  <2>2. left \in Nat
    BY <1>3, <2>1, TableFields
  <2>3. image \in Image
    <3>1. pi[i] \in Image
      BY <1>3, <2>1
    <3> HIDE DEF left
    <3> QED BY <2>2, <3>1 DEF Image
  <2>4. pi' = [pi EXCEPT ![i] = image]
    BY <1>1, <1>3, <2>1
  <2> HIDE DEF image
  <2> QED BY <1>3, <2>1, <2>3, <2>4
<1>7. /\ Making' = Making /\ Made' = Made /\ i \notin Taken'
      /\ ~Changer(th'[t]) /\ ~Maker(th'[t]) /\ th'[t].at # "idle"
  <2> HIDE DEF h
  <2>1. Making' = Making
    BY <1>1, <1>4, <1>5 DEF Making
  <2>2. \A u \in Threads : th'[u].ino = th[u].ino
    BY <1>4, <1>5
  <2>3. Made' = Made
    BY <2>1, <2>2 DEF Made, Making
  <2>4. \A u \in Threads : u # t /\ th'[u].at \in {"picked", "published"} => u \in Making
    BY <1>5 DEF Making
  <2>5. i \notin Taken'
    BY <1>3, <1>4, <1>5, <2>4 DEF Taken
  <2> QED BY <1>4, <1>5, <2>1, <2>3, <2>5 DEF Changer, Maker
<1>8. InodeStep(i, O)
  <2>1. count' \in Nat /\ count <= count'
    BY <1>1, NamesAssumption DEF Inv, Shapes
  <2>2. \A u \in O : th'[u] = th[u] /\ (u \in Making => th[u].ino # i)
    BY <1>3, <1>5
  <2>3. \A u \in Threads \ O : ~Changer(th[u]) /\ ~Changer(th'[u])
    BY <1>3, <1>7
  <2> HIDE DEF i, h, O
  <2> QED BY <1>1, <1>3, <1>6, <2>1, <2>2, <2>3 DEF InodeStep, O
<1>9. Backs'
  <2>1. Made' = Made \cup {i} /\ listed' = listed /\ over \ {i} \subseteq over' /\ over' \subseteq over
    BY <1>1, <1>3, <1>7
  <2> HIDE DEF i, O
  <2> QED BY <1>1, <1>8, <2>1, InodeMade
<1>10. /\ Locks' /\ ListedOk' /\ Beyond' /\ Apart'
       /\ \A u \in O :
              /\ th'[u].at = "idle" => th'[u] = Idle
              /\ u \in Making' => MakingOk(u)'
              /\ Maker(th'[u]) => MakerOk(u)'
              /\ Changer(th'[u]) => ChangerOk(th'[u])
  <2>1. /\ \A u \in Threads : \A k \in th'[u].held : k \in th[u].held
        /\ Made' \subseteq Made \cup {i} /\ listed' \subseteq listed \ {i} /\ i <= count'
        /\ \A u, w \in Threads \ O : u = w
        /\ \A u \in Threads \ O : u \in Making' => th'[u].ino = i
    BY <1>1, <1>3, <1>4, <1>5, <1>7
  <2> HIDE DEF i, O
  <2> QED BY <1>1, <1>8, <2>1, InodeKeeps
<1>11. MakingOk(t)'
  <2>1. IsDirIn(pi', ent', th[t].dir)
    BY <1>1, <1>3, <1>6 DEF MakingOk, IsDirIn
  <2> HIDE DEF h, i
  <2> QED BY <1>1, <1>3, <1>4, <1>5, <1>6, <2>1 DEF MakingOk, i
<1>12. Callers'
  BY <1>7, <1>10, <1>11 DEF Callers
<1>13. NumbersKept' /\ nfree' \in 0..count' /\ hint' \in Start..count' + 1
  <2>1. \A u \in Threads \ O : (u \in Making => th[u].ino = i) /\ (u \in Making' => th'[u].ino = i)
    BY <1>4, <1>5
  <2> HIDE DEF i, O
  <2>2. /\ \A k : k \in Available' <=>
              k \in Start..count' /\ (Unused(pi'[k]) \/ k \in Made') /\ k \notin Taken'
        /\ \A k \in Start..count : k # i => (k \in Available' <=> k \in Available)
    BY <1>1, <1>8, <2>1, AvailableOthers
  <2>3. i \notin Available /\ i \in Available'
    BY <1>1, <1>3, <1>7, <2>2, AvailableFew
  <2> QED BY <1>1, <1>3, <2>2, <2>3, NumbersFreed
<1>14. TreeTypes'
  BY <1>1, <1>5, <1>6, <1>13, TypesKept DEF Inv, TreeTypes
<1> QED BY <1>5, <1>9, <1>10, <1>12, <1>13, <1>14 DEF Inv

\* Idle is a record of a thread.
LEMMA IdleCalling ==
  /\ Idle \in Calling /\ ~Changer(Idle) /\ ~Maker(Idle) /\ Idle.at = "idle" /\ Idle.held = {}
  /\ Idle.changes = {} /\ Idle.was = {} /\ Idle.log = {}
  BY Inodes DEF Idle, Calling, Modes, Changer, Maker

\* pmfs_abort_transaction.
LEMMA AbortKeeps ==
  ASSUME Inv, NEW t \in Threads, Abort(t)
  PROVE  Inv'
<1> DEFINE i == th[t].ino
           O == Threads \ {t}
<1>1. /\ th[t].at = "aborting" /\ ~tainted
      /\ pi' = Undone({t})
      /\ th' = [th EXCEPT ![t] = Idle]
      /\ UNCHANGED <<ent, listed, count, nfree, hint, over, calls, boots, tainted>>
  BY DEF Abort
<1>2. t \in Making
  BY <1>1 DEF Making
<1>3. /\ MakingOk(t) /\ th[t] \in Calling
      /\ i \in Numbers /\ i \in Inos /\ i \in Start..count /\ i <= count
      /\ i \in Made /\ i \notin Held /\ i \notin listed
      /\ th[t].dir \in Inos /\ th[t].dir # i /\ th[t].held = {th[t].dir}
      /\ \A u \in Making : u # t => th[u].ino # i
      /\ ~Changer(th[t]) /\ i \notin Taken
  BY <1>1, <1>2, MakingFacts
<1>4. /\ Shapes' /\ th'[t] = Idle /\ \A u \in Threads : u # t => th'[u] = th[u]
  <2>1. /\ listed' \subseteq Inos /\ over' \subseteq Inos /\ count' \in Count0..MaxCount
        /\ hint' \in Start..count' + 1 /\ calls' \in 0..MaxCalls /\ boots' \in 0..MaxBoot
    BY <1>1 DEF Inv, Shapes
  <2> QED BY <1>1, <2>1, IdleCalling, OneThread
<1>5. /\ pi \in [Inos -> Image] /\ pi' \in [Inos -> Image] /\ \A k \in Inos : k # i => pi'[k] = pi[k]
      /\ Unused(pi'[i]) /\ ent \subseteq Inos \X Labels \X Numbers
  <2>1. pi \in [Inos -> Image] /\ ent \subseteq Inos \X Labels \X Numbers
    BY <1>1, NowFacts
  <2>2. PICK im \in Image : Unused(im) /\ th[t].log = {<<i, im>>}
    BY <1>3 DEF MakingOk
  <2>3. UNION {th[u].log : u \in {t}} = {<<i, im>>}
    BY <2>2
  <2>4. Images({t}, i) = {im} /\ \A k \in Inos : k # i => Images({t}, k) = {}
    <3>1. \A k : Images({t}, k) = {x[2] : x \in {x \in {<<i, im>>} : x[1] = k}}
      BY <2>3 DEF Images
    <3> HIDE DEF i
    <3>2. {x \in {<<i, im>>} : x[1] = i} = {<<i, im>>}
      OBVIOUS
    <3>3. \A k : k # i => {x \in {<<i, im>>} : x[1] = k} = {}
      OBVIOUS
    <3>4. {x[2] : x \in {<<i, im>>}} = {im}
      OBVIOUS
    <3>5. Images({t}, i) = {im}
      BY <3>1, <3>2, <3>4
    <3>6. \A k : k # i => Images({t}, k) = {}
      BY <3>1, <3>3
    <3> QED BY <3>5, <3>6
  <2>5. /\ \A k \in Inos : pi'[k] = IF Images({t}, k) = {} THEN pi[k]
                                  ELSE CHOOSE image \in Images({t}, k) : TRUE
        /\ pi' = [k \in Inos |-> pi'[k]]
    BY <1>1 DEF Undone
  <2>6. pi'[i] = im /\ \A k \in Inos : k # i => pi'[k] = pi[k]
    BY <1>3, <2>4, <2>5
  <2>7. \A k \in Inos : pi'[k] \in Image
    BY <2>1, <2>6
  <2> QED BY <2>1, <2>2, <2>5, <2>6, <2>7
<1>6. /\ Made \ {i} \subseteq Made' /\ Made' \subseteq Made
      /\ t \notin Making' /\ ~Changer(th'[t]) /\ ~Maker(th'[t])
  <2>1. Making' = Making \ {t}
    BY <1>4, IdleCalling DEF Making
  <2>2. \A u \in Making : u # t => th'[u] = th[u]
    BY <1>4 DEF Making
  <2>3. Made \ {i} \subseteq Made' /\ Made' \subseteq Made
    BY <2>1, <2>2 DEF Made
  <2> QED BY <1>4, <2>1, <2>3, IdleCalling
<1>7. InodeStep(i, O)
  <2>1. count' \in Nat /\ count <= count'
    BY <1>1, NamesAssumption DEF Inv, Shapes
  <2>2. \A u \in O : th'[u] = th[u] /\ (u \in Making => th[u].ino # i)
    BY <1>3, <1>4
  <2>3. \A u \in Threads \ O : ~Changer(th[u]) /\ ~Changer(th'[u])
    BY <1>3, <1>6
  <2> HIDE DEF i, O
  <2> QED BY <1>1, <1>3, <1>5, <2>1, <2>2, <2>3 DEF InodeStep, O
<1>8. Backs'
  <2>1. over' = over /\ Made \ {i} \subseteq Made' /\ Made' \subseteq Made /\ listed \ {i} \subseteq listed'
    BY <1>1, <1>6
  <2> HIDE DEF i, O
  <2> QED BY <1>1, <1>5, <1>7, <2>1, InodeUnmade
<1>9. /\ Locks' /\ ListedOk' /\ Beyond' /\ Apart'
      /\ \A u \in O :
              /\ th'[u].at = "idle" => th'[u] = Idle
              /\ u \in Making' => MakingOk(u)'
              /\ Maker(th'[u]) => MakerOk(u)'
              /\ Changer(th'[u]) => ChangerOk(th'[u])
  <2>1. /\ \A u \in Threads : \A k \in th'[u].held : k \in th[u].held
        /\ Made' \subseteq Made \cup {i} /\ listed' \subseteq listed \ {i} /\ i <= count'
        /\ \A u, w \in Threads \ O : u = w
        /\ \A u \in Threads \ O : u \in Making' => th'[u].ino = i
    BY <1>1, <1>3, <1>4, <1>6, IdleCalling
  <2> HIDE DEF i, O
  <2> QED BY <1>1, <1>7, <2>1, InodeKeeps
<1>10. Callers'
  BY <1>4, <1>6, <1>9 DEF Callers
<1>11. NumbersKept' /\ nfree' \in 0..count'
  <2>1. \A u \in Threads \ O : (u \in Making => th[u].ino = i) /\ (u \in Making' => th'[u].ino = i)
    BY <1>6
  <2>2. i \notin Taken'
    <3>1. \A u \in Threads : u # t /\ th'[u].at \in {"picked", "published"} => u \in Making
      BY <1>4 DEF Making
    <3> QED BY <1>3, <1>4, <3>1, IdleCalling DEF Taken
  <2> HIDE DEF i, O
  <2>3. /\ \A k : k \in Available' <=>
              k \in Start..count' /\ (Unused(pi'[k]) \/ k \in Made') /\ k \notin Taken'
        /\ \A k \in Start..count : k # i => (k \in Available' <=> k \in Available)
    BY <1>1, <1>7, <2>1, AvailableOthers
  <2>4. i \in Available /\ i \in Available'
    BY <1>1, <1>3, <1>5, <2>2, <2>3, AvailableFew
  <2> QED BY <1>1, <2>3, <2>4, NumbersSame
<1>12. TreeTypes'
  BY <1>1, <1>4, <1>5, <1>11, TypesKept DEF Inv, TreeTypes
<1> QED BY <1>4, <1>8, <1>9, <1>10, <1>11, <1>12 DEF Inv

\* pmfs_evict_inode.
LEMMA EvictKeeps ==
  ASSUME Inv, NEW i \in Inos, Evict(i)
  PROVE  Inv'
<1>1. /\ i \in listed /\ i \notin Held /\ pi[i].links = 0 /\ ~tainted
      /\ pi' = [pi EXCEPT ![i].dead = TRUE]
      /\ nfree' = nfree + 1 /\ hint' = HintAfterFree(i) /\ listed' = listed \ {i}
      /\ UNCHANGED <<ent, count, th, over, calls, boots, tainted>>
  BY DEF Evict
<1>2. /\ i \in Numbers /\ i \notin Made /\ ~Unused(pi[i]) /\ count \in Nat
      /\ i \in Start..count /\ i <= count
  <2>1. i \in Numbers /\ i \notin Made /\ ~Unused(pi[i]) /\ count \in Nat
    BY <1>1, NamesAssumption DEF Inv, ListedOk, Shapes
  <2>2. i <= count
    BY <1>1, <2>1, Inodes DEF Inv, Beyond
  <2> QED BY <2>1, <2>2 DEF Numbers, Start
<1>3. /\ pi \in [Inos -> Image] /\ pi' \in [Inos -> Image] /\ \A k \in Inos : k # i => pi'[k] = pi[k]
      /\ Unused(pi'[i]) /\ ent \subseteq Inos \X Labels \X Numbers
  <2>1. pi \in [Inos -> Image] /\ ent \subseteq Inos \X Labels \X Numbers
    BY <1>1, NowFacts
  <2> DEFINE image == [pi[i] EXCEPT !.dead = TRUE]
  <2>2. image \in Image /\ Unused(image)
    <3>1. pi[i] \in Image
      BY <2>1
    <3> QED BY <1>1, <3>1 DEF Image, Unused
  <2>3. pi' = [pi EXCEPT ![i] = image]
    BY <1>1
  <2> HIDE DEF image
  <2> QED BY <2>1, <2>2, <2>3
<1>4. Making' = Making /\ Made' = Made /\ Taken' = Taken
  BY <1>1 DEF Making, Made, Taken
<1>5. InodeStep(i, Threads)
  <2>1. \A u \in Making : th[u].ino # i
    BY <1>2 DEF Made
  <2>2. count' \in Nat /\ count <= count'
    BY <1>1, <1>2
  <2> QED BY <1>1, <1>2, <1>3, <2>1, <2>2 DEF InodeStep
<1>6. Backs'
  <2>1. over' = over /\ Made \ {i} \subseteq Made' /\ Made' \subseteq Made /\ listed \ {i} \subseteq listed'
    BY <1>1, <1>4
  <2> QED BY <1>1, <1>3, <1>5, <2>1, InodeUnmade
<1>7. /\ Locks' /\ ListedOk' /\ Beyond' /\ Apart'
      /\ \A u \in Threads :
              /\ th'[u].at = "idle" => th'[u] = Idle
              /\ u \in Making' => MakingOk(u)'
              /\ Maker(th'[u]) => MakerOk(u)'
              /\ Changer(th'[u]) => ChangerOk(th'[u])
  <2>1. /\ \A u \in Threads : \A k \in th'[u].held : k \in th[u].held
        /\ Made' \subseteq Made \cup {i} /\ listed' \subseteq listed \ {i} /\ i <= count'
    BY <1>1, <1>2, <1>4
  <2> QED BY <1>1, <1>5, <2>1, InodeKeeps
<1>8. NumbersKept' /\ nfree' \in 0..count' /\ hint' \in Start..count' + 1
  <2>1. /\ \A k : k \in Available' <=>
              k \in Start..count' /\ (Unused(pi'[k]) \/ k \in Made') /\ k \notin Taken'
        /\ \A k \in Start..count : k # i => (k \in Available' <=> k \in Available)
    BY <1>1, <1>5, AvailableOthers
  <2>2. i \notin Taken
    BY <1>2 DEF Taken, Made, Making
  <2>3. i \notin Available /\ i \in Available'
    BY <1>1, <1>2, <1>3, <1>4, <2>1, <2>2, AvailableFew
  <2> QED BY <1>1, <1>2, <2>1, <2>3, NumbersFreed
<1>9. Shapes'
  BY <1>1, <1>8 DEF Inv, Shapes
<1>10. TreeTypes'
  BY <1>1, <1>3, <1>8, <1>9, TypesKept DEF Inv, TreeTypes
<1> QED BY <1>6, <1>7, <1>8, <1>9, <1>10 DEF Inv, Callers

\* pmfs_commit_transaction: the call is not taken back any more.
LEMMA CommitKeeps ==
  ASSUME Inv, NEW t \in Threads, Commit(t)
  PROVE  Inv'
<1>1. /\ th[t].at = "ready" /\ ~tainted /\ th' = [th EXCEPT ![t] = Idle]
      /\ UNCHANGED <<pi, ent, listed, count, nfree, hint, over, calls, boots, tainted>>
  BY DEF Commit
<1>2. /\ Shapes' /\ th'[t] = Idle /\ \A u \in Threads : u # t => th'[u] = th[u]
  <2>1. /\ listed' \subseteq Inos /\ over' \subseteq Inos /\ count' \in Count0..MaxCount
        /\ hint' \in Start..count' + 1 /\ calls' \in 0..MaxCalls /\ boots' \in 0..MaxBoot
    BY <1>1 DEF Inv, Shapes
  <2> QED BY <1>1, <2>1, IdleCalling, OneThread
<1>3. /\ Making' = Making /\ t \notin Making
  BY <1>1, <1>2, IdleCalling DEF Making
<1>4. \A u \in Making : th'[u] = th[u]
  BY <1>2, <1>3 DEF Making
<1>5. Made' = Made /\ Taken' = Taken
  <2>1. Made' = Made
    BY <1>3, <1>4 DEF Made
  <2>2. \A u \in Threads : th'[u].at \in {"picked", "published"} \/ th[u].at \in {"picked", "published"} => th'[u] = th[u]
    BY <1>1, <1>2, IdleCalling
  <2>3. Taken' = Taken
    BY <2>2 DEF Taken
  <2> QED BY <2>1, <2>3
<1>6. Backs'
  <2> SUFFICES ASSUME NEW T \in SUBSET Threads
               PROVE  /\ Sound(PiBack(pi, th', T), EntBack(ent, th', T), over, Made, listed)
                      /\ Agree(pi, ent, PiBack(pi, th', T), EntBack(ent, th', T), NoMove(th', T))
    BY <1>1, <1>5 DEF Backs
  <2> DEFINE U == T \ {t}
  <2>1. \A u \in T : IF u = t THEN ~Changer(th'[u]) ELSE u \in U /\ th'[u] = th[u]
    BY <1>2, IdleCalling
  <2>2. \A u \in U : u \in T /\ th'[u] = th[u]
    BY <1>2
  <2> HIDE DEF U
  <2>3. \A i \in Inos : Said(th', T, i) = Said(th, U, i)
    BY <2>1, <2>2 DEF Said, Says
  <2>4. PiBack(pi, th', T) = PiBack(pi, th, U)
    <3>1. ASSUME NEW i \in Inos PROVE PiBack(pi, th', T)[i] = PiBack(pi, th, U)[i]
      <4>1. Said(th', T, i) = Said(th, U, i)
        BY <2>3
      <4> QED BY <4>1 DEF PiBack
    <3>2. /\ PiBack(pi, th', T) = [i \in Inos |-> PiBack(pi, th', T)[i]]
          /\ PiBack(pi, th, U) = [i \in Inos |-> PiBack(pi, th, U)[i]]
      BY DEF PiBack
    <3> QED BY <3>1, <3>2
  <2>5. \A e : e \in EntBack(ent, th', T) <=> e \in EntBack(ent, th, U)
    BY <2>1, <2>2, EntBackAt
  <2>6. EntBack(ent, th', T) = EntBack(ent, th, U)
    <3>1. /\ EntBack(ent, th', T) \subseteq EntBack(ent, th, U)
          /\ EntBack(ent, th, U) \subseteq EntBack(ent, th', T)
      BY <2>5
    <3> QED BY <3>1
  <2>7. NoMove(th', T) = NoMove(th, U)
    BY <2>1, <2>2 DEF NoMove
  <2>8. U \in SUBSET Threads
    BY DEF U
  <2> QED BY <1>1, <2>4, <2>6, <2>7, <2>8, BacksAt
<1>7. Locks'
  <2>1. \A u \in Threads : th'[u].held \subseteq th[u].held
    BY <1>2, IdleCalling
  <2> QED BY <1>1, <1>5, <2>1 DEF Inv, Locks
<1>8. Callers'
  <2> SUFFICES ASSUME NEW u \in Threads
               PROVE  /\ th'[u].at = "idle" => th'[u] = Idle
                      /\ u \in Making' => MakingOk(u)'
                      /\ Maker(th'[u]) => MakerOk(u)'
                      /\ Changer(th'[u]) => ChangerOk(th'[u])
    BY DEF Callers
  <2>1. CASE u = t
    BY <1>2, <1>3, <2>1, IdleCalling
  <2>2. CASE u # t
    <3>1. th'[u] = th[u] /\ count' \in Nat /\ count <= count'
      BY <1>1, <1>2, <2>2, NamesAssumption DEF Inv, Shapes
    <3>2. /\ \A k \in Inos : k \in th[u].held \/ (u \in Making /\ k = th[u].ino) => pi'[k] = pi[k]
          /\ \A e : e[1] \in th[u].held => (e \in ent' <=> e \in ent)
          /\ \A k \in Inos : k \in th[u].held /\ EntIn(ent, k) # {} => EntIn(ent', k) # {}
      BY <1>1
    <3> QED BY <1>1, <1>3, <3>1, <3>2, StillCaller
  <2> QED BY <2>1, <2>2
<1>9. Apart' /\ ListedOk' /\ Beyond'
  BY <1>1, <1>3, <1>4, <1>5 DEF Inv, Apart, ListedOk, Beyond
<1>10. NumbersKept' /\ nfree' \in 0..count'
  <2>1. \A k : k \in Available' <=>
          k \in Start..count' /\ (Unused(pi'[k]) \/ k \in Made') /\ k \notin Taken'
    BY DEF Available, Taken
  <2>2. \A k \in Start..count : k \in Available' <=> k \in Available
    BY <1>1, <1>5, <2>1, AvailableFew
  <2> QED BY <1>1, <2>2, NumbersSame
<1>11. TreeTypes'
  <2>1. pi' \in [Inos -> Image] /\ ent' \subseteq Inos \X Labels \X Numbers
    BY <1>1, NowFacts
  <2> QED BY <1>1, <1>2, <1>10, <2>1, TypesKept DEF Inv, TreeTypes
<1> QED BY <1>2, <1>6, <1>7, <1>8, <1>9, <1>10, <1>11 DEF Inv

\* pmfs_add_entry of a new inode: it has its name.
LEMMA EnterKeeps ==
  ASSUME Inv, NEW t \in Threads, Enter(t)
  PROVE  Inv'
<1> DEFINE i == th[t].ino
           d == th[t].dir
           n == th[t].name
           kind == th[t].kind
           x == <<d, n, i>>
           h == [th[t] EXCEPT !.at = "ready", !.log = @ \cup {<<d, pi[d]>>},
                              !.changes = {d}, !.was = Entries(d)]
<1>1. /\ th[t].at = "published" /\ ~tainted
      /\ ent' = ent \cup {x}
      /\ pi' = IF kind = "dir" THEN [pi EXCEPT ![i].links = 2, ![d].links = @ + 1] ELSE pi
      /\ th' = [th EXCEPT ![t] = h]
      /\ UNCHANGED <<listed, count, nfree, hint, over, calls, boots, tainted>>
  <2>1. th' = [th EXCEPT ![t].at = "ready", ![t].log = @ \cup {<<d, pi[d]>>},
                         ![t].changes = {d}, ![t].was = Entries(d)]
    BY DEF Enter
  <2>2. th' = [th EXCEPT ![t] = h]
    BY <2>1 DEF Inv, Shapes
  <2> QED BY <2>2 DEF Enter
<1>2. t \in Making
  BY <1>1 DEF Making
<1>3. /\ MakingOk(t) /\ th[t] \in Calling
      /\ i \in Numbers /\ i \in Inos /\ i \in Start..count /\ i <= count
      /\ i \in Made /\ i \notin Held /\ i \notin listed
      /\ d \in Inos /\ d # i /\ th[t].held = {d}
      /\ \A u \in Making : u # t => th[u].ino # i
      /\ ~Changer(th[t]) /\ i \in Taken
  BY <1>1, <1>2, MakingFacts
<1>4. /\ kind \in {"file", "dir"} /\ n \in Labels
      /\ pi[i].mode = kind /\ pi[i].links = 1 /\ ~pi[i].dead
      /\ IsDirIn(pi, ent, d) /\ \A e \in ent : e[1] = d => e[2] # n
      /\ \E im \in Image : Unused(im) /\ th[t].log = {<<i, im>>}
  BY <1>1, <1>3 DEF MakingOk
<1>5. /\ pi \in [Inos -> Image] /\ ent \subseteq Inos \X Labels \X Numbers
      /\ pi[d].mode = "dir" /\ ~pi[d].dead /\ d \notin Made /\ pi[d].links > 0 /\ pi[d].links \in Nat
      /\ pi[i] \in Image /\ pi[d] \in Image
  BY <1>1, <1>3, <1>4, NowFacts, TableFields
<1>6. /\ pi' \in [Inos -> Image] /\ \A k \in Inos : k # i /\ k # d => pi'[k] = pi[k]
      /\ pi'[i] = [pi[i] EXCEPT !.links = IF pi[i].mode = "dir" THEN 2 ELSE 1]
      /\ pi'[i].links > 0
      /\ pi'[d] = IF pi[i].mode = "dir" THEN [pi[d] EXCEPT !.links = @ + 1] ELSE pi[d]
      /\ pi'[d].mode = "dir" /\ ~pi'[d].dead /\ pi'[d].links > 0
  <2>1. /\ pi[i] = [links |-> 1, mode |-> pi[i].mode, dead |-> pi[i].dead]
        /\ [pi[i] EXCEPT !.links = 2] \in Image /\ [pi[i] EXCEPT !.links = 1] = pi[i]
        /\ [pi[i] EXCEPT !.links = 2].links = 2
        /\ [pi[d] EXCEPT !.links = @ + 1] \in Image
        /\ [pi[d] EXCEPT !.links = @ + 1].links = pi[d].links + 1
        /\ [pi[d] EXCEPT !.links = @ + 1].mode = pi[d].mode
        /\ [pi[d] EXCEPT !.links = @ + 1].dead = pi[d].dead
    <3> HIDE DEF i, d
    <3> QED BY <1>4, <1>5 DEF Image
  <2>2. CASE kind = "dir"
    <3>1. /\ pi'[i] = [pi[i] EXCEPT !.links = 2] /\ pi'[d] = [pi[d] EXCEPT !.links = @ + 1]
          /\ \A k \in Inos : k # i /\ k # d => pi'[k] = pi[k]
          /\ pi' = [k \in Inos |-> pi'[k]]
      BY <1>1, <1>3, <1>5, <2>2
    <3> QED BY <1>4, <1>5, <2>1, <2>2, <3>1
  <2>3. CASE kind # "dir"
    <3>1. pi' = pi
      BY <1>1, <2>3
    <3> QED BY <1>4, <1>5, <2>1, <2>3, <3>1
  <2> QED BY <2>2, <2>3
<1>7. /\ h \in Calling /\ h.at = "ready" /\ h.kind = kind /\ h.dir = d /\ h.name = n /\ h.ino = i
      /\ h.held = {d} /\ h.log = th[t].log \cup {<<d, pi[d]>>}
      /\ h.changes = {d} /\ h.was = Entries(d)
  <2>1. Entries(d) \subseteq Inos \X Labels \X Numbers /\ <<d, pi[d]>> \in Inos \X Image
    BY <1>3, <1>5 DEF Entries
  <2> QED BY <1>3, <2>1 DEF Calling
<1> HIDE DEF h
<1>8. /\ Shapes' /\ th'[t] = h /\ \A u \in Threads : u # t => th'[u] = th[u]
  <2>1. /\ listed' \subseteq Inos /\ over' \subseteq Inos /\ count' \in Count0..MaxCount
        /\ hint' \in Start..count' + 1 /\ calls' \in 0..MaxCalls /\ boots' \in 0..MaxBoot
    BY <1>1 DEF Inv, Shapes
  <2> QED BY <1>1, <1>7, <2>1, OneThread
<1>9. /\ Making' = Making \ {t} /\ Made' = Made \ {i}
      /\ \A k : k # i => (k \in Taken' <=> k \in Taken)
      /\ ~Changer(th'[t]) /\ Maker(th'[t]) /\ th'[t].at # "idle"
      /\ \A u \in Making : u # t => th'[u] = th[u]
  <2>1. Making' = Making \ {t}
    BY <1>7, <1>8 DEF Making
  <2>2. \A u \in Making : u # t => th'[u] = th[u]
    BY <1>8 DEF Making
  <2>3. Made' = Made \ {i}
    BY <1>3, <2>1, <2>2 DEF Made
  <2>4. \A k : k # i => (k \in Taken' <=> k \in Taken)
    BY <1>7, <1>8 DEF Taken
  <2> QED BY <1>4, <1>7, <1>8, <2>1, <2>2, <2>3, <2>4 DEF Changer, Maker
<1>10. Backs'
  <2> SUFFICES ASSUME NEW T \in SUBSET Threads
               PROVE  /\ Sound(PiBack(pi', th', T), EntBack(ent', th', T), over', Made', listed')
                      /\ Agree(pi', ent', PiBack(pi', th', T), EntBack(ent', th', T), NoMove(th', T))
    BY DEF Backs
  <2> DEFINE P == PiBack(pi, th, T)
             E == EntBack(ent, th, T)
             Q == PiBack(pi', th', T)
             F == EntBack(ent', th', T)
             K == {d, i}
             A == {x}
             R == {}
  <2>1. /\ Sound(pi, ent, over, Made, listed) /\ Sound(P, E, over, Made, listed)
        /\ Agree(pi, ent, P, E, NoMove(th, T))
    BY <1>1, BacksAt
  <2>2. IsDirIn(P, E, d)
    BY <1>1, <1>3, <1>4, DirBack
  <2>3. Away(th, th', T, K)
    <3>1. \A u \in T : Changer(th'[u]) <=> Changer(th[u])
      BY <1>3, <1>8, <1>9
    <3>2. \A u \in T : Changer(th[u]) => th'[u] = th[u] /\ th[u].held \cap K = {}
      <4> SUFFICES ASSUME NEW u \in T, Changer(th[u]) PROVE th'[u] = th[u] /\ th[u].held \cap K = {}
        OBVIOUS
      <4>1. u # t /\ u \in Threads
        BY <1>3
      <4>2. d \notin th[u].held
        BY <1>1, <1>3, <4>1 DEF Inv, Locks
      <4>3. i \notin th[u].held
        BY <1>3, <4>1 DEF Held
      <4> QED BY <1>8, <4>1, <4>2, <4>3
    <3> HIDE DEF K
    <3> QED BY <1>1, <3>1, <3>2, FarAway
  <2>4. EntStep(ent, ent', R, A, K) /\ PiStep(pi, pi', K)
    <3>1. ent' = (ent \ R) \cup A
      BY <1>1
    <3>2. R \subseteq ent /\ (\A r \in R : r[1] \in K) /\ \A a \in A : a[1] \in K
      OBVIOUS
    <3>3. \A k \in Inos : k \notin K => pi'[k] = pi[k]
      BY <1>6
    <3> HIDE DEF K, A, R
    <3> QED BY <3>1, <3>2, <3>3 DEF EntStep, PiStep
  <2>5. /\ F = (E \ R) \cup A
        /\ \A e : e[1] \in K => (e \in E <=> e \in ent)
    <3> HIDE DEF K, A, R
    <3> QED BY <2>3, <2>4, EntBackOthers
  <2>6. \A k \in Inos :
          /\ k \in K => P[k] = pi[k] /\ Q[k] = pi'[k]
          /\ k \notin K => Q[k] = P[k]
    <3> HIDE DEF K, A
    <3> QED BY <2>3, <2>4, PiBackOthers
  <2>7. Q \in [Inos -> Image]
    BY <1>6, PiBackType
  <2>8. NoMove(th', T) = NoMove(th, T)
    BY <1>3, <1>8, <1>9 DEF NoMove
  <2> HIDE DEF P, E, Q, F
  <2>9. EnterEdit(P, E, Q, F, Made, i, d, n)
    <3>1. /\ P[i] = pi[i] /\ Q[i] = pi'[i] /\ P[d] = pi[d] /\ Q[d] = pi'[d]
          /\ \A k \in Inos : k # i /\ k # d => Q[k] = P[k]
      BY <1>3, <2>6
    <3>2. \A e \in E : e[1] = d => e[2] # n
      BY <1>4, <2>5
    <3>3. F = E \cup {<<d, n, i>>}
      BY <2>5
    <3> QED BY <1>3, <1>4, <1>5, <1>6, <2>2, <2>7, <3>1, <3>2, <3>3 DEF EnterEdit
  <2>10. Sound(Q, F, over, Made \ {i}, listed)
    <3> HIDE DEF i, d, n
    <3> QED BY <2>1, <2>9, EnterSound
  <2>11. SameEdit(pi, ent, E, R, A)
    <3>1. \A e \in E : e[3] # i
      <4> HIDE DEF i
      <4> QED BY <1>3, <2>1, Nameless
    <3> QED BY <1>3, <1>4, <3>1 DEF SameEdit, IsDirIn, EntIn
  <2>12. \A k \in Inos : pi'[k].mode = pi[k].mode /\ Q[k].mode = P[k].mode
    <3>1. \A k \in Inos : pi'[k].mode = pi[k].mode
      <4>1. [pi[i] EXCEPT !.links = IF pi[i].mode = "dir" THEN 2 ELSE 1].mode = pi[i].mode
        <5> HIDE DEF i
        <5> QED BY <1>5 DEF Image
      <4> QED BY <1>5, <1>6, <4>1
    <3> QED BY <2>6, <3>1
  <2>13. ent' = (ent \ R) \cup A
    BY <1>1
  <2> HIDE DEF i, d, n, kind, x, A, K, R
  <2>14. Sound(Q, F, over', Made', listed')
    BY <1>1, <1>9, <2>10
  <2>15. Agree(pi', (ent \ R) \cup A, Q, (E \ R) \cup A, NoMove(th, T))
    BY <2>1, <2>11, <2>12, AgreeSame
  <2> QED BY <2>5, <2>8, <2>13, <2>14, <2>15 DEF Q, F
<1>11. \A u \in Threads : u # t => \A k \in th[u].held : k # i /\ k # d
  BY <1>1, <1>3 DEF Held, Inv, Locks
<1>12. Locks'
  <2>1. \A u \in Threads : th'[u].held = th[u].held
    BY <1>3, <1>7, <1>8
  <2>2. \A u \in Threads : \A k \in th[u].held : k # i /\ k \in Inos
    BY <1>3 DEF Held, Inv, Shapes
  <2>3. \A k \in Inos : k # i => pi'[k].mode = pi[k].mode /\ (pi'[k].dead <=> pi[k].dead)
    <3> HIDE DEF i, d
    <3> QED BY <1>5, <1>6
  <2>4. /\ \A u, w \in Threads : u # w => th[u].held \cap th[w].held = {}
        /\ \A u \in Threads : \A k \in th[u].held : pi[k].mode # "none" /\ ~pi[k].dead /\ k \notin Made
    BY <1>1 DEF Inv, Locks
  <2> HIDE DEF i
  <2>5. \A u, w \in Threads : u # w => th'[u].held \cap th'[w].held = {}
    BY <2>1, <2>4
  <2>6. \A u \in Threads : \A k \in th'[u].held : pi'[k].mode # "none" /\ ~pi'[k].dead /\ k \notin Made'
    BY <1>9, <2>1, <2>2, <2>3, <2>4
  <2> QED BY <2>5, <2>6 DEF Locks
<1>13. MakerOk(t)'
  <2>1. PICK im \in Image : Unused(im) /\ th[t].log = {<<i, im>>}
    BY <1>4
  <2>2. h.log = {<<i, im>>, <<d, pi[d]>>}
    BY <1>7, <2>1
  <2>3. pi'[d] = IF kind = "dir" THEN [pi[d] EXCEPT !.links = @ + 1] ELSE pi[d]
    BY <1>4, <1>6
  <2>4. x \in ent' /\ h.was = {y \in ent' : y[1] = d /\ y # x}
    <3>1. \A y \in ent : y[1] = d => y # x
      BY <1>4
    <3>2. {y \in ent' : y[1] = d /\ y # x} = {y \in ent : y[1] = d}
      BY <1>1, <3>1
    <3> QED BY <1>1, <1>7, <3>2 DEF Entries
  <2>5. /\ th'[t].dir = d /\ th'[t].name = n /\ th'[t].ino = i /\ th'[t].kind = kind
        /\ th'[t].held = {d} /\ th'[t].changes = {d} /\ th'[t].log = h.log /\ th'[t].was = h.was
    BY <1>7, <1>8
  <2>6. \E a \in Image, old \in Image :
           /\ Unused(a) /\ h.log = {<<i, a>>, <<d, old>>}
           /\ pi'[d] = IF kind = "dir" THEN [old EXCEPT !.links = @ + 1] ELSE old
    BY <1>5, <2>1, <2>2, <2>3
  <2>7. kind \in {"file", "dir"} /\ i \in Numbers /\ n \in Labels /\ i # d
    BY <1>3, <1>4
  <2>8. <<d, n, i>> \in ent' /\ h.was = {y \in ent' : y[1] = d /\ y # <<d, n, i>>}
    BY <2>4
  <2> HIDE DEF i, d, n, kind
  <2> QED BY <2>5, <2>6, <2>7, <2>8 DEF MakerOk
<1>14. Callers'
  <2> SUFFICES ASSUME NEW u \in Threads
               PROVE  /\ th'[u].at = "idle" => th'[u] = Idle
                      /\ u \in Making' => MakingOk(u)'
                      /\ Maker(th'[u]) => MakerOk(u)'
                      /\ Changer(th'[u]) => ChangerOk(th'[u])
    BY DEF Callers
  <2>1. CASE u = t
    BY <1>9, <1>13, <2>1
  <2>2. CASE u # t
    <3>1. th'[u] = th[u] /\ count' \in Nat /\ count <= count'
      BY <1>1, <1>8, <2>2, NamesAssumption DEF Inv, Shapes
    <3>2. \A k \in Inos : k \in th[u].held \/ (u \in Making /\ k = th[u].ino) => pi'[k] = pi[k]
      <4>1. u \in Making => th[u].ino # i /\ th[u].ino # d
        BY <1>3, <1>5, <2>2 DEF Made
      <4> QED BY <1>6, <1>11, <2>2, <4>1
    <3>3. /\ \A e : e[1] \in th[u].held => (e \in ent' <=> e \in ent)
          /\ \A k \in Inos : k \in th[u].held /\ EntIn(ent, k) # {} => EntIn(ent', k) # {}
      BY <1>1, <1>11, <2>2 DEF EntIn
    <3> QED BY <1>1, <1>9, <3>1, <3>2, <3>3, StillCaller
  <2> QED BY <2>1, <2>2
<1>15. Apart'
  BY <1>1, <1>9 DEF Inv, Apart
<1>16. ListedOk'
  <2>1. \A k \in listed : k \in Inos /\ k # i /\ k # d
    BY <1>1, <1>3, <1>5 DEF Inv, ListedOk, Shapes
  <2> QED BY <1>1, <1>6, <1>9, <2>1 DEF Inv, ListedOk
<1>17. \A k \in Inos : k # i => (Unused(pi'[k]) <=> Unused(pi[k]))
  BY <1>5, <1>6 DEF Unused
<1>18. Beyond'
  <2>1. count \in Nat
    BY NamesAssumption DEF Inv, Shapes
  <2>2. \A k \in Numbers : k > count => k # i
    BY <1>3, <2>1, Inodes
  <2> QED BY <1>1, <1>17, <2>2, Inodes DEF Inv, Beyond
<1>19. NumbersKept' /\ nfree' \in 0..count'
  <2>1. \A k : k \in Available' <=>
          k \in Start..count' /\ (Unused(pi'[k]) \/ k \in Made') /\ k \notin Taken'
    BY DEF Available, Taken
  <2>2. i \notin Available /\ i \notin Available'
    <3>1. ~Unused(pi'[i])
      BY <1>6 DEF Unused
    <3>2. i \notin Made'
      BY <1>9
    <3>3. i \in Taken
      BY <1>3
    <3> HIDE DEF i
    <3> QED BY <2>1, <3>1, <3>2, <3>3, AvailableFew
  <2>3. Start..count \subseteq Inos
    BY NamesAssumption DEF Inv, Shapes, Inos, Numbers, Start
  <2>4. \A k \in Start..count : k \in Available' <=> k \in Available
    BY <1>1, <1>9, <1>17, <2>1, <2>2, <2>3, AvailableFew
  <2> QED BY <1>1, <2>4, NumbersSame
<1>20. TreeTypes'
  <2>1. ent' \subseteq Inos \X Labels \X Numbers
    BY <1>1, <1>3, <1>4, <1>5
  <2> QED BY <1>1, <1>6, <1>8, <1>19, <2>1, TypesKept DEF Inv, TreeTypes
<1> QED BY <1>8, <1>10, <1>12, <1>14, <1>15, <1>16, <1>18, <1>19, <1>20 DEF Inv

\* A nonempty set of numbers has a least one.
LEMMA LeastIs ==
  ASSUME NEW S, S \subseteq Nat, S # {}
  PROVE  Least(S) \in S /\ \A j \in S : Least(S) <= j
<1>1. PICK s \in S : \A x \in S : ~(<<x, s>> \in OpToRel(<, Nat))
  BY NatLessThanWellFounded, WFMin, Zenon
<1>2. \A x \in S : s <= x
  <2> SUFFICES ASSUME NEW x \in S PROVE s <= x
    OBVIOUS
  <2>1. s \in Nat /\ x \in Nat /\ ~(x < s)
    BY <1>1 DEF OpToRel
  <2> QED BY <2>1
<1>3. \E i \in S : \A j \in S : i <= j
  BY <1>2
<1> QED BY <1>3 DEF Least

\* The step of Pick with number i, after which the table has that size.
Finds(t, kind, d, n, i, size) ==
  /\ count <= size /\ size <= MaxCount /\ count' = size
  /\ i \in Numbers /\ i \in Start..size /\ Unused(pi[i])
  /\ \A k \in Free : hint <= k => i <= k
  /\ i <= count => i \in Free /\ size = count
  /\ i > count => i = count + 1
  /\ nfree' = nfree + (size - count) - 1
  /\ hint' = IF i < size THEN i + 1 ELSE Start
  /\ pi' = [pi EXCEPT ![i].dead = FALSE]
  /\ th' = [th EXCEPT ![t] = [Idle EXCEPT !.at = "picked", !.kind = kind, !.dir = d,
                                     !.name = n, !.ino = i, !.held = {d},
                                     !.log = {<<i, pi[i]>>}]]
  /\ tainted' = Doubled(i)

\* The number that pmfs_new_inode finds: the first free one from the hint, or the first of a
\* new block of the table.
LEMMA PickFinds ==
  ASSUME Inv, NEW t \in Threads, NEW kind, NEW d, NEW n, Pick(t, kind, d, n)
  PROVE  \E i \in Inos, size \in Nat : Finds(t, kind, d, n, i, size)
<1> DEFINE first == {i \in Free : i >= hint}
           grows == first = {} /\ count + PerBlock <= MaxCount
           size  == IF grows THEN count + PerBlock ELSE count
           i     == IF grows THEN count + 1 ELSE Least(first)
<1>1. /\ first # {} \/ grows
      /\ count' = size
      /\ nfree' = nfree + (size - count) - 1
      /\ hint' = IF i < size THEN i + 1 ELSE Start
      /\ pi' = [pi EXCEPT ![i].dead = FALSE]
      /\ th' = [th EXCEPT ![t] = [Idle EXCEPT !.at = "picked", !.kind = kind, !.dir = d,
                                              !.name = n, !.ino = i, !.held = {d},
                                              !.log = {<<i, pi[i]>>}]]
      /\ tainted' = Doubled(i) /\ ~tainted
  BY DEF Pick, Call
<1>2. /\ count \in Nat /\ hint \in Nat /\ count <= MaxCount /\ MaxCount \in Nat
      /\ PerBlock \in Nat \ {0} /\ Free \subseteq Nat /\ Free \subseteq Numbers
      /\ \A k \in Free : Unused(pi[k]) /\ k \in Start..count
  BY NamesAssumption DEF Inv, Shapes, Free, Start, Numbers
<1>3. CASE grows
  <2>1. size = count + PerBlock /\ i = count + 1 /\ size \in Nat /\ count < size /\ size <= MaxCount
        /\ i <= size
    BY <1>2, <1>3
  <2>2. i \in Numbers /\ i \in Start..size /\ i \in Inos /\ i > count
    BY <1>2, <2>1, Inodes DEF Start
  <2>3. Unused(pi[i])
    BY <1>1, <2>2 DEF Inv, Beyond
  <2>4. \A k \in Free : hint <= k => FALSE
    BY <1>2, <1>3
  <2> HIDE DEF i, size, first, grows
  <2>5. \A k \in Free : hint <= k => i <= k
    BY <2>4
  <2>6. Finds(t, kind, d, n, i, size)
    BY <1>1, <1>2, <2>1, <2>2, <2>3, <2>5 DEF Finds
  <2> QED BY <2>1, <2>2, <2>6
<1>4. CASE ~grows
  <2>1. first # {} /\ first \subseteq Nat /\ size = count /\ i = Least(first)
    BY <1>1, <1>2, <1>4
  <2>2. i \in first /\ \A k \in first : i <= k
    <3> HIDE DEF first, i
    <3> QED BY <2>1, LeastIs
  <2>3. i \in Free /\ \A k \in Free : hint <= k => i <= k
    <3> HIDE DEF i
    <3> QED BY <1>2, <2>2
  <2>4. i \in Numbers /\ i \in Start..count /\ i \in Inos /\ i <= count /\ Unused(pi[i]) /\ i \in Nat
    <3> HIDE DEF i, first
    <3> QED BY <1>2, <2>3, Inodes DEF Start
  <2> HIDE DEF i, size, first, grows
  <2>5. Finds(t, kind, d, n, i, size)
    BY <1>1, <1>2, <2>1, <2>3, <2>4 DEF Finds
  <2> QED BY <1>2, <2>1, <2>4, <2>5
<1> QED BY <1>3, <1>4

\* A number is taken from those that nobody has.
LEMMA NumbersPicked ==
  ASSUME Inv, ~tainted, NEW t \in Threads, NEW kind, NEW d, NEW n, NEW i \in Inos, NEW size \in Nat,
         Finds(t, kind, d, n, i, size), ~Doubled(i), i \notin Available',
         \A k \in Start..count : k # i => (k \in Available' <=> k \in Available),
         \A k \in Start..size : k > count /\ k # i /\ k \in Numbers => k \in Available'
  PROVE  NumbersKept' /\ nfree' \in 0..count'
<1> DEFINE B == Available \cup ((count + 1)..size)
<1>1. /\ count \in Nat /\ count <= size /\ size <= MaxCount /\ MaxCount \in Nat /\ count' = size
      /\ i \in Start..size /\ Unused(pi[i])
      /\ \A k \in Free : hint <= k => i <= k
      /\ i <= count => i \in Free /\ size = count
      /\ i > count => i = count + 1
      /\ nfree' = nfree + (size - count) - 1
      /\ hint' = IF i < size THEN i + 1 ELSE Start
  BY NamesAssumption DEF Finds, Inv, Shapes
<1>2. /\ \A k : k \in Available <=> k \in Start..count /\ (Unused(pi[k]) \/ k \in Made) /\ k \notin Taken
      /\ IsFiniteSet(Available)
  BY <1>1, AvailableFew
<1>3. i \in B
  <2>1. CASE i > count
    BY <1>1, <2>1 DEF Start
  <2>2. CASE i <= count
    <3>1. i \notin Taken
      BY DEF Taken, Doubled, Making
    <3> QED BY <1>1, <1>2, <2>2, <3>1 DEF Start
  <2> QED BY <1>1, <2>1, <2>2 DEF Start
<1>4. Available' = B \ {i}
  <2>1. \A k : k \in Available' => k \in Start..size
    BY <1>1 DEF Available
  <2>2. ASSUME NEW k PROVE k \in Available' <=> k \in B /\ k # i
    <3>1. CASE k \in Start..count
      BY <1>1, <3>1 DEF Start
    <3>2. CASE k \in Start..size /\ k \notin Start..count
      <4>1. k > count /\ k \in (count + 1)..size /\ k \in Numbers
        BY <1>1, <3>2 DEF Start, Numbers
      <4> QED BY <3>2, <4>1
    <3>3. CASE k \notin Start..size
      <4>1. k \notin B
        BY <1>1, <1>2, <3>3 DEF Start
      <4> QED BY <2>1, <3>3, <4>1
    <3> QED BY <3>1, <3>2, <3>3
  <2>3. Available' \subseteq B \ {i} /\ B \ {i} \subseteq Available'
    <3> HIDE DEF B
    <3> QED BY <2>2
  <2> QED BY <2>3
<1>5. IsFiniteSet(B) /\ Cardinality(B) = Cardinality(Available) + (size - count)
  <2> DEFINE N == (count + 1)..size
  <2>1. IsFiniteSet(N) /\ Cardinality(N) = size - count
    <3>1. count + 1 \in Int /\ size \in Int
      BY <1>1
    <3>2. /\ IsFiniteSet(N)
          /\ Cardinality(N) = IF count + 1 > size THEN 0 ELSE size - (count + 1) + 1
      BY <3>1, FS_Interval, Zenon
    <3> HIDE DEF N
    <3> QED BY <1>1, <3>2
  <2>2. Available \cap N = {}
    BY <1>1, <1>2 DEF Start
  <2>3. /\ IsFiniteSet(Available \cup N)
        /\ Cardinality(Available \cup N) = Cardinality(Available) + Cardinality(N) - Cardinality(Available \cap N)
    <3> HIDE DEF N
    <3> QED BY <1>2, <2>1, FS_Union, Zenon
  <2>4. Cardinality({}) = 0
    BY FS_EmptySet
  <2>5. Cardinality(Available) \in Nat
    BY <1>2, FS_CardinalityType
  <2> HIDE DEF N
  <2>6. Cardinality(Available \cap N) = 0
    BY <2>2, <2>4
  <2>7. Cardinality(Available \cup N) = Cardinality(Available) + (size - count)
    BY <1>1, <2>1, <2>3, <2>5, <2>6
  <2> QED BY <2>3, <2>7 DEF N
<1> HIDE DEF B
<1>6. nfree = Cardinality(Available) /\ \A k \in Available : hint <= k
  BY DEF Inv, NumbersKept
<1>7. nfree' = Cardinality(Available')
  <2>1. Cardinality(B \ {i}) = Cardinality(B) - 1
    BY <1>3, <1>5, CountRemove
  <2>2. nfree \in Nat
    BY <1>2, <1>6, FS_CardinalityType
  <2>3. Cardinality(Available') = nfree + (size - count) - 1
    BY <1>1, <1>4, <1>5, <1>6, <2>1, <2>2
  <2> QED BY <1>1, <2>3
<1>8. nfree' \in 0..size
  <2>1. Available' \subseteq 1..size
    BY <1>1 DEF Available, Start
  <2> QED BY <1>7, <2>1, FewNumbers
<1>9. ASSUME NEW k \in Available' PROVE hint' <= k
  <2>1. k \in Start..size /\ k # i /\ k \in B /\ k \in Nat
    BY <1>1, <1>4 DEF Available, Start
  <2>2. i <= k
    <3>1. CASE k \in Available
      <4>1. hint <= k /\ k \in Start..count /\ (Unused(pi[k]) \/ k \in Made) /\ k \notin Taken
        BY <1>2, <1>6, <3>1
      <4>2. CASE Unused(pi[k])
        BY <1>1, <4>1, <4>2 DEF Free
      <4>3. CASE k \in Made
        <5>1. PICK u \in Making : th[u].ino = k
          BY <4>3 DEF Made
        <5>2. th[u].at = "aborting"
          BY <4>1, <5>1 DEF Making, Taken
        <5>3. ~(k < i)
          BY <5>1, <5>2 DEF Doubled
        <5> QED BY <1>1, <2>1, <5>3 DEF Start
      <4> QED BY <4>1, <4>2, <4>3
    <3>2. CASE k \in (count + 1)..size
      BY <1>1, <3>2 DEF Start
    <3> QED BY <2>1, <3>1, <3>2 DEF B
  <2> QED BY <1>1, <2>1, <2>2 DEF Start
<1> QED BY <1>1, <1>7, <1>8, <1>9 DEF NumbersKept

\* pmfs_new_inode. If it finds a number of a transaction under way, nothing is known any more.
LEMMA PickKeeps ==
  ASSUME Inv, NEW t \in Threads, NEW kind \in {"file", "dir"}, NEW d \in Inos, NEW n \in Labels,
         Pick(t, kind, d, n)
  PROVE  Inv'
<1>1. /\ th[t].at = "idle" /\ calls < MaxCalls /\ ~tainted /\ d \notin Held /\ calls' = calls + 1
      /\ IsDirIn(pi, ent, d) /\ \A e \in ent : e[1] = d => e[2] # n
      /\ UNCHANGED <<ent, listed, over, boots>>
  BY Guards DEF Pick, Call
<1>2. PICK i \in Inos, size \in Nat : Finds(t, kind, d, n, i, size)
  BY PickFinds
<1> DEFINE h == [Idle EXCEPT !.at = "picked", !.kind = kind, !.dir = d, !.name = n, !.ino = i,
                             !.held = {d}, !.log = {<<i, pi[i]>>}]
           O == Threads \ {t}
<1>3. /\ count <= size /\ size <= MaxCount /\ count' = size
      /\ i \in Numbers /\ i \in Start..size /\ Unused(pi[i])
      /\ hint' = IF i < size THEN i + 1 ELSE Start
      /\ pi' = [pi EXCEPT ![i].dead = FALSE]
      /\ th' = [th EXCEPT ![t] = h]
      /\ tainted' = Doubled(i)
  BY <1>2 DEF Finds
<1>4. /\ pi \in [Inos -> Image] /\ ent \subseteq Inos \X Labels \X Numbers
      /\ pi[d].mode = "dir" /\ ~pi[d].dead /\ d \notin Made /\ pi[d].links > 0
      /\ pi[i] \in Image /\ count \in Nat
  BY <1>1, NowFacts, NamesAssumption DEF Inv, Shapes
<1>5. pi[i].links = 0 /\ d # i
  BY <1>3, <1>4 DEF Unused
<1>6. h = [at |-> "picked", kind |-> kind, dir |-> d, name |-> n, ino |-> i, held |-> {d},
           log |-> {<<i, pi[i]>>}, changes |-> {}, was |-> {}]
  <2> DEFINE l == {<<i, pi[i]>>}
             s == {d}
  <2>1. h = [Idle EXCEPT !.at = "picked", !.kind = kind, !.dir = d, !.name = n, !.ino = i,
                         !.held = s, !.log = l]
    OBVIOUS
  <2> HIDE DEF l, s, h
  <2>2. h = [at |-> "picked", kind |-> kind, dir |-> d, name |-> n, ino |-> i, held |-> s,
             log |-> l, changes |-> {}, was |-> {}]
    BY <2>1 DEF Idle
  <2> QED BY <2>2 DEF l, s
<1>7. /\ h \in Calling /\ h.at = "picked" /\ h.kind = kind /\ h.dir = d /\ h.name = n /\ h.ino = i
      /\ h.held = {d} /\ h.log = {<<i, pi[i]>>} /\ h.changes = {} /\ h.was = {}
  <2>1. kind \in Modes /\ {<<i, pi[i]>>} \subseteq Inos \X Image /\ {d} \subseteq Inos
    BY <1>4 DEF Modes
  <2>2. [at |-> "picked", kind |-> kind, dir |-> d, name |-> n, ino |-> i, held |-> {d},
           log |-> {<<i, pi[i]>>}, changes |-> {}, was |-> {}] \in Calling
    BY <2>1 DEF Calling
  <2> QED BY <1>6, <2>2
<1> HIDE DEF h
<1>8. /\ Shapes' /\ th'[t] = h /\ \A u \in Threads : u # t => th'[u] = th[u]
  <2>1. listed' \subseteq Inos /\ over' \subseteq Inos /\ boots' \in 0..MaxBoot
    BY <1>1 DEF Inv, Shapes
  <2>2. count' \in Count0..MaxCount /\ hint' \in Start..count' + 1
    BY <1>3, NamesAssumption DEF Inv, Shapes, Start
  <2>3. calls' \in 0..MaxCalls
    BY <1>1, NamesAssumption DEF Inv, Shapes
  <2> QED BY <1>3, <1>7, <2>1, <2>2, <2>3, OneThread
<1>9. /\ pi' \in [Inos -> Image] /\ \A k \in Inos : k # i => pi'[k] = pi[k]
      /\ ~pi'[i].dead /\ pi'[i].links = 0
  <2> DEFINE image == [pi[i] EXCEPT !.dead = FALSE]
  <2>1. image \in Image /\ ~image.dead /\ image.links = pi[i].links
    BY <1>4 DEF Image
  <2>2. pi' = [pi EXCEPT ![i] = image]
    BY <1>3
  <2> HIDE DEF image
  <2> QED BY <1>4, <1>5, <2>1, <2>2
<1>10. tainted' \in BOOLEAN
  BY <1>3 DEF Doubled
<1>11. CASE tainted'
  <2>1. TreeTypes'
    BY <1>1, <1>4, <1>8, <1>9, <1>10, <1>11, TypesKept
  <2> QED BY <1>8, <1>11, <2>1 DEF Inv
<1>12. CASE ~tainted'
  <2>1. ~Doubled(i) /\ \A u \in Making : th[u].ino # i
    BY <1>3, <1>12 DEF Doubled
  <2>2. /\ Making' = Making \cup {t} /\ t \notin Making /\ ~Changer(th[t]) /\ ~Changer(th'[t])
        /\ ~Maker(th'[t]) /\ th'[t].at # "idle"
        /\ \A u \in Making : u # t /\ th'[u] = th[u]
    BY <1>1, <1>7, <1>8 DEF Making, Changer, Maker
  <2>3. Made' = Made \cup {i} /\ i \in Taken'
    BY <1>7, <1>8, <2>2 DEF Made, Taken
  <2>4. i \notin Held /\ i \notin listed
    BY <1>1, <1>3 DEF Inv, Locks, ListedOk, Held, Unused
  <2>5. InodeStep(i, O)
    <3>1. count' \in Nat /\ count <= count'
      BY <1>3
    <3>2. \A u \in O : th'[u] = th[u] /\ (u \in Making => th[u].ino # i)
      BY <1>8, <2>1
    <3>3. \A u \in Threads \ O : ~Changer(th[u]) /\ ~Changer(th'[u])
      BY <2>2
    <3> QED BY <1>1, <1>3, <1>5, <1>9, <2>4, <3>1, <3>2, <3>3 DEF InodeStep
  <2>6. Backs'
    <3>1. listed' = listed /\ over \ {i} \subseteq over' /\ over' \subseteq over
      BY <1>1
    <3> HIDE DEF O
    <3> QED BY <1>1, <2>3, <2>5, <3>1, InodeMade
  <2>7. /\ Locks' /\ ListedOk' /\ Beyond' /\ Apart'
        /\ \A u \in O :
              /\ th'[u].at = "idle" => th'[u] = Idle
              /\ u \in Making' => MakingOk(u)'
              /\ Maker(th'[u]) => MakerOk(u)'
              /\ Changer(th'[u]) => ChangerOk(th'[u])
    <3>1. \A u \in Threads : \A k \in th'[u].held : k \in th[u].held \/
           (k \in Inos /\ k # i /\ k \notin Held /\ pi[k].mode # "none" /\ ~pi[k].dead /\ k \notin Made)
      BY <1>1, <1>4, <1>5, <1>7, <1>8
    <3>2. /\ Made' \subseteq Made \cup {i} /\ listed' \subseteq listed \ {i} /\ i <= count'
          /\ \A u, w \in Threads \ O : u = w
          /\ \A u \in Threads \ O : u \in Making' => th'[u].ino = i
      BY <1>1, <1>3, <1>7, <1>8, <2>3, <2>4 DEF Start
    <3> HIDE DEF O
    <3> QED BY <1>1, <2>5, <3>1, <3>2, InodeKeeps
  <2>8. MakingOk(t)'
    <3>1. IsDirIn(pi', ent', d)
      BY <1>1, <1>4, <1>5, <1>9 DEF IsDirIn
    <3>2. i \in Start..count'
      BY <1>3
    <3> QED BY <1>1, <1>3, <1>4, <1>7, <1>8, <1>9, <3>1, <3>2 DEF MakingOk
  <2>9. Callers'
    BY <2>2, <2>7, <2>8 DEF Callers
  <2>10. NumbersKept' /\ nfree' \in 0..count'
    <3>1. \A u \in Threads \ O : (u \in Making => th[u].ino = i) /\ (u \in Making' => th'[u].ino = i)
      BY <1>7, <1>8, <2>2
    <3> HIDE DEF O
    <3>2. /\ \A k : k \in Available' <=>
              k \in Start..count' /\ (Unused(pi'[k]) \/ k \in Made') /\ k \notin Taken'
          /\ \A k \in Start..count : k # i => (k \in Available' <=> k \in Available)
          /\ \A k \in Start..count' : k > count /\ k # i /\ k \in Numbers => k \in Available'
      BY <1>1, <2>5, <3>1, AvailableOthers
    <3>3. i \notin Available'
      BY <2>3, <3>2
    <3>4. \A k \in Start..size : k > count /\ k # i /\ k \in Numbers => k \in Available'
      BY <1>3, <3>2
    <3> QED BY <1>1, <1>2, <2>1, <3>2, <3>3, <3>4, NumbersPicked
  <2>11. TreeTypes'
    BY <1>1, <1>4, <1>8, <1>9, <1>10, <2>10, TypesKept
  <2> QED BY <1>8, <2>6, <2>7, <2>9, <2>10, <2>11 DEF Inv
<1> QED BY <1>11, <1>12

-----------------------------------------------------------------------------
(* The power fails.                                                                         *)

\* The images that are written back.
LEMMA UndoneIs ==
  ASSUME Shapes, pi \in [Inos -> Image]
  PROVE  /\ Undone(Threads) \in [Inos -> Image]
         /\ \A i \in Inos : \A t \in Threads : \A a \in Image :
              ~Overtaken /\ <<i, a>> \in th[t].log => Undone(Threads)[i] = a
         /\ \A i \in Inos : (\A t \in Threads : \A a \in Image : <<i, a>> \notin th[t].log) =>
              Undone(Threads)[i] = pi[i]
<1>1. \A t \in Threads : \A x \in th[t].log : x[1] \in Inos /\ x[2] \in Image /\ x = <<x[1], x[2]>>
  BY DEF Shapes
<1>2. ASSUME NEW i \in Inos, NEW a
      PROVE  a \in Images(Threads, i) <=> a \in Image /\ \E t \in Threads : <<i, a>> \in th[t].log
  <2>1. ASSUME a \in Images(Threads, i)
        PROVE  a \in Image /\ \E t \in Threads : <<i, a>> \in th[t].log
    <3>1. PICK x \in UNION {th[t].log : t \in Threads} : x[1] = i /\ a = x[2]
      BY <2>1 DEF Images
    <3>2. PICK t \in Threads : x \in th[t].log
      BY <3>1
    <3> QED BY <1>1, <3>1, <3>2
  <2>2. ASSUME NEW t \in Threads, <<i, a>> \in th[t].log PROVE a \in Images(Threads, i)
    <3>1. <<i, a>> \in UNION {th[u].log : u \in Threads}
      BY <2>2
    <3>2. <<i, a>>[1] = i /\ <<i, a>>[2] = a
      OBVIOUS
    <3> QED BY <3>1, <3>2 DEF Images
  <2> QED BY <2>1, <2>2
<1>3. \A i \in Inos : Undone(Threads)[i] = IF Images(Threads, i) = {} THEN pi[i]
                                         ELSE CHOOSE image \in Images(Threads, i) : TRUE
  BY DEF Undone
<1>4. ASSUME NEW i \in Inos, Images(Threads, i) # {} PROVE Undone(Threads)[i] \in Images(Threads, i)
  BY <1>3, <1>4
<1>5. \A i \in Inos : Undone(Threads)[i] \in Image
  BY <1>2, <1>3, <1>4
<1>6. Undone(Threads) \in [Inos -> Image]
  <2>1. Undone(Threads) = [i \in Inos |-> Undone(Threads)[i]]
    BY DEF Undone
  <2> QED BY <1>5, <2>1
<1>7. ASSUME NEW i \in Inos, NEW t \in Threads, NEW a \in Image, ~Overtaken, <<i, a>> \in th[t].log
      PROVE  Undone(Threads)[i] = a
  <2>1. a \in Images(Threads, i)
    BY <1>2, <1>7
  <2>2. Undone(Threads)[i] \in Images(Threads, i)
    BY <1>4, <2>1
  <2>3. \A b, c \in Images(Threads, i) : b = c
    BY <1>7 DEF Overtaken
  <2> QED BY <2>1, <2>2, <2>3
<1>8. ASSUME NEW i \in Inos, \A t \in Threads : \A a \in Image : <<i, a>> \notin th[t].log
      PROVE  Undone(Threads)[i] = pi[i]
  <2>1. Images(Threads, i) = {}
    BY <1>2, <1>8
  <2> QED BY <1>3, <2>1
<1> QED BY <1>6, <1>7, <1>8

\* The entries of new inodes whose calls have not committed.
News == {<<th[t].dir, th[t].name, th[t].ino>> : t \in {u \in Threads : Maker(th[u])}}

\* What a thread is doing.
LEMMA Doing ==
  ASSUME Inv, ~tainted, NEW t \in Threads
  PROVE  \/ th[t].log = {} /\ th[t].changes = {} /\ th[t].was = {} /\ th[t].held = {}
         \/ /\ t \in Making /\ th[t].ino \in Made /\ th[t].changes = {} /\ th[t].was = {}
            /\ \E im \in Image : Unused(im) /\ th[t].log = {<<th[t].ino, im>>}
         \/ Maker(th[t]) /\ MakerOk(t)
         \/ Changer(th[t]) /\ ChangerOk(th[t]) /\ th[t].at = "ready"
<1>1. th[t].at \in {"idle", "picked", "published", "aborting", "ready"}
  BY DEF Inv, Shapes
<1>2. CASE th[t].at = "idle"
  <2>1. th[t] = Idle
    BY <1>2 DEF Inv, Callers
  <2> QED BY <2>1 DEF Idle
<1>3. CASE t \in Making
  <2>1. MakingOk(t) /\ th[t].ino \in Made
    BY <1>3, MakingFacts
  <2> QED BY <1>3, <2>1 DEF MakingOk
<1>4. CASE th[t].at = "ready"
  BY <1>4 DEF Inv, Callers, Maker, Changer
<1> QED BY <1>1, <1>2, <1>3, <1>4 DEF Making

\* A thread that has made an inode, and the tree without the calls that change what was there.
LEMMA MakerFacts ==
  ASSUME Inv, ~tainted, NEW t \in Threads, Maker(th[t])
  PROVE  /\ MakerOk(t) /\ th[t].held = {th[t].dir} /\ th[t].changes = {th[t].dir}
         /\ th[t].dir \in Inos /\ th[t].ino \in Numbers /\ th[t].ino \in Inos
         /\ th[t].dir # th[t].ino
         /\ <<th[t].dir, th[t].name, th[t].ino>> \in ent
         /\ <<th[t].dir, th[t].name, th[t].ino>> \in EntBack(ent, th, Threads)
         /\ pi[th[t].dir].links > 0 /\ pi[th[t].dir].links \in Nat
         /\ th[t].dir \notin Made /\ th[t].dir \notin listed
         /\ pi[th[t].ino].links > 0 /\ th[t].ino \notin Made /\ th[t].ino \notin listed
         /\ \A u \in Threads : u # t => th[t].dir \notin th[u].held
         /\ PiBack(pi, th, Threads)[th[t].dir] = pi[th[t].dir]
<1> DEFINE d == th[t].dir
           i == th[t].ino
           x == <<th[t].dir, th[t].name, th[t].ino>>
<1>1. MakerOk(t)
  BY DEF Inv, Callers
<1>2. /\ th[t].held = {d} /\ th[t].changes = {d} /\ i \in Numbers /\ d # i /\ x \in ent
      /\ d \in Inos /\ i \in Inos
  BY <1>1, Inodes DEF MakerOk, Inv, Shapes
<1>3. IsDirIn(pi, ent, d) /\ pi[i].links > 0 /\ i \notin Made
  <2>1. x[1] = d /\ x[3] = i
    OBVIOUS
  <2> HIDE DEF x, d, i
  <2> QED BY <1>2, <2>1, NowFacts
<1>4. pi[d].links > 0 /\ d \notin Made /\ pi \in [Inos -> Image]
  BY <1>2, <1>3, NowFacts
<1>5. d \notin listed /\ i \notin listed /\ pi[d].links \in Nat
  <2>1. \A k \in listed : pi[k].links = 0
    BY DEF Inv, ListedOk
  <2> QED BY <1>2, <1>3, <1>4, <2>1, TableFields
<1>6. \A u \in Threads : u # t => d \notin th[u].held
  BY <1>2 DEF Inv, Locks
<1>7. \A u \in Threads : Changer(th[u]) => u # t /\ ChangerOk(th[u])
  BY DEF Maker, Changer, Inv, Callers
<1>8. PiBack(pi, th, Threads)[d] = pi[d]
  <2>1. \A u \in Threads : \A a \in Image : ~Says(th[u], d, a)
    BY <1>6, <1>7 DEF Says
  <2> QED BY <1>2, <2>1, PiBackAt
<1>9. x \in EntBack(ent, th, Threads)
  <2>1. \A u \in Threads : Changer(th[u]) => x[1] \notin th[u].changes
    BY <1>6, <1>7 DEF ChangerOk
  <2> HIDE DEF x
  <2> QED BY <1>2, <2>1, EntBackAt
<1> QED BY <1>1, <1>2, <1>3, <1>4, <1>5, <1>6, <1>8, <1>9

\* If no call has overtaken another, a new inode is as it was made, and has one name.
LEMMA NewFacts ==
  ASSUME Inv, ~tainted, ~Overtaken, NEW t \in Threads, Maker(th[t])
  PROVE  LET P == PiBack(pi, th, Threads)
             E == EntBack(ent, th, Threads)
             i == th[t].ino
         IN  /\ P[i].mode = th[t].kind /\ P[i].links > 0
             /\ \A y \in E : y[1] # i /\ (y[3] = i => y = <<th[t].dir, th[t].name, i>>)
<1> DEFINE P == PiBack(pi, th, Threads)
           E == EntBack(ent, th, Threads)
           i == th[t].ino
           x == <<th[t].dir, th[t].name, th[t].ino>>
           kind == th[t].kind
<1>1. /\ MakerOk(t) /\ th[t].held = {th[t].dir} /\ i \in Inos /\ i \in Numbers
      /\ th[t].dir # i /\ x \in E /\ i \notin th[t].held /\ kind \in {"file", "dir"}
  <2>1. MakerOk(t)
    BY MakerFacts
  <2>2. kind \in {"file", "dir"}
    BY <2>1 DEF MakerOk
  <2> QED BY <2>1, <2>2, MakerFacts
<1>2. Sound(P, E, over, Made, listed)
  BY BacksAt
<1>3. /\ P \in [Inos -> Image] /\ E \subseteq Inos \X Labels \X Numbers /\ IsFiniteSet(E)
      /\ P[i].links > 0 /\ i \notin Made
      /\ \A y, z \in E : y[3] = z[3] /\ P[y[3]].mode = "dir" => y = z
      /\ \A k \in Inos \ Made : P[k].mode = "file" => P[k].links = Cardinality(EntIn(E, k))
  <2>1. x[3] = i
    OBVIOUS
  <2> HIDE DEF x, P, E, i
  <2> QED BY <1>1, <1>2, <2>1 DEF Sound, Shaped, Leads, Tree, Linked
<1>4. PICK im \in Image : Unused(im) /\ <<i, im>> \in th[t].log
  BY <1>1 DEF MakerOk
<1>5. /\ pi[i] = [links |-> IF kind = "dir" THEN 2 ELSE 1, mode |-> kind, dead |-> FALSE]
      /\ Entries(i) = {} /\ \A u \in Threads : i \notin th[u].changes
  <2>1. th[t].at = "ready"
    BY DEF Maker
  <2>2. <<i, im>>[1] = i
    OBVIOUS
  <2>3. LeftAs(t, <<i, im>>) = [links |-> IF kind = "dir" THEN 2 ELSE 1, mode |-> kind, dead |-> FALSE]
    BY <2>2 DEF LeftAs
  <2> QED BY <1>1, <1>4, <2>1, <2>2, <2>3 DEF Overtaken
<1>6. P[i] = pi[i]
  <2>1. ASSUME NEW u \in Threads, NEW a \in Image, Says(th[u], i, a) PROVE a = im
    <3>1. <<i, a>> \in th[u].log
      BY <2>1 DEF Says
    <3>2. Undone(Threads)[i] = a /\ Undone(Threads)[i] = im
      <4>1. Shapes /\ pi \in [Inos -> Image]
        BY NowFacts DEF Inv
      <4> QED BY <1>1, <1>4, <3>1, <4>1, UndoneIs
    <3> QED BY <3>2
  <2>2. P[i] # im
    BY <1>3, <1>4 DEF Unused
  <2>3. \A u \in Threads : \A a \in Image : ~Says(th[u], i, a)
    <3> SUFFICES ASSUME \E u \in Threads : \E a \in Image : Says(th[u], i, a) PROVE FALSE
      OBVIOUS
    <3>1. \E u \in Threads : \E a \in Image : Says(th[u], i, a) /\ P[i] = a
      BY <1>1, PiBackAt
    <3> HIDE DEF P, i
    <3> QED BY <2>1, <2>2, <3>1
  <2> QED BY <1>1, <2>3, PiBackAt
<1>7. ASSUME NEW y \in E PROVE y[1] # i
  <2>1. CASE y \in ent
    BY <1>5, <2>1 DEF Entries
  <2>2. CASE \E u \in Threads : Changer(th[u]) /\ y \in th[u].was
    BY <1>5, <2>2 DEF Inv, Callers, ChangerOk
  <2> QED BY <2>1, <2>2, EntBackAt
<1>8. ASSUME NEW y \in E, y[3] = i PROVE y = x
  <2>0. x[3] = i
    OBVIOUS
  <2>1. CASE kind = "dir"
    <3>1. P[i].mode = "dir"
      BY <1>5, <1>6, <2>1
    <3> HIDE DEF x, P, E, i
    <3> QED BY <1>1, <1>3, <1>8, <2>0, <3>1
  <2>2. CASE kind = "file"
    <3>1. P[i].mode = "file" /\ P[i].links = 1
      BY <1>5, <1>6, <2>2
    <3> HIDE DEF x, P, E, i
    <3>2. Cardinality(EntIn(E, i)) = 1 /\ IsFiniteSet(EntIn(E, i))
      BY <1>1, <1>3, <3>1, Counts
    <3>3. PICK z : EntIn(E, i) = {z}
      BY <3>2, FS_Singleton, Zenon
    <3>4. x \in EntIn(E, i) /\ y \in EntIn(E, i)
      BY <1>1, <1>8, <2>0 DEF EntIn
    <3> QED BY <3>3, <3>4
  <2> QED BY <1>1, <2>1, <2>2
<1> QED BY <1>3, <1>5, <1>6, <1>7, <1>8

\* What a mount finds in the table once the transactions are undone.
LEMMA UndoneNew ==
  ASSUME Inv, ~tainted, ~Overtaken, NEW t \in Threads, Maker(th[t])
  PROVE  LET P == PiBack(pi, th, Threads)
             U == Undone(Threads)
             d == th[t].dir
         IN  /\ Unused(U[th[t].ino])
             /\ U[d].mode = P[d].mode /\ (U[d].dead <=> P[d].dead)
             /\ U[d].links = IF P[th[t].ino].mode = "dir" THEN P[d].links - 1 ELSE P[d].links
<1> DEFINE P == PiBack(pi, th, Threads)
           U == Undone(Threads)
           d == th[t].dir
           i == th[t].ino
           kind == th[t].kind
<1>1. MakerOk(t) /\ d \in Inos /\ i \in Inos /\ P[d] = pi[d]
  BY MakerFacts
<1>2. PICK im \in Image, old \in Image :
           /\ Unused(im) /\ th[t].log = {<<i, im>>, <<d, old>>}
           /\ pi[d] = IF kind = "dir" THEN [old EXCEPT !.links = @ + 1] ELSE old
  BY <1>1 DEF MakerOk
<1>3. U[i] = im /\ U[d] = old
  <2>1. Shapes /\ pi \in [Inos -> Image]
    BY NowFacts DEF Inv
  <2>2. <<i, im>> \in th[t].log /\ <<d, old>> \in th[t].log
    BY <1>2
  <2> QED BY <1>1, <2>1, <2>2, UndoneIs
<1>4. P[i].mode = kind
  BY NewFacts
<1>5. /\ old.mode = pi[d].mode /\ (old.dead <=> pi[d].dead)
      /\ old.links = IF kind = "dir" THEN pi[d].links - 1 ELSE pi[d].links
  <2> HIDE DEF d, kind
  <2>1. CASE kind = "dir"
    <3>1. old.links \in Nat /\ old.dead \in BOOLEAN
      BY ImageFields
    <3>2. pi[d] = [old EXCEPT !.links = @ + 1]
      BY <1>2, <2>1
    <3>3. pi[d].links = old.links + 1 /\ pi[d].mode = old.mode /\ pi[d].dead = old.dead
      BY <3>2 DEF Image
    <3> QED BY <2>1, <3>1, <3>3
  <2>2. CASE kind # "dir"
    BY <1>2, <2>2
  <2> QED BY <2>1, <2>2
<1> QED BY <1>1, <1>2, <1>3, <1>4, <1>5

\* An inode that was being made is free.
LEMMA UndoneMade ==
  ASSUME Inv, ~tainted, ~Overtaken, NEW k \in Made
  PROVE  Unused(Undone(Threads)[k]) /\ k \notin listed /\ k \in Inos
<1>1. PICK t \in Making : th[t].ino = k
  BY DEF Made
<1>2. t \in Threads /\ MakingOk(t) /\ k \in Inos /\ k \notin listed
  BY <1>1, MakingFacts
<1>3. PICK im \in Image : Unused(im) /\ <<k, im>> \in th[t].log
  BY <1>1, <1>2 DEF MakingOk
<1>4. Undone(Threads)[k] = im
  <2>1. Shapes /\ pi \in [Inos -> Image]
    BY NowFacts DEF Inv
  <2> QED BY <1>2, <1>3, <2>1, UndoneIs
<1> QED BY <1>2, <1>3, <1>4

\* The other inodes are as they are without the calls that change what was there.
LEMMA UndoneElse ==
  ASSUME Inv, ~tainted, ~Overtaken, NEW k \in Inos, k \notin Made,
         \A t \in Threads : Maker(th[t]) => k # th[t].dir /\ k # th[t].ino
  PROVE  Undone(Threads)[k] = PiBack(pi, th, Threads)[k]
<1>1. Shapes /\ pi \in [Inos -> Image]
  BY NowFacts DEF Inv
<1>2. CASE \E t \in Threads : \E a \in Image : Says(th[t], k, a)
  <2>1. PICK t \in Threads, a \in Image : Says(th[t], k, a) /\ PiBack(pi, th, Threads)[k] = a
    BY <1>2, PiBackAt
  <2>2. <<k, a>> \in th[t].log
    BY <2>1 DEF Says
  <2> QED BY <1>1, <2>1, <2>2, UndoneIs
<1>3. CASE \A t \in Threads : \A a \in Image : ~Says(th[t], k, a)
  <2>1. PiBack(pi, th, Threads)[k] = pi[k]
    BY <1>3, PiBackAt
  <2>2. CASE \A t \in Threads : \A a \in Image : <<k, a>> \notin th[t].log
    BY <1>1, <2>1, <2>2, UndoneIs
  <2>3. CASE \E t \in Threads : \E a \in Image : <<k, a>> \in th[t].log
    <3>1. PICK t \in Threads, a \in Image : <<k, a>> \in th[t].log
      BY <2>3
    <3>2. Changer(th[t]) /\ ChangerOk(th[t]) /\ th[t].at = "ready"
      <4>1. ASSUME NEW im, th[t].log = {<<th[t].ino, im>>} PROVE th[t].ino = k
        BY <3>1, <4>1
      <4>2. ASSUME Maker(th[t]), MakerOk(t) PROVE FALSE
        <5>1. PICK im, old : th[t].log = {<<th[t].ino, im>>, <<th[t].dir, old>>}
          BY <4>2 DEF MakerOk
        <5>2. k = th[t].ino \/ k = th[t].dir
          BY <3>1, <5>1
        <5> QED BY <4>2, <5>2
      <4> QED BY <3>1, <4>1, <4>2, Doing
    <3>3. k \notin th[t].held
      BY <1>3, <3>1, <3>2 DEF Says
    <3> DEFINE x == <<k, a>>
    <3>4. x[1] = k /\ x[2] = a /\ x \in th[t].log
      BY <3>1
    <3> HIDE DEF x
    <3>5. k # Root /\ th[t].ino = Root
      BY <3>2, <3>3, <3>4 DEF ChangerOk
    <3>6. LeftAs(t, x) = a
      BY <3>4, <3>5 DEF LeftAs
    <3>7. pi[k] = a
      BY <3>2, <3>3, <3>4, <3>6 DEF Overtaken
    <3>8. Undone(Threads)[k] = a
      BY <1>1, <3>1, UndoneIs
    <3> QED BY <2>1, <3>7, <3>8
  <2> QED BY <2>2, <2>3
<1> QED BY <1>2, <1>3

\* What a mount finds in the directories: the entries without the calls that change what was
\* there, and without those of new inodes.
LEMMA EntUndone ==
  ASSUME Inv, ~tainted, NEW F,
         F = {e \in ent : e[1] \notin UNION {th[t].changes : t \in Threads}} \cup
             UNION {th[t].was : t \in Threads}
  PROVE  /\ F = EntBack(ent, th, Threads) \ News
         /\ News \subseteq EntBack(ent, th, Threads)
<1> DEFINE E == EntBack(ent, th, Threads)
           new(t) == <<th[t].dir, th[t].name, th[t].ino>>
<1>1. \A x : x \in News <=> \E t \in Threads : Maker(th[t]) /\ x = new(t)
  BY DEF News
<1>2. News \subseteq E
  BY <1>1, MakerFacts
<1>3. \A t \in Threads : Maker(th[t]) =>
        /\ th[t].held = {th[t].dir} /\ th[t].changes = {th[t].dir}
        /\ th[t].was = {x \in ent : x[1] = th[t].dir /\ x # new(t)}
        /\ \A u \in Threads : u # t => th[t].dir \notin th[u].held
        /\ ~Changer(th[t])
  <2> SUFFICES ASSUME NEW t \in Threads, Maker(th[t])
               PROVE  /\ th[t].held = {th[t].dir} /\ th[t].changes = {th[t].dir}
                      /\ th[t].was = {x \in ent : x[1] = th[t].dir /\ x # new(t)}
                      /\ \A u \in Threads : u # t => th[t].dir \notin th[u].held
                      /\ ~Changer(th[t])
    OBVIOUS
  <2>1. MakerOk(t) /\ \A u \in Threads : u # t => th[t].dir \notin th[u].held
    BY MakerFacts
  <2>2. th[t].held = {th[t].dir} /\ th[t].changes = {th[t].dir}
    BY MakerFacts
  <2>3. th[t].was = {x \in ent : x[1] = th[t].dir /\ x # new(t)}
    BY <2>1 DEF MakerOk
  <2>4. ~Changer(th[t])
    BY DEF Maker, Changer
  <2> QED BY <2>1, <2>2, <2>3, <2>4
<1>4. \A t \in Threads : Changer(th[t]) =>
        /\ th[t].changes \subseteq th[t].held /\ \A e \in th[t].was : e[1] \in th[t].changes
        /\ th[t].was \subseteq Inos \X Labels \X Numbers
  BY DEF Inv, Callers, ChangerOk, Shapes
<1>5. \A t \in Threads : Maker(th[t]) \/ Changer(th[t]) \/ (th[t].changes = {} /\ th[t].was = {})
  BY Doing
<1>6. \A t \in Threads : Maker(th[t]) => new(t)[1] = th[t].dir
  OBVIOUS
<1>7. \A e : e \in E <=>
        \/ e \in ent /\ \A t \in Threads : Changer(th[t]) => e[1] \notin th[t].changes
        \/ e \in Inos \X Labels \X Numbers /\ \E t \in Threads : Changer(th[t]) /\ e \in th[t].was
  BY EntBackAt
<1> HIDE DEF E, new
<1>8. \A e : e \in F <=>
        \/ e \in ent /\ \A t \in Threads : e[1] \notin th[t].changes
        \/ \E t \in Threads : e \in th[t].was
  OBVIOUS
<1>9. ASSUME NEW e \in F PROVE e \in E /\ e \notin News
  <2>1. CASE e \in ent /\ \A t \in Threads : e[1] \notin th[t].changes
    BY <1>1, <1>3, <1>6, <1>7, <2>1
  <2>2. CASE \E t \in Threads : e \in th[t].was
    <3>1. PICK t \in Threads : e \in th[t].was
      BY <2>2
    <3>2. CASE Changer(th[t])
      <4>1. e[1] \in th[t].held /\ e \in E
        BY <1>4, <1>7, <3>1, <3>2
      <4> QED BY <1>1, <1>3, <1>6, <3>2, <4>1
    <3>3. CASE Maker(th[t])
      <4>1. e \in ent /\ e[1] = th[t].dir /\ e # new(t)
        BY <1>3, <3>1, <3>3
      <4>2. \A u \in Threads : u # t => e[1] \notin th[u].held
        BY <1>3, <3>3, <4>1
      <4>3. e \in E
        BY <1>3, <1>4, <1>7, <3>3, <4>1, <4>2
      <4>4. \A u \in Threads : Maker(th[u]) /\ e = new(u) => u = t
        BY <1>3, <1>6, <4>2
      <4> QED BY <1>1, <4>1, <4>3, <4>4
    <3> QED BY <1>5, <3>1, <3>2, <3>3
  <2> QED BY <1>8, <2>1, <2>2
<1>10. ASSUME NEW e \in E, e \notin News PROVE e \in F
  <2>1. CASE e \in ent /\ \A t \in Threads : Changer(th[t]) => e[1] \notin th[t].changes
    <3>1. CASE \A t \in Threads : e[1] \notin th[t].changes
      BY <1>8, <2>1, <3>1
    <3>2. CASE \E t \in Threads : e[1] \in th[t].changes
      <4>1. PICK t \in Threads : e[1] \in th[t].changes
        BY <3>2
      <4>2. Maker(th[t])
        BY <1>5, <2>1, <4>1
      <4>3. e[1] = th[t].dir /\ e # new(t)
        BY <1>1, <1>3, <1>10, <4>1, <4>2
      <4> QED BY <1>3, <1>8, <2>1, <4>2, <4>3
    <3> QED BY <3>1, <3>2
  <2>2. CASE \E t \in Threads : Changer(th[t]) /\ e \in th[t].was
    BY <1>8, <2>2
  <2> QED BY <1>7, <2>1, <2>2
<1>11. F \subseteq E \ News /\ E \ News \subseteq F
  BY <1>9, <1>10
<1>12. F = E \ News
  BY <1>11
<1> QED BY <1>2, <1>12 DEF E

\* The entries with all calls taken back, if none is lost.
EntHere ==
  {e \in ent : e[1] \notin UNION {th[t].changes : t \in Threads}} \cup
  UNION {th[t].was : t \in Threads}

\* What a mount finds is sound, if no call has overtaken another.
LEMMA RebootSound ==
  ASSUME Inv, ~tainted, ~Overtaken, Reboot, ent' = EntHere
  PROVE  /\ Sound(pi', ent', over', {}, {})
         /\ \A k \in Made : Unused(pi'[k])
         /\ \A t \in Threads : Maker(th[t]) => Unused(pi'[th[t].ino])
         /\ \A k \in Inos : k \notin Made /\ (\A t \in Threads : Maker(th[t]) =>
              k # th[t].dir /\ k # th[t].ino) /\ Unused(PiBack(pi, th, Threads)[k]) => Unused(pi'[k])
         /\ \A t \in Threads : Maker(th[t]) => pi[th[t].dir].links > 0
<1> DEFINE P == PiBack(pi, th, Threads)
           E == EntBack(ent, th, Threads)
           U == Undone(Threads)
           Q == pi'
<1>1. /\ over' = over
      /\ pi' = [k \in Inos |-> IF k \in listed /\ U[k].links = 0
                               THEN [U[k] EXCEPT !.dead = TRUE] ELSE U[k]]
  BY DEF Reboot
<1>2. ent' = E \ News /\ News \subseteq E
  <2>1. ent' = {e \in ent : e[1] \notin UNION {th[t].changes : t \in Threads}} \cup
               UNION {th[t].was : t \in Threads}
    BY DEF EntHere
  <2> QED BY <2>1, EntUndone
<1>3. U \in [Inos -> Image]
  BY NowFacts, UndoneIs DEF Inv
<1>4. \A k \in Inos :
        IF k \in listed /\ U[k].links = 0
        THEN Q[k].links = 0 /\ Q[k].dead /\ Q[k].mode = U[k].mode
        ELSE Q[k] = U[k]
  <2> SUFFICES ASSUME NEW k \in Inos
               PROVE  IF k \in listed /\ U[k].links = 0
                      THEN Q[k].links = 0 /\ Q[k].dead /\ Q[k].mode = U[k].mode
                      ELSE Q[k] = U[k]
    OBVIOUS
  <2>1. U[k] \in Image
    BY <1>3
  <2>2. [U[k] EXCEPT !.dead = TRUE].links = U[k].links /\ [U[k] EXCEPT !.dead = TRUE].dead
        /\ [U[k] EXCEPT !.dead = TRUE].mode = U[k].mode
    <3> HIDE DEF U
    <3> QED BY <2>1 DEF Image
  <2> HIDE DEF U
  <2> QED BY <1>1, <2>2
<1>5. Q \in [Inos -> Image]
  <2>1. \A k \in Inos : [U[k] EXCEPT !.dead = TRUE] \in Image
    <3> HIDE DEF U
    <3> QED BY <1>3 DEF Image
  <2> HIDE DEF U
  <2> QED BY <1>1, <1>3, <2>1
<1>6. Sound(P, E, over, Made, listed) /\ Made \subseteq Numbers
  BY BacksAt, NowFacts
<1>7. \A k \in Made : Unused(Q[k])
  BY <1>4, UndoneMade
<1>8. \A x : x \in News <=>
        \E t \in Threads : Maker(th[t]) /\ x = <<th[t].dir, th[t].name, th[t].ino>>
  BY DEF News
<1>9. ASSUME NEW x \in News
      PROVE  \E t \in Threads : Maker(th[t]) /\ x = <<th[t].dir, th[t].name, th[t].ino>>
                                /\ x[1] = th[t].dir /\ x[3] = th[t].ino
  BY <1>8
<1>10. \A x, y \in News : x[1] = y[1] => x = y
  <2> SUFFICES ASSUME NEW x \in News, NEW y \in News, x[1] = y[1] PROVE x = y
    OBVIOUS
  <2>1. PICK t \in Threads : Maker(th[t]) /\ x = <<th[t].dir, th[t].name, th[t].ino>> /\ x[1] = th[t].dir
    BY <1>9
  <2>2. PICK u \in Threads : Maker(th[u]) /\ y = <<th[u].dir, th[u].name, th[u].ino>> /\ y[1] = th[u].dir
    BY <1>9
  <2>3. th[t].dir = th[u].dir
    BY <2>1, <2>2
  <2>4. /\ th[u].held = {th[u].dir}
        /\ \A w \in Threads : w # t => th[t].dir \notin th[w].held
    BY <2>1, <2>2, MakerFacts
  <2>5. t = u
    BY <2>3, <2>4
  <2> QED BY <2>1, <2>2, <2>5
<1>11. \A x \in News : \A y \in E : y[1] # x[3] /\ (y[3] = x[3] => y = x)
  <2> SUFFICES ASSUME NEW x \in News, NEW y \in E PROVE y[1] # x[3] /\ (y[3] = x[3] => y = x)
    OBVIOUS
  <2>1. PICK t \in Threads : Maker(th[t]) /\ x = <<th[t].dir, th[t].name, th[t].ino>> /\ x[3] = th[t].ino
    BY <1>9
  <2>2. y[1] # th[t].ino /\ (y[3] = th[t].ino => y = <<th[t].dir, th[t].name, th[t].ino>>)
    BY <2>1, NewFacts
  <2> QED BY <2>1, <2>2
<1>12. \A t \in Threads : Maker(th[t]) =>
         /\ Unused(Q[th[t].ino])
         /\ Q[th[t].dir].mode = P[th[t].dir].mode /\ (Q[th[t].dir].dead <=> P[th[t].dir].dead)
         /\ Q[th[t].dir].links = IF P[th[t].ino].mode = "dir" THEN P[th[t].dir].links - 1
                                 ELSE P[th[t].dir].links
  <2> SUFFICES ASSUME NEW t \in Threads, Maker(th[t])
               PROVE  /\ Unused(Q[th[t].ino])
                      /\ Q[th[t].dir].mode = P[th[t].dir].mode /\ (Q[th[t].dir].dead <=> P[th[t].dir].dead)
                      /\ Q[th[t].dir].links = IF P[th[t].ino].mode = "dir" THEN P[th[t].dir].links - 1
                                              ELSE P[th[t].dir].links
    OBVIOUS
  <2>1. /\ th[t].dir \in Inos /\ th[t].ino \in Inos
        /\ th[t].dir \notin listed /\ th[t].ino \notin listed
    BY MakerFacts
  <2>2. Q[th[t].dir] = U[th[t].dir] /\ Q[th[t].ino] = U[th[t].ino]
    BY <1>4, <2>1
  <2>3. /\ Unused(U[th[t].ino])
        /\ U[th[t].dir].mode = P[th[t].dir].mode /\ (U[th[t].dir].dead <=> P[th[t].dir].dead)
        /\ U[th[t].dir].links = IF P[th[t].ino].mode = "dir" THEN P[th[t].dir].links - 1
                                ELSE P[th[t].dir].links
    BY UndoneNew
  <2> HIDE DEF P, Q, U
  <2> QED BY <2>2, <2>3
<1>13. \A x \in News :
         /\ Unused(Q[x[3]])
         /\ Q[x[1]].mode = P[x[1]].mode /\ Q[x[1]].dead = P[x[1]].dead
         /\ Q[x[1]].links = IF P[x[3]].mode = "dir" THEN P[x[1]].links - 1 ELSE P[x[1]].links
  <2> SUFFICES ASSUME NEW x \in News
               PROVE  /\ Unused(Q[x[3]])
                      /\ Q[x[1]].mode = P[x[1]].mode /\ Q[x[1]].dead = P[x[1]].dead
                      /\ Q[x[1]].links = IF P[x[3]].mode = "dir" THEN P[x[1]].links - 1 ELSE P[x[1]].links
    OBVIOUS
  <2>1. PICK t \in Threads : Maker(th[t]) /\ x[1] = th[t].dir /\ x[3] = th[t].ino
    BY <1>9
  <2>2. /\ Unused(Q[x[3]])
        /\ Q[x[1]].mode = P[x[1]].mode /\ (Q[x[1]].dead <=> P[x[1]].dead)
        /\ Q[x[1]].links = IF P[x[3]].mode = "dir" THEN P[x[1]].links - 1 ELSE P[x[1]].links
    <3> HIDE DEF P, Q
    <3> QED BY <1>12, <2>1
  <2>3. x[1] \in Inos /\ P \in [Inos -> Image]
    BY <1>6, <2>1, MakerFacts DEF Sound, Shaped
  <2>4. Q[x[1]].dead \in BOOLEAN /\ P[x[1]].dead \in BOOLEAN
    <3> HIDE DEF P, Q
    <3> QED BY <1>5, <2>3, TableFields
  <2> HIDE DEF P, Q
  <2> QED BY <2>2, <2>4
<1>14. ASSUME NEW k \in Inos, k \notin Made,
              \A t \in Threads : Maker(th[t]) => k # th[t].dir /\ k # th[t].ino
       PROVE  U[k] = P[k]
  BY <1>14, UndoneElse
<1>15. \A k \in Inos \ Made : (\A x \in News : k # x[1] /\ k # x[3]) =>
            \/ Q[k] = P[k] /\ (k \in listed /\ P[k].links = 0 => P[k].dead)
            \/ P[k].links = 0 /\ Q[k].links = 0 /\ Q[k].dead /\ Q[k].mode = P[k].mode
  <2> SUFFICES ASSUME NEW k \in Inos \ Made, \A x \in News : k # x[1] /\ k # x[3]
               PROVE  \/ Q[k] = P[k] /\ (k \in listed /\ P[k].links = 0 => P[k].dead)
                      \/ P[k].links = 0 /\ Q[k].links = 0 /\ Q[k].dead /\ Q[k].mode = P[k].mode
    OBVIOUS
  <2>1. ASSUME NEW t \in Threads, Maker(th[t]) PROVE k # th[t].dir /\ k # th[t].ino
    <3>1. <<th[t].dir, th[t].name, th[t].ino>> \in News
      BY <1>8, <2>1
    <3>2. <<th[t].dir, th[t].name, th[t].ino>>[1] = th[t].dir
          /\ <<th[t].dir, th[t].name, th[t].ino>>[3] = th[t].ino
      OBVIOUS
    <3> QED BY <3>1, <3>2
  <2>2. U[k] = P[k]
    BY <1>14, <2>1
  <2> HIDE DEF P, U, Q
  <2> QED BY <1>4, <2>2
<1>16. Sound(Q, E \ News, over, {}, {})
  <2> HIDE DEF P, E, Q, U
  <2>1. News \in SUBSET E
    BY <1>2
  <2> QED BY <1>5, <1>6, <1>7, <1>10, <1>11, <1>13, <1>15, <2>1, UndoneSound
<1>17. ASSUME NEW k \in Inos, k \notin Made, Unused(P[k]),
              \A t \in Threads : Maker(th[t]) => k # th[t].dir /\ k # th[t].ino
       PROVE  Unused(Q[k])
  <2>1. U[k] = P[k]
    BY <1>14, <1>17
  <2> HIDE DEF P, U, Q
  <2> QED BY <1>4, <1>17, <2>1 DEF Unused
<1>18. \A t \in Threads : Maker(th[t]) => pi[th[t].dir].links > 0
  BY MakerFacts
<1> QED BY <1>1, <1>2, <1>7, <1>12, <1>16, <1>17, <1>18

\* Some of the numbers up to n, and the others.
LEMMA TheOthers ==
  ASSUME NEW n \in Nat, NEW S, S \subseteq 1..n
  PROVE  Cardinality(S) = n - Cardinality((1..n) \ S) /\ Cardinality(S) \in 0..n
<1> DEFINE R == (1..n) \ S
<1>1. IsFiniteSet(1..n) /\ Cardinality(1..n) = n
  BY FS_Interval
<1>2. /\ IsFiniteSet(S) /\ Cardinality(S) \in 0..n
      /\ IsFiniteSet(R) /\ Cardinality(R) \in 0..n
  <2>1. R \subseteq 1..n
    OBVIOUS
  <2> HIDE DEF R
  <2> QED BY <2>1, FewNumbers
<1>3. S \cup R = 1..n /\ S \cap R = {}
  OBVIOUS
<1> HIDE DEF R
<1>4. Cardinality(S \cup R) = Cardinality(S) + Cardinality(R) - Cardinality(S \cap R)
  BY <1>2, FS_Union, Zenon
<1>5. Cardinality(S \cap R) = 0
  BY <1>3, FS_EmptySet
<1> DEFINE a == Cardinality(S)
           b == Cardinality(R)
<1>6. a \in 0..n /\ b \in 0..n /\ n = a + b
  <2>1. Cardinality(S \cup R) = n
    BY <1>1, <1>3
  <2>2. a \in 0..n /\ b \in 0..n /\ n = a + b - 0
    BY <1>2, <1>4, <1>5, <2>1
  <2> QED BY <2>2
<1> HIDE DEF a, b
<1>7. a = n - b
  BY <1>6
<1> QED BY <1>6, <1>7 DEF a, b, R

\* The mount counts the free inodes.
LEMMA RebootNumbers ==
  ASSUME Inv, Reboot
  PROVE  /\ nfree' \in 0..count' /\ hint' = Start
         /\ Made' = {} /\ Making' = {} /\ Held' = {} /\ NumbersKept'
<1>1. /\ th' = [t \in Threads |-> Idle] /\ hint' = Start /\ count' = count
      /\ nfree' = count - Cardinality({i \in Start..count : ~Unused(pi'[i])})
  BY DEF Reboot, Counted
<1>2. \A t \in Threads : th'[t].at = "idle" /\ th'[t].held = {}
  BY <1>1 DEF Idle
<1>3. Making' = {}
  BY <1>2 DEF Making
<1>4. Made' = {} /\ Held' = {}
  BY <1>2, <1>3 DEF Made, Held
<1>5. Available' = {i \in Start..count : Unused(pi'[i])}
  <2>1. {th'[t].ino : t \in {u \in Threads : th'[u].at \in {"picked", "published"}}} = {}
    BY <1>2
  <2> QED BY <1>1, <1>4, <2>1 DEF Available
<1>6. count \in Nat
  BY NamesAssumption DEF Inv, Shapes
<1> DEFINE S == {i \in Start..count : Unused(pi'[i])}
<1>7. S \subseteq 1..count /\ (1..count) \ S = {i \in Start..count : ~Unused(pi'[i])}
  BY DEF Start
<1>8. nfree' = Cardinality(S) /\ nfree' \in 0..count
  <2> HIDE DEF S
  <2>1. Cardinality(S) = count - Cardinality((1..count) \ S) /\ Cardinality(S) \in 0..count
    BY <1>6, <1>7, TheOthers
  <2> QED BY <1>1, <1>7, <2>1
<1>9. \A i \in Available' : hint' <= i
  BY <1>1, <1>5, <1>6 DEF Start
<1> QED BY <1>1, <1>3, <1>4, <1>5, <1>8, <1>9 DEF NumbersKept

\* Without calls, nothing can be taken back.
LEMMA NothingBack ==
  ASSUME NEW P \in [Inos -> Image], NEW E, NEW H, NEW T, \A t \in T : H[t] = Idle
  PROVE  PiBack(P, H, T) = P /\ EntBack(E, H, T) = E
<1>1. \A t \in T : ~Changer(H[t])
  BY DEF Changer, Idle
<1>2. \A i \in Inos : PiBack(P, H, T)[i] = P[i]
  <2>1. \A t \in T : \A i, a : ~Says(H[t], i, a)
    BY <1>1 DEF Says
  <2> QED BY <2>1, PiBackAt
<1>3. PiBack(P, H, T) \in [Inos -> Image]
  BY PiBackType
<1>4. PiBack(P, H, T) = P
  BY <1>2, <1>3
<1>5. EntBack(E, H, T) = E
  BY <1>1 DEF EntBack
<1> QED BY <1>4, <1>5

\* Directories are where they are.
LEMMA AgreeAll ==
  ASSUME NEW P, NEW E, NEW quiet
  PROVE  Agree(P, E, P, E, quiet)
  BY DEF Agree

\* What a transaction has logged of the size of an inode: it is its new inode, one that is not
\* locked, or one that is locked and as large as it was unless the call adds an entry to it.
SizeOk(t) ==
  /\ th[t].at = "idle" => logged[t] = {}
  /\ \A x \in logged[t] :
       /\ th[t].at # "ready" => x[1] = th[t].ino
       /\ \/ x[1] = th[t].ino /\ th[t].kind # "none"
          \/ x[1] # Root /\ x[1] \notin th[t].held
          \/ x[1] \in th[t].held /\ (x[1] \in th[t].changes \/ x[2] = grown[x[1]])

SizeInv == SizeTypes /\ (~tainted => \A t \in Threads : SizeOk(t))

\* What is undone of the sizes is one that was logged.
LEMMA SizesUndoneIs ==
  ASSUME NEW T, NEW i \in Inos
  PROVE  \/ SizesUndone(T)[i] = grown[i]
         \/ \E t \in T : \E x \in logged[t] : x[1] = i /\ x[2] = SizesUndone(T)[i]
<1>1. CASE Sizes(T, i) = {}
  BY <1>1 DEF SizesUndone
<1>2. CASE Sizes(T, i) # {}
  <2>1. SizesUndone(T)[i] \in Sizes(T, i)
    BY <1>2 DEF SizesUndone
  <2> QED BY <2>1 DEF Sizes
<1> QED BY <1>1, <1>2

\* If no call has overtaken another, no entry is behind the end of its directory.
LEMMA NothingCut ==
  ASSUME Inv, SizeInv, ~tainted, ~Overtaken,
         NEW e \in ent, \A t \in Threads : e[1] \notin th[t].changes
  PROVE  SizesUndone(Threads)[e[1]] = grown[e[1]]
<1> DEFINE d == e[1]
<1>1. d \in Inos /\ d \notin Made
  BY NowFacts
<1>2. SUFFICES ASSUME NEW t \in Threads, NEW x \in logged[t], x[1] = d, x[2] # grown[d]
               PROVE  FALSE
  BY <1>1, SizesUndoneIs
<1>3. SizeOk(t) /\ th[t].at # "idle"
  BY <1>2 DEF SizeInv, SizeOk
<1>4. CASE t \in Making
  <2>1. x[1] = th[t].ino
    BY <1>3, <1>4 DEF SizeOk, Making
  <2> QED BY <1>1, <1>2, <1>4, <2>1 DEF Made
<1>5. CASE Maker(th[t]) /\ MakerOk(t)
  <2>1. th[t].at = "ready" /\ th[t].held = th[t].changes
    BY <1>5 DEF Maker, MakerOk
  <2>2. d \notin th[t].held
    BY <2>1
  <2>3. CASE d = th[t].ino
    <3>1. PICK im : <<d, im>> \in th[t].log
      BY <1>5, <2>3 DEF MakerOk
    <3>2. Entries(d) # {}
      BY DEF Entries
    <3>3. <<d, im>>[1] = d
      OBVIOUS
    <3> HIDE DEF d
    <3> QED BY <2>1, <2>2, <2>3, <3>1, <3>2, <3>3 DEF Overtaken
  <2>4. CASE d # th[t].ino
    BY <1>2, <2>1, <2>2, <2>4 DEF Overtaken
  <2> QED BY <2>3, <2>4
<1>6. CASE Changer(th[t]) /\ ChangerOk(th[t])
  <2>1. th[t].at = "ready" /\ th[t].kind = "none" /\ th[t].ino = Root
    BY <1>6 DEF Changer, ChangerOk
  <2>2. d # Root /\ d \notin th[t].held
    BY <1>2, <1>3, <2>1 DEF SizeOk
  <2> QED BY <1>2, <2>1, <2>2 DEF Overtaken
<1>7. th[t].log # {} \/ th[t].at = "idle" \/ t \in Making \/ Maker(th[t]) \/ Changer(th[t])
  BY DEF Making, Maker, Changer, Inv, Shapes
<1> QED BY <1>3, <1>4, <1>5, <1>6, <1>7, Doing DEF Making, Maker, Changer, Inv, Callers, Shapes

\* A crash and a mount.
LEMMA RebootKeeps ==
  ASSUME Inv, SizeInv, Reboot
  PROVE  Inv'
<1>1. /\ th' = [t \in Threads |-> Idle] /\ hint' = Start /\ count' = count /\ over' = over
      /\ calls' = calls /\ listed' = {} /\ boots < MaxBoot /\ boots' = boots + 1 /\ ~tainted
      /\ (tainted' <=> Overtaken) /\ tainted' \in BOOLEAN
  <2>1. tainted' = Overtaken
    BY DEF Reboot
  <2>2. Overtaken \in BOOLEAN
    BY DEF Overtaken
  <2> QED BY <2>1, <2>2 DEF Reboot
<1>2. ~tainted
  BY <1>1
<1>3. /\ nfree' \in 0..count'
      /\ Made' = {} /\ Making' = {} /\ Held' = {} /\ NumbersKept'
  BY RebootNumbers
<1>4. \A t \in Threads : th'[t] = Idle
  BY <1>1
<1>5. Shapes'
  <2>1. Idle \in Calling
    BY Inodes DEF Idle, Calling, Modes
  <2>2. th' \in [Threads -> Calling]
    BY <1>1, <2>1
  <2>3. listed' \subseteq Inos /\ over' \subseteq Inos /\ count' \in Count0..MaxCount
        /\ calls' \in 0..MaxCalls /\ boots' \in 0..MaxBoot /\ hint' \in Start..count' + 1
    <3>1. /\ over \subseteq Inos /\ count \in Count0..MaxCount
          /\ calls \in 0..MaxCalls /\ boots \in 0..MaxBoot
      BY DEF Inv, Shapes
    <3> QED BY <1>1, <3>1, NamesAssumption DEF Start
  <2> QED BY <2>2, <2>3 DEF Shapes, Calling
<1>6. pi' \in [Inos -> Image] /\ ent' \subseteq Inos \X Labels \X Numbers
  <2>1. pi \in [Inos -> Image] /\ ent \subseteq Inos \X Labels \X Numbers
    BY <1>2, NowFacts
  <2>2. Undone(Threads) \in [Inos -> Image]
    BY <2>1, UndoneIs DEF Inv
  <2>3. pi' = [k \in Inos |-> IF k \in listed /\ Undone(Threads)[k].links = 0
                              THEN [Undone(Threads)[k] EXCEPT !.dead = TRUE] ELSE Undone(Threads)[k]]
    BY DEF Reboot
  <2>4. \A im \in Image : [im EXCEPT !.dead = TRUE] \in Image
    BY DEF Image
  <2>5. pi' \in [Inos -> Image]
    <3> DEFINE U == Undone(Threads)
    <3> HIDE DEF U
    <3>1. \A k \in Inos : U[k] \in Image /\ [U[k] EXCEPT !.dead = TRUE] \in Image
      BY <2>2, <2>4 DEF U
    <3> QED BY <2>3, <3>1 DEF U
  <2>6. ent' \subseteq EntBack(ent, th, Threads)
    <3>1. EntHere = EntBack(ent, th, Threads) \ News
      BY <1>2, EntUndone DEF EntHere
    <3>2. ent' \subseteq EntHere
      <4> DEFINE kept == {e \in ent : e[1] \notin UNION {th[t].changes : t \in Threads}}
                 was == UNION {th[t].was : t \in Threads}
                 cut == {e \in kept : SizesUndone(Threads)[e[1]] < grown[e[1]]}
      <4>1. \E lost \in SUBSET cut : ent' = (kept \ lost) \cup was
        BY DEF Reboot
      <4>2. EntHere = kept \cup was
        BY DEF EntHere
      <4> HIDE DEF kept, was, cut
      <4> QED BY <4>1, <4>2
    <3> QED BY <3>1, <3>2
  <2>7. EntBack(ent, th, Threads) \subseteq Inos \X Labels \X Numbers
    BY <2>1 DEF EntBack
  <2> QED BY <2>5, <2>6, <2>7
<1>7. TreeTypes'
  BY <1>1, <1>3, <1>5, <1>6, TypesKept
<1>8. CASE tainted'
  BY <1>5, <1>7, <1>8 DEF Inv
<1>9. CASE ~tainted'
  <2>1. ~Overtaken
    BY <1>1, <1>9
  <2>7. ent' = EntHere
    <3> DEFINE kept == {e \in ent : e[1] \notin UNION {th[t].changes : t \in Threads}}
               was == UNION {th[t].was : t \in Threads}
               cut == {e \in kept : SizesUndone(Threads)[e[1]] < grown[e[1]]}
    <3>1. \E lost \in SUBSET cut : ent' = (kept \ lost) \cup was
      BY DEF Reboot
    <3>2. EntHere = kept \cup was
      BY DEF EntHere
    <3>3. ASSUME NEW e \in cut PROVE FALSE
      <4>1. /\ e \in ent /\ \A t \in Threads : e[1] \notin th[t].changes
            /\ SizesUndone(Threads)[e[1]] < grown[e[1]]
        BY <3>3
      <4>2. SizesUndone(Threads)[e[1]] = grown[e[1]]
        BY <1>2, <2>1, <4>1, NothingCut
      <4>3. e[1] \in Inos
        BY <1>2, <4>1, NowFacts
      <4>4. grown[e[1]] \in 0..MaxGrown
        BY <4>3 DEF SizeInv, SizeTypes
      <4> QED BY <4>1, <4>2, <4>4
    <3>4. cut = {}
      BY <3>3
    <3> HIDE DEF kept, was, cut
    <3> QED BY <3>1, <3>2, <3>4
  <2>2. Backs'
    <3>1. Sound(pi', ent', over', {}, {})
      BY <1>2, <2>1, <2>7, RebootSound
    <3> SUFFICES ASSUME NEW T \in SUBSET Threads
                 PROVE  /\ Sound(PiBack(pi', th', T), EntBack(ent', th', T), over', Made', listed')
                        /\ Agree(pi', ent', PiBack(pi', th', T), EntBack(ent', th', T), NoMove(th', T))
      BY DEF Backs
    <3>2. PiBack(pi', th', T) = pi' /\ EntBack(ent', th', T) = ent'
      BY <1>4, <1>6, NothingBack
    <3>3. Agree(pi', ent', pi', ent', NoMove(th', T))
      BY AgreeAll
    <3> QED BY <1>1, <1>3, <3>1, <3>2, <3>3
  <2>3. Locks'
    BY <1>4 DEF Locks, Idle
  <2>4. Callers'
    BY <1>3, <1>4 DEF Callers, Maker, Changer, Idle
  <2>5. Apart' /\ ListedOk'
    BY <1>1, <1>3 DEF Apart, ListedOk
  <2>6. Beyond'
    <3> SUFFICES ASSUME NEW k \in Numbers, k > count PROVE Unused(pi'[k])
      BY <1>1 DEF Beyond
    <3>1. Unused(pi[k]) /\ k \in Inos
      BY <1>2, Inodes DEF Inv, Beyond
    <3>2. /\ \A i \in Made : Unused(pi'[i])
          /\ \A t \in Threads : Maker(th[t]) => Unused(pi'[th[t].ino])
          /\ \A i \in Inos : i \notin Made /\ (\A t \in Threads : Maker(th[t]) =>
               i # th[t].dir /\ i # th[t].ino) /\ Unused(PiBack(pi, th, Threads)[i]) => Unused(pi'[i])
          /\ \A t \in Threads : Maker(th[t]) => pi[th[t].dir].links > 0
      BY <1>2, <2>1, <2>7, RebootSound
    <3>3. PiBack(pi, th, Threads)[k] = pi[k]
      <4>1. \A t \in Threads : k \notin th[t].held
        BY <1>2, <3>1 DEF Inv, Locks, Unused
      <4>2. \A t \in Threads : \A a \in Image : ~Says(th[t], k, a)
        BY <4>1 DEF Says
      <4> QED BY <3>1, <4>2, PiBackAt
    <3>4. pi[k].links = 0
      BY <3>1 DEF Unused
    <3> QED BY <3>1, <3>2, <3>3, <3>4
  <2> QED BY <1>3, <1>5, <1>7, <2>2, <2>3, <2>4, <2>5, <2>6 DEF Inv
<1> QED BY <1>8, <1>9

-----------------------------------------------------------------------------
(* The theorems.                                                                            *)

\* A new volume.
LEMMA InitHolds ==
  ASSUME Init
  PROVE  Inv
<1>1. /\ pi = [i \in Inos |-> IF i = Root THEN [links |-> 2, mode |-> "dir", dead |-> FALSE]
                              ELSE [links |-> 0, mode |-> "none", dead |-> FALSE]]
      /\ ent = {} /\ listed = {}
      /\ count = Count0 /\ nfree = Count0 /\ hint = Start
      /\ th = [t \in Threads |-> Idle]
      /\ over = {} /\ calls = 0 /\ boots = 0 /\ tainted = FALSE
  BY DEF Init
<1>2. \A t \in Threads : th[t] = Idle
  BY <1>1
<1>3. Making = {}
  BY <1>2 DEF Making, Idle
<1>4. Made = {}
  BY <1>3 DEF Made
<1>5. /\ pi[Root] = [links |-> 2, mode |-> "dir", dead |-> FALSE]
      /\ \A i \in Numbers : pi[i] = [links |-> 0, mode |-> "none", dead |-> FALSE]
  BY <1>1, Inodes
<1>6. pi \in [Inos -> Image]
  BY <1>1 DEF Image, Modes
<1>7. Shapes
  <2>1. Idle \in Calling
    BY Inodes DEF Idle, Calling, Modes
  <2>2. th \in [Threads -> Calling]
    BY <1>1, <2>1
  <2>3. listed \subseteq Inos /\ over \subseteq Inos /\ count \in Count0..MaxCount
        /\ calls \in 0..MaxCalls /\ boots \in 0..MaxBoot /\ hint \in Start..count + 1
    BY <1>1, NamesAssumption DEF Start
  <2> QED BY <2>2, <2>3 DEF Shapes, Calling
<1>8. TreeTypes
  <2>1. \A t \in Threads :
       /\ th[t].at \in {"idle", "picked", "published", "aborting", "ready"}
       /\ th[t].kind \in Modes /\ th[t].name \in Labels \cup {NoLabel}
       /\ {th[t].dir, th[t].ino} \cup th[t].held \cup th[t].changes \subseteq Inos
       /\ th[t].log \subseteq Inos \X Image /\ th[t].was \subseteq Inos \X Labels \X Inos
    BY <1>7, Inodes DEF Shapes
  <2>2. nfree \in 0..count
    BY <1>1, NamesAssumption
  <2> QED BY <1>1, <1>6, <1>7, <2>1, <2>2 DEF TreeTypes, Shapes
<1>9. Sound(pi, ent, over, Made, listed)
  <2>1. \A i : EntIn(ent, i) = {} /\ SubdirsIn(pi, ent, i) = {}
    BY <1>1 DEF EntIn, SubdirsIn
  <2>2. Shaped(pi, ent)
    BY <1>1, <1>5, <1>6, FS_EmptySet DEF Shaped
  <2>3. Leads(pi, ent, Made) /\ Tree(pi, ent)
    BY <1>1 DEF Leads, Tree
  <2>4. Named(pi, ent, over, Made) /\ Waits(pi, Made, listed)
    BY <1>5 DEF Named, Waits, Unused
  <2>5. Linked(pi, ent, over, Made)
    <3>1. Cardinality({}) = 0
      BY FS_EmptySet
    <3>2. \A i \in Inos : pi[i].mode # "file" /\ (IsDirIn(pi, ent, i) => i = Root)
      BY <1>5, Inodes DEF IsDirIn
    <3>3. Root \notin over
      BY <1>1
    <3>4. pi[Root].links = 2 + 0
      BY <1>5
    <3> QED BY <2>1, <3>1, <3>2, <3>3, <3>4 DEF Linked
  <2> QED BY <2>2, <2>3, <2>4, <2>5 DEF Sound
<1>10. Backs
  <2> SUFFICES ASSUME NEW T \in SUBSET Threads
               PROVE  /\ Sound(PiBack(pi, th, T), EntBack(ent, th, T), over, Made, listed)
                      /\ Agree(pi, ent, PiBack(pi, th, T), EntBack(ent, th, T), NoMove(th, T))
    BY DEF Backs
  <2>1. PiBack(pi, th, T) = pi /\ EntBack(ent, th, T) = ent
    BY <1>2, <1>6, NothingBack
  <2> QED BY <1>9, <2>1, AgreeAll
<1>11. Locks /\ Callers
  <2>1. Locks
    BY <1>2 DEF Locks, Idle
  <2>2. Callers
    BY <1>2, <1>3 DEF Callers, Maker, Changer, Idle
  <2> QED BY <2>1, <2>2
<1>12. Apart /\ ListedOk /\ Beyond
  <2>1. Apart /\ ListedOk
    BY <1>1, <1>3 DEF Apart, ListedOk
  <2>2. \A i \in Numbers : Unused(pi[i])
    BY <1>5 DEF Unused
  <2> QED BY <2>1, <2>2 DEF Beyond
<1>13. NumbersKept
  <2>1. Available = 1..Count0
    <3>1. {th[t].ino : t \in {u \in Threads : th[u].at \in {"picked", "published"}}} = {}
      BY <1>2 DEF Idle
    <3>2. \A i \in Start..count : Unused(pi[i])
      <4>1. \A i \in Start..count : i \in Numbers
        BY <1>1, NamesAssumption DEF Start, Numbers
      <4> QED BY <1>5, <4>1 DEF Unused
    <3>3. Available = Start..count
      BY <3>1, <3>2 DEF Available
    <3> QED BY <1>1, <3>3 DEF Start
  <2>2. Cardinality(1..Count0) = Count0
    BY NamesAssumption, FS_Interval
  <2>3. \A i \in 1..Count0 : hint <= i
    BY <1>1, NamesAssumption DEF Start
  <2> QED BY <1>1, <2>1, <2>2, <2>3 DEF NumbersKept
<1> QED BY <1>7, <1>8, <1>10, <1>11, <1>12, <1>13 DEF Inv

\* Every step keeps the invariant.
LEMMA NextKeeps ==
  ASSUME Inv, SizeInv, [Next]_vars
  PROVE  Inv'
<1>1. CASE UNCHANGED vars
  <2>1. /\ pi' = pi /\ ent' = ent /\ listed' = listed /\ count' = count /\ nfree' = nfree
        /\ hint' = hint /\ th' = th /\ over' = over /\ calls' = calls /\ boots' = boots
        /\ tainted' = tainted
    BY <1>1 DEF vars
  <2>2. Making' = Making
    BY <2>1 DEF Making
  <2>3. Made' = Made
    BY <2>1, <2>2 DEF Made
  <2>4. Shapes' /\ TreeTypes'
    BY <2>1 DEF Inv, Shapes, TreeTypes
  <2>5. CASE tainted
    BY <2>1, <2>4, <2>5 DEF Inv
  <2>6. CASE ~tainted
    <3>1. Backs' /\ ListedOk' /\ Beyond' /\ Apart'
      BY <2>1, <2>2, <2>3, <2>6 DEF Inv, Backs, ListedOk, Beyond, Apart
    <3>2. Locks'
      BY <2>1, <2>3, <2>6 DEF Inv, Locks
    <3>3. Callers'
      <4>1. \A t \in Threads : MakingOk(t)' <=> MakingOk(t)
        BY <2>1 DEF MakingOk
      <4>2. \A t \in Threads : MakerOk(t)' <=> MakerOk(t)
        BY <2>1 DEF MakerOk
      <4> QED BY <2>1, <2>2, <2>6, <4>1, <4>2 DEF Inv, Callers
    <3>4. Available' = Available
      BY <2>1, <2>3 DEF Available
    <3>5. NumbersKept'
      BY <2>1, <2>6, <3>4 DEF Inv, NumbersKept
    <3> QED BY <2>4, <3>1, <3>2, <3>3, <3>5 DEF Inv
  <2> QED BY <2>5, <2>6
<1>2. ASSUME NEW t \in Threads, NEW kind \in {"file", "dir"}, NEW d \in Inos, NEW n \in Labels,
             Pick(t, kind, d, n)
      PROVE  Inv'
  BY <1>2, PickKeeps
<1>3. ASSUME NEW t \in Threads,
             Publish(t) \/ Enter(t) \/ EnterFails(t) \/ Abort(t) \/ Commit(t)
      PROVE  Inv'
  BY <1>3, PublishKeeps, EnterKeeps, EnterFailsKeeps, AbortKeeps, CommitKeeps
<1>4. ASSUME NEW t \in Threads, NEW i \in Inos, NEW d \in Inos, NEW n \in Labels, Link(t, i, d, n)
      PROVE  Inv'
  BY <1>4, LinkKeeps
<1>5. ASSUME NEW t \in Threads, NEW e \in ent, Unlink(t, e) \/ Rmdir(t, e)
      PROVE  Inv'
  BY <1>5, UnlinkKeeps, RmdirKeeps
<1>6. ASSUME NEW t \in Threads, NEW e \in ent, NEW d \in Inos, NEW n \in Labels, RenameNew(t, e, d, n)
      PROVE  Inv'
  BY <1>6, RenameNewKeeps
<1>7. ASSUME NEW t \in Threads, NEW e \in ent, NEW x \in ent, RenameOver(t, e, x)
      PROVE  Inv'
  BY <1>7, RenameOverKeeps
<1>8. ASSUME NEW i \in Inos, Evict(i) PROVE Inv'
  BY <1>8, EvictKeeps
<1>9. CASE Reboot
  BY <1>9, RebootKeeps
<1> QED BY <1>1, <1>2, <1>3, <1>4, <1>5, <1>6, <1>7, <1>8, <1>9 DEF Next

\* The sizes that a call logs, and what it does to them.
LEMMA CallSizes ==
  ASSUME Inv, SizeInv, ~tainted, NEW t \in Threads, th[t].at = "idle",
         NEW L, NEW S, NEW D, NEW A \in SUBSET Inos,
         th' = [th EXCEPT ![t] = Log(L, S, D)], L \cap Held = {},
         LogSizes(t, A), \A i \in A : i \in L \/ i # Root,
         grown' \in [Inos -> 0..MaxGrown],
         \A i \in Inos : grown'[i] # grown[i] => i \in D /\ i \in L
  PROVE  SizeInv'
<1>1. /\ th'[t].held = L /\ th'[t].ino = Root /\ th'[t].changes = D /\ th'[t].at = "ready"
      /\ \A u \in Threads : u # t => th'[u] = th[u]
  <2>1. th \in [Threads -> Calling]
    BY DEF Inv, Shapes, Calling
  <2> QED BY <2>1, LogFields
<1>2. /\ logged \in [Threads -> SUBSET (Inos \X (0..MaxGrown))]
      /\ grown \in [Inos -> 0..MaxGrown]
      /\ logged[t] = {}
  BY DEF SizeInv, SizeTypes, SizeOk
<1>3. {<<i, grown[i]>> : i \in A} \in SUBSET (Inos \X (0..MaxGrown))
  BY <1>2
<1>4. /\ logged' \in [Threads -> SUBSET (Inos \X (0..MaxGrown))]
      /\ logged'[t] = {<<i, grown[i]>> : i \in A}
      /\ \A u \in Threads : u # t => logged'[u] = logged[u]
  BY <1>2, <1>3 DEF LogSizes
<1>5. SizeTypes'
  BY <1>4 DEF SizeTypes
<1>6. SizeOk(t)'
  <2> SUFFICES ASSUME NEW x \in logged'[t]
               PROVE  \/ x[1] # Root /\ x[1] \notin L
                      \/ x[1] \in L /\ (x[1] \in D \/ x[2] = grown'[x[1]])
    BY <1>1 DEF SizeOk
  <2>1. PICK i \in A : x = <<i, grown[i]>>
    BY <1>4
  <2>2. x[1] = i /\ x[2] = grown[i] /\ i \in Inos
    BY <2>1
  <2> QED BY <2>2
<1>7. ASSUME NEW u \in Threads, u # t PROVE SizeOk(u)'
  <2>1. SizeOk(u)
    BY DEF SizeInv
  <2>2. th'[u] = th[u] /\ logged'[u] = logged[u] /\ logged[u] \subseteq Inos \X (0..MaxGrown)
    BY <1>1, <1>2, <1>4, <1>7
  <2>3. \A i \in th[u].held : i \in Inos => grown'[i] = grown[i]
    BY DEF Held
  <2>4. \A x \in logged[u] : x[1] \in Inos
    BY <2>2
  <2> QED BY <2>1, <2>2, <2>3, <2>4 DEF SizeOk
<1> QED BY <1>5, <1>6, <1>7 DEF SizeInv

\* A directory that may grow.
LEMMA MayGrowAt ==
  ASSUME SizeInv, NEW d \in Inos, MayGrow(d)
  PROVE  grown' \in [Inos -> 0..MaxGrown] /\ \A i \in Inos : i # d => grown'[i] = grown[i]
<1>1. grown \in [Inos -> 0..MaxGrown] /\ MaxGrown \in Nat
  BY NamesAssumption DEF SizeInv, SizeTypes
<1> QED BY <1>1 DEF MayGrow

\* A step of a thread that makes an inode, or the end of its call.
LEMMA ThreadSizes ==
  ASSUME Inv, SizeInv, NEW t \in Threads, SizeTypes', SizeOk(t)',
         \A u \in Threads : u # t => th'[u] = th[u] /\ logged'[u] = logged[u],
         \A u \in Threads : u # t => \A i \in th[u].held : i \in Inos => grown'[i] = grown[i],
         ~tainted
  PROVE  SizeInv'
<1>1. ASSUME NEW u \in Threads, u # t PROVE SizeOk(u)'
  <2>1. SizeOk(u)
    BY DEF SizeInv
  <2>2. th'[u] = th[u] /\ logged'[u] = logged[u] /\ logged[u] \subseteq Inos \X (0..MaxGrown)
    BY <1>1 DEF SizeInv, SizeTypes
  <2>3. \A x \in logged[u] : x[1] \in Inos
    BY <2>2
  <2> QED BY <1>1, <2>1, <2>2, <2>3 DEF SizeOk
<1> QED BY <1>1 DEF SizeInv

\* Every step keeps what is known of the sizes.
LEMMA SizesKeep ==
  ASSUME Inv, SizeInv, [Next]_vars
  PROVE  SizeInv'
<1>1. CASE UNCHANGED vars
  <2>1. th' = th /\ grown' = grown /\ logged' = logged /\ tainted' = tainted
    BY <1>1 DEF vars
  <2>2. \A t \in Threads : SizeOk(t)' <=> SizeOk(t)
    BY <2>1 DEF SizeOk
  <2> QED BY <2>1, <2>2 DEF SizeInv, SizeTypes
<1>2. CASE Next
  <2>1. ~tainted
    <3>1. ASSUME NEW t, NEW S, Call(t, S) PROVE ~tainted
      BY <3>1 DEF Call
    <3>2. \A t, kind, d, n : Pick(t, kind, d, n) => ~tainted
      BY <3>1 DEF Pick
    <3>3. \A t : Publish(t) \/ Enter(t) \/ EnterFails(t) \/ Abort(t) \/ Commit(t) => ~tainted
      BY DEF Publish, Enter, EnterFails, Abort, Commit
    <3>4. \A t, i, d, n : Link(t, i, d, n) => ~tainted
      BY <3>1 DEF Link
    <3>5. \A t, e : Unlink(t, e) \/ Rmdir(t, e) => ~tainted
      BY <3>1 DEF Unlink, Rmdir
    <3>6. \A t, e, d, n : RenameNew(t, e, d, n) => ~tainted
      BY <3>1 DEF RenameNew
    <3>7. \A t, e, x : RenameOver(t, e, x) => ~tainted
      BY <3>1 DEF RenameOver
    <3>8. \A i : Evict(i) => ~tainted
      BY DEF Evict
    <3>9. Reboot => ~tainted
      BY DEF Reboot
    <3> QED BY <1>2, <3>2, <3>3, <3>4, <3>5, <3>6, <3>7, <3>8, <3>9 DEF Next
  <2>2. /\ logged \in [Threads -> SUBSET (Inos \X (0..MaxGrown))]
        /\ grown \in [Inos -> 0..MaxGrown] /\ 0 \in 0..MaxGrown
        /\ th \in [Threads -> Calling]
    BY NamesAssumption DEF SizeInv, SizeTypes, Inv, Shapes, Calling
  <2>3. ASSUME NEW t \in Threads, NEW A \in SUBSET Inos, LogSizes(t, A)
        PROVE  /\ logged' \in [Threads -> SUBSET (Inos \X (0..MaxGrown))]
               /\ logged'[t] = logged[t] \cup {<<i, grown[i]>> : i \in A}
               /\ \A u \in Threads : u # t => logged'[u] = logged[u]
    <3>1. logged[t] \cup {<<i, grown[i]>> : i \in A} \in SUBSET (Inos \X (0..MaxGrown))
      BY <2>2
    <3> QED BY <2>2, <2>3, <3>1 DEF LogSizes
  <2>4. ASSUME NEW t \in Threads, NEW kind \in {"file", "dir"}, NEW d \in Inos, NEW n \in Labels,
               Pick(t, kind, d, n)
        PROVE  SizeInv'
    <3>1. PICK i \in Inos : /\ LogSizes(t, {i}) /\ grown' = grown /\ th[t].at = "idle"
                            /\ th'[t].at = "picked" /\ th'[t].ino = i /\ th'[t].kind = kind
                            /\ \A u \in Threads : u # t => th'[u] = th[u]
      <4>1. PICK i, im : /\ LogSizes(t, {i})
                         /\ th' = [th EXCEPT ![t] =
                              [Idle EXCEPT !.at = "picked", !.kind = kind, !.dir = d, !.name = n,
                                           !.ino = i, !.held = {d}, !.log = im]]
        <5> DEFINE first == {k \in Free : k >= hint}
                   grows == first = {} /\ count + PerBlock <= MaxCount
                   new == IF grows THEN count + 1 ELSE Least(first)
                   im == {<<new, pi[new]>>}
        <5>1. /\ LogSizes(t, {new})
              /\ th' = [th EXCEPT ![t] =
                   [Idle EXCEPT !.at = "picked", !.kind = kind, !.dir = d, !.name = n,
                                !.ino = new, !.held = {d}, !.log = im]]
          BY <2>4 DEF Pick
        <5> HIDE DEF new, im
        <5> WITNESS new, im
        <5> QED BY <5>1
      <4>2. /\ th'[t].at = "picked" /\ th'[t].ino = i /\ th'[t].kind = kind
            /\ \A u \in Threads : u # t => th'[u] = th[u]
        BY <2>2, <4>1 DEF Idle
      <4>3. PICK j \in Inos, size \in Nat : Finds(t, kind, d, n, j, size)
        BY <2>4, PickFinds
      <4>4. th'[t].ino = j
        BY <2>2, <4>3 DEF Finds, Idle
      <4>5. grown' = grown /\ th[t].at = "idle"
        BY <2>4 DEF Pick, Call
      <4> QED BY <4>1, <4>2, <4>4, <4>5
    <3>2. logged[t] = {}
      BY <2>1, <3>1 DEF SizeInv, SizeOk
    <3>3. /\ SizeTypes' /\ logged'[t] = {<<i, grown[i]>>}
          /\ \A u \in Threads : u # t => logged'[u] = logged[u]
      BY <2>2, <2>3, <3>1, <3>2 DEF SizeTypes
    <3>4. SizeOk(t)'
      BY <3>1, <3>3 DEF SizeOk
    <3> QED BY <2>1, <3>1, <3>3, <3>4, ThreadSizes
  <2>5. ASSUME NEW t \in Threads, Publish(t) \/ EnterFails(t) PROVE SizeInv'
    <3>1. /\ grown' = grown /\ logged' = logged /\ th'[t].at \in {"published", "aborting"}
          /\ th[t].at # "ready" /\ th[t].at # "idle"
          /\ th'[t].ino = th[t].ino /\ th'[t].kind = th[t].kind /\ th'[t].held = th[t].held
          /\ th'[t].changes = th[t].changes /\ \A u \in Threads : u # t => th'[u] = th[u]
      BY <2>2, <2>5 DEF Publish, EnterFails, sizeVars, Calling
    <3>2. SizeOk(t)
      BY <2>1 DEF SizeInv
    <3>3. SizeTypes' /\ SizeOk(t)'
      BY <2>2, <3>1, <3>2 DEF SizeOk, SizeTypes
    <3> QED BY <2>1, <3>1, <3>3, ThreadSizes
  <2>6. ASSUME NEW t \in Threads, Enter(t) PROVE SizeInv'
    <3> DEFINE d == th[t].dir
    <3>1. /\ LogSizes(t, {d}) /\ MayGrow(d) /\ th[t].at = "published" /\ t \in Making
          /\ th'[t].at = "ready" /\ th'[t].ino = th[t].ino /\ th'[t].kind = th[t].kind
          /\ th'[t].held = th[t].held /\ th'[t].changes = {d}
          /\ \A u \in Threads : u # t => th'[u] = th[u]
      BY <2>2, <2>6 DEF Enter, Making, Calling
    <3>2. d \in Inos /\ th[t].held = {d} /\ th[t].kind # "none"
      BY <2>1, <3>1, MakingFacts DEF MakingOk
    <3>3. /\ SizeTypes' /\ logged'[t] = logged[t] \cup {<<d, grown[d]>>}
          /\ \A u \in Threads : u # t => logged'[u] = logged[u]
          /\ \A i \in Inos : i # d => grown'[i] = grown[i]
      BY <2>2, <2>3, <3>1, <3>2, MayGrowAt DEF SizeTypes
    <3>4. \A x \in logged[t] : x[1] = th[t].ino
      BY <2>1, <3>1 DEF SizeInv, SizeOk
    <3>5. SizeOk(t)'
      <4>1. \A x \in logged'[t] : x[1] = th[t].ino \/ x[1] = d
        BY <3>3, <3>4
      <4> HIDE DEF d
      <4> QED BY <3>1, <3>2, <4>1 DEF SizeOk
    <3>6. \A u \in Threads : u # t => \A i \in th[u].held : i \in Inos => grown'[i] = grown[i]
      BY <2>1, <3>2, <3>3 DEF Inv, Locks
    <3> QED BY <2>1, <3>1, <3>3, <3>5, <3>6, ThreadSizes
  <2>7. ASSUME NEW t \in Threads, Abort(t) \/ Commit(t) PROVE SizeInv'
    <3>1. /\ logged' = [logged EXCEPT ![t] = {}] /\ th' = [th EXCEPT ![t] = Idle]
      BY <2>7 DEF Abort, Commit
    <3>2. /\ grown' \in [Inos -> 0..MaxGrown]
          /\ \A u \in Threads : u # t => \A i \in th[u].held : i \in Inos => grown'[i] = grown[i]
      <4>1. CASE Commit(t)
        BY <2>2, <4>1 DEF Commit
      <4>2. CASE Abort(t)
        <5>1. grown' = SizesUndone({t}) /\ t \in Making /\ th[t].at = "aborting"
          BY <4>2 DEF Abort, Making
        <5>2. \A x \in logged[t] : x[1] = th[t].ino /\ x[2] \in 0..MaxGrown
          <6>1. \A x \in logged[t] : x[1] = th[t].ino
            BY <2>1, <5>1 DEF SizeInv, SizeOk
          <6>2. logged[t] \subseteq Inos \X (0..MaxGrown)
            BY <2>2
          <6> QED BY <6>1, <6>2
        <5>3. \A i \in Inos : SizesUndone({t})[i] = grown[i] \/
                               (i = th[t].ino /\ SizesUndone({t})[i] \in 0..MaxGrown)
          BY <5>2, SizesUndoneIs
        <5>4. SizesUndone({t}) = [i \in Inos |-> SizesUndone({t})[i]]
          BY DEF SizesUndone
        <5>5. SizesUndone({t}) \in [Inos -> 0..MaxGrown]
          BY <2>2, <5>3, <5>4
        <5>6. th[t].ino \notin Held
          BY <2>1, <5>1, MakingFacts
        <5> QED BY <5>1, <5>3, <5>5, <5>6 DEF Held
      <4> QED BY <2>7, <4>1, <4>2
    <3>3. SizeTypes' /\ logged'[t] = {} /\ \A u \in Threads : u # t => logged'[u] = logged[u]
      BY <2>2, <3>1, <3>2 DEF SizeTypes
    <3>4. SizeOk(t)' /\ \A u \in Threads : u # t => th'[u] = th[u]
      BY <2>2, <3>1, <3>3 DEF SizeOk
    <3> QED BY <2>1, <3>2, <3>3, <3>4, ThreadSizes
  <2>8. ASSUME NEW t \in Threads, NEW i \in Inos, NEW d \in Inos, NEW n \in Labels, Link(t, i, d, n)
        PROVE  SizeInv'
    <3>1. /\ th' = [th EXCEPT ![t] = Log({i, d}, {i}, {d})] /\ th[t].at = "idle"
          /\ {i, d} \cap Held = {} /\ LogSizes(t, {i, d}) /\ MayGrow(d)
      BY <2>8 DEF Link, Call
    <3>2. /\ grown' \in [Inos -> 0..MaxGrown]
          /\ \A k \in Inos : grown'[k] # grown[k] => k \in {d} /\ k \in {i, d}
      BY <3>1, MayGrowAt
    <3>3. {i, d} \in SUBSET Inos
      OBVIOUS
    <3> DEFINE A == {i, d}
    <3> HIDE DEF A
    <3>4. /\ th' = [th EXCEPT ![t] = Log(A, {i}, {d})] /\ A \cap Held = {} /\ LogSizes(t, A)
          /\ A \in SUBSET Inos /\ \A k \in Inos : grown'[k] # grown[k] => k \in {d} /\ k \in A
      BY <3>1, <3>2, <3>3 DEF A
    <3> QED BY <2>1, <3>1, <3>2, <3>4, CallSizes
  <2>9. ASSUME NEW t \in Threads, NEW e \in ent, Unlink(t, e) \/ Rmdir(t, e) PROVE SizeInv'
    <3>1. \E S : th' = [th EXCEPT ![t] = Log({e[3], e[1]}, S, {e[1]})]
      BY <2>9 DEF Unlink, Rmdir
    <3>2. /\ th[t].at = "idle" /\ {e[3], e[1]} \cap Held = {}
          /\ LogSizes(t, {e[3], e[1]}) /\ grown' = grown
      BY <2>9 DEF Unlink, Rmdir, Call
    <3>3. {e[3], e[1]} \in SUBSET Inos
      BY <2>1, NowFacts
    <3> QED BY <2>1, <2>2, <3>1, <3>2, <3>3, CallSizes
  <2>10. ASSUME NEW t \in Threads, NEW e \in ent, NEW d \in Inos, NEW n \in Labels,
                RenameNew(t, e, d, n)
         PROVE  SizeInv'
    <3> DEFINE L == {e[1], d} \cup IF pi[e[3]].mode = "dir" THEN {} ELSE {e[3]}
               A == {e[3], d, e[1]}
    <3>1. /\ th' = [th EXCEPT ![t] = Log(L, A, {d, e[1]})] /\ th[t].at = "idle"
          /\ L \cap Held = {} /\ LogSizes(t, A) /\ MayGrow(d)
      BY <2>10 DEF RenameNew, Call
    <3>2. /\ A \in SUBSET Inos /\ \A i \in A : i \in L \/ i # Root
          /\ d \in L
      BY <2>1, NowFacts
    <3>3. /\ grown' \in [Inos -> 0..MaxGrown]
          /\ \A k \in Inos : grown'[k] # grown[k] => k \in {d, e[1]} /\ k \in L
      BY <3>1, <3>2, MayGrowAt
    <3> HIDE DEF L, A
    <3> QED BY <2>1, <3>1, <3>2, <3>3, CallSizes
  <2>11. ASSUME NEW t \in Threads, NEW e \in ent, NEW x \in ent, RenameOver(t, e, x)
         PROVE  SizeInv'
    <3> DEFINE L == {e[1], x[1], x[3]} \cup IF pi[e[3]].mode = "dir" THEN {} ELSE {e[3]}
               A == {e[3], x[3], e[1], x[1]}
    <3>1. /\ th' = [th EXCEPT ![t] = Log(L, A, {e[1], x[1]})] /\ th[t].at = "idle"
          /\ L \cap Held = {} /\ LogSizes(t, A) /\ grown' = grown
      BY <2>11 DEF RenameOver, Call
    <3>2. A \in SUBSET Inos /\ \A i \in A : i \in L \/ i # Root
      BY <2>1, NowFacts
    <3> HIDE DEF L, A
    <3> QED BY <2>1, <2>2, <3>1, <3>2, CallSizes
  <2>12. ASSUME NEW i \in Inos, Evict(i) PROVE SizeInv'
    <3>1. /\ i \notin Held /\ th' = th /\ logged' = logged
          /\ grown' = [grown EXCEPT ![i] = 0]
      BY <2>12 DEF Evict
    <3>2. SizeTypes' /\ \A k \in Inos : k # i => grown'[k] = grown[k]
      BY <2>2, <3>1 DEF SizeTypes
    <3>3. ASSUME NEW t \in Threads PROVE SizeOk(t)'
      <4>1. SizeOk(t) /\ \A x \in logged[t] : x[1] \in Inos
        BY <2>1, <2>2 DEF SizeInv
      <4> QED BY <3>1, <3>2, <4>1 DEF SizeOk, Held
    <3> QED BY <3>2, <3>3 DEF SizeInv
  <2>13. CASE Reboot
    <3>1. /\ logged' = [t \in Threads |-> {}] /\ th' = [t \in Threads |-> Idle]
      BY <2>13 DEF Reboot
    <3>2. PICK S : grown' = [i \in Inos |-> IF i \in S THEN 0 ELSE SizesUndone(Threads)[i]]
      BY <2>13 DEF Reboot
    <3>3. \A i \in Inos : SizesUndone(Threads)[i] \in 0..MaxGrown
      <4>1. \A t \in Threads : \A x \in logged[t] : x[2] \in 0..MaxGrown
        BY <2>2
      <4> QED BY <2>2, <4>1, SizesUndoneIs
    <3>4. grown' \in [Inos -> 0..MaxGrown]
      BY <2>2, <3>2, <3>3
    <3>5. SizeTypes'
      BY <3>1, <3>4 DEF SizeTypes
    <3> QED BY <3>1, <3>5 DEF SizeInv, SizeOk, Idle
  <2> QED BY <1>2, <2>4, <2>5, <2>6, <2>7, <2>8, <2>9, <2>10, <2>11, <2>12, <2>13 DEF Next
<1> QED BY <1>1, <1>2

\* The invariant has the soundness of the tree.
LEMMA InvTree ==
  ASSUME Inv, SizeInv
  PROVE  TreeSound
<1> SUFFICES ASSUME ~tainted PROVE Reachable /\ LinksExact /\ Orphans = listed \ Made
  BY DEF Inv, SizeInv, TypeOK, TreeSound
<1>1. /\ Sound(pi, ent, over, Made, listed)
      /\ Shaped(pi, ent) /\ Leads(pi, ent, Made) /\ Tree(pi, ent)
      /\ Named(pi, ent, over, Made) /\ Linked(pi, ent, over, Made) /\ Waits(pi, Made, listed)
  BY NowFacts DEF Sound
<1>2. /\ \A i : EntriesOf(i) = EntIn(ent, i) /\ (IsDir(i) <=> IsDirIn(pi, ent, i))
      /\ \A i : Below(i) = BelowIn(ent, i)
      /\ \A d : Subdirs(d) = SubdirsIn(pi, ent, d)
  <2>1. \A i : EntriesOf(i) = EntIn(ent, i)
    BY DEF EntriesOf, EntIn
  <2>2. \A i : IsDir(i) <=> IsDirIn(pi, ent, i)
    BY <2>1 DEF IsDir, IsDirIn
  <2>3. \A i : Below(i) = BelowIn(ent, i)
    BY DEF Below, BelowIn, Closed
  <2>4. \A d : Subdirs(d) = SubdirsIn(pi, ent, d)
    BY DEF Subdirs, SubdirsIn, Entries
  <2> QED BY <2>1, <2>2, <2>3, <2>4
<1>3. \A e \in ent : IsDir(e[1]) /\ ~pi[e[1]].dead /\ pi[e[3]].links > 0 /\ ~pi[e[3]].dead
  BY <1>1, <1>2 DEF Leads
<1>4. ASSUME NEW i \in Numbers \ (Made \cup over), pi[i].mode = "dir", pi[i].links > 0
      PROVE  i \in Below(Root) /\ Cardinality(EntriesOf(i)) = 1
  <2>1. PICK e \in ent : e[3] = i
    BY <1>1, <1>4 DEF Named, EntIn
  <2>2. i \in Below(Root)
    BY <1>1, <1>2, <1>4, <2>1 DEF Tree
  <2>3. \A x \in ent : x[3] = i => x = e
    BY <1>1, <1>4, <2>1 DEF Tree
  <2>4. EntriesOf(i) = {e}
    BY <2>1, <2>3 DEF EntriesOf
  <2>5. Cardinality({e}) = 1
    BY FS_Singleton, Zenon
  <2> QED BY <2>2, <2>4, <2>5
<1>5. Reachable
  BY <1>1, <1>3, <1>4 DEF Reachable, Tree
<1>6. LinksExact
  BY <1>1, <1>2 DEF LinksExact, Linked
<1>7. Orphans = listed \ Made
  <2>1. ASSUME NEW i \in Orphans PROVE i \in listed \ Made
    BY <1>1, <2>1 DEF Orphans, Waits
  <2>2. ASSUME NEW i \in listed \ Made PROVE i \in Orphans
    BY <2>2 DEF Orphans, Inv, ListedOk
  <2> QED BY <2>1, <2>2
<1> QED BY <1>5, <1>6, <1>7

\* The invariant: the tree is sound with the calls of any threads taken back, threads lock what
\* they change, and no number is given out twice.
THEOREM Invariance == Spec => [](Inv /\ SizeInv)
<1>1. Init => Inv /\ SizeInv
  <2>1. Init => SizeInv
    BY NamesAssumption DEF Init, SizeInv, SizeTypes, SizeOk
  <2> QED BY <2>1, InitHolds
<1>2. Inv /\ SizeInv /\ [Next]_vars => (Inv /\ SizeInv)'
  BY NextKeeps, SizesKeep
<1> QED BY <1>1, <1>2, PTL DEF Spec

\* The tree of names is a tree, links count what leads to an inode, and an inode without links
\* waits on the truncate list, whatever calls run at the same time and whenever the power fails.
THEOREM TreeStaysSound == Spec => []TreeSound
<1>1. Inv /\ SizeInv => TreeSound
  BY InvTree
<1> QED BY <1>1, Invariance, PTL

\* s_free_inodes_count counts the inode numbers that nobody has, and the search from
\* s_free_inode_hint misses none.
THEOREM NumbersStayKept == Spec => []NumbersKept
<1>1. Inv => NumbersKept
  BY DEF Inv, NumbersKept
<1> QED BY <1>1, Invariance, PTL

-----------------------------------------------------------------------------
(* One call at a time.                                                                      *)

\* There is one thread at most.
Sequential == \A t, u \in Threads : t = u

\* An inode that is logged without being locked is as its transaction has left it.
LeftAlone(t) ==
  th[t].at = "ready" => \A x \in th[t].log : x[1] \notin th[t].held =>
    /\ pi[x[1]] = LeftAs(t, x) /\ pi[x[1]].links > 0
    /\ x[1] = th[t].ino => Entries(x[1]) = {} /\ x[1] \notin th[t].changes

Own == ~tainted /\ \A t \in Threads : LeftAlone(t)

\* The sizes a transaction has logged: one of an inode, and that of an inode that is not locked
\* is still its size.
SizesAlone(t) ==
  /\ \A x, y \in logged[t] : x[1] = y[1] => x = y
  /\ th[t].at = "ready" => \A x \in logged[t] :
       x[1] \notin th[t].held \cup {th[t].ino} => x[2] = grown[x[1]] /\ pi[x[1]].links > 0

SizesOwn == ~tainted => \A t \in Threads : SizesAlone(t)

\* A single thread overtakes nobody.
LEMMA OwnNotOvertaken ==
  ASSUME Sequential, Inv, Own, SizesOwn
  PROVE  ~Overtaken
<1>1. ~tainted /\ Shapes
  BY DEF Own, Inv
<1>2. ASSUME NEW i \in Inos, NEW a \in Images(Threads, i), NEW b \in Images(Threads, i)
      PROVE  a = b
  <2>1. PICK x \in UNION {th[t].log : t \in Threads} : x[1] = i /\ a = x[2]
    BY DEF Images
  <2>2. PICK y \in UNION {th[t].log : t \in Threads} : y[1] = i /\ b = y[2]
    BY DEF Images
  <2>3. PICK t \in Threads : x \in th[t].log
    BY <2>1
  <2>4. y \in th[t].log
    BY <2>2 DEF Sequential
  <2>5. \A p, q : <<p, q>>[1] = p /\ <<p, q>>[2] = q
    OBVIOUS
  <2>6. x = y
    <3>1. CASE t \in Making
      BY <1>1, <2>3, <2>4, <3>1, MakingFacts DEF MakingOk
    <3>2. CASE Maker(th[t]) /\ MakerOk(t)
      <4>1. PICK im, old : th[t].log = {<<th[t].ino, im>>, <<th[t].dir, old>>}
        BY <3>2 DEF MakerOk
      <4>2. th[t].ino # th[t].dir
        BY <3>2 DEF MakerOk
      <4> QED BY <2>1, <2>2, <2>3, <2>4, <2>5, <4>1, <4>2
    <3>3. CASE Changer(th[t]) /\ ChangerOk(th[t])
      BY <2>1, <2>2, <2>3, <2>4, <3>3 DEF ChangerOk
    <3> QED BY <1>1, <2>3, <3>1, <3>2, <3>3, Doing
  <2> QED BY <2>1, <2>2, <2>6
<1>3. ASSUME NEW t \in Threads, th[t].at = "ready", NEW x \in th[t].log, x[1] \notin th[t].held
      PROVE  /\ pi[x[1]] = LeftAs(t, x)
             /\ ~(x[1] = th[t].ino /\ (Entries(x[1]) # {} \/ \E u \in Threads : x[1] \in th[u].changes))
  <2>1. LeftAlone(t)
    BY DEF Own
  <2> QED BY <1>3, <2>1 DEF LeftAlone, Sequential
<1>4. ASSUME NEW i \in Inos, NEW a \in Sizes(Threads, i), NEW b \in Sizes(Threads, i)
      PROVE  a = b
  <2>1. PICK x \in UNION {logged[t] : t \in Threads} : x[1] = i /\ a = x[2]
    BY DEF Sizes
  <2>2. PICK y \in UNION {logged[t] : t \in Threads} : y[1] = i /\ b = y[2]
    BY DEF Sizes
  <2>3. PICK t \in Threads : x \in logged[t]
    BY <2>1
  <2>4. y \in logged[t]
    BY <2>2 DEF Sequential
  <2> QED BY <1>1, <2>1, <2>2, <2>3, <2>4 DEF SizesOwn, SizesAlone
<1>5. ASSUME NEW t \in Threads, th[t].at = "ready", NEW x \in logged[t],
             x[1] \notin th[t].held \cup {th[t].ino}
      PROVE  x[2] = grown[x[1]]
  BY <1>1, <1>5 DEF SizesOwn, SizesAlone
<1> QED BY <1>2, <1>3, <1>4, <1>5 DEF Overtaken

\* A call that changes what is there leaves what it has not locked.
LEMMA OwnCall ==
  ASSUME Sequential, NEW t \in Threads, NEW L, NEW S, NEW D,
         th \in [Threads -> Calling], th' = [th EXCEPT ![t] = Log(L, S, D)], ~tainted, tainted' = tainted,
         \A i \in S : i \notin L => i # Root /\ pi'[i] = pi[i] /\ pi[i].links > 0
  PROVE  Own'
<1>1. /\ th'[t].held = L /\ th'[t].ino = Root /\ th'[t].log = {<<i, pi[i]>> : i \in S}
  BY LogFields
<1>2. ASSUME NEW x \in th'[t].log, x[1] \notin th'[t].held
      PROVE  pi'[x[1]] = x[2] /\ pi'[x[1]].links > 0 /\ x[1] # th'[t].ino
  <2>1. PICK i \in S : x = <<i, pi[i]>>
    BY <1>1, <1>2
  <2>2. x[1] = i /\ x[2] = pi[i]
    BY <2>1
  <2> QED BY <1>1, <1>2, <2>2
<1>3. LeftAlone(t)'
  BY <1>2 DEF LeftAlone, LeftAs
<1> QED BY <1>3 DEF Own, Sequential

\* Every step of a single thread.
LEMMA OwnKeeps ==
  ASSUME Sequential, Inv, Own, SizesOwn, [Next]_vars
  PROVE  Own'
<1>1. ~tainted
  BY DEF Own
<1>2. /\ pi \in [Inos -> Image] /\ th \in [Threads -> Calling]
      /\ \A e \in ent : pi[e[3]].links > 0 /\ e[3] # Root /\ e[1] \notin Made
  BY <1>1, NowFacts DEF Inv, Shapes, Calling
<1>3. CASE UNCHANGED vars
  <2>1. th' = th /\ pi' = pi /\ ent' = ent /\ tainted' = tainted
    BY <1>3 DEF vars
  <2>2. \A t \in Threads : LeftAlone(t)' <=> LeftAlone(t)
    BY <2>1 DEF LeftAlone, LeftAs, Entries
  <2> QED BY <2>1, <2>2 DEF Own
<1>4. ASSUME NEW t \in Threads, th'[t].at # "ready", ~tainted' PROVE Own'
  BY <1>4 DEF Own, LeftAlone, Sequential
<1>5. ASSUME NEW t \in Threads, NEW kind \in {"file", "dir"}, NEW d \in Inos, NEW n \in Labels,
             Pick(t, kind, d, n)
      PROVE  Own'
  <2>1. th[t].at = "idle" /\ th'[t].at = "picked"
    BY <1>2, <1>5 DEF Pick, Call, Idle
  <2>2. Making = {}
    BY <2>1 DEF Making, Sequential
  <2>3. ~tainted'
    <3>1. \A i : ~Doubled(i)
      BY <2>2 DEF Doubled
    <3> QED BY <1>5, <3>1 DEF Pick
  <2> QED BY <1>4, <2>1, <2>3
<1>6. ASSUME NEW t \in Threads, Publish(t) \/ EnterFails(t) PROVE Own'
  <2>1. th'[t].at # "ready"
    BY <1>2, <1>6 DEF Publish, EnterFails, Calling
  <2>2. ~tainted'
    BY <1>6 DEF Publish, EnterFails
  <2> QED BY <1>4, <2>1, <2>2
<1>7. ASSUME NEW t \in Threads, Abort(t) \/ Commit(t) PROVE Own'
  <2>1. th'[t].at # "ready"
    BY <1>2, <1>7 DEF Abort, Commit, Idle
  <2>2. ~tainted'
    BY <1>7 DEF Abort, Commit
  <2> QED BY <1>4, <2>1, <2>2
<1>8. ASSUME NEW t \in Threads, Enter(t) PROVE Own'
  <2> DEFINE i == th[t].ino
             d == th[t].dir
             kind == th[t].kind
  <2>1. th[t].at = "published" /\ t \in Making
    BY <1>8 DEF Enter, Making
  <2>2. /\ MakingOk(t) /\ i \in Inos /\ d \in Inos /\ d # i /\ i \in Made
    BY <1>1, <2>1, MakingFacts
  <2>3. /\ pi[i].mode = kind /\ pi[i].links = 1 /\ ~pi[i].dead /\ th[t].held = {d}
        /\ \E im \in Image : th[t].log = {<<i, im>>}
    BY <2>1, <2>2 DEF MakingOk
  <2>4. /\ th'[t].ino = i /\ th'[t].dir = d /\ th'[t].kind = kind /\ th'[t].held = {d}
        /\ th'[t].changes = {d} /\ th'[t].log = th[t].log \cup {<<d, pi[d]>>}
    BY <1>2, <1>8, <2>3 DEF Enter, Calling
  <2>5. pi'[i] = [links |-> IF kind = "dir" THEN 2 ELSE 1, mode |-> kind, dead |-> FALSE]
    <3>1. pi[i] = [links |-> 1, mode |-> kind, dead |-> FALSE]
      <4>1. pi[i] \in Image
        BY <1>2, <2>2
      <4> HIDE DEF i, kind
      <4> QED BY <2>3, <4>1 DEF Image
    <3>2. pi'[i] = IF kind = "dir" THEN [pi[i] EXCEPT !.links = 2] ELSE pi[i]
      BY <1>2, <1>8, <2>2 DEF Enter
    <3> HIDE DEF i, kind
    <3>3. CASE kind = "dir"
      <4> DEFINE q == [pi[i] EXCEPT !.links = 2]
      <4>1. pi[i] \in Image
        BY <1>2, <2>2
      <4>2. pi[i].mode = kind /\ pi[i].dead = FALSE
        BY <2>3, <4>1 DEF Image
      <4>3. q \in Image /\ q.links = 2 /\ q.mode = pi[i].mode /\ q.dead = pi[i].dead
        BY <4>1 DEF Image
      <4>4. pi'[i] = q
        BY <3>2, <3>3
      <4> HIDE DEF q
      <4>5. q = [links |-> 2, mode |-> kind, dead |-> FALSE]
        BY <4>2, <4>3 DEF Image
      <4> QED BY <3>3, <4>4, <4>5
    <3>4. CASE kind # "dir"
      BY <3>1, <3>2, <3>4
    <3> QED BY <3>3, <3>4
  <2>6. \A e \in ent' : e[1] # i
    <3>1. \A e \in ent : e[1] # i
      BY <1>2, <2>2
    <3>2. ent' = ent \cup {<<d, th[t].name, i>>}
      BY <1>8 DEF Enter
    <3>3. <<d, th[t].name, i>>[1] = d
      OBVIOUS
    <3> HIDE DEF i, d
    <3> QED BY <2>2, <3>1, <3>2, <3>3
  <2>7. ASSUME NEW x \in th'[t].log, x[1] # d PROVE x[1] = i
    <3>1. PICK im : th[t].log = {<<i, im>>}
      BY <2>3
    <3>2. <<i, im>>[1] = i /\ <<d, pi[d]>>[1] = d
      OBVIOUS
    <3> HIDE DEF i, d
    <3> QED BY <2>4, <2>7, <3>1, <3>2
  <2>8. pi'[i].links > 0
    BY <2>5
  <2>9. LeftAlone(t)'
    <3> SUFFICES ASSUME NEW x \in th'[t].log, x[1] \notin th'[t].held
                 PROVE  /\ pi'[x[1]] = LeftAs(t, x)' /\ pi'[x[1]].links > 0
                        /\ (\A e \in ent' : e[1] # x[1]) /\ x[1] \notin th'[t].changes
      BY DEF LeftAlone, Entries
    <3>1. x[1] = i /\ x[1] # d
      BY <2>4, <2>7
    <3>2. LeftAs(t, x)' = [links |-> IF kind = "dir" THEN 2 ELSE 1, mode |-> kind, dead |-> FALSE]
      BY <2>4, <3>1 DEF LeftAs
    <3> HIDE DEF i, d, kind
    <3> QED BY <2>4, <2>5, <2>6, <2>8, <3>1, <3>2
  <2>10. ~tainted'
    BY <1>8 DEF Enter
  <2> QED BY <2>9, <2>10 DEF Own, Sequential
<1>9. ASSUME NEW t \in Threads, NEW i \in Inos, NEW d \in Inos, NEW n \in Labels, Link(t, i, d, n)
      PROVE  Own'
  <2>1. th' = [th EXCEPT ![t] = Log({i, d}, {i}, {d})] /\ tainted' = tainted
    BY <1>9 DEF Link
  <2>2. \A k \in {i} : k \notin {i, d} => k # Root /\ pi'[k] = pi[k] /\ pi[k].links > 0
    OBVIOUS
  <2> QED BY <1>1, <1>2, <2>1, <2>2, OwnCall
<1>10. ASSUME NEW t \in Threads, NEW e \in ent, Unlink(t, e) \/ Rmdir(t, e)
       PROVE  Own'
  <2>1. CASE Unlink(t, e)
    <3>1. th' = [th EXCEPT ![t] = Log({e[3], e[1]}, {e[3]}, {e[1]})] /\ tainted' = tainted
      BY <2>1 DEF Unlink
    <3>2. \A k \in {e[3]} : k \notin {e[3], e[1]} => k # Root /\ pi'[k] = pi[k] /\ pi[k].links > 0
      OBVIOUS
    <3> QED BY <1>1, <1>2, <3>1, <3>2, OwnCall
  <2>2. CASE Rmdir(t, e)
    <3>1. th' = [th EXCEPT ![t] = Log({e[3], e[1]}, {e[3], e[1]}, {e[1]})] /\ tainted' = tainted
      BY <2>2 DEF Rmdir
    <3>2. \A k \in {e[3], e[1]} : k \notin {e[3], e[1]} => k # Root /\ pi'[k] = pi[k] /\ pi[k].links > 0
      OBVIOUS
    <3> QED BY <1>1, <1>2, <3>1, <3>2, OwnCall
  <2> QED BY <1>10, <2>1, <2>2
<1>11. ASSUME NEW t \in Threads, NEW e \in ent, NEW d \in Inos, NEW n \in Labels,
              RenameNew(t, e, d, n)
       PROVE  Own'
  <2> DEFINE i == e[3]
             L == {e[1], d} \cup IF pi[i].mode = "dir" THEN {} ELSE {i}
             S == {i, d, e[1]}
  <2>1. th' = [th EXCEPT ![t] = Log(L, S, {d, e[1]})] /\ tainted' = tainted
    BY <1>11 DEF RenameNew
  <2>2. \A k \in S : k \notin L => k # Root /\ pi'[k] = pi[k] /\ pi[k].links > 0
    <3> SUFFICES ASSUME i \notin L PROVE i # Root /\ pi'[i] = pi[i] /\ pi[i].links > 0
      OBVIOUS
    <3>1. pi' = IF pi[i].mode = "dir" /\ d # e[1]
                THEN [pi EXCEPT ![d].links = @ + 1, ![e[1]].links = @ - 1] ELSE pi
      BY <1>11 DEF RenameNew
    <3>2. i # d /\ i # e[1]
      OBVIOUS
    <3>3. i \in Inos /\ e[1] \in Inos
      BY <1>1, <1>11, NowFacts
    <3>4. pi'[i] = pi[i]
      <4> HIDE DEF i
      <4>1. CASE pi[i].mode = "dir" /\ d # e[1]
        <5> DEFINE p1 == [pi EXCEPT ![d].links = @ + 1]
        <5>1. p1 \in [Inos -> Image] /\ i \in Inos /\ e[1] \in Inos
          <6>1. pi[d] \in Image /\ pi[d].links + 1 \in Nat
            BY <1>2 DEF Image
          <6>2. [pi[d] EXCEPT !.links = @ + 1] \in Image
            BY <6>1 DEF Image
          <6>3. p1 \in [Inos -> Image]
            BY <1>2, <6>2
          <6>4. i \in Inos /\ e[1] \in Inos
            BY <1>2, <3>3
          <6> QED BY <6>3, <6>4
        <5>2. p1[i] = pi[i]
          BY <1>2, <3>2, <5>1
        <5>3. pi' = [p1 EXCEPT ![e[1]].links = @ - 1]
          BY <3>1, <4>1
        <5> HIDE DEF p1
        <5>4. pi'[i] = p1[i]
          BY <3>2, <5>1, <5>3
        <5> QED BY <5>2, <5>4
      <4>2. CASE ~(pi[i].mode = "dir" /\ d # e[1])
        BY <3>1, <4>2
      <4> QED BY <4>1, <4>2
    <3> QED BY <1>2, <3>4
  <2> HIDE DEF L, S
  <2> QED BY <1>1, <1>2, <2>1, <2>2, OwnCall
<1>12. ASSUME NEW t \in Threads, NEW e \in ent, NEW x \in ent, RenameOver(t, e, x)
       PROVE  Own'
  <2> DEFINE i == e[3]
             j == x[3]
             L == {e[1], x[1], j} \cup IF pi[i].mode = "dir" THEN {} ELSE {i}
             S == {i, j, e[1], x[1]}
  <2>1. th' = [th EXCEPT ![t] = Log(L, S, {e[1], x[1]})] /\ tainted' = tainted
    BY <1>12 DEF RenameOver
  <2>2. \A k \in S : k \notin L => k # Root /\ pi'[k] = pi[k] /\ pi[k].links > 0
    <3> SUFFICES ASSUME i \notin L PROVE i # Root /\ pi'[i] = pi[i] /\ pi[i].links > 0
      OBVIOUS
    <3>1. pi' = [pi EXCEPT ![j].links = pi[j].links - IF pi[i].mode = "dir" THEN 2 ELSE 1]
      BY <1>12 DEF RenameOver
    <3>2. i # j
      OBVIOUS
    <3> QED BY <1>2, <3>1, <3>2
  <2> HIDE DEF L, S
  <2> QED BY <1>1, <1>2, <2>1, <2>2, OwnCall
<1>13. ASSUME NEW i \in Inos, Evict(i) PROVE Own'
  <2>1. /\ th' = th /\ ent' = ent /\ tainted' = tainted /\ pi[i].links = 0
        /\ pi' = [pi EXCEPT ![i].dead = TRUE]
    BY <1>13 DEF Evict
  <2>2. \A k : k # i => pi'[k] = pi[k]
    BY <1>2, <2>1
  <2> SUFFICES ASSUME NEW t \in Threads PROVE LeftAlone(t)'
    BY <1>1, <2>1 DEF Own
  <2> SUFFICES ASSUME th[t].at = "ready", NEW x \in th[t].log, x[1] \notin th[t].held
               PROVE  /\ pi'[x[1]] = LeftAs(t, x) /\ pi'[x[1]].links > 0
                      /\ x[1] = th[t].ino => (\A e \in ent : e[1] # x[1]) /\ x[1] \notin th[t].changes
    <3>1. \A x : LeftAs(t, x)' = LeftAs(t, x)
      BY <2>1 DEF LeftAs
    <3> QED BY <2>1, <3>1 DEF LeftAlone, Entries
  <2>3. LeftAlone(t)
    BY DEF Own
  <2>4. /\ pi[x[1]] = LeftAs(t, x) /\ pi[x[1]].links > 0
        /\ x[1] = th[t].ino => (\A e \in ent : e[1] # x[1]) /\ x[1] \notin th[t].changes
    BY <2>3 DEF LeftAlone, Entries
  <2>5. x[1] # i
    BY <2>1, <2>4
  <2> QED BY <2>2, <2>4, <2>5
<1>14. CASE Reboot
  <2>1. ~Overtaken
    BY OwnNotOvertaken
  <2>2. tainted' = Overtaken /\ th' = [t \in Threads |-> Idle]
    BY <1>14 DEF Reboot
  <2>3. ~tainted'
    BY <2>1, <2>2
  <2>4. \A t \in Threads : th'[t].at # "ready"
    BY <2>2 DEF Idle
  <2> QED BY <2>3, <2>4 DEF Own, LeftAlone
<1> QED BY <1>3, <1>5, <1>6, <1>7, <1>8, <1>9, <1>10, <1>11, <1>12, <1>13, <1>14 DEF Next

\* The sizes that a call logs.
LEMMA SizesCall ==
  ASSUME Sequential, Inv, SizeInv, ~tainted, NEW t \in Threads, th[t].at = "idle",
         NEW L, NEW S, NEW D, NEW A \in SUBSET Inos,
         th' = [th EXCEPT ![t] = Log(L, S, D)], LogSizes(t, A),
         \A i \in A : i \notin L => grown'[i] = grown[i] /\ pi'[i] = pi[i] /\ pi[i].links > 0
  PROVE  SizesOwn'
<1>1. th'[t].held = L
  <2>1. th \in [Threads -> Calling]
    BY DEF Inv, Shapes, Calling
  <2> QED BY <2>1, LogFields
<1>2. logged'[t] = {<<i, grown[i]>> : i \in A}
  <2>1. logged \in [Threads -> SUBSET (Inos \X (0..MaxGrown))] /\ logged[t] = {}
    BY DEF SizeInv, SizeTypes, SizeOk
  <2> QED BY <2>1 DEF LogSizes
<1>3. \A x \in logged'[t] : \E i \in A : x[1] = i /\ x = <<i, grown[i]>> /\ x[2] = grown[i]
  BY <1>2
<1>4. SizesAlone(t)'
  BY <1>1, <1>3 DEF SizesAlone
<1> QED BY <1>4 DEF SizesOwn, Sequential

\* Every step of a single thread.
LEMMA SizesOwnKeeps ==
  ASSUME Sequential, Inv, SizeInv, Own, SizesOwn, [Next]_vars
  PROVE  SizesOwn'
<1>1. /\ ~tainted /\ \A t \in Threads : SizesAlone(t) /\ SizeOk(t)
      /\ \A e \in ent : e[1] \in Inos /\ e[3] \in Inos /\ pi[e[3]].links > 0
  BY NowFacts DEF Own, SizesOwn, SizeInv
<1>2. /\ pi \in [Inos -> Image] /\ th \in [Threads -> Calling]
      /\ logged \in [Threads -> SUBSET (Inos \X (0..MaxGrown))]
      /\ grown \in [Inos -> 0..MaxGrown]
  BY <1>1, NowFacts DEF Inv, Shapes, Calling, SizeInv, SizeTypes
<1>3. CASE UNCHANGED vars
  <2>1. th' = th /\ pi' = pi /\ grown' = grown /\ logged' = logged /\ tainted' = tainted
    BY <1>3 DEF vars
  <2>2. \A t \in Threads : SizesAlone(t)' <=> SizesAlone(t)
    BY <2>1 DEF SizesAlone
  <2> QED BY <1>1, <2>2 DEF SizesOwn
<1>4. ASSUME NEW t \in Threads, SizesAlone(t)' PROVE SizesOwn'
  BY <1>4 DEF SizesOwn, Sequential
<1>5. ASSUME NEW t \in Threads, NEW A \in SUBSET Inos, LogSizes(t, A)
      PROVE  logged'[t] = logged[t] \cup {<<i, grown[i]>> : i \in A}
  BY <1>2, <1>5 DEF LogSizes
<1>6. ASSUME NEW t \in Threads, NEW kind \in {"file", "dir"}, NEW d \in Inos, NEW n \in Labels,
             Pick(t, kind, d, n)
      PROVE  SizesOwn'
  <2>1. th[t].at = "idle" /\ th'[t].at = "picked"
    BY <1>2, <1>6 DEF Pick, Call, Idle
  <2>2. logged[t] = {}
    BY <1>1, <2>1 DEF SizeOk
  <2>3. PICK i : LogSizes(t, {i})
    BY <1>6 DEF Pick
  <2>4. logged'[t] = {<<i, grown[i]>>}
    BY <1>2, <2>2, <2>3 DEF LogSizes
  <2>5. SizesAlone(t)'
    BY <2>1, <2>4 DEF SizesAlone
  <2> QED BY <1>4, <2>5
<1>7. ASSUME NEW t \in Threads, Publish(t) \/ EnterFails(t) PROVE SizesOwn'
  <2>1. logged' = logged /\ th'[t].at # "ready"
    BY <1>2, <1>7 DEF Publish, EnterFails, sizeVars, Calling
  <2> QED BY <1>1, <1>4, <2>1 DEF SizesAlone
<1>8. ASSUME NEW t \in Threads, Abort(t) \/ Commit(t) PROVE SizesOwn'
  <2>1. logged'[t] = {}
    BY <1>2, <1>8 DEF Abort, Commit
  <2> QED BY <1>4, <2>1 DEF SizesAlone
<1>9. ASSUME NEW t \in Threads, Enter(t) PROVE SizesOwn'
  <2> DEFINE d == th[t].dir
  <2>1. /\ th[t].at = "published" /\ t \in Making /\ LogSizes(t, {d})
        /\ th'[t].ino = th[t].ino /\ th'[t].held = th[t].held
    BY <1>2, <1>9 DEF Enter, Making, Calling
  <2>2. d \in Inos /\ d # th[t].ino /\ th[t].held = {d}
    BY <1>1, <2>1, MakingFacts
  <2>3. logged'[t] = logged[t] \cup {<<d, grown[d]>>}
    BY <1>5, <2>1, <2>2
  <2>4. \A x \in logged[t] : x[1] = th[t].ino
    BY <1>1, <2>1 DEF SizeOk
  <2>5. SizesAlone(t)
    BY <1>1
  <2>6. \A x \in logged'[t] : x \in logged[t] \/ x = <<d, grown[d]>>
    BY <2>3
  <2>7. <<d, grown[d]>>[1] = d
    OBVIOUS
  <2> HIDE DEF d
  <2>8. SizesAlone(t)'
    BY <2>1, <2>2, <2>4, <2>5, <2>6, <2>7 DEF SizesAlone
  <2> QED BY <1>4, <2>8
<1>10. ASSUME NEW t \in Threads, NEW i \in Inos, NEW d \in Inos, NEW n \in Labels, Link(t, i, d, n)
       PROVE  SizesOwn'
  <2> DEFINE A == {i, d}
  <2>1. /\ th' = [th EXCEPT ![t] = Log(A, {i}, {d})] /\ th[t].at = "idle" /\ LogSizes(t, A)
    BY <1>10 DEF Link, Call
  <2>2. A \in SUBSET Inos
    OBVIOUS
  <2> HIDE DEF A
  <2> QED BY <1>1, <2>1, <2>2, SizesCall
<1>11. ASSUME NEW t \in Threads, NEW e \in ent, Unlink(t, e) \/ Rmdir(t, e) PROVE SizesOwn'
  <2> DEFINE A == {e[3], e[1]}
  <2>1. /\ \E S : th' = [th EXCEPT ![t] = Log(A, S, {e[1]})]
        /\ th[t].at = "idle" /\ LogSizes(t, A)
    BY <1>11 DEF Unlink, Rmdir, Call
  <2>2. A \in SUBSET Inos
    BY <1>1
  <2> HIDE DEF A
  <2> QED BY <1>1, <2>1, <2>2, SizesCall
<1>12. ASSUME NEW t \in Threads, NEW e \in ent, NEW d \in Inos, NEW n \in Labels,
              RenameNew(t, e, d, n)
       PROVE  SizesOwn'
  <2> DEFINE i == e[3]
             L == {e[1], d} \cup IF pi[i].mode = "dir" THEN {} ELSE {i}
             A == {i, d, e[1]}
  <2>1. /\ th' = [th EXCEPT ![t] = Log(L, A, {d, e[1]})] /\ th[t].at = "idle"
        /\ LogSizes(t, A) /\ MayGrow(d) /\ tainted' = tainted
    BY <1>12 DEF RenameNew, Call
  <2>2. A \in SUBSET Inos /\ d \in L /\ e[1] \in L
    BY <1>1
  <2>3. ASSUME i \notin L PROVE grown'[i] = grown[i] /\ pi'[i] = pi[i] /\ pi[i].links > 0
    <3>1. th'[t].at = "ready" /\ i \notin th'[t].held /\ <<i, pi[i]>> \in th'[t].log
          /\ th'[t].ino = Root
      BY <1>2, <2>1, <2>3, LogFields
    <3>2. i # d /\ i \in Inos /\ pi[i].links > 0 /\ i # Root
      BY <1>1, <2>2, <2>3, NowFacts
    <3>3. LeftAlone(t)'
      BY <1>1, OwnKeeps DEF Own
    <3>4. <<i, pi[i]>>[1] = i /\ <<i, pi[i]>>[2] = pi[i]
      OBVIOUS
    <3>5. grown'[i] = grown[i]
      BY <2>1, <3>2, MayGrowAt
    <3> HIDE DEF i, L, A
    <3>6. pi'[i] = pi[i]
      BY <3>1, <3>2, <3>3, <3>4 DEF LeftAlone, LeftAs
    <3> QED BY <3>2, <3>5, <3>6
  <2>4. \A k \in A : k \notin L => grown'[k] = grown[k] /\ pi'[k] = pi[k] /\ pi[k].links > 0
    BY <2>2, <2>3
  <2> HIDE DEF L, A
  <2> QED BY <1>1, <2>1, <2>2, <2>4, SizesCall
<1>13. ASSUME NEW t \in Threads, NEW e \in ent, NEW x \in ent, RenameOver(t, e, x)
       PROVE  SizesOwn'
  <2> DEFINE i == e[3]
             j == x[3]
             L == {e[1], x[1], j} \cup IF pi[i].mode = "dir" THEN {} ELSE {i}
             A == {i, j, e[1], x[1]}
  <2>1. /\ th' = [th EXCEPT ![t] = Log(L, A, {e[1], x[1]})] /\ th[t].at = "idle"
        /\ LogSizes(t, A) /\ grown' = grown
        /\ pi' = [pi EXCEPT ![j].links = pi[j].links - IF pi[i].mode = "dir" THEN 2 ELSE 1]
    BY <1>13 DEF RenameOver, Call
  <2>2. A \in SUBSET Inos
    BY <1>1
  <2>3. \A k \in A : k \notin L => grown'[k] = grown[k] /\ pi'[k] = pi[k] /\ pi[k].links > 0
    BY <1>1, <1>2, <2>1
  <2> HIDE DEF L, A
  <2> QED BY <1>1, <2>1, <2>2, <2>3, SizesCall
<1>14. ASSUME NEW i \in Inos, Evict(i) PROVE SizesOwn'
  <2>1. /\ th' = th /\ logged' = logged /\ pi[i].links = 0
        /\ pi' = [pi EXCEPT ![i].dead = TRUE] /\ grown' = [grown EXCEPT ![i] = 0]
    BY <1>14 DEF Evict
  <2>2. \A k : k # i => pi'[k] = pi[k] /\ grown'[k] = grown[k]
    BY <1>2, <2>1
  <2>3. ASSUME NEW t \in Threads PROVE SizesAlone(t)'
    <3>1. SizesAlone(t)
      BY <1>1
    <3> QED BY <2>1, <2>2, <3>1 DEF SizesAlone
  <2> QED BY <2>3 DEF SizesOwn
<1>15. CASE Reboot
  BY <1>15 DEF Reboot, SizesOwn, SizesAlone, Idle
<1> QED
  BY <1>3, <1>6, <1>7, <1>8, <1>9, <1>10, <1>11, <1>12, <1>13, <1>14, <1>15 DEF Next

\* Without calls that run at the same time nothing is lost: neither case of tainted happens, and
\* the tree is sound and the numbers are exact for ever, also after power failures in the middle
\* of calls.
THEOREM SequentialLosesNothing ==
  ASSUME Sequential
  PROVE  Spec => [](~tainted /\ TreeSound /\ NumbersKept)
<1>1. Init => Own /\ SizesOwn
  BY DEF Init, Own, LeftAlone, Idle, SizesOwn, SizesAlone
<1>2. Inv /\ SizeInv /\ Own /\ SizesOwn /\ [Next]_vars => (Own /\ SizesOwn)'
  BY OwnKeeps, SizesOwnKeeps
<1>3. Inv /\ SizeInv /\ Own => ~tainted /\ TreeSound /\ NumbersKept
  BY InvTree DEF Own, Inv
<1> QED BY <1>1, <1>2, <1>3, Invariance, PTL DEF Spec
=============================================================================
