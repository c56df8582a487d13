-------------------------------- MODULE Names --------------------------------
(***************************************************************************)
(* Names, link counts and inode numbers: namei.c, and the parts of inode.c *)
(* that give out and take back inodes. The VFS locks the directories and   *)
(* the inodes of a call, but the inode table is shared: numbers are given  *)
(* out under inode_table_mutex while other calls are in the middle of      *)
(* their transactions. What a transaction has logged is undone if it is    *)
(* aborted or if the power fails (module Journal). Directories are sets of *)
(* entries here; module Directory has their records.                       *)
(***************************************************************************)
EXTENDS Naturals, FiniteSets

CONSTANTS
  Threads,
  Labels, NoLabel,   \* the names of directory entries
  Count0,            \* inodes of the table of a new volume
  PerBlock,          \* inodes of a block of the table
  MaxCount,          \* as far as the table can grow
  MaxGrown,          \* bound: blocks that entries add to a directory
  MaxCalls, MaxBoot  \* bounds on system calls and mounts

ASSUME NamesAssumption ==
  /\ Count0 \in Nat /\ PerBlock \in Nat \ {0} /\ MaxCount \in Nat
  /\ Count0 <= MaxCount
  /\ MaxGrown \in Nat /\ MaxCalls \in Nat /\ MaxBoot \in Nat

Root == 0                   \* PMFS_ROOT_INO
Start == 1                  \* PMFS_FREE_INODE_HINT_START
Numbers == Start..MaxCount
Inos == {Root} \cup Numbers

VARIABLES
  pi,                \* the table: links, mode, and whether i_dtime is set
  ent,               \* <<d, n, i>>: directory d has an entry n for inode i
  grown,             \* size, root and blocks of a directory: blocks that entries have added
  logged,            \* likewise, as the transaction of each thread has logged them
  listed,            \* the truncate list
  count, nfree, hint,  \* s_inodes_count, s_free_inodes_count, s_free_inode_hint
  th,                \* the system call of each thread
  over,              \* directories whose links count too many
  calls, boots,      \* how many there were
  tainted            \* the lost case below has happened

vars == <<pi, ent, grown, logged, listed, count, nfree, hint, th, over, calls, boots, tainted>>
sizeVars == <<grown, logged>>

Modes == {"none", "file", "dir"}
Image == [links : Nat, mode : Modes, dead : BOOLEAN]

\* at: picked, published, aborting, or ready to commit; ino: the new inode, dir and name:
\* where it is to be; held: what is locked; log: inodes as they were logged; changes and
\* was: directories whose entries change, and the entries as they were.
Idle == [at |-> "idle", kind |-> "none", dir |-> Root, name |-> NoLabel, ino |-> Root,
         held |-> {}, log |-> {}, changes |-> {}, was |-> {}]

\* The test of pmfs_new_inode and of the mount.
Unused(image) == image.links = 0 /\ (image.mode = "none" \/ image.dead)
Free == {i \in Start..count : Unused(pi[i])}

Held == UNION {th[t].held : t \in Threads}
Making == {t \in Threads : th[t].at \in {"picked", "published", "aborting"}}
Made == {th[t].ino : t \in Making}     \* inodes that no name leads to yet

Entries(d) == {e \in ent : e[1] = d}
Lookup(d, n) == {e[3] : e \in {x \in ent : x[1] = d /\ x[2] = n}}
EntriesOf(i) == {e \in ent : e[3] = i}
IsDir(i) == pi[i].mode = "dir" /\ (i = Root \/ EntriesOf(i) /= {})

Least(S) == CHOOSE i \in S : \A j \in S : i <= j

-----------------------------------------------------------------------------
(* Calls. What the VFS locks: the directories of the entries, the inode that a link or an      *)
(* unlink is about, the inode that is renamed unless it is a directory, and the one it replaces. *)

\* A call of t that locks the inodes in S.
Call(t, S) ==
  /\ th[t].at = "idle" /\ calls < MaxCalls /\ ~tainted
  /\ S \cap Held = {}
  /\ calls' = calls + 1

\* Mutant: only the entries are logged.
LogEntriesOnly(L, S, D) ==
  [Idle EXCEPT !.at = "ready", !.held = L, !.changes = D, !.was = {e \in ent : e[1] \in D}]

\* A transaction under L has logged the inodes in S and changes the directories in D.
Log(L, S, D) ==
  [Idle EXCEPT !.at = "ready", !.held = L, !.changes = D,
               !.log = {<<i, pi[i]>> : i \in S}, !.was = {e \in ent : e[1] \in D}]

\* The sizes of the inodes in S are logged with the rest of their images.
LogSizes(t, S) == logged' = [logged EXCEPT ![t] = @ \cup {<<i, grown[i]>> : i \in S}]

\* pmfs_add_entry: if no block of the directory has room for the entry it gets another one.
MayGrow(d) ==
  \/ grown' = grown
  \/ grown[d] < MaxGrown /\ grown' = [grown EXCEPT ![d] = @ + 1]

\* Mutant: the hint is not lowered.
HintAfterFreeKept(i) == IF nfree + 1 = count THEN Start ELSE hint

\* pmfs_free_inode, under the mutex: what it does to the hint.
HintAfterFree(i) ==
  IF nfree + 1 = count THEN Start ELSE IF i < hint THEN i ELSE hint

\* Lost: the search meets a number of a transaction under way. Until pmfs_update_inode, after
\* the mutex, a number that was never used still looks free (inode.c:1197). A creation that
\* fails frees its inode before its transaction is aborted (namei.c:51, 545): another owner
\* gets the number, and the abort writes the old image over its inode; or, as the links of a
\* directory were left at 1, the search passes by and the number is below the hint.
Doubled(i) ==
  \E t \in Making : th[t].ino = i \/ (th[t].at = "aborting" /\ th[t].ino < i)

\* pmfs_new_inode up to the unlock of the mutex, with the growth of the table. Without a
\* number the call is over (pmfs_create returns 0 even so, namei.c:234).
Pick(t, kind, d, n) ==
  LET first == {i \in Free : i >= hint}
      grows == first = {} /\ count + PerBlock <= MaxCount
      size  == IF grows THEN count + PerBlock ELSE count
      i     == IF grows THEN count + 1 ELSE Least(first)
  IN  /\ Call(t, {d})
      /\ IsDir(d) /\ Lookup(d, n) = {}
      /\ first /= {} \/ grows
      /\ count' = size
      /\ nfree' = nfree + (size - count) - 1
      /\ hint' = IF i < size THEN i + 1 ELSE Start
      /\ pi' = [pi EXCEPT ![i].dead = FALSE]
      /\ th' = [th EXCEPT ![t] = [Idle EXCEPT !.at = "picked", !.kind = kind, !.dir = d,
                                              !.name = n, !.ino = i, !.held = {d},
                                              !.log = {<<i, pi[i]>>}]]
      /\ tainted' = Doubled(i)
      /\ LogSizes(t, {i})
      /\ UNCHANGED <<ent, grown, listed, over, boots>>

\* pmfs_update_inode and insert_inode_locked, which refuses no number but a doubled one.
Publish(t) ==
  LET i == th[t].ino
  IN  /\ th[t].at = "picked" /\ ~tainted
      /\ pi' = [pi EXCEPT ![i] = [links |-> 1, mode |-> th[t].kind, dead |-> FALSE]]
      /\ over' = over \ {i}
      /\ th' = [th EXCEPT ![t].at = "published"]
      /\ UNCHANGED <<ent, sizeVars, listed, count, nfree, hint, calls, boots, tainted>>

\* pmfs_add_entry of a new inode; a directory has "." and a parent that counts "..".
Enter(t) ==
  LET i == th[t].ino
      d == th[t].dir
  IN  /\ th[t].at = "published" /\ ~tainted
      /\ ent' = ent \cup {<<d, th[t].name, i>>}
      /\ pi' = IF th[t].kind = "dir"
               THEN [pi EXCEPT ![i].links = 2, ![d].links = @ + 1] ELSE pi
      /\ th' = [th EXCEPT ![t].at = "ready", ![t].log = @ \cup {<<d, pi[d]>>},
                          ![t].changes = {d}, ![t].was = Entries(d)]
      /\ LogSizes(t, {d}) /\ MayGrow(d)
      /\ UNCHANGED <<listed, count, nfree, hint, over, calls, boots, tainted>>

\* There is no room for the entry, or for the block of the directory or symlink: the inode is
\* evicted and freed in a transaction of its own. The links of a directory are cleared in
\* the VFS only.
EnterFails(t) ==
  LET i == th[t].ino
  IN  /\ th[t].at = "published" /\ ~tainted
      /\ pi' = [pi EXCEPT ![i].dead = TRUE,
                          ![i].links = IF th[t].kind = "dir" THEN @ ELSE 0]
      /\ nfree' = nfree + 1
      /\ hint' = HintAfterFree(i)
      /\ th' = [th EXCEPT ![t].at = "aborting"]
      /\ UNCHANGED <<ent, sizeVars, listed, count, over, calls, boots, tainted>>

\* The inodes with the transactions of the threads in T undone: those that were logged get
\* the image that was.
Images(T, i) == {x[2] : x \in {x \in UNION {th[t].log : t \in T} : x[1] = i}}
Undone(T) ==
  [i \in Inos |-> IF Images(T, i) = {} THEN pi[i] ELSE CHOOSE image \in Images(T, i) : TRUE]

\* Likewise their sizes.
Sizes(T, i) == {x[2] : x \in {x \in UNION {logged[t] : t \in T} : x[1] = i}}
SizesUndone(T) ==
  [i \in Inos |-> IF Sizes(T, i) = {} THEN grown[i] ELSE CHOOSE size \in Sizes(T, i) : TRUE]

\* Lost: a transaction has logged an inode that the VFS does not lock for it, a directory that
\* is renamed (namei.c:713) or a new inode that is instantiated before the commit (namei.c:
\* 31, 490), and another call changes it: undoing the first undoes the second in part. With the
\* old size and root of a directory the entries go that the second has put into a new block
\* (dir.c:139). The log keeps the order in which transactions reserved their slots, not that
\* of two images.
LeftAs(t, x) ==
  IF x[1] = th[t].ino
  THEN [links |-> IF th[t].kind = "dir" THEN 2 ELSE 1, mode |-> th[t].kind, dead |-> FALSE]
  ELSE x[2]
Overtaken ==
  \/ \E i \in Inos : \E a, b \in Images(Threads, i) : a /= b
  \/ \E i \in Inos : \E a, b \in Sizes(Threads, i) : a /= b
  \/ \E t \in Threads : th[t].at = "ready" /\ \E x \in logged[t] :
       x[1] \notin th[t].held \cup {th[t].ino} /\ x[2] /= grown[x[1]]
  \/ \E t \in Threads : th[t].at = "ready" /\ \E x \in th[t].log :
       /\ x[1] \notin th[t].held
       /\ \/ pi[x[1]] /= LeftAs(t, x)
          \/ x[1] = th[t].ino /\ (Entries(x[1]) /= {} \/ \E u \in Threads : x[1] \in th[u].changes)

\* pmfs_abort_transaction.
Abort(t) ==
  /\ th[t].at = "aborting" /\ ~tainted
  /\ pi' = Undone({t}) /\ grown' = SizesUndone({t})
  /\ th' = [th EXCEPT ![t] = Idle] /\ logged' = [logged EXCEPT ![t] = {}]
  /\ UNCHANGED <<ent, listed, count, nfree, hint, over, calls, boots, tainted>>

\* pmfs_link.
Link(t, i, d, n) ==
  /\ Call(t, {i, d})
  /\ pi[i].mode = "file" /\ EntriesOf(i) /= {}
  /\ IsDir(d) /\ Lookup(d, n) = {}
  /\ ent' = ent \cup {<<d, n, i>>}
  /\ pi' = [pi EXCEPT ![i].links = @ + 1]
  /\ th' = [th EXCEPT ![t] = Log({i, d}, {i}, {d})]
  /\ LogSizes(t, {i, d}) /\ MayGrow(d)
  /\ UNCHANGED <<listed, count, nfree, hint, over, boots, tainted>>

\* pmfs_unlink of entry e.
Unlink(t, e) ==
  LET i == e[3]
  IN  /\ Call(t, {e[1], i})
      /\ pi[i].mode = "file"
      /\ ent' = ent \ {e}
      /\ listed' = IF pi[i].links = 1 THEN listed \cup {i} ELSE listed
      /\ pi' = [pi EXCEPT ![i].links = @ - 1]
      /\ th' = [th EXCEPT ![t] = Log({i, e[1]}, {i}, {e[1]})]
      /\ LogSizes(t, {i, e[1]})
      /\ UNCHANGED <<grown, count, nfree, hint, over, boots, tainted>>

\* pmfs_rmdir of entry e.
Rmdir(t, e) ==
  LET i == e[3]
      d == e[1]
  IN  /\ Call(t, {d, i})
      /\ pi[i].mode = "dir" /\ Entries(i) = {}
      /\ ent' = ent \ {e}
      /\ listed' = listed \cup {i}
      /\ pi' = [pi EXCEPT ![i].links = 0, ![d].links = @ - 1]
      /\ th' = [th EXCEPT ![t] = Log({i, d}, {i, d}, {d})]
      /\ LogSizes(t, {i, d})
      /\ UNCHANGED <<grown, count, nfree, hint, over, boots, tainted>>

\* What is below directory i, and i.
Below(i) ==
  {j \in Inos : \A S \in SUBSET Inos :
     i \in S /\ (\A e \in ent : e[1] \in S => e[3] \in S) => j \in S}

\* s_vfs_rename_mutex of the VFS is held by a rename from one directory to another.
RenameMutexFree == \A t \in Threads : \A c, d \in th[t].changes : c = d

\* pmfs_rename of entry e to a name that does not exist. The VFS moves no directory
\* below itself.
RenameNew(t, e, d, n) ==
  LET i   == e[3]
      dir == pi[i].mode = "dir"
      locks == {e[1], d} \cup IF dir THEN {} ELSE {i}
  IN  /\ Call(t, locks)
      /\ IsDir(d) /\ Lookup(d, n) = {}
      /\ d /= e[1] => RenameMutexFree
      /\ dir => d \notin Below(i)
      /\ ent' = (ent \ {e}) \cup {<<d, n, i>>}
      /\ pi' = IF dir /\ d /= e[1] THEN [pi EXCEPT ![d].links = @ + 1, ![e[1]].links = @ - 1]
               ELSE pi
      /\ th' = [th EXCEPT ![t] = Log(locks, {i, d, e[1]}, {d, e[1]})]
      /\ LogSizes(t, {i, d, e[1]}) /\ MayGrow(d)
      /\ UNCHANGED <<listed, count, nfree, hint, over, boots, tainted>>

\* pmfs_rename of entry e over entry x. A directory that replaces another leaves its old
\* parent with a link too many (namei.c:760-765).
RenameOver(t, e, x) ==
  LET i   == e[3]
      j   == x[3]
      dir == pi[i].mode = "dir"
      left == pi[j].links - IF dir THEN 2 ELSE 1
      locks == {e[1], x[1], j} \cup IF dir THEN {} ELSE {i}
  IN  /\ Call(t, locks)
      /\ i /= j /\ pi[i].mode = pi[j].mode
      /\ x[1] /= e[1] => RenameMutexFree
      /\ dir => x[1] \notin Below(i) /\ Entries(j) = {}
      /\ ent' = (ent \ {e, x}) \cup {<<x[1], x[2], i>>}
      /\ pi' = [pi EXCEPT ![j].links = left]
      /\ listed' = IF left = 0 THEN listed \cup {j} ELSE listed
      /\ over' = IF dir THEN over \cup {e[1]} ELSE over
      /\ th' = [th EXCEPT ![t] = Log(locks, {i, j, e[1], x[1]}, {e[1], x[1]})]
      /\ LogSizes(t, {i, j, e[1], x[1]})
      /\ UNCHANGED <<grown, count, nfree, hint, boots, tainted>>

\* pmfs_commit_transaction.
Commit(t) ==
  /\ th[t].at = "ready" /\ ~tainted
  /\ th' = [th EXCEPT ![t] = Idle] /\ logged' = [logged EXCEPT ![t] = {}]
  /\ UNCHANGED <<pi, ent, grown, listed, count, nfree, hint, over, calls, boots, tainted>>

\* pmfs_evict_inode, when nobody has the inode open any more (module TruncateList has the
\* steps of it).
Evict(i) ==
  /\ i \in listed \ Held /\ pi[i].links = 0 /\ ~tainted
  /\ pi' = [pi EXCEPT ![i].dead = TRUE] /\ grown' = [grown EXCEPT ![i] = 0]
  /\ nfree' = nfree + 1
  /\ hint' = HintAfterFree(i)
  /\ listed' = listed \ {i}
  /\ UNCHANGED <<ent, logged, count, th, over, calls, boots, tainted>>

\* The free inodes as the mount counts them; inodes 0 and 2 are reserved, 1 is the root.
Counted(image) == count - Cardinality({i \in Start..count : ~Unused(image[i])})

\* The power fails and the volume is mounted again: transactions are undone, inodes on the
\* truncate list are freed if they have no links, and the inodes are counted. Entries are lost
\* that are behind the end of their directory now.
Reboot ==
  LET old   == Undone(Threads)
      sizes == SizesUndone(Threads)
      freed == {i \in listed : old[i].links = 0}
      found == [i \in Inos |-> IF i \in freed
                               THEN [old[i] EXCEPT !.dead = TRUE] ELSE old[i]]
      dirs  == UNION {th[t].changes : t \in Threads}
      kept  == {e \in ent : e[1] \notin dirs}
  IN  /\ boots < MaxBoot /\ ~tainted
      /\ boots' = boots + 1
      /\ pi' = found
      /\ grown' = [i \in Inos |-> IF i \in freed THEN 0 ELSE sizes[i]]
      /\ \E lost \in SUBSET {e \in kept : sizes[e[1]] < grown[e[1]]} :
           ent' = (kept \ lost) \cup UNION {th[t].was : t \in Threads}
      /\ listed' = {}
      /\ nfree' = Counted(found)
      /\ hint' = Start
      /\ th' = [t \in Threads |-> Idle] /\ logged' = [t \in Threads |-> {}]
      /\ tainted' = Overtaken
      /\ UNCHANGED <<count, over, calls>>

Init ==
  /\ pi = [i \in Inos |-> IF i = Root THEN [links |-> 2, mode |-> "dir", dead |-> FALSE]
                          ELSE [links |-> 0, mode |-> "none", dead |-> FALSE]]
  /\ ent = {} /\ listed = {}
  /\ count = Count0 /\ nfree = Count0 /\ hint = Start
  /\ th = [t \in Threads |-> Idle]
  /\ grown = [i \in Inos |-> 0] /\ logged = [t \in Threads |-> {}]
  /\ over = {} /\ calls = 0 /\ boots = 0 /\ tainted = FALSE

Next ==
  \/ \E t \in Threads :
       \/ \E kind \in {"file", "dir"}, d \in Inos, n \in Labels : Pick(t, kind, d, n)
       \/ Publish(t) \/ Enter(t) \/ EnterFails(t) \/ Abort(t) \/ Commit(t)
       \/ \E i \in Inos, d \in Inos, n \in Labels : Link(t, i, d, n)
       \/ \E e \in ent : Unlink(t, e) \/ Rmdir(t, e)
       \/ \E e \in ent, d \in Inos, n \in Labels : RenameNew(t, e, d, n)
       \/ \E e \in ent, x \in ent : RenameOver(t, e, x)
  \/ \E i \in Inos : Evict(i)
  \/ Reboot

Spec == Init /\ [][Next]_vars

-----------------------------------------------------------------------------
\* Types, for TreeSound: links are counted without going below 0, the free inodes never exceed
\* the table.
SizeTypes ==
  /\ grown \in [Inos -> 0..MaxGrown]
  /\ logged \in [Threads -> SUBSET (Inos \X (0..MaxGrown))]
TreeTypes ==
  /\ pi \in [Inos -> Image]
  /\ ent \subseteq Inos \X Labels \X Inos
  /\ listed \subseteq Inos /\ over \subseteq Inos
  /\ count \in Count0..MaxCount /\ hint \in Start..count + 1
  /\ nfree \in 0..count \/ tainted
  /\ \A t \in Threads :
       /\ th[t].at \in {"idle", "picked", "published", "aborting", "ready"}
       /\ th[t].kind \in Modes /\ th[t].name \in Labels \cup {NoLabel}
       /\ {th[t].dir, th[t].ino} \cup th[t].held \cup th[t].changes \subseteq Inos
       /\ th[t].log \subseteq Inos \X Image /\ th[t].was \subseteq Inos \X Labels \X Inos
  /\ calls \in 0..MaxCalls /\ boots \in 0..MaxBoot /\ tainted \in BOOLEAN
TypeOK == SizeTypes /\ TreeTypes

Subdirs(d) == {e \in Entries(d) : pi[e[3]].mode = "dir"}

\* Entries lead from live directories to inodes in use, and from the root to every directory.
Reachable ==
  /\ \A e \in ent : IsDir(e[1]) /\ ~pi[e[1]].dead /\ pi[e[3]].links > 0 /\ ~pi[e[3]].dead
  /\ \A e, x \in ent : e[1] = x[1] /\ e[2] = x[2] => e = x
  /\ \A i \in Numbers \ (Made \cup over) :
       pi[i].mode = "dir" /\ pi[i].links > 0 =>
         i \in Below(Root) /\ Cardinality(EntriesOf(i)) = 1

LinksExact ==
  \A i \in Inos \ Made :
    /\ pi[i].mode = "file" => pi[i].links = Cardinality(EntriesOf(i))
    /\ IsDir(i) => IF i \in over THEN pi[i].links >= 2 + Cardinality(Subdirs(i))
                   ELSE pi[i].links = 2 + Cardinality(Subdirs(i))

Orphans == {i \in Numbers \ Made : pi[i].links = 0 /\ ~Unused(pi[i])}

\* The tree is a tree, links count what leads to an inode, and an inode without links waits on
\* the truncate list until it is freed, whatever transactions of others are undone by an
\* abort or a crash. A directory whose subdirectory replaced another one by a rename counts
\* a link too many (namei.c:760-765 does not decrement it): it is in over.
TreeSound == TypeOK /\ (~tainted => Reachable /\ LinksExact /\ Orphans = listed \ Made)

\* The inode numbers that nobody has: s_free_inodes_count counts them, and the search from
\* s_free_inode_hint misses none, so the inode table grows, and a creation fails, only when
\* there is none.
Available ==
  {i \in Start..count : Unused(pi[i]) \/ i \in Made} \
    {th[t].ino : t \in {u \in Threads : th[u].at \in {"picked", "published"}}}
NumbersKept == ~tainted => nfree = Cardinality(Available) /\ \A i \in Available : hint <= i

=============================================================================
