---------------------------- MODULE TruncateList ----------------------------
(***************************************************************************)
(* The truncate list (inode.c, super.c): the persistent linked list of     *)
(* inodes that a crash leaves with work to do, either freeing an inode     *)
(* that was unlinked while open or finishing a truncation.                 *)
(*                                                                         *)
(* The list exists twice: as items behind the persistent inodes, with a    *)
(* head behind the inode of the inode table, and as a list of VFS inodes.  *)
(* An inode number can have two VFS inodes at a time: one being evicted    *)
(* and one of a new file with the same number.                             *)
(*                                                                         *)
(* Data.  A size counts blocks.  The blocks of a file are just the number  *)
(* of leading blocks its tree reaches.  Journal transactions are atomic    *)
(* and durable at their commit (see Journal); everything else reaches the  *)
(* media at any time between its store and the fence that covers it.       *)
(***************************************************************************)
EXTENDS Integers, FiniteSets, SequencesExt

CONSTANTS
  Inos,             \* inode numbers
  NoIno,            \* 0, the end of the list
  MaxSize,          \* bound: largest file
  Targets,          \* sizes that files are truncated to
  TruncateOrphans,  \* whether open files are truncated after their unlink
  MaxCreate,        \* bound: files created
  MaxFull,          \* bound: evictions and steps of recovery that fail
  MaxBoot           \* bound: power failures

ASSUME InosAssumption == NoIno \notin Inos
ASSUME SizesAssumption == MaxSize \in Nat \ {0} /\ Targets \subseteq 0 .. MaxSize
ASSUME OrphansAssumption == TruncateOrphans \in BOOLEAN
ASSUME BoundsAssumption == MaxCreate \in Nat /\ MaxFull \in Nat /\ MaxBoot \in Nat

VARIABLES
  next,      \* i_next_truncate of every item
  tsize,     \* i_truncatesize of every item
  heads,     \* values of the list head since one is known to be durable; the
             \* last is the current one, the media holds any
  nlink,     \* i_links_count
  dead,      \* the inode is free: it has a deletion time
  isize, pisize,   \* i_size, and the values the media may hold
  tree, ptree,     \* blocks of the file, likewise
  list,      \* s_truncate: VFS inodes, newest first
  lock,      \* holder of s_truncate_lock, <<>> if it is free
  vfs,       \* VFS inodes and what their threads are about to do
  mode,      \* mounted, recovering the list, list recovered
  rec,       \* ino_next of pmfs_recover_truncate_list
  tainted,   \* history: the list lost an inode it should keep, or kept one
             \* that it should have lost (see Next)
  creates, fulls, boots

vars == <<next, tsize, heads, nlink, dead, isize, pisize, tree, ptree, list, lock,
          vfs, mode, rec, tainted, creates, fulls, boots>>

itemVars == <<next, tsize>>
fileVars == <<isize, pisize, tree, ptree>>
linkVars == <<nlink, dead>>
countVars == <<creates, fulls, boots>>

-----------------------------------------------------------------------------
Sizes == 0 .. MaxSize

\* The VFS inodes: two for every number.
Objs == Inos \X {0, 1}
Ino(o)  == o[1]
Twin(o) == <<o[1], 1 - o[2]>>

Elems(s) == {s[k] : k \in 1 .. Len(s)}
Head0    == heads[Len(heads)]
Listed(o) == o \in Elems(list)

None == [pc |-> "none", want |-> 0]
Go(o, pc) == vfs' = [vfs EXCEPT ![o].pc = pc]

\* Threads that have begun a truncation or an unlink and not finished it.
Busy == {"truncate_add", "cut", "setsize", "truncate_del", "unlink_add", "unlink_commit"}

\* The inodes met when the list is followed from ino h.
Follows(S) == \A i \in S \ {NoIno} : next[i] \in S
Reach(h) ==
  {i \in Inos : \A S \in SUBSET (Inos \cup {NoIno}) : h \in S /\ Follows(S) => i \in S}

-----------------------------------------------------------------------------
Init ==
  /\ next = [i \in Inos |-> NoIno] /\ tsize = [i \in Inos |-> 0]
  /\ heads = <<NoIno>>
  /\ nlink = [i \in Inos |-> 1] /\ dead = [i \in Inos |-> FALSE]
  /\ isize = [i \in Inos |-> 1] /\ pisize = [i \in Inos |-> {1}]
  /\ tree = [i \in Inos |-> 1] /\ ptree = [i \in Inos |-> {1}]
  /\ list = <<>> /\ lock = <<>>
  /\ vfs = [o \in Objs |-> None]
  /\ mode = "up" /\ rec = NoIno /\ tainted = FALSE
  /\ creates = 0 /\ fulls = 0 /\ boots = 0

-----------------------------------------------------------------------------
(* VFS inodes come and go.                                                 *)

\* pmfs_iget on a name: the inode is not in the cache.
Iget(o) ==
  /\ mode = "up" /\ vfs[o].pc = "none" /\ vfs[Twin(o)].pc = "none"
  /\ nlink[Ino(o)] = 1
  /\ Go(o, "idle")
  /\ UNCHANGED <<itemVars, heads, linkVars, fileVars, list, lock, mode, rec, countVars>>

\* A cached inode that has a name is dropped.
Forget(o) ==
  /\ vfs[o].pc = "idle" /\ nlink[Ino(o)] = 1
  /\ Go(o, "none")
  /\ UNCHANGED <<itemVars, heads, linkVars, fileVars, list, lock, mode, rec, countVars>>

\* pmfs_new_inode takes a free inode.  insert_inode_locked passes over an old
\* VFS inode that is being evicted.  The truncate item is left as it is.
Create(o) ==
  LET i == Ino(o) IN
  /\ mode = "up" /\ vfs[o].pc = "none" /\ vfs[Twin(o)].pc \in {"none", "freed"}
  /\ dead[i] /\ creates < MaxCreate /\ creates' = creates + 1
  /\ nlink' = [nlink EXCEPT ![i] = 1] /\ dead' = [dead EXCEPT ![i] = FALSE]
  /\ Go(o, "idle")
  /\ UNCHANGED <<itemVars, heads, fileVars, list, lock, mode, rec, fulls, boots>>

\* A write makes the file longer, in one transaction.
Extend(o, s) ==
  LET i == Ino(o) IN
  /\ vfs[o].pc = "idle" /\ s > isize[i]
  /\ isize' = [isize EXCEPT ![i] = s] /\ pisize' = [pisize EXCEPT ![i] = {s}]
  /\ tree' = [tree EXCEPT ![i] = s] /\ ptree' = [ptree EXCEPT ![i] = {s}]
  /\ UNCHANGED <<itemVars, heads, linkVars, list, lock, vfs, mode, rec, countVars>>

-----------------------------------------------------------------------------
(* pmfs_truncate_add and pmfs_truncate_del.                                *)

\* Mutant: the size is not stored.
AddItem_nosize(o, s, pc) ==
  LET i == Ino(o) IN
  /\ lock = <<>> /\ lock' = o
  /\ next' = [next EXCEPT ![i] = Head0] /\ UNCHANGED tsize
  /\ vfs' = [vfs EXCEPT ![o] = [pc |-> pc, want |-> s]]

\* The item is filled and made durable.
AddItem(o, s, pc) ==
  LET i == Ino(o) IN
  /\ lock = <<>> /\ lock' = o
  /\ next' = [next EXCEPT ![i] = Head0] /\ tsize' = [tsize EXCEPT ![i] = s]
  /\ vfs' = [vfs EXCEPT ![o] = [pc |-> pc, want |-> s]]

\* The head is stored and flushed; only outside of transactions also fenced.
AddHead(o) ==
  LET i == Ino(o) IN
  /\ lock = o /\ lock' = <<>>
  /\ list' = <<o>> \o list
  /\ \/ vfs[o].pc = "truncate_add" /\ heads' = <<i>> /\ Go(o, "cut")
     \/ vfs[o].pc = "unlink_add" /\ heads' = Append(heads, i) /\ Go(o, "unlink_commit")
  /\ UNCHANGED <<itemVars, linkVars, fileVars, mode, rec, countVars>>

\* Where o is on the list.
Place(o) == CHOOSE k \in 1 .. Len(list) : list[k] = o

\* Mutant: the head is changed wherever the inode is.
ListDel_head(o) ==
  /\ list' = RemoveAt(list, Place(o))
  /\ heads' = <<next[Ino(o)]>> /\ UNCHANGED next

\* The list without o, in memory and on the media, both fenced.
ListDel(o) ==
  LET k == Place(o)
      i == Ino(o)
  IN /\ list' = RemoveAt(list, k)
     /\ IF k = 1
        THEN heads' = <<next[i]>> /\ UNCHANGED next
        ELSE next' = [next EXCEPT ![Ino(list[k - 1])] = next[i]] /\ UNCHANGED heads

\* Mutant: the truncation is not fenced before its inode leaves the list.
TruncateDel_nofence(o) ==
  /\ vfs[o].pc \in {"truncate_del", "freed"} /\ lock = <<>>
  /\ IF Listed(o)
     THEN ListDel(o) /\ UNCHANGED <<pisize, ptree>>
     ELSE UNCHANGED <<list, heads, next, pisize, ptree>>
  /\ Go(o, IF vfs[o].pc = "freed" THEN "none" ELSE "idle")
  /\ UNCHANGED <<tsize, linkVars, isize, tree, lock, mode, rec, countVars>>

\* The size and the blocks of the file become durable, then the inode leaves
\* the list; nothing is done for an inode that is not on it.
TruncateDel(o) ==
  LET i == Ino(o) IN
  /\ vfs[o].pc \in {"truncate_del", "freed"} /\ lock = <<>>
  /\ IF Listed(o)
     THEN /\ pisize' = [pisize EXCEPT ![i] = {isize[i]}]
          /\ ptree' = [ptree EXCEPT ![i] = {tree[i]}]
          /\ ListDel(o)
     ELSE UNCHANGED <<list, heads, next, pisize, ptree>>
  /\ Go(o, IF vfs[o].pc = "freed" THEN "none" ELSE "idle")
  /\ UNCHANGED <<tsize, linkVars, isize, tree, lock, mode, rec, countVars>>

-----------------------------------------------------------------------------
(* pmfs_notify_change: truncation.                                         *)

\* An inode that is on the list already keeps its item.
Truncate(o, s) ==
  /\ vfs[o].pc = "idle" /\ s # isize[Ino(o)]
  /\ nlink[Ino(o)] = 1 \/ TruncateOrphans
  /\ IF Listed(o)
     THEN /\ lock = <<>> /\ UNCHANGED <<itemVars, lock>>
          /\ vfs' = [vfs EXCEPT ![o] = [pc |-> "cut", want |-> s]]
     ELSE AddItem(o, s, "truncate_add")
  /\ UNCHANGED <<heads, linkVars, fileVars, list, mode, rec, countVars>>

\* The blocks that are left when a file of size old gets size new.
CutBlocks(blocks, old, new) == IF new < old /\ new < blocks THEN new ELSE blocks

\* pmfs_setsize frees the blocks behind the new end.
Cut(o) ==
  LET i == Ino(o)
      t == CutBlocks(tree[i], isize[i], vfs[o].want)
  IN
  /\ vfs[o].pc = "cut"
  /\ tree' = [tree EXCEPT ![i] = t] /\ ptree' = [ptree EXCEPT ![i] = @ \cup {t}]
  /\ Go(o, "setsize")
  /\ UNCHANGED <<itemVars, heads, linkVars, isize, pisize, list, lock, mode, rec, countVars>>

\* Mutant: pmfs_setsize returns without the fence.
SetSize_nofence(o) ==
  LET i == Ino(o) IN
  /\ vfs[o].pc = "setsize"
  /\ UNCHANGED ptree
  /\ isize' = [isize EXCEPT ![i] = vfs[o].want]
  /\ pisize' = [pisize EXCEPT ![i] = @ \cup {vfs[o].want}]
  /\ Go(o, "truncate_del")
  /\ UNCHANGED <<itemVars, heads, linkVars, tree, list, lock, mode, rec, countVars>>

\* The fence of pmfs_setsize; pmfs_update_isize stores the new size.
SetSize(o) ==
  LET i == Ino(o) IN
  /\ vfs[o].pc = "setsize"
  /\ ptree' = [ptree EXCEPT ![i] = {tree[i]}]
  /\ isize' = [isize EXCEPT ![i] = vfs[o].want]
  /\ pisize' = [pisize EXCEPT ![i] = @ \cup {vfs[o].want}]
  /\ Go(o, "truncate_del")
  /\ UNCHANGED <<itemVars, heads, linkVars, tree, list, lock, mode, rec, countVars>>

-----------------------------------------------------------------------------
(* pmfs_unlink (rmdir, rename over a file) and pmfs_evict_inode.           *)

Unlink(o) ==
  /\ vfs[o].pc = "idle" /\ nlink[Ino(o)] = 1
  /\ AddItem(o, isize[Ino(o)], "unlink_add")
  /\ UNCHANGED <<heads, linkVars, fileVars, list, mode, rec, countVars>>

\* The barrier of the commit covers this thread's flush of the head.
UnlinkCommit(o) ==
  LET i == Ino(o)
      K == {k \in 1 .. Len(heads) : heads[k] = i}
  IN
  /\ vfs[o].pc = "unlink_commit"
  /\ nlink' = [nlink EXCEPT ![i] = 0]
  /\ heads' = IF K = {} THEN heads
              ELSE SubSeq(heads, CHOOSE k \in K : \A l \in K : l <= k, Len(heads))
  /\ Go(o, "idle")
  /\ UNCHANGED <<itemVars, dead, fileVars, list, lock, mode, rec, countVars>>

\* pmfs_free_inode: the inode is free and its blocks are unreachable.
FreeInode(i) ==
  /\ dead' = [dead EXCEPT ![i] = TRUE]
  /\ isize' = [isize EXCEPT ![i] = 0] /\ pisize' = [pisize EXCEPT ![i] = {0}]
  /\ tree' = [tree EXCEPT ![i] = 0] /\ ptree' = [ptree EXCEPT ![i] = {0}]

\* The last reference to an inode without a name goes away.
Evict(o) ==
  /\ vfs[o].pc = "idle" /\ nlink[Ino(o)] = 0
  /\ FreeInode(Ino(o))
  /\ Go(o, "freed")
  /\ UNCHANGED <<itemVars, heads, nlink, list, lock, mode, rec, countVars>>

\* pmfs_free_inode gets no transaction, or the file has become append-only or
\* immutable since its unlink; eviction goes on with truncate_del.
EvictFails(o) ==
  /\ vfs[o].pc = "idle" /\ nlink[Ino(o)] = 0
  /\ fulls < MaxFull /\ fulls' = fulls + 1
  /\ Go(o, "freed")
  /\ UNCHANGED <<itemVars, heads, linkVars, fileVars, list, lock, mode, rec, creates, boots>>

-----------------------------------------------------------------------------
(* Power failure and pmfs_recover_truncate_list.                           *)

Crash ==
  /\ boots < MaxBoot /\ boots' = boots + 1
  /\ \E h \in Elems(heads) : heads' = <<h>> /\ rec' = h
  /\ isize' \in {f \in [Inos -> Sizes] : \A i \in Inos : f[i] \in pisize[i]}
  /\ tree' \in {f \in [Inos -> Sizes] : \A i \in Inos : f[i] \in ptree[i]}
  /\ pisize' = [i \in Inos |-> {isize'[i]}] /\ ptree' = [i \in Inos |-> {tree'[i]}]
  /\ list' = <<>> /\ lock' = <<>> /\ vfs' = [o \in Objs |-> None]
  /\ mode' = "recover"
  /\ UNCHANGED <<itemVars, linkVars, creates, fulls>>

\* The inode has a name: its truncation is done again.
RecoverTruncate ==
  /\ mode = "recover" /\ rec # NoIno /\ nlink[rec] = 1
  /\ LET t == CutBlocks(tree[rec], isize[rec], tsize[rec])
     IN tree' = [tree EXCEPT ![rec] = t] /\ ptree' = [ptree EXCEPT ![rec] = {t}]
  /\ isize' = [isize EXCEPT ![rec] = tsize[rec]]
  /\ pisize' = [pisize EXCEPT ![rec] = @ \cup {tsize[rec]}]
  /\ rec' = next[rec]
  /\ UNCHANGED <<itemVars, heads, linkVars, list, lock, vfs, mode, countVars>>

\* Mutant: the loop does not go on to the next inode.
RecoverOrphan_stuck ==
  /\ mode = "recover" /\ rec # NoIno /\ nlink[rec] = 0 /\ ~dead[rec]
  /\ UNCHANGED <<dead, fileVars, rec>>
  /\ UNCHANGED <<itemVars, heads, nlink, list, lock, vfs, mode, countVars>>

\* It has none: iput frees it.
RecoverOrphan ==
  /\ mode = "recover" /\ rec # NoIno /\ nlink[rec] = 0 /\ ~dead[rec]
  /\ FreeInode(rec)
  /\ rec' = next[rec]
  /\ UNCHANGED <<itemVars, heads, nlink, list, lock, vfs, mode, countVars>>

\* The same if pmfs_free_inode gets no transaction; recovery goes on with the next
\* inode and never comes back.
RecoverOrphanFails ==
  /\ mode = "recover" /\ rec # NoIno /\ nlink[rec] = 0 /\ ~dead[rec]
  /\ fulls < MaxFull /\ fulls' = fulls + 1
  /\ rec' = next[rec]
  /\ UNCHANGED <<itemVars, heads, linkVars, fileVars, list, lock, vfs, mode, creates, boots>>

\* pmfs_iget gets no memory for the inode; the loop ends.
RecoverNoMem ==
  /\ mode = "recover" /\ rec # NoIno
  /\ fulls < MaxFull /\ fulls' = fulls + 1
  /\ rec' = NoIno
  /\ UNCHANGED <<itemVars, heads, linkVars, fileVars, list, lock, vfs, mode, creates, boots>>

\* pmfs_iget returns -ESTALE for an inode that is free already; the loop ends.
RecoverStale ==
  /\ mode = "recover" /\ rec # NoIno /\ nlink[rec] = 0 /\ dead[rec]
  /\ rec' = NoIno
  /\ UNCHANGED <<itemVars, heads, linkVars, fileVars, list, lock, vfs, mode, countVars>>

\* All of it becomes durable, then the list is empty.
RecoverEnd ==
  /\ mode = "recover" /\ rec = NoIno
  /\ pisize' = [i \in Inos |-> {isize[i]}]
  /\ heads' = <<NoIno>>
  /\ mode' = "recovered"
  /\ UNCHANGED <<itemVars, linkVars, isize, tree, ptree, list, lock, vfs, rec, countVars>>

\* The rest of the mount.
Mounted ==
  /\ mode = "recovered" /\ mode' = "up"
  /\ UNCHANGED <<itemVars, heads, linkVars, fileVars, list, lock, vfs, rec, countVars>>

Recover ==
  \/ RecoverTruncate \/ RecoverOrphan \/ RecoverOrphanFails \/ RecoverNoMem
  \/ RecoverStale \/ RecoverEnd \/ Mounted

-----------------------------------------------------------------------------
Step ==
  \/ \E o \in Objs :
       \/ Iget(o) \/ Forget(o) \/ Create(o) \/ \E s \in Sizes : Extend(o, s)
       \/ \E s \in Targets : Truncate(o, s)
       \/ Cut(o) \/ SetSize(o)
       \/ Unlink(o) \/ UnlinkCommit(o) \/ Evict(o) \/ EvictFails(o)
       \/ AddHead(o) \/ TruncateDel(o)
  \/ Crash \/ Recover

\* Where the list goes wrong.
Left(o) == mode' = "up" /\ Listed(o) /\ o \notin Elems(list')

\* An inode that is neither linked nor freed leaves it.
OrphanDropped == \E o \in Objs : Left(o) /\ nlink[Ino(o)] = 0 /\ ~dead[Ino(o)]

\* A freed inode is used again before it has left it.
Reused == \E o \in Objs : Listed(o) /\ dead[Ino(o)] /\ ~dead'[Ino(o)]

\* An inode leaves it while the head on the media may still be this inode.
StaleHead == \E o \in Objs : Left(o) /\ Ino(o) \in Elems(heads')

\* Recovery ends at a free inode with others behind it.
StaleStop == RecoverStale /\ next[rec] # NoIno

\* Recovery passes over an inode, or stops in front of it, because it gets no
\* transaction or no memory, and empties the list all the same.
GivenUp == RecoverOrphanFails \/ RecoverNoMem

Mark ==
  tainted' = (tainted \/ OrphanDropped \/ Reused \/ StaleHead \/ StaleStop \/ GivenUp)

Next == Step /\ Mark

Spec == Init /\ [][Next]_vars

-----------------------------------------------------------------------------
(* Properties.                                                             *)

\* The shape of the state, for ListsAgree.
TypeOK ==
  /\ next \in [Inos -> Inos \cup {NoIno}] /\ tsize \in [Inos -> Sizes]
  /\ heads \in Seq(Inos \cup {NoIno}) /\ heads # <<>>
  /\ nlink \in [Inos -> {0, 1}] /\ dead \in [Inos -> BOOLEAN]
  /\ isize \in [Inos -> Sizes] /\ pisize \in [Inos -> SUBSET Sizes]
  /\ tree \in [Inos -> Sizes] /\ ptree \in [Inos -> SUBSET Sizes]
  /\ list \in Seq(Objs) /\ lock \in Objs \cup {<<>>}
  /\ vfs \in [Objs -> [pc : Busy \cup {"none", "idle", "freed"}, want : Sizes]]
  /\ mode \in {"up", "recover", "recovered"} /\ rec \in Inos \cup {NoIno}
  /\ tainted \in BOOLEAN
  /\ creates \in 0 .. MaxCreate /\ fulls \in 0 .. MaxFull /\ boots \in 0 .. MaxBoot

\* The persistent list is the list of VFS inodes, in the same order: the two are
\* changed together, and pmfs_truncate_del finds the item to change from the
\* VFS inode in front.
ListsAgree ==
  /\ TypeOK
  /\ mode = "up" /\ ~tainted =>
       /\ Head0 = IF list = <<>> THEN NoIno ELSE Ino(list[1])
       /\ \A k \in 1 .. Len(list) :
            next[Ino(list[k])] = IF k = Len(list) THEN NoIno ELSE Ino(list[k + 1])

\* An inode without a name that is not freed, or a file that may have its old
\* size or blocks behind its end once power has failed.
Pending(i) ==
  \/ nlink[i] = 0 /\ ~dead[i]
  \/ pisize[i] # {isize[i]}
  \/ \E t \in ptree[i], s \in pisize[i] : t > s

\* "a linked list of inodes which require further processing in case of a power
\* failure": whatever head the media holds, these inodes are met from there.
ListedOrDone ==
  mode # "recovered" /\ ~tainted =>
    \A i \in Inos : Pending(i) =>
      IF mode = "up" THEN \A h \in Elems(heads) : i \in Reach(h)
                     ELSE i \in Reach(Head0)

\* A file with a name that recovery would meet would keep its size, or it is being
\* truncated right now and would get the size that was asked for.
AsAsked ==
  \A h \in Elems(heads) : \A i \in Reach(h) :
    nlink[i] = 1 =>
      \/ tsize[i] = isize[i]
      \/ \E o \in Objs : Ino(o) = i /\ vfs[o].pc \in Busy /\ tsize[i] = vfs[o].want

\* Recovery never cuts a file behind its user's back.
TruncatesAsAsked == mode = "up" /\ ~tainted => AsAsked

\* "the inode is freed during the next mount".
OrphansFreed == mode = "recovered" => \A i \in Inos : nlink[i] = 0 => dead[i]

\* "PMFS will free the remaining blocks during the next mount": after recovery
\* no file has blocks behind its end, now or after another power failure, and no
\* inode without a name is left.
Recovered ==
  mode = "recovered" /\ ~tainted =>
    \A i \in Inos : ~Pending(i) /\ (dead[i] => tree[i] = 0)

\* The mounting thread runs.
FairSpec == Spec /\ WF_vars(Recover /\ Mark)

\* The mount gets to the end of the list, unless the list had gone wrong before it
\* began: after Reused it may be circular.
RecoveryEnds == (mode = "recover" /\ ~tainted) ~> (mode = "up")
=============================================================================
