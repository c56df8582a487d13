------------------------------ MODULE Directory ------------------------------
(***************************************************************************)
(* The records of one directory: dir.c, with the lookup and the rename of  *)
(* namei.c. Records tile a block by their lengths. A new record goes into  *)
(* the slack of another; a removed one becomes slack of the record before  *)
(* it, or is left without an inode at the start of the block. Only the     *)
(* field that makes the difference is logged. Calls have the lock of the   *)
(* directory until they commit. A scan by readdir has it for one record at *)
(* a time and keeps its position in between. Lengths are in units of the   *)
(* shortest record; "." and ".." are one record.                           *)
(***************************************************************************)
EXTENDS Naturals, FiniteSets, SequencesExt

CONSTANTS
  Labels, Dots,       \* the names of entries, and that of "." and ".."
  Targets, NoIno,     \* the inodes of entries, and 0
  Size,               \* PMFS_DIR_REC_LEN of a name
  Junk,               \* bytes in the middle of a record
  Block, MaxBlocks,   \* the length of a block; as far as the directory grows
  MaxCalls, MaxBoot   \* bounds on calls and mounts

ASSUME DirectoryAssumption ==
  /\ Block \in Nat \ {0} /\ MaxBlocks \in Nat \ {0}
  /\ Size \in [Labels \cup {Dots} -> 1..Block]
  /\ MaxCalls \in Nat /\ MaxBoot \in Nat
  /\ NoIno \notin Targets \cup {Dots} /\ Dots \notin Labels \cup Targets

VARIABLES
  mem,       \* mem[b][o]: the record that was written at offset o of block b
  blocks,    \* i_size
  log,       \* the fields the transaction has logged, and i_size
  at,        \* "idle" or "changed", when the entries are changed and to be committed
  scan,      \* a readdir under way
  stable,    \* the entries when the last call committed
  calls, boots

vars == <<mem, blocks, log, at, scan, stable, calls, boots>>

Offsets == 0..Block - 1
Record == [len : 1..Block, ino : Targets \cup {NoIno, Dots}, name : Labels \cup {Dots}]

ASSUME JunkAssumption == Junk \notin Record

\* With the offset of a record of block r, S has the offset of the next one, de_len further.
Steps(r, S) ==
  \A o \in S \cap Offsets : r[o] /= Junk /\ o + r[o].len <= Block => o + r[o].len \in S
\* What is reached from the start of the block: the offsets of its records, and its end.
Walk(r) == {o \in 0..Block : \A S \in SUBSET (0..Block) : 0 \in S /\ o \notin S => ~Steps(r, S)}
Records(r) == {o \in Walk(r) \cap Offsets : r[o] /= Junk}

\* pmfs_match: the places of the entries called n.
Find(m, k, n) ==
  {s \in (1..k) \X Offsets :
     LET de == m[s[1]][s[2]]
     IN  de /= Junk /\ de.ino /= NoIno /\ de.name = n /\ s[2] \in Records(m[s[1]])}

Content == UNION {{<<n, mem[s[1]][s[2]].ino>> : s \in Find(mem, blocks, n)} : n \in Labels}
NamesIn(m, k) == {n \in Labels : Find(m, k, n) /= {}}
Present == NamesIn(mem, blocks)

\* A record written over what was there.
Written(r, o, de) ==
  [p \in Offsets |-> IF p = o THEN de
                     ELSE IF p \in o..o + Size[de.name] - 1 THEN Junk ELSE r[p]]

-----------------------------------------------------------------------------
(* A change of the records: the memory after it, i_size, and what it has logged.            *)

\* pmfs_add_dirent_to_buf: is there room for n in the record?
Room(r, o, n) ==
  LET de == r[o]
  IN  /\ o <= Block - Size[n]
      /\ de.len - (IF de.ino = NoIno THEN 0 ELSE Size[de.name]) >= Size[n]
Rooms(m, k, n) ==
  {s \in (1..k) \X Offsets : s[2] \in Records(m[s[1]]) /\ Room(m[s[1]], s[2], n)}

\* The first one, block by block.
FirstOf(S) == CHOOSE s \in S : \A x \in S : s[1] < x[1] \/ (s[1] = x[1] /\ s[2] <= x[2])

\* pmfs_add_entry. The records of a new block are not logged.
Added(c, n, i) ==
  LET rooms == Rooms(c.mem, c.blocks, n)
      b     == FirstOf(rooms)[1]
      o     == FirstOf(rooms)[2]
      de    == c.mem[b][o]
      used  == Size[de.name]
  IN  IF rooms = {}
      THEN [c EXCEPT !.blocks = @ + 1,
                     !.mem[c.blocks + 1] = Written(@, 0, [len |-> Block, ino |-> i, name |-> n])]
      ELSE IF de.ino = NoIno
      THEN [c EXCEPT !.log = Append(@, [at |-> <<b, o>>, field |-> "ino", old |-> NoIno]),
                     !.mem[b] = Written(@, o, [de EXCEPT !.ino = i, !.name = n])]
      ELSE [c EXCEPT !.log = Append(@, [at |-> <<b, o>>, field |-> "len", old |-> de.len]),
                     !.mem[b] = Written([@ EXCEPT ![o].len = used], o + used,
                                        [len |-> de.len - used, ino |-> i, name |-> n])]

\* Mutant: the record before it gets its length.
RemovedNotAdded(c, n) ==
  LET s    == CHOOSE s \in Find(c.mem, c.blocks, n) : TRUE
      b    == s[1]
      prev == CHOOSE p \in Records(c.mem[b]) : p + c.mem[b][p].len = s[2]
  IN  IF s[2] = 0 THEN [c EXCEPT !.mem[b][0].ino = NoIno]
      ELSE [c EXCEPT !.mem[b][prev].len = c.mem[b][s[2]].len]

\* pmfs_remove_entry.
Removed(c, n) ==
  LET s    == CHOOSE s \in Find(c.mem, c.blocks, n) : TRUE
      b    == s[1]
      de   == c.mem[b][s[2]]
      prev == CHOOSE p \in Records(c.mem[b]) : p + c.mem[b][p].len = s[2]
  IN  IF s[2] = 0
      THEN [c EXCEPT !.log = Append(@, [at |-> s, field |-> "ino", old |-> de.ino]),
                     !.mem[b][0].ino = NoIno]
      ELSE [c EXCEPT !.log = Append(@, [at |-> <<b, prev>>, field |-> "len",
                                        old |-> c.mem[b][prev].len]),
                     !.mem[b][prev].len = @ + de.len]

\* pmfs_rename over an entry n that exists.
Replaced(c, n, i) ==
  LET s == CHOOSE s \in Find(c.mem, c.blocks, n) : TRUE
  IN  [c EXCEPT !.log = Append(@, [at |-> s, field |-> "ino", old |-> c.mem[s[1]][s[2]].ino]),
                !.mem[s[1]][s[2]].ino = i]

Renamed(c, n, m, i) ==
  Removed(IF m \in Present THEN Replaced(c, m, i) ELSE Added(c, m, i), n)

-----------------------------------------------------------------------------
Change(c) ==
  /\ at = "idle" /\ calls < MaxCalls
  /\ mem' = c.mem /\ blocks' = c.blocks
  /\ log' = [words |-> c.log, blocks |-> blocks]
  /\ at' = "changed" /\ calls' = calls + 1
  /\ scan' = [scan EXCEPT !.first = @ \cap NamesIn(c.mem, c.blocks)]
  /\ UNCHANGED <<stable, boots>>

Now == [mem |-> mem, blocks |-> blocks, log |-> <<>>]

\* The bound of the model on the size of the directory.
Fits(n) == blocks < MaxBlocks \/ Rooms(mem, blocks, n) /= {}

\* pmfs_link and the calls that make an inode.
Link(n, i) == n \notin Present /\ Fits(n) /\ Change(Added(Now, n, i))
\* pmfs_unlink and pmfs_rmdir.
Unlink(n) == n \in Present /\ Change(Removed(Now, n))
\* pmfs_rename. For two names of one inode the VFS does nothing.
Rename(n, m) ==
  \E i \in Targets :
    /\ <<n, i>> \in Content /\ <<m, i>> \notin Content
    /\ m \in Present \/ Fits(m)
    /\ Change(Renamed(Now, n, m, i))

\* pmfs_commit_transaction, and the unlock of the directory.
Commit ==
  /\ at = "changed"
  /\ at' = "idle" /\ stable' = Content
  /\ UNCHANGED <<mem, blocks, log, scan, calls, boots>>

NoScan == [at |-> "idle", pos |-> <<1, 0>>, first |-> {}, seen |-> [n \in Labels |-> 0]]

\* Mutant: inodes are not restored.
RestoredLengths(word, m) ==
  IF word.field = "len" THEN [m EXCEPT ![word.at[1]][word.at[2]].len = word.old] ELSE m

\* pmfs_undo_transaction: the fields are restored, the last one first.
Restored(word, m) ==
  IF word.field = "len" THEN [m EXCEPT ![word.at[1]][word.at[2]].len = word.old]
  ELSE [m EXCEPT ![word.at[1]][word.at[2]].ino = word.old]

\* The power fails and the journal is recovered.
Reboot ==
  /\ boots < MaxBoot
  /\ boots' = boots + 1
  /\ IF at = "changed"
     THEN mem' = FoldRight(Restored, log.words, mem) /\ blocks' = log.blocks
     ELSE UNCHANGED <<mem, blocks>>
  /\ at' = "idle" /\ scan' = NoScan
  /\ UNCHANGED <<log, stable, calls>>

\* pmfs_readdir: the directory is read from the start.
ScanStart ==
  /\ at = "idle" /\ scan.at = "idle"
  /\ scan' = [NoScan EXCEPT !.at = "open", !.first = Present]
  /\ UNCHANGED <<mem, blocks, log, at, stable, calls, boots>>

\* Mutant: a record without an inode ends the block.
ScanRecordToFree ==
  LET b  == scan.pos[1]
      o  == scan.pos[2]
      de == mem[b][o]
  IN  /\ at = "idle" /\ scan.at = "open" /\ b <= blocks
      /\ o \in Records(mem[b])
      /\ scan' = [scan EXCEPT
                    !.pos = IF o + de.len = Block \/ de.ino = NoIno THEN <<b + 1, 0>>
                            ELSE <<b, o + de.len>>,
                    !.seen = IF de.ino \in Targets THEN [scan.seen EXCEPT ![de.name] = @ + 1]
                             ELSE scan.seen]
      /\ UNCHANGED <<mem, blocks, log, at, stable, calls, boots>>

\* One record is given to dir_emit. The names that are there all the time remain in first.
ScanRecord ==
  LET b  == scan.pos[1]
      o  == scan.pos[2]
      de == mem[b][o]
  IN  /\ at = "idle" /\ scan.at = "open" /\ b <= blocks
      /\ o \in Records(mem[b])
      /\ scan' = [scan EXCEPT
                    !.pos = IF o + de.len = Block THEN <<b + 1, 0>> ELSE <<b, o + de.len>>,
                    !.seen = IF de.ino \in Targets THEN [scan.seen EXCEPT ![de.name] = @ + 1]
                             ELSE scan.seen]
      /\ UNCHANGED <<mem, blocks, log, at, stable, calls, boots>>

\* Lost: the record at the position was removed and is slack of another one. The test for it is
\* compiled out (dir.c:252-272): what is left of the record is listed, or what was written
\* over it is taken for a record.
ScanStale ==
  /\ at = "idle" /\ scan.at = "open" /\ scan.pos[1] <= blocks
  /\ scan.pos[2] \notin Records(mem[scan.pos[1]])
  /\ scan' = [scan EXCEPT !.at = "lost"]
  /\ UNCHANGED <<mem, blocks, log, at, stable, calls, boots>>

ScanEnd ==
  /\ at = "idle" /\ scan.at = "open" /\ scan.pos[1] > blocks
  /\ scan' = [scan EXCEPT !.at = "done"]
  /\ UNCHANGED <<mem, blocks, log, at, stable, calls, boots>>

Init ==
  /\ mem = [b \in 1..MaxBlocks |-> [o \in Offsets |->
              IF b = 1 /\ o = 0 THEN [len |-> Block, ino |-> Dots, name |-> Dots] ELSE Junk]]
  /\ blocks = 1
  /\ log = [words |-> <<>>, blocks |-> 1]
  /\ at = "idle" /\ scan = NoScan /\ stable = {}
  /\ calls = 0 /\ boots = 0

Next ==
  \/ \E n \in Labels :
       \/ \E i \in Targets : Link(n, i)
       \/ Unlink(n)
       \/ \E m \in Labels : Rename(n, m)
  \/ Commit \/ Reboot
  \/ ScanStart \/ ScanRecord \/ ScanStale \/ ScanEnd

Spec == Init /\ [][Next]_vars

-----------------------------------------------------------------------------
\* The records tile every block, each is as long as its name needs, and a name is there once:
\* whatever was added to, merged or left behind by removals, and restored after a crash
\* from the few fields that were logged. pmfs_check_dir_entry never finds an error.
Tiled ==
  /\ mem \in [1..MaxBlocks -> [Offsets -> Record \cup {Junk}]]
  /\ blocks \in 1..MaxBlocks
  /\ \A b \in 1..blocks :
       /\ Block \in Walk(mem[b])
       /\ \A o \in Records(mem[b]) : mem[b][o].len >= Size[mem[b][o].name]
  /\ \A n \in Labels : Cardinality(Find(mem, blocks, n)) <= 1

\* A scan that calls interrupt lists an entry that is there from its start to its end once,
\* wherever records are split, merged and added meanwhile; the lost case is ScanStale.
ListedOnce ==
  \A n \in scan.first :
    scan.seen[n] <= 1 /\ (scan.at = "done" => scan.seen[n] = 1)

AsMap == INSTANCE DirMap WITH map <- Content
\* The records implement the map of module DirMap: a call changes the entries that it is
\* about, all at once, and a crash takes back exactly the call that has not committed.
ImplementsDir == AsMap!Spec
=============================================================================
