--------------------------- MODULE SafsProperties ---------------------------
(***************************************************************************)
(* What the handlers of safs.c keep true, over which workloads; the runs   *)
(* of MCSafs say which.  SafsContract states what the comments of the      *)
(* sources promise and the handlers do not keep.                           *)
(***************************************************************************)
EXTENDS Safs

InumOf(s) == directory[s].inum
LiveInums == {InumOf(s) : s \in LiveSlots(directory)}
StatOf(n) == ReadInode(Entry(n).inum)
DataOf(n) ==
  IF Entry(n).storage \in DOMAIN storage THEN storage[Entry(n).storage].data
                                         ELSE <<>>

\* What read() returns of a file, which the kernel cuts off at st_size.
Visible(n) == SubSeq(DataOf(n), 1, Min({StatOf(n).size, Len(DataOf(n))}))
-----------------------------------------------------------------------------
(***************************************************************************)
(* Of every workload, remounts and exhausted descriptors included.         *)
(***************************************************************************)

\* Every record of Directory~ refers to a stat that was written: no handler,
\* and no remount, makes an entry read_inode cannot find.  link, unlink and
\* rename move records about; write_inode always comes before the record.
InodesBacked ==
  \A s \in DOMAIN directory : InumOf(s) # 0 /\ InumOf(s) \in DOMAIN inodes

\* inode_number is never behind a number in use: what safs_init's loop is for,
\* and what keeps the counter and the records together over remounts.
CounterCovers == \A s \in DOMAIN directory : InumOf(s) <= inode_number

\* A call that reports success costs at most one name: the compaction in
\* safs_unlink and the record safs_mknod writes over.
SuccessCostsOneName ==
  [][rc' = "OK" =>
       Cardinality(LiveNames(directory) \ LiveNames(directory')) <= 1]_vars
-----------------------------------------------------------------------------
(***************************************************************************)
(* Of one mount, without link.                                             *)
(***************************************************************************)

\* Every record lies below the slot the next mknod writes to, so mknod, which
\* does not look, never writes over one; the compaction in safs_unlink starts
\* at slot 2 and has to keep this.
SlotsBelowCounter == \A s \in LiveSlots(directory) : s < inode_number

\* st_nlink is the number of names of the file.
NlinkCountsNames ==
  \A s \in LiveSlots(directory) :
    inodes[InumOf(s)].nlink =
      Cardinality({t \in LiveSlots(directory) : InumOf(t) = InumOf(s)})

(***************************************************************************)
(* Of one mount with mknod, unlink and everything about contents, with     *)
(* descriptors enough.                                                     *)
(***************************************************************************)

\* No two records carry one name, so the scan of every handler, which stops
\* at the first, and the loop of safs_unlink, which takes all, agree.
UniqueNames ==
  \A s, t \in LiveSlots(directory) :
    directory[s].name = directory[t].name => s = t

\* Every name made and not removed is still found.
NoNameLost == dcache \subseteq LiveNames(directory)

\* The data file of an entry exists, under its own name (which is what
\* safs_unlink removes it by), and no other entry has it.
OwnStorage ==
  \A s \in LiveSlots(directory) :
    /\ directory[s].storage \in DOMAIN storage
    /\ directory[s].storage = directory[s].name
    /\ \A t \in LiveSlots(directory) \ {s} :
         directory[t].storage # directory[s].storage

\* st_size never promises bytes the data file does not have: safs_write sets
\* it before the data is written, safs_ftruncate extends by writing one byte.
SizeBacked ==
  \A s \in LiveSlots(directory) :
    LET f == storage[directory[s].storage]
    IN  DaemonIsRoot \/ "w" \in f.perm => inodes[InumOf(s)].size <= Len(f.data)
-----------------------------------------------------------------------------
(***************************************************************************)
(* Implementation of FlatFS, twice: with everything a user can see of a    *)
(* file, and with its attributes alone.                                    *)
(***************************************************************************)
AttrsOf(n) == [mode |-> StatOf(n).mode, size |-> StatOf(n).size]
LookOf(n) == [attrs |-> AttrsOf(n), bytes |-> Visible(n)]

Ids == 1 .. MaxInodes
AttrsType == [mode : SUBSET Perms, size : Nat]
NewAttrs == [mode : SUBSET Perms, size : {0}]     \* a file just made is empty

AttrsFS == INSTANCE FlatFS WITH
  Name <- Names, Id <- Ids, Look <- AttrsType, NewLook <- NewAttrs,
  files <- [n \in LiveNames(directory) |->
              [id |-> Entry(n).inum, look |-> AttrsOf(n)]]

FullFS == INSTANCE FlatFS WITH
  Name <- Names, Id <- Ids, Look <- [attrs : AttrsType, bytes : Seq(Nat)],
  NewLook <- [attrs : NewAttrs, bytes : {<<>>}],
  files <- [n \in LiveNames(directory) |->
              [id |-> Entry(n).inum, look |-> LookOf(n)]]

\* Names and attributes behave as in FlatFS: a call changes one name, or the
\* attributes of one file.
NamesAndAttrsRefine == AttrsFS!Spec

\* So do names, attributes and contents: no call on one file shows in another.
ContentsRefine == FullFS!Spec
=============================================================================
