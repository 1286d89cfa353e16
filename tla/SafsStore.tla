------------------------------ MODULE SafsStore ------------------------------
(***************************************************************************)
(* The two record files of safs.c as data, and the searches its handlers   *)
(* make over them.                                                         *)
(*                                                                         *)
(* /tmp/safs/Directory~ is an array of fixed-size records, addressed by    *)
(* lseek(fd, slot * sizeof(dentry)).  It is modelled as a function from    *)
(* the slots that were written to their records.  A slot below the end of  *)
(* the file that was never written reads back as zeros (empty name, inum   *)
(* 0); such a hole is a slot outside the DOMAIN.  Every write to the file  *)
(* leaves a record in its last slot, so the end of the file follows from   *)
(* the DOMAIN.  /tmp/safs/Inodes~ is the same kind of array, of struct     *)
(* stat.                                                                   *)
(***************************************************************************)
EXTENDS Integers, FiniteSets, FiniteSetsExt

\* The function f with x mapped to v: one record written over a file.
Put(f, x, v) == [y \in DOMAIN f \cup {x} |-> IF y = x THEN v ELSE f[y]]

\* The function f without x: one directory entry or one data file removed.
Drop(f, x) == [y \in DOMAIN f \ {x} |-> f[y]]

-----------------------------------------------------------------------------
\* Slots of d whose record is in use, by the test (dir.inum != 0).
LiveSlots(d) == {s \in DOMAIN d : d[s].inum # 0}

\* Slots that the search (strcmp(path+1, dir.name) == 0 && dir.inum != 0) hits.
Matches(d, n) == {s \in LiveSlots(d) : d[s].name = n}

LiveNames(d) == {d[s].name : s \in LiveSlots(d)}

\* Every handler scans from slot 0 and stops at the first hit.
FirstMatch(d, n) == Min(Matches(d, n))

\* The slot just past the last record, where read() first returns short.
EndOfFile(d) == IF DOMAIN d = {} THEN 0 ELSE Max(DOMAIN d) + 1

-----------------------------------------------------------------------------
(***************************************************************************)
(* safs_link's second loop: the first slot whose inum is 0, or else the    *)
(* end of the file.  The loop reads every record it passes into the same   *)
(* buffer, so afterwards dir.inum is that of the last record read: 0 when  *)
(* it stopped at a free slot, the inum of the last entry when it ran into  *)
(* the end of the file.                                                    *)
(***************************************************************************)
FreeSlot(d) == Min((0..EndOfFile(d)) \ LiveSlots(d))

InumLastRead(d) ==
  IF FreeSlot(d) < EndOfFile(d) THEN 0 ELSE d[EndOfFile(d) - 1].inum

-----------------------------------------------------------------------------
(***************************************************************************)
(* safs_unlink copies the records in the slots K of the old directory, in  *)
(* order, to consecutive slots of a new file from new_inode_number = 2 on. *)
(***************************************************************************)
FirstNewSlotTooHigh == 3                      \* mutant: one slot too far

FirstNewSlot == 2

\* How many of K are copied before slot s.
Rank(K, s) == Cardinality({t \in K : t < s})

\* The slot of K that is copied after exactly r others.
Ranked(K, r) == CHOOSE s \in K : Rank(K, s) = r

\* Mutant: the loop ends one record early.
RebuiltShort(d, K) ==
  [s \in FirstNewSlot .. FirstNewSlot + Cardinality(K) - 2 |->
     d[Ranked(K, s - FirstNewSlot)]]

\* Mutant: the record last read is written once more at the end of the file.
RebuiltTwice(d, K) ==
  [s \in IF K = {} THEN {}
         ELSE FirstNewSlot .. FirstNewSlot + Cardinality(K) |->
     d[Ranked(K, Min({s - FirstNewSlot, Cardinality(K) - 1}))]]

Rebuilt(d, K) ==
  [s \in FirstNewSlot .. FirstNewSlot + Cardinality(K) - 1 |->
     d[Ranked(K, s - FirstNewSlot)]]
=============================================================================
