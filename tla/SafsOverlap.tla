----------------------------- MODULE SafsOverlap ----------------------------
(***************************************************************************)
(* What the daemon keeps true while requests overlap and the daemon dies   *)
(* and comes back, and one promise it does not keep then.                  *)
(***************************************************************************)
EXTENDS SafsSteps, SafsProperties

Handles(t, op) == Busy(t) /\ CallOf(t).op = op

\* Names with a record in Directory~ or in .Directory~.
NamesOnDisk == LiveNames(directory) \cup LiveNames(aside)
-----------------------------------------------------------------------------
(***************************************************************************)
(* Safety, at every step of every handler.                                 *)
(***************************************************************************)

\* Both record files and the locals have their types, and a path grows by at
\* most one name for each thread.
StepsTypeOK ==
  /\ TypeOK
  /\ IsDirectory(aside)
  /\ filePath \in Seq(Names) /\ Len(filePath) <= Cardinality(Threads)
  /\ \A p \in DOMAIN stray : p \in Seq(Names) /\ stray[p] \in SUBSET Perms
  /\ \A t \in Threads : Busy(t) =>
       /\ CallOf(t) \in Calls
            \cup {Extension(n, off) : n \in Names, off \in Offsets}
       /\ th[t].inum \in Nat /\ th[t].file \in Names /\ th[t].st \in Stat
       /\ th[t].left \subseteq DOMAIN aside
  /\ crashes \in 0 .. MaxCrashes

\* Every record, also one that safs_unlink has still to copy, has a stat that
\* was written before: whoever reads Directory~ in between two steps, or after
\* a crash, finds no entry without a stat.
RecordsBacked ==
  \A d \in {directory, aside} : \A s \in DOMAIN d :
    d[s].inum # 0 /\ d[s].inum \in DOMAIN inodes

\* A handler keeps the number it found after it has closed Directory~
\* (safs.c:520), while the record may move or get lost and others are made.  Within
\* a mount no record of another name ever has this number, so the stat the
\* handler writes back is of no other file.
HandledNumberIsOwn ==
  crashes = 0 =>
    \A t \in Threads : Busy(t) /\ CallOf(t).op \notin {"mknod", "unlink"} =>
      \A d \in {directory, aside} : \A s \in LiveSlots(d) :
        d[s].inum = th[t].inum => d[s].name = CallOf(t).n

\* No step destroys the last record of a name but an unlink or rename of that
\* name; an unlink that moves Directory~ over a .Directory~ which an unlink
\* that failed or died left there, and which alone had the name; and, after a
\* mount, a mknod that gets a number already in use.
DiskKeepsNames ==
  [][\A n \in NamesOnDisk \ NamesOnDisk' :
       \/ \E t \in Threads : (Handles(t, "unlink") \/ Handles(t, "rename")) /\ CallOf(t).n = n
       \/ dirFile /\ ~dirFile' /\ n \notin LiveNames(directory)
       \/ crashes > 0 /\ \E t \in Threads : At(t, "enter")]_stepVars
-----------------------------------------------------------------------------
(***************************************************************************)
(* Liveness, when every thread keeps running.                              *)
(***************************************************************************)

\* Every request is answered, or its daemon dies.
RequestsEnd == \A t \in Threads : Busy(t) ~> ~Busy(t)

-----------------------------------------------------------------------------
\* safs.h:90 "size number of bytes are written to the file": when safs_write
\* returns success, the bytes are in the data file of the name and st_size
\* covers them.
WriteLands ==
  [][\A t \in Threads :
       Handles(t, "write") /\ At(t, "data") /\ ~Busy(t)' /\ rc' = "OK" =>
         LET c == CallOf(t)
         IN  /\ th[t].file \in DOMAIN storage'
             /\ Len(storage'[th[t].file].data) >= c.off + c.len
             /\ \A i \in c.off + 1 .. c.off + c.len :
                  storage'[th[t].file].data[i] = c.b
             /\ inodes'[th[t].inum].size >= c.off + c.len]_stepVars
=============================================================================
