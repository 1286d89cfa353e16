--------------------------- MODULE SafsFilesProofs ---------------------------
(***************************************************************************)
(* Theorems about what users of Safs see: names that stay, files that keep *)
(* their own data, and sizes that are not larger than the data.            *)
(***************************************************************************)
EXTENDS SafsProofs

(***************************************************************************)
(* A call that succeeds costs at most one name, in every workload.         *)
(***************************************************************************)
\* What a step takes from the names is no more than the name x.
LosesOnly(x) == LiveNames(directory) \ LiveNames(directory') \subseteq {x}

\* Names that are all still there, or all but one, cost at most one.
LEMMA OneNameCounts ==
  ASSUME NEW x, LosesOnly(x)
  PROVE  Cardinality(LiveNames(directory) \ LiveNames(directory')) <= 1
<1>1. IsFiniteSet({x}) /\ Cardinality({x}) = 1
  BY FS_Singleton
<1>2. LiveNames(directory) \ LiveNames(directory') \in SUBSET {x}
  BY DEF LosesOnly
<1>3. Cardinality(LiveNames(directory) \ LiveNames(directory')) <= Cardinality({x})
  BY <1>1, <1>2, FS_Subset
<1> QED  BY <1>1, <1>3

\* A handler that leaves Directory~ alone costs none.
LEMMA SameDirectoryLoses ==
  ASSUME UNCHANGED directory, NEW x
  PROVE  LosesOnly(x)
  BY DEF LosesOnly, LiveNames, LiveSlots

\* safs_mknod can cost the name of the record it writes over.
LEMMA MknodLoses ==
  ASSUME TypeOK, NEW n \in Names, NEW mode \in Modes, Mknod(n, mode)
  PROVE  \E x : LosesOnly(x)
<1>1. CASE UNCHANGED directory
  BY <1>1, SameDirectoryLoses
<1>2. CASE directory' = Put(directory, NewSlot, NewDentry(n))
  <2>1. \A s \in LiveSlots(directory) \ {NewSlot} :
          s \in LiveSlots(directory') /\ directory'[s] = directory[s]
    BY <1>2 DEF Put, LiveSlots
  <2> QED  BY <2>1 DEF LosesOnly, LiveNames
<1> QED  BY <1>1, <1>2 DEF Mknod, store

\* safs_link writes to a slot that is not in use, and costs no name.
LEMMA LinkLoses ==
  ASSUME TypeOK, NEW o \in Names, NEW n \in Names, Link(o, n)
  PROVE  LosesOnly(o)
<1>1. CASE LookupFails(o)
  BY <1>1, SameDirectoryLoses DEF LookupFails, store
<1>2. CASE LookupSucceeds(o) /\ ~LookupFails(o)
  <2>1. directory' = Put(directory, FreeSlot(directory), [Entry(o) EXCEPT !.name = n])
    BY <1>2 DEF Link
  <2>2. FreeSlot(directory) \notin LiveSlots(directory)
    BY FreeSlotType DEF TypeOK, IsDirectory
  <2>3. \A s \in LiveSlots(directory) :
          s \in LiveSlots(directory') /\ directory'[s] = directory[s]
    BY <2>1, <2>2 DEF Put, LiveSlots
  <2> QED  BY <2>3 DEF LosesOnly, LiveNames
<1> QED  BY <1>1, <1>2 DEF Link

\* safs_rename costs the old name at most.
LEMMA RenameLoses ==
  ASSUME TypeOK, NEW o \in Names, NEW n \in Names, Rename(o, n)
  PROVE  LosesOnly(o)
<1>1. CASE LookupFails(o)
  BY <1>1, SameDirectoryLoses DEF LookupFails, store
<1>2. CASE LookupSucceeds(o) /\ ~LookupFails(o)
  <2> DEFINE first == FirstMatch(directory, o)
  <2>1. directory' = [directory EXCEPT ![first].name = n]
    BY <1>2 DEF Rename
  <2>2. directory[first].name = o
    BY <1>2, FoundEntry DEF LookupSucceeds, TypeOK
  <2> HIDE DEF first
  <2>3. \A s \in LiveSlots(directory) \ {first} :
          s \in LiveSlots(directory') /\ directory'[s] = directory[s]
    BY <2>1 DEF LiveSlots
  <2> QED  BY <2>2, <2>3 DEF LosesOnly, LiveNames
<1> QED  BY <1>1, <1>2 DEF Rename

\* When the loop of safs_unlink gets to the end it has kept all but the name.
LEMMA KeptAllOthers ==
  ASSUME NEW n, Stuck(n) = {}
  PROVE  Kept(n) = {s \in DOMAIN directory : directory[s].name # n}
  BY DEF Kept, Scanned, Named

\* What was kept is in the new Directory~, and in use as before.
LEMMA KeptStay ==
  ASSUME TypeOK, InodesBacked, NEW n, directory' = Rebuilt(directory, Kept(n)),
         NEW k \in Kept(n)
  PROVE  \E s \in LiveSlots(directory') : directory'[s] = directory[k]
<1>1. Kept(n) \in SUBSET Nat /\ IsFiniteSet(Kept(n))
  BY KeptRecords, FS_Subset DEF TypeOK, IsDirectory
<1>2. PICK s \in DOMAIN directory' : directory'[s] = directory[k]
  BY <1>1, RebuiltHasAll
<1>3. directory[k].inum # 0
  BY KeptRecords DEF InodesBacked, InumOf
<1> QED  BY <1>2, <1>3 DEF LiveSlots

\* safs_unlink costs the name it is asked to remove and no other, when it says
\* it has succeeded.
LEMMA UnlinkLoses ==
  ASSUME TypeOK, InodesBacked, NEW n \in Names, Unlink(n), rc' = "OK"
  PROVE  LosesOnly(n)
<1>1. Stuck(n) = {} /\ directory' = Rebuilt(directory, Kept(n))
  BY DEF Unlink, Reply
<1>2. \A t \in LiveSlots(directory) :
        directory[t].name # n => directory[t].name \in LiveNames(directory')
  <2> SUFFICES ASSUME NEW t \in LiveSlots(directory), directory[t].name # n
               PROVE  directory[t].name \in LiveNames(directory')
    OBVIOUS
  <2>1. t \in Kept(n)
    BY <1>1, KeptAllOthers DEF LiveSlots
  <2> QED  BY <1>1, <2>1, KeptStay DEF LiveNames
<1> QED  BY <1>2 DEF LosesOnly, LiveNames

\* Whatever calls are made, over any number of mounts, one that reports
\* success takes at most one name out of the directory.
THEOREM SuccessIsCheap == Spec => SuccessCostsOneName
<1> DEFINE Cheap == rc' = "OK" =>
      Cardinality(LiveNames(directory) \ LiveNames(directory')) <= 1
<1>1. TypeOK /\ InodesBacked /\ [Next]_vars => [Cheap]_vars
  <2> SUFFICES ASSUME TypeOK, InodesBacked, Next, rc' = "OK"
               PROVE  \E x : LosesOnly(x)
    BY OneNameCounts
  <2>1. CASE Naming
    <3>1. CASE UNCHANGED directory
      BY <3>1, SameDirectoryLoses
    <3>2. CASE \E n \in Names : Unlink(n)
      BY <3>2, UnlinkLoses
    <3>3. CASE \E n \in Names, mode \in Modes : Mknod(n, mode)
      BY <3>3, MknodLoses
    <3>4. CASE \E o, n \in Names : Link(o, n) \/ Rename(o, n)
      BY <3>4, LinkLoses, RenameLoses
    <3> QED
      BY <2>1, <3>1, <3>2, <3>3, <3>4 DEF Naming, MknodSpecial, Remount, store
  <2>2. CASE Attributes \/ Contents
    BY <2>2, QuietStep, SameDirectoryLoses DEF Quiet
  <2> QED  BY <2>1, <2>2 DEF Next
<1>2. InodesBacked /\ CounterCovers => InodesBacked
  OBVIOUS
<1> QED
  BY <1>1, <1>2, TypeCorrect, EntriesHaveInodes, PTL DEF Spec, SuccessCostsOneName
-----------------------------------------------------------------------------
(***************************************************************************)
(* What the handlers of contents and attributes touch: the stat of one     *)
(* record and the data file the record names, or nothing.                  *)
(***************************************************************************)
TouchesFile(s) ==
  /\ UNCHANGED directory
  /\ \A i \in DOMAIN inodes :
       i \in DOMAIN inodes' /\ (i # directory[s].inum => inodes'[i] = inodes[i])
  /\ DOMAIN storage' = DOMAIN storage
  /\ \A f \in DOMAIN storage :
       f # directory[s].storage => storage'[f] = storage[f]

TouchesNothing == UNCHANGED <<directory, inodes, storage>>

TouchesFound == \E n \in Names : Found(n) /\ TouchesFile(FirstMatch(directory, n))

\* write_inode changes one stat; open() without O_CREAT makes no data file.
LEMMA WriteInodeTouches ==
  ASSUME NEW n \in Names, Found(n), NEW st, NEW k,
         UNCHANGED inodes \/ WriteInode(Entry(n).inum, st, k),
         UNCHANGED directory,
         \/ UNCHANGED storage
         \/ \E v : storage' = [storage EXCEPT ![Entry(n).storage] = v]
  PROVE  TouchesFound
<1>1. \A i \in DOMAIN inodes :
        i \in DOMAIN inodes' /\ (i # Entry(n).inum => inodes'[i] = inodes[i])
  BY DEF WriteInode, Put
<1>2. /\ DOMAIN storage' = DOMAIN storage
      /\ \A f \in DOMAIN storage : f # Entry(n).storage => storage'[f] = storage[f]
  OBVIOUS
<1> QED  BY <1>1, <1>2 DEF TouchesFound, TouchesFile, Entry

\* Every handler of contents and attributes touches the first record of its
\* name, or nothing.
LEMMA TouchStep ==
  ASSUME Attributes \/ Contents \/ UNCHANGED vars
  PROVE  TouchesNothing \/ TouchesFound
<1>1. ASSUME NEW n, LookupFails(n) PROVE TouchesNothing
  BY <1>1 DEF LookupFails, TouchesNothing, store
<1>2. ASSUME NEW n \in Names, NEW mode, Chmod(n, mode)
      PROVE  TouchesNothing \/ TouchesFound
  BY <1>1, <1>2, WriteInodeTouches DEF Chmod, SetStat, LookupSucceeds
<1>3. ASSUME NEW n \in Names, NEW at, NEW mt, Utimens(n, at, mt)
      PROVE  TouchesNothing \/ TouchesFound
  BY <1>1, <1>3, WriteInodeTouches DEF Utimens, SetStat, LookupSucceeds
<1>4. ASSUME NEW n \in Names, NEW flags, Open(n, flags)
      PROVE  TouchesNothing \/ TouchesFound
  BY <1>1, <1>4, WriteInodeTouches DEF Open, LookupSucceeds, TouchesNothing
<1>5. ASSUME NEW n \in Names, Read(n)
      PROVE  TouchesNothing \/ TouchesFound
  BY <1>1, <1>5, WriteInodeTouches DEF Read, LookupSucceeds
<1>6. ASSUME NEW n \in Names, NEW off, NEW len, NEW b, Write(n, off, len, b)
      PROVE  TouchesNothing \/ TouchesFound
  BY <1>1, <1>6, WriteInodeTouches DEF Write, LookupSucceeds
<1>7. ASSUME NEW n \in Names, NEW off, Truncate(n, off)
      PROVE  TouchesNothing \/ TouchesFound
  BY <1>1, <1>7, WriteInodeTouches DEF Truncate, LookupSucceeds
<1>8. CASE Attributes
  BY <1>8, <1>2, <1>3 DEF Attributes, Chown, Getattr, Readdir, TouchesNothing, store
<1>9. CASE Contents
  BY <1>9, <1>4, <1>5, <1>6, <1>7 DEF Contents
<1>10. CASE UNCHANGED vars
  BY <1>10 DEF vars, store, TouchesNothing
<1> QED  BY <1>8, <1>9, <1>10
-----------------------------------------------------------------------------
(***************************************************************************)
(* Names and data files, without link, rename and a second mount.  None of *)
(* the parts below holds after a step without the others: a size stays     *)
(* backed because no other record has the stat (InumsOnce) or the data     *)
(* file, which is so because the file is called like its only name.        *)
(***************************************************************************)
NamesOnce ==
  \A s, t \in DOMAIN directory : directory[s].name = directory[t].name => s = t

OwnFile ==
  \A s \in DOMAIN directory :
    directory[s].storage = directory[s].name /\ directory[s].storage \in DOMAIN storage

Fits(s) ==
  LET f == storage[directory[s].storage]
  IN  DaemonIsRoot \/ "w" \in f.perm =>
        inodes[directory[s].inum].size <= Len(f.data)

SizesFit == \A s \in DOMAIN directory : Fits(s)

FilesInv == OneMountInv /\ NamesOnce /\ OwnFile /\ SizesFit

\* The invariant has what the runs check.
LEMMA FilesInvImplies ==
  ASSUME FilesInv
  PROVE  UniqueNames /\ OwnStorage /\ SizeBacked
<1>1. UniqueNames
  BY DEF FilesInv, UniqueNames, NamesOnce, LiveSlots
<1>2. OwnStorage
  BY DEF FilesInv, OwnStorage, NamesOnce, OwnFile, LiveSlots
<1>3. SizeBacked
  BY DEF FilesInv, SizeBacked, SizesFit, Fits, LiveSlots, InumOf
<1> QED  BY <1>1, <1>2, <1>3

\* What is written lies within the data file.
LEMMA OverwriteLength ==
  ASSUME NEW data \in Seq(Nat), NEW off \in Nat, NEW len \in Nat, NEW b
  PROVE  /\ Len(Overwrite(data, off, len, b)) \in Nat
         /\ off + len <= Len(Overwrite(data, off, len, b))
<1> DEFINE m == Max({Len(data), off + len})
<1>1. m \in Nat /\ off + len <= m
  BY MaxOfTwo
<1> HIDE DEF m
<1>2. Overwrite(data, off, len, b) =
        [i \in 1 .. m |-> IF i \in off + 1 .. off + len THEN b
                          ELSE IF i <= Len(data) THEN data[i] ELSE 0]
  BY DEF Overwrite, m
<1>3. Len(Overwrite(data, off, len, b)) = m
  BY <1>1, <1>2
<1> QED  BY <1>1, <1>3

\* In FilesInv the records that are searched for are the only ones of their
\* name, stat and data file.
LEMMA FoundFile ==
  ASSUME TypeOK, FilesInv, NEW n, Found(n)
  PROVE  /\ FirstMatch(directory, n) \in DOMAIN directory
         /\ Entry(n) = directory[FirstMatch(directory, n)]
         /\ Entry(n).inum \in DOMAIN inodes /\ Entry(n).storage = n
         /\ n \in DOMAIN storage
         /\ storage[n] \in DataFile /\ inodes[Entry(n).inum] \in Stat
         /\ ReadInode(Entry(n).inum) = inodes[Entry(n).inum]
         /\ DaemonIsRoot \/ "w" \in storage[n].perm =>
              inodes[Entry(n).inum].size <= Len(storage[n].data)
<1>1. /\ FirstMatch(directory, n) \in DOMAIN directory
      /\ Entry(n) = directory[FirstMatch(directory, n)]
      /\ Entry(n).name = n
  BY FoundEntry DEF TypeOK
<1>2. Entry(n).inum \in DOMAIN inodes
  BY <1>1 DEF FilesInv, OneMountInv, OneLink
<1>3. Entry(n).storage = n /\ n \in DOMAIN storage
  BY <1>1 DEF FilesInv, OwnFile
<1>4. storage[n] \in DataFile /\ inodes[Entry(n).inum] \in Stat
  BY <1>2, <1>3 DEF TypeOK, IsStorage, IsInodes
<1>5. Fits(FirstMatch(directory, n))
  BY <1>1 DEF FilesInv, SizesFit
<1> QED  BY <1>1, <1>2, <1>3, <1>4, <1>5 DEF Fits, ReadInode

\* A handler that touches one file keeps FilesInv if that file's size fits
\* afterwards.
LEMMA TouchKeepsFiles ==
  ASSUME TypeOK, FilesInv, OneMountInv', NEW s \in DOMAIN directory,
         TouchesFile(s), Fits(s)'
  PROVE  FilesInv'
<1>1. NamesOnce' /\ OwnFile'
  BY DEF FilesInv, NamesOnce, OwnFile, TouchesFile
<1>2. \A t \in DOMAIN directory : Fits(t)'
  <2> SUFFICES ASSUME NEW t \in DOMAIN directory, t # s PROVE Fits(t)'
    OBVIOUS
  <2>1. /\ directory[t].inum # directory[s].inum
        /\ directory[t].inum \in DOMAIN inodes
    BY DEF FilesInv, OneMountInv, InumsOnce, OneLink
  <2>2. /\ directory[t].storage # directory[s].storage
        /\ directory[t].storage \in DOMAIN storage
    BY DEF FilesInv, NamesOnce, OwnFile
  <2>3. Fits(t)
    BY DEF FilesInv, SizesFit
  <2> QED  BY <2>1, <2>2, <2>3 DEF Fits, TouchesFile
<1>3. SizesFit'
  BY <1>2 DEF SizesFit, TouchesFile
<1> QED  BY <1>1, <1>3 DEF FilesInv

\* So does one that only shrinks the size in a stat, or leaves it.
LEMMA SmallerSizeKeepsFiles ==
  ASSUME TypeOK, FilesInv, OneMountInv', NEW n \in Names, Found(n), NEW k, NEW st,
         st \in Stat, st.size <= inodes[Entry(n).inum].size,
         UNCHANGED inodes \/ WriteInode(Entry(n).inum, st, k),
         UNCHANGED <<directory, storage>>
  PROVE  FilesInv'
<1> DEFINE i == Entry(n).inum
<1>0. PICK first \in DOMAIN directory : Entry(n) = directory[first]
  BY FoundFile
<1>1. /\ i \in DOMAIN inodes /\ inodes[i] \in Stat /\ storage[n] \in DataFile
      /\ Entry(n).storage = n
      /\ DaemonIsRoot \/ "w" \in storage[n].perm =>
           inodes[i].size <= Len(storage[n].data)
  BY FoundFile
<1>2. TouchesFile(first)
  <2>1. \A j \in DOMAIN inodes :
          j \in DOMAIN inodes' /\ (j # i => inodes'[j] = inodes[j])
    BY DEF WriteInode, Put
  <2> QED  BY <1>0, <1>1, <2>1 DEF TouchesFile
<1>3. inodes'[i].size <= inodes[i].size /\ inodes'[i].size \in Nat
  <2>1. inodes'[i] = inodes[i] \/ inodes'[i] = st
    BY <1>1 DEF WriteInode, Put
  <2>2. inodes[i].size \in Nat /\ st.size \in Nat
    BY <1>1 DEF Stat
  <2> QED  BY <2>1, <2>2
<1>4. Len(storage[n].data) \in Nat /\ inodes[i].size \in Nat
  BY <1>1 DEF DataFile, Stat
<1> HIDE DEF i
<1>5. Fits(first)'
  <2>1. directory'[first].storage = n /\ directory'[first].inum = i
    BY <1>0, <1>1 DEF i
  <2> QED  BY <1>1, <1>3, <1>4, <2>1 DEF Fits
<1> QED  BY <1>2, <1>5, TouchKeepsFiles

\* safs_write sets a size that the data it then writes reaches, or the data
\* file cannot be written at all.
LEMMA WriteKeepsFiles ==
  ASSUME TypeOK, FilesInv, OneMountInv', NEW n \in Names, NEW off \in Nat,
         NEW len \in Nat, NEW b \in Nat, Write(n, off, len, b), ~LookupFails(n)
  PROVE  FilesInv'
<1> DEFINE i == Entry(n).inum
<1>0. Found(n) /\ HasFds(1) /\ UNCHANGED directory
  BY DEF Write, LookupSucceeds, CanOpenDirectory
<1>a. PICK first \in DOMAIN directory : Entry(n) = directory[first]
  BY <1>0, FoundFile
<1>1. /\ i \in DOMAIN inodes /\ inodes[i] \in Stat /\ storage[n] \in DataFile
      /\ n \in DOMAIN storage /\ Entry(n).storage = n
      /\ ReadInode(i) = inodes[i]
  BY <1>0, FoundFile
<1> HIDE DEF i
<1>2. PICK now \in Times :
        WriteInode(i, [ReadInode(i) EXCEPT !.size = off + len,
                                           !.atim = now, !.mtim = now], 0)
  BY DEF Write, i
<1>3. /\ inodes'[i].size = off + len
      /\ \A j \in DOMAIN inodes :
           j \in DOMAIN inodes' /\ (j # i => inodes'[j] = inodes[j])
  <2> DEFINE st == [inodes[i] EXCEPT !.size = off + len, !.atim = now, !.mtim = now]
  <2>1. st.size = off + len
    BY <1>1 DEF Stat
  <2>2. inodes' = Put(inodes, i, st)
    BY <1>0, <1>1, <1>2 DEF WriteInode, HasFds
  <2> HIDE DEF st
  <2> QED  BY <2>1, <2>2 DEF Put
<1>4. \/ /\ ~CanOpenData(n, {"w"}) /\ UNCHANGED storage
      \/ storage' = [storage EXCEPT ![n].data = Overwrite(@, off, len, b)]
  BY <1>1 DEF Write
<1>5. TouchesFile(first)
  BY <1>0, <1>a, <1>1, <1>3, <1>4 DEF TouchesFile, i
<1>6. \/ ~(DaemonIsRoot \/ "w" \in storage'[n].perm)
      \/ off + len <= Len(storage'[n].data)
  <2>1. CASE ~CanOpenData(n, {"w"}) /\ UNCHANGED storage
    BY <1>1, <2>1 DEF CanOpenData
  <2>2. CASE storage' = [storage EXCEPT ![n].data = Overwrite(@, off, len, b)]
    <3>1. storage'[n].data = Overwrite(storage[n].data, off, len, b)
      BY <1>1, <2>2 DEF DataFile
    <3>2. storage[n].data \in Seq(Nat)
      BY <1>1 DEF DataFile
    <3> QED  BY <3>1, <3>2, OverwriteLength
  <2> QED  BY <1>4, <2>1, <2>2
<1>7. Fits(first)'
  <2>1. directory'[first].storage = n /\ directory'[first].inum = i
    BY <1>0, <1>a, <1>1 DEF i
  <2> QED  BY <1>3, <1>6, <2>1 DEF Fits
<1> QED  BY <1>5, <1>7, TouchKeepsFiles

\* safs_ftruncate writes one byte at the new end of a file that grows.
LEMMA TruncateKeepsFiles ==
  ASSUME TypeOK, FilesInv, OneMountInv', NEW n \in Names, NEW off \in Nat,
         Truncate(n, off), ~LookupFails(n)
  PROVE  FilesInv'
<1> DEFINE i == Entry(n).inum
<1>0. Found(n) /\ UNCHANGED directory
  BY DEF Truncate, LookupSucceeds
<1>a. PICK first \in DOMAIN directory : Entry(n) = directory[first]
  BY <1>0, FoundFile
<1>1. /\ i \in DOMAIN inodes /\ inodes[i] \in Stat /\ storage[n] \in DataFile
      /\ n \in DOMAIN storage /\ Entry(n).storage = n
      /\ ReadInode(i) = inodes[i]
      /\ DaemonIsRoot \/ "w" \in storage[n].perm =>
           inodes[i].size <= Len(storage[n].data)
  BY <1>0, FoundFile
<1> HIDE DEF i
<1>2. /\ IF inodes[i].size = off THEN UNCHANGED inodes
         ELSE WriteInode(i, [inodes[i] EXCEPT !.size = off], 1)
      /\ storage' = IF inodes[i].size < off /\ HasFds(2) /\ CanOpenData(n, {"w"})
                    THEN [storage EXCEPT ![n].data = Overwrite(@, off, 1, 0)]
                    ELSE storage
  <2>1. /\ IF ReadInode(i).size = off THEN UNCHANGED inodes
           ELSE WriteInode(i, [ReadInode(i) EXCEPT !.size = off], 1)
        /\ storage' = IF ReadInode(i).size < off /\ HasFds(2) /\ CanOpenData(Entry(n).storage, {"w"})
                    THEN [storage EXCEPT ![Entry(n).storage].data = Overwrite(@, off, 1, 0)]
                    ELSE storage
    BY DEF Truncate, i
  <2> QED  BY <1>1, <2>1
<1>3. \A j \in DOMAIN inodes :
        j \in DOMAIN inodes' /\ (j # i => inodes'[j] = inodes[j])
  BY <1>2 DEF WriteInode, Put
<1>4. TouchesFile(first)
  BY <1>0, <1>a, <1>1, <1>2, <1>3 DEF TouchesFile, i
<1>5. inodes[i].size \in Nat /\ Len(storage[n].data) \in Nat
      /\ storage[n].data \in Seq(Nat)
  BY <1>1 DEF Stat, DataFile
<1>6. inodes'[i].size = IF HasFds(2) THEN off ELSE inodes[i].size
  BY <1>1, <1>2 DEF WriteInode, Put, Stat
<1>7. \/ ~(DaemonIsRoot \/ "w" \in storage'[n].perm)
      \/ inodes'[i].size <= Len(storage'[n].data)
  <2>1. CASE inodes[i].size < off /\ HasFds(2) /\ CanOpenData(n, {"w"})
    <3>1. storage'[n].data = Overwrite(storage[n].data, off, 1, 0)
      BY <1>1, <1>2, <2>1 DEF DataFile
    <3>2. Len(storage'[n].data) \in Nat /\ off + 1 <= Len(storage'[n].data)
      BY <1>5, <3>1, OverwriteLength
    <3>3. inodes'[i].size = off
      BY <1>6, <2>1
    <3> QED  BY <3>2, <3>3
  <2>2. CASE ~(inodes[i].size < off /\ HasFds(2) /\ CanOpenData(n, {"w"}))
    <3>1. storage' = storage
      BY <1>2, <2>2
    <3>2. CASE ~CanOpenData(n, {"w"})
      BY <1>1, <3>1, <3>2 DEF CanOpenData
    <3>3. CASE ~(inodes[i].size < off /\ HasFds(2))
      BY <1>1, <1>5, <1>6, <3>1, <3>3
    <3> QED  BY <2>2, <3>2, <3>3
  <2> QED  BY <2>1, <2>2
<1>8. Fits(first)'
  <2>1. directory'[first].storage = n /\ directory'[first].inum = i
    BY <1>0, <1>a, <1>1 DEF i
  <2> QED  BY <1>7, <2>1 DEF Fits
<1> QED  BY <1>4, <1>8, TouchKeepsFiles

\* safs_mknod: the data file it makes, or empties, is no other entry's.
LEMMA MknodKeepsFiles ==
  ASSUME TypeOK, FilesInv, NEW n \in Names, NEW mode \in Modes, Mknod(n, mode)
  PROVE  FilesInv'
<1>0. OneMountInv'
  BY MknodOneMount DEF FilesInv
<1>1. \A s \in DOMAIN directory :
        /\ directory[s].name # n /\ directory[s].storage # n
        /\ s # inode_number /\ directory[s].inum # inode_number
        /\ directory[s].inum \in DOMAIN inodes
        /\ directory[s].storage \in DOMAIN storage
  <2> TAKE s \in DOMAIN directory
  <2>1. /\ s \in Nat /\ s < inode_number
        /\ directory[s].inum \in 1 .. inode_number - 1 /\ inode_number \in Nat
        /\ directory[s].inum \in DOMAIN inodes
    BY DEF TypeOK, IsDirectory, FilesInv, OneMountInv, RecordsBelow, OneLink
  <2>2. directory[s].name # n
    BY <2>1 DEF Mknod, Unseen, LiveNames, LiveSlots
  <2> QED  BY <2>1, <2>2 DEF FilesInv, OwnFile
<1>2. CASE UNCHANGED <<directory, inodes, storage>>
  BY <1>0, <1>2 DEF FilesInv, NamesOnce, OwnFile, SizesFit, Fits
<1>3. CASE storage' = Put(storage, n, EmptyData(n, mode))
  <2>1. /\ n \in DOMAIN storage' /\ storage'[n].data = <<>>
        /\ \A f \in DOMAIN storage :
             f \in DOMAIN storage' /\ (f # n => storage'[f] = storage[f])
    BY <1>3 DEF Put, EmptyData
  <2>2. CASE UNCHANGED <<directory, inodes>>
    <3>1. NamesOnce' /\ OwnFile'
      BY <1>1, <2>1, <2>2 DEF FilesInv, NamesOnce, OwnFile
    <3>2. SizesFit'
      BY <1>1, <2>1, <2>2 DEF FilesInv, SizesFit, Fits
    <3> QED  BY <1>0, <3>1, <3>2 DEF FilesInv
  <2>3. CASE /\ \E now \in Times :
                  inodes' = Put(inodes, inode_number, NewStat(mode, now))
             /\ directory' = Put(directory, NewSlot, NewDentry(n))
    <3>1. /\ DOMAIN directory' = DOMAIN directory \cup {inode_number}
          /\ directory'[inode_number] =
               [name |-> n, storage |-> n, inum |-> inode_number]
          /\ \A s \in DOMAIN directory : directory'[s] = directory[s]
      BY <1>1, <2>3 DEF Put, NewSlot, NewDentry
    <3>2. /\ inodes'[inode_number].size = 0
          /\ \A i \in DOMAIN inodes : i # inode_number => inodes'[i] = inodes[i]
      BY <2>3 DEF Put, NewStat
    <3>3. NamesOnce' /\ OwnFile'
      BY <1>1, <2>1, <3>1 DEF FilesInv, NamesOnce, OwnFile
    <3>4. \A s \in DOMAIN directory' : Fits(s)'
      <4> TAKE s \in DOMAIN directory'
      <4>1. CASE s \in DOMAIN directory
        BY <1>1, <2>1, <3>1, <3>2, <4>1 DEF FilesInv, SizesFit, Fits
      <4>2. CASE s = inode_number
        <5>1. Len(<<>>) = 0  OBVIOUS
        <5> QED  BY <2>1, <3>1, <3>2, <4>2, <5>1 DEF Fits
      <4> QED  BY <3>1, <4>1, <4>2
    <3>5. SizesFit'
      BY <3>4 DEF SizesFit
    <3> QED  BY <1>0, <3>3, <3>5 DEF FilesInv
  <2> QED  BY <1>3, <2>2, <2>3, <1>2 DEF Mknod, store
<1> QED  BY <1>2, <1>3 DEF Mknod, store

\* Dropping links leaves sizes and modes as they are.
LEMMA DropLinksSizes ==
  ASSUME TypeOK, NEW n, NEW i \in DOMAIN inodes
  PROVE  /\ i \in DOMAIN DropLinks(n)
         /\ DropLinks(n)[i].size = inodes[i].size
         /\ DropLinks(n)[i].mode = inodes[i].mode
<1>1. inodes[i] \in Stat /\ ReadInode(i) = inodes[i]
  BY DEF TypeOK, IsInodes, ReadInode
<1>2. /\ i \in DOMAIN DropLinks(n)
      /\ DropLinks(n)[i] =
           [inodes[i] EXCEPT !.nlink = (@ - Unlinks(n, i)) % LinkMod]
  BY <1>1 DEF DropLinks
<1> QED  BY <1>1, <1>2 DEF Stat

\* safs_unlink removes the data file of the name, and keeps no record of it.
LEMMA UnlinkKeepsFiles ==
  ASSUME TypeOK, FilesInv, NEW n \in Names, Unlink(n)
  PROVE  FilesInv'
<1>0. OneMountInv'
  BY UnlinkOneMount DEF FilesInv
<1>1. CASE UNCHANGED <<directory, inodes, storage>>
  BY <1>0, <1>1 DEF FilesInv, NamesOnce, OwnFile, SizesFit, Fits
<1>2. CASE directory' = <<>>
  <2>1. DOMAIN directory' = {}  BY <1>2
  <2> QED  BY <1>0, <2>1 DEF FilesInv, NamesOnce, OwnFile, SizesFit
<1>3. CASE /\ directory' = Rebuilt(directory, Kept(n))
           /\ inodes' = IF HasFds(3) THEN DropLinks(n) ELSE inodes
           /\ storage' = IF Named(n) = {} THEN storage ELSE Drop(storage, n)
  <2>1. /\ \A s \in DOMAIN directory' :
             \E k \in Kept(n) : directory'[s] = directory[k]
        /\ \A s, t \in DOMAIN directory' :
             s # t => \E j, k \in Kept(n) : /\ j # k
                                            /\ directory'[s] = directory[j]
                                            /\ directory'[t] = directory[k]
    <3>1. Kept(n) \in SUBSET Nat /\ IsFiniteSet(Kept(n))
      BY KeptRecords, FS_Subset DEF TypeOK, IsDirectory
    <3> QED  BY <1>3, <3>1, RebuiltCopies
  <2>2. \A k \in Kept(n) :
          /\ k \in DOMAIN directory /\ directory[k].storage = directory[k].name
          /\ directory[k].storage \in DOMAIN storage'
          /\ storage'[directory[k].storage] = storage[directory[k].storage]
          /\ inodes'[directory[k].inum].size = inodes[directory[k].inum].size
    <3> TAKE k \in Kept(n)
    <3>1. k \in DOMAIN directory /\ directory[k].name # n
      BY DEF Kept, Scanned, Named
    <3>2. directory[k].inum \in DOMAIN inodes
      BY <3>1 DEF FilesInv, OneMountInv, OneLink
    <3>3. inodes'[directory[k].inum].size = inodes[directory[k].inum].size
      BY <1>3, <3>2, DropLinksSizes
    <3> QED  BY <1>3, <3>1, <3>3 DEF FilesInv, OwnFile, Drop
  <2>3. NamesOnce' /\ OwnFile'
    BY <2>1, <2>2 DEF FilesInv, NamesOnce, OwnFile
  <2>4. \A s \in DOMAIN directory' : Fits(s)'
    BY <2>1, <2>2 DEF FilesInv, SizesFit, Fits
  <2>5. SizesFit'
    BY <2>4 DEF SizesFit
  <2> QED  BY <1>0, <2>3, <2>5 DEF FilesInv
<1> QED  BY <1>1, <1>2, <1>3 DEF Unlink

\* The operations of the workload: no file has a second name, is renamed or
\* outlives the daemon.
NamesStay == Ops \cap {"link", "rename", "replace", "remount"} = {}

\* Every step of such a workload keeps FilesInv.
LEMMA StepFiles ==
  ASSUME NamesStay, TypeOK, FilesInv, [Next]_vars
  PROVE  FilesInv'
<1>0. OneMountInv'
  BY StepOneMount DEF FilesInv, NamesStay
<1>1. CASE UNCHANGED <<directory, inodes, storage>>
  BY <1>0, <1>1 DEF FilesInv, NamesOnce, OwnFile, SizesFit, Fits
<1>2. ASSUME NEW n, LookupFails(n) PROVE FilesInv'
  BY <1>1, <1>2 DEF LookupFails, store
<1>3. CASE Naming
  BY <1>1, <1>3, MknodKeepsFiles, UnlinkKeepsFiles
  DEF Naming, NamesStay, MknodSpecial, store
<1>4. ASSUME NEW n \in Names, Found(n), NEW st, NEW k, st \in Stat,
             st.size = 0 \/ st.size = inodes[Entry(n).inum].size,
             UNCHANGED inodes \/ WriteInode(Entry(n).inum, st, k),
             UNCHANGED <<directory, storage>>
      PROVE FilesInv'
  <2>1. inodes[Entry(n).inum].size \in Nat
    BY <1>4, FoundFile DEF Stat
  <2>2. st.size <= inodes[Entry(n).inum].size
    BY <1>4, <2>1
  <2> QED  BY <1>0, <1>4, <2>2, SmallerSizeKeepsFiles
<1>5. CASE Attributes
  <2>1. ASSUME NEW n \in Names, NEW mode \in Modes, Chmod(n, mode) PROVE FilesInv'
    <3>1. CASE LookupFails(n)  BY <1>2, <3>1
    <3>2. CASE LookupSucceeds(n) /\ ~LookupFails(n)
      <4> DEFINE st == ReadInode(Entry(n).inum)
                 up == [st EXCEPT !.mode = mode]
      <4>1. Found(n) /\ mode \in SUBSET Perms
        BY <3>2, ModesAssumption DEF LookupSucceeds
      <4>2. WriteInode(Entry(n).inum, up, 1) /\ UNCHANGED <<directory, storage>>
        BY <2>1, <3>2 DEF Chmod, SetStat
      <4>3. up \in Stat /\ up.size = inodes[Entry(n).inum].size
        <5>1. st \in Stat /\ st = inodes[Entry(n).inum]  BY <4>1, FoundFile
        <5> HIDE DEF st
        <5> QED  BY <4>1, <5>1 DEF Stat
      <4> HIDE DEF up
      <4> QED  BY <4>1, <4>2, <4>3, <1>4
    <3> QED  BY <2>1, <3>1, <3>2 DEF Chmod, SetStat
  <2>2. ASSUME NEW n \in Names, NEW at \in Times, NEW mt \in Times, Utimens(n, at, mt)
        PROVE FilesInv'
    <3>1. CASE LookupFails(n)  BY <1>2, <3>1
    <3>2. CASE LookupSucceeds(n) /\ ~LookupFails(n)
      <4> DEFINE st == ReadInode(Entry(n).inum)
                 up == [st EXCEPT !.atim = at, !.mtim = mt]
      <4>1. Found(n) /\ at \in Nat /\ mt \in Nat
        BY <3>2, TimesAssumption DEF LookupSucceeds
      <4>2. WriteInode(Entry(n).inum, up, 1) /\ UNCHANGED <<directory, storage>>
        BY <2>2, <3>2 DEF Utimens, SetStat
      <4>3. up \in Stat /\ up.size = inodes[Entry(n).inum].size
        <5>1. st \in Stat /\ st = inodes[Entry(n).inum]  BY <4>1, FoundFile
        <5> HIDE DEF st
        <5> QED  BY <4>1, <5>1 DEF Stat
      <4> HIDE DEF up
      <4> QED  BY <4>1, <4>2, <4>3, <1>4
    <3> QED  BY <2>2, <3>1, <3>2 DEF Utimens, SetStat
  <2> QED
    BY <1>1, <1>5, <2>1, <2>2 DEF Attributes, Chown, Getattr, Readdir, store
<1>6. CASE Contents
  <2>1. ASSUME NEW n \in Names, NEW flags, Open(n, flags) PROVE FilesInv'
    <3>1. CASE LookupFails(n)  BY <1>2, <3>1
    <3>2. CASE LookupSucceeds(n) /\ ~LookupFails(n)
      <4> DEFINE st == ReadInode(Entry(n).inum)
                 up == [st EXCEPT !.size = 0]
      <4>1. Found(n)
        BY <3>2 DEF LookupSucceeds
      <4>2. /\ UNCHANGED inodes \/ WriteInode(Entry(n).inum, up, 1)
            /\ UNCHANGED <<directory, storage>>
        BY <2>1, <3>2 DEF Open
      <4>3. up \in Stat /\ up.size = 0
        <5>1. st \in Stat /\ st = inodes[Entry(n).inum]  BY <4>1, FoundFile
        <5> HIDE DEF st
        <5> QED  BY <4>1, <5>1 DEF Stat
      <4> HIDE DEF up
      <4> QED  BY <4>1, <4>2, <4>3, <1>4
    <3> QED  BY <2>1, <3>1, <3>2 DEF Open
  <2>2. ASSUME NEW n \in Names, Read(n) PROVE FilesInv'
    <3>1. CASE LookupFails(n)  BY <1>2, <3>1
    <3>2. CASE LookupSucceeds(n) /\ ~LookupFails(n)
      <4> DEFINE st == ReadInode(Entry(n).inum)
                 Up(now) == [st EXCEPT !.atim = now]
      <4>1. Found(n) /\ UNCHANGED <<directory, storage>>
        BY <2>2, <3>2 DEF LookupSucceeds, Read
      <4>2. PICK now \in Times : WriteInode(Entry(n).inum, Up(now), 0)
        BY <2>2, <3>2 DEF Read
      <4>3. now \in Nat
        BY TimesAssumption
      <4>4. Up(now) \in Stat /\ Up(now).size = inodes[Entry(n).inum].size
        <5>1. st \in Stat /\ st = inodes[Entry(n).inum]  BY <4>1, FoundFile
        <5> HIDE DEF st
        <5> QED  BY <4>3, <5>1 DEF Stat
      <4> HIDE DEF Up
      <4> QED  BY <4>1, <4>2, <4>4, <1>4
    <3> QED  BY <2>2, <3>1, <3>2 DEF Read
  <2>3. Offsets \subseteq Nat /\ Lengths \subseteq Nat /\ Bytes \subseteq Nat
    BY SizeAssumption, BytesAssumption DEF Offsets, Lengths
  <2>4. ASSUME NEW n \in Names, NEW off \in Offsets, NEW len \in Lengths,
               NEW b \in Bytes, Write(n, off, len, b)
        PROVE FilesInv'
    BY <1>0, <1>2, <2>3, <2>4, WriteKeepsFiles
  <2>5. ASSUME NEW n \in Names, NEW off \in Offsets, Truncate(n, off) PROVE FilesInv'
    BY <1>0, <1>2, <2>3, <2>5, TruncateKeepsFiles
  <2> QED  BY <1>6, <2>1, <2>2, <2>4, <2>5 DEF Contents
<1>7. CASE UNCHANGED vars
  BY <1>1, <1>7 DEF vars, store
<1> QED  BY <1>3, <1>5, <1>6, <1>7 DEF Next

\* At the first mount there are no records.
LEMMA InitFiles == Init => FilesInv
<1>1. DOMAIN <<>> = {}  OBVIOUS
<1> QED
  BY <1>1 DEF Init, FilesInv, OneMountInv, InumsOnce, RecordsBelow, OneLink, Room,
              NamesOnce, OwnFile, SizesFit

\* FilesInv is an invariant of every workload that leaves names as they are.
LEMMA FilesAlways ==
  ASSUME NamesStay
  PROVE  Spec => []FilesInv
<1>1. TypeOK /\ FilesInv /\ [Next]_vars => FilesInv'
  BY StepFiles
<1> QED  BY <1>1, InitFiles, TypeCorrect, PTL DEF Spec

\* Every entry has a data file of its own, under its own name, however calls
\* fail for want of descriptors or permissions.
THEOREM FilesAreOwn ==
  ASSUME NamesStay
  PROVE  Spec => []OwnStorage
BY FilesAlways, FilesInvImplies, PTL

\* No two entries have one name.
THEOREM NamesAreUnique ==
  ASSUME NamesStay
  PROVE  Spec => []UniqueNames
BY FilesAlways, FilesInvImplies, PTL

\* st_size never promises bytes that a data file which can be written lacks.
THEOREM SizesAreBacked ==
  ASSUME NamesStay
  PROVE  Spec => []SizeBacked
BY FilesAlways, FilesInvImplies, PTL
-----------------------------------------------------------------------------
(***************************************************************************)
(* No name is lost, in the same workloads, with descriptors for the files  *)
(* ever made and for the calls at work on them.  safs_mknod leaks one for  *)
(* each file; safs_unlink, which would leak two, or lose the whole of      *)
(* Directory~, does so only without a data file, or without descriptors.   *)
(***************************************************************************)
EnoughFds == MaxInodes + 3 <= MaxFds

DescriptorsLast ==
  dirFile /\ leaked <= inode_number /\ inode_number <= MaxInodes + 1

LookupsInv == FilesInv /\ DescriptorsLast /\ NoNameLost

\* The loop of safs_unlink gets to its end: the name has one record, with its
\* data file.
LEMMA NeverStuck ==
  ASSUME TypeOK, FilesInv, NEW n
  PROVE  Stuck(n) = {}
<1> SUFFICES ASSUME NEW s \in Stuck(n) PROVE FALSE
  OBVIOUS
<1>1. s \in Named(n) /\ n \in DOMAIN storage
  BY DEF Stuck, Named, FilesInv, OwnFile
<1>2. PICK t \in Named(n) : t < s
  BY <1>1 DEF Stuck
<1>3. t = s /\ s \in Nat
  BY <1>1, <1>2 DEF Named, FilesInv, NamesOnce, TypeOK, IsDirectory
<1> QED  BY <1>2, <1>3

\* Handlers of contents and attributes close what they open.
LEMMA DataStepDescriptors ==
  ASSUME Attributes \/ Contents \/ UNCHANGED vars
  PROVE  UNCHANGED <<dirFile, leaked>>
<1>1. \A n : LookupFails(n) => UNCHANGED <<dirFile, leaked>>
  BY DEF LookupFails, store
<1>2. Attributes => UNCHANGED <<dirFile, leaked>>
  BY <1>1 DEF Attributes, Chmod, Utimens, SetStat, Chown, Getattr, Readdir, store
<1>3. Contents => UNCHANGED <<dirFile, leaked>>
  BY <1>1 DEF Contents, Open, Read, Write, Truncate
<1> QED  BY <1>2, <1>3 DEF vars, store

\* safs_mknod: the call that fails for want of a descriptor does not happen.
LEMMA MknodLookups ==
  ASSUME EnoughFds, TypeOK, LookupsInv,
         NEW n \in Names, NEW mode \in Modes, Mknod(n, mode)
  PROVE  DescriptorsLast' /\ NoNameLost'
<1>1. /\ inode_number \in Nat \ {0} /\ leaked \in Nat /\ MaxInodes \in Nat
      /\ MaxFds \in Nat /\ inode_number <= MaxInodes /\ leaked <= inode_number
  BY SizeAssumption, FdsAssumption DEF TypeOK, Mknod, LookupsInv, DescriptorsLast
<1>2. HasFds(3)
  BY <1>1 DEF HasFds, EnoughFds
<1>3. CASE UNCHANGED store
  BY <1>3 DEF store, LookupsInv, DescriptorsLast, NoNameLost, LiveNames, LiveSlots
<1>4. CASE /\ leaked' = leaked + 1 /\ UNCHANGED dirFile
           /\ directory' = Put(directory, NewSlot, NewDentry(n))
           /\ inode_number' = inode_number + 1
           /\ dcache' = dcache \cup {n}
  <2>1. DescriptorsLast'
    BY <1>1, <1>4 DEF LookupsInv, DescriptorsLast
  <2>2. \A s \in LiveSlots(directory) :
          s \in LiveSlots(directory') /\ directory'[s] = directory[s]
    <3>1. inode_number \notin DOMAIN directory
      BY <1>1 DEF LookupsInv, FilesInv, OneMountInv, RecordsBelow
    <3> QED  BY <1>4, <3>1 DEF Put, NewSlot, LiveSlots
  <2>3. inode_number \in LiveSlots(directory') /\ directory'[inode_number].name = n
    BY <1>1, <1>4 DEF Put, NewSlot, NewDentry, LiveSlots
  <2>4. LiveNames(directory) \cup {n} \subseteq LiveNames(directory')
    BY <2>2, <2>3 DEF LiveNames
  <2> QED  BY <1>4, <2>1, <2>4 DEF LookupsInv, NoNameLost
<1> QED  BY <1>2, <1>3, <1>4 DEF Mknod

\* safs_unlink finds both descriptors, and its data file, and comes to its end.
LEMMA UnlinkLookups ==
  ASSUME EnoughFds, TypeOK, LookupsInv, InodesBacked, NEW n \in Names, Unlink(n)
  PROVE  DescriptorsLast' /\ NoNameLost'
<1>1. HasFds(2)
  BY SizeAssumption, FdsAssumption
  DEF TypeOK, LookupsInv, DescriptorsLast, HasFds, EnoughFds
<1>2. Stuck(n) = {}
  BY NeverStuck DEF LookupsInv
<1>3. /\ directory' = Rebuilt(directory, Kept(n)) /\ dcache' = dcache \ {n}
      /\ UNCHANGED <<dirFile, inode_number, leaked>>
  BY <1>1, <1>2 DEF Unlink, LookupsInv, DescriptorsLast
<1>4. LiveNames(directory) \ {n} \subseteq LiveNames(directory')
  <2> SUFFICES ASSUME NEW t \in LiveSlots(directory), directory[t].name # n
               PROVE  directory[t].name \in LiveNames(directory')
    BY DEF LiveNames
  <2>1. t \in Kept(n)
    BY <1>2, KeptAllOthers DEF LiveSlots
  <2> QED  BY <1>3, <2>1, KeptStay DEF LiveNames
<1> QED  BY <1>3, <1>4 DEF LookupsInv, DescriptorsLast, NoNameLost

\* Every step of such a workload keeps what the kernel knows in the directory.
LEMMA StepLookups ==
  ASSUME NamesStay, EnoughFds, TypeOK, InodesBacked, LookupsInv, [Next]_vars
  PROVE  LookupsInv'
<1>1. FilesInv'
  BY StepFiles DEF LookupsInv
<1>2. CASE UNCHANGED <<directory, dirFile, inode_number, leaked>>
           /\ dcache' \subseteq dcache \cup LiveNames(directory)
  BY <1>1, <1>2 DEF LookupsInv, DescriptorsLast, NoNameLost, LiveNames, LiveSlots
<1>3. CASE Naming
  BY <1>1, <1>2, <1>3, MknodLookups, UnlinkLookups
  DEF Naming, NamesStay, MknodSpecial, store, LookupsInv
<1>4. CASE Attributes \/ Contents \/ UNCHANGED vars
  BY <1>2, <1>4, QuietStep, DataStepDescriptors DEF Quiet
<1> QED  BY <1>3, <1>4 DEF Next

\* LookupsInv is an invariant of these workloads.
LEMMA LookupsAlways ==
  ASSUME NamesStay, EnoughFds
  PROVE  Spec => []LookupsInv
<1>1. Init => LookupsInv
  <2>1. Init => inode_number <= MaxInodes + 1 /\ leaked <= inode_number
    <3>1. ResumeCounter(<<>>) = 1
      <4>1. {<<>>[s].inum : s \in DOMAIN <<>>} = {}  OBVIOUS
      <4>2. Max({1} \cup {}) = 1
        <5>1. {1} \cup {} = {1}  OBVIOUS
        <5>2. IsFiniteSet({1})  BY FS_Singleton
        <5>3. Max({1}) \in {1}  BY <5>2, MaxOfFinite
        <5> QED  BY <5>1, <5>3
      <4> QED  BY <4>1, <4>2 DEF ResumeCounter
    <3> QED  BY <3>1, SizeAssumption DEF Init
  <2> QED  BY <2>1, InitFiles DEF Init, LookupsInv, DescriptorsLast, NoNameLost
<1>2. TypeOK /\ InodesBacked /\ LookupsInv /\ [Next]_vars => LookupsInv'
  BY StepLookups
<1>3. InodesBacked /\ CounterCovers => InodesBacked
  OBVIOUS
<1> QED
  BY <1>1, <1>2, <1>3, TypeCorrect, EntriesHaveInodes, PTL DEF Spec

\* Every name made and not removed is found, for as long as the descriptors
\* last that safs_mknod leaks.
THEOREM NamesAreKept ==
  ASSUME NamesStay, EnoughFds
  PROVE  Spec => []NoNameLost
<1>1. LookupsInv => NoNameLost
  BY DEF LookupsInv
<1> QED  BY <1>1, LookupsAlways, PTL
=============================================================================
