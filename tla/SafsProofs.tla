----------------------------- MODULE SafsProofs -----------------------------
(***************************************************************************)
(* Theorems about Safs, for any number of names, calls, descriptors and    *)
(* inode numbers.                                                          *)
(***************************************************************************)
EXTENDS SafsProperties, SafsStoreProofs, TLAPS

(***************************************************************************)
(* Types of the helpers.                                                   *)
(***************************************************************************)

\* A name that is found has a first record, with that name and in use.
LEMMA FoundEntry ==
  ASSUME IsDirectory(directory), NEW n, Found(n)
  PROVE  /\ FirstMatch(directory, n) \in DOMAIN directory
         /\ Entry(n) \in Dentry
         /\ Entry(n) = directory[FirstMatch(directory, n)]
         /\ Entry(n).name = n /\ Entry(n).inum # 0
<1>1. Matches(directory, n) \in SUBSET Nat /\ Matches(directory, n) # {}
  BY DEF Found, Matches, LiveSlots, IsDirectory
<1>2. FirstMatch(directory, n) \in Matches(directory, n)
  BY <1>1, MinOfNaturals DEF FirstMatch
<1> QED  BY <1>2 DEF Matches, LiveSlots, IsDirectory, Entry

\* A record written over a directory, or over Inodes~.
LEMMA PutDirectory ==
  ASSUME NEW d, IsDirectory(d), NEW x \in Nat, NEW v \in Dentry
  PROVE  IsDirectory(Put(d, x, v)) /\ DOMAIN Put(d, x, v) = DOMAIN d \cup {x}
<1>1. DOMAIN d \subseteq Nat /\ d \in [DOMAIN d -> Dentry]
  BY DEF IsDirectory
<1>2. /\ DOMAIN Put(d, x, v) = DOMAIN d \cup {x}
      /\ DOMAIN Put(d, x, v) \subseteq Nat
      /\ Put(d, x, v) \in [DOMAIN Put(d, x, v) -> Dentry]
  BY <1>1, PutType
<1>3. IsFiniteSet(DOMAIN d \cup {x})
  BY FS_AddElement DEF IsDirectory
<1> QED  BY <1>2, <1>3 DEF IsDirectory

\* A stat written over Inodes~.
LEMMA PutInodes ==
  ASSUME NEW t, IsInodes(t), NEW i \in Nat, NEW st \in Stat
  PROVE  IsInodes(Put(t, i, st)) /\ DOMAIN Put(t, i, st) = DOMAIN t \cup {i}
<1>1. DOMAIN t \subseteq Nat /\ t \in [DOMAIN t -> Stat]
  BY DEF IsInodes
<1>2. /\ DOMAIN Put(t, i, st) = DOMAIN t \cup {i}
      /\ DOMAIN Put(t, i, st) \subseteq Nat
      /\ Put(t, i, st) \in [DOMAIN Put(t, i, st) -> Stat]
  BY <1>1, PutType
<1> QED  BY <1>2 DEF IsInodes

\* read_inode fills in a whole struct stat, written or all zeros.
LEMMA ReadInodeType ==
  ASSUME IsInodes(inodes), NEW i \in Nat
  PROVE  ReadInode(i) \in Stat
<1>1. ZeroStat \in Stat
  BY LinkModAssumption DEF ZeroStat, Stat
<1> QED  BY <1>1 DEF ReadInode, IsInodes

\* write_inode keeps the layout of Inodes~ and loses no stat.
LEMMA WriteInodeType ==
  ASSUME IsInodes(inodes), NEW i \in Nat, NEW st \in Stat, NEW k,
         WriteInode(i, st, k)
  PROVE  IsInodes(inodes') /\ DOMAIN inodes \subseteq DOMAIN inodes'
<1>1. /\ IsInodes(Put(inodes, i, st))
      /\ DOMAIN Put(inodes, i, st) = DOMAIN inodes \cup {i}
  BY PutInodes
<1>2. inodes' = Put(inodes, i, st) \/ inodes' = inodes
  BY DEF WriteInode
<1> QED  BY <1>1, <1>2

\* Bytes written over a data file, past its end or not, give a data file.
LEMMA OverwriteType ==
  ASSUME NEW data \in Seq(Nat), NEW off \in Nat, NEW len \in Nat, NEW b \in Nat
  PROVE  Overwrite(data, off, len, b) \in Seq(Nat)
<1>1. Len(data) \in Nat /\ off + len \in Nat
  OBVIOUS
<1> DEFINE m == Max({Len(data), off + len})
<1>2. m \in Nat
  BY <1>1, MaxOfTwo
<1> HIDE DEF m
<1>3. [i \in 1 .. m |-> IF i \in off + 1 .. off + len THEN b
                       ELSE IF i <= Len(data) THEN data[i] ELSE 0] \in Seq(Nat)
  BY <1>2
<1> QED  BY <1>3 DEF Overwrite, m

\* The counter after a mount covers every number in Directory~.
LEMMA ResumeCounterBound ==
  ASSUME NEW d, IsDirectory(d)
  PROVE  /\ ResumeCounter(d) \in Nat \ {0}
         /\ \A s \in DOMAIN d : d[s].inum <= ResumeCounter(d)
<1> DEFINE I == {d[s].inum : s \in DOMAIN d}
           f == [s \in DOMAIN d |-> d[s].inum]
<1>1. I \in SUBSET Nat
  BY DEF IsDirectory, Dentry
<1>2. IsFiniteSet(I)
  <2>1. f \in [DOMAIN d -> I] /\ \A x \in I : \E s \in DOMAIN d : f[s] = x
    OBVIOUS
  <2>2. f \in Surjection(DOMAIN d, I)  BY <2>1, Zenon DEF Surjection
  <2> QED  BY <2>2, FS_Surjection DEF IsDirectory
<1>3. IsFiniteSet({1} \cup I)
  <2>1. IsFiniteSet({1})  BY FS_Singleton
  <2> QED  BY <1>2, <2>1, FS_Union
<1> DEFINE T == {1} \cup I
<1>4. T \in SUBSET Nat /\ 1 \in T /\ \A s \in DOMAIN d : d[s].inum \in T
  BY <1>1
<1>5. ResumeCounter(d) = Max(T)
  BY DEF ResumeCounter
<1>6. IsFiniteSet(T)
  BY <1>3
<1> HIDE DEF T
<1>7. Max(T) \in T /\ \A x \in T : x <= Max(T)
  BY <1>4, <1>6, MaxOfFinite
<1>8. Max(T) \in Nat /\ 1 <= Max(T)
  BY <1>4, <1>7
<1>9. \A s \in DOMAIN d : d[s].inum <= Max(T)
  BY <1>4, <1>7
<1>10. Max(T) \in Nat \ {0}
  BY <1>8
<1> QED  BY <1>5, <1>9, <1>10

\* The copy safs_unlink makes of some records is a directory again.
LEMMA RebuiltType ==
  ASSUME NEW d, IsDirectory(d), NEW K \in SUBSET DOMAIN d
  PROVE  IsDirectory(Rebuilt(d, K))
<1>1. K \in SUBSET Nat /\ IsFiniteSet(K)
  BY FS_Subset DEF IsDirectory
<1>2. /\ Cardinality(K) \in Nat
      /\ DOMAIN Rebuilt(d, K) = 2 .. Cardinality(K) + 1
      /\ \A s \in DOMAIN Rebuilt(d, K) : Rebuilt(d, K)[s] \in Dentry
  BY <1>1, RebuiltCopies DEF IsDirectory
<1>3. IsFiniteSet(DOMAIN Rebuilt(d, K))
  BY <1>2, FS_Interval
<1>4. Rebuilt(d, K) \in [DOMAIN Rebuilt(d, K) -> Dentry]
  BY <1>2 DEF Rebuilt
<1> QED  BY <1>2, <1>3, <1>4 DEF IsDirectory

\* A link count stays in its unsigned range whatever is taken from it.
LEMMA DropLinksType ==
  ASSUME IsDirectory(directory), IsInodes(inodes), NEW n
  PROVE  IsInodes(DropLinks(n)) /\ DOMAIN inodes \subseteq DOMAIN DropLinks(n)
<1> DEFINE U == {directory[s].inum : s \in Scanned(n) \cap Named(n)}
<1>1. U \in SUBSET Nat
  BY DEF Named, IsDirectory, Dentry
<1>2. \A i \in Nat : Unlinks(n, i) \in Nat
  <2> TAKE i \in Nat
  <2>1. IsFiniteSet({s \in Scanned(n) \cap Named(n) : directory[s].inum = i})
    BY FS_Subset DEF Scanned, IsDirectory
  <2> QED  BY <2>1, FS_CardinalityType DEF Unlinks
<1>3. \A i \in Nat :
        [ReadInode(i) EXCEPT !.nlink = (@ - Unlinks(n, i)) % LinkMod] \in Stat
  <2> TAKE i \in Nat
  <2>1. ReadInode(i) \in Stat  BY ReadInodeType
  <2>2. (ReadInode(i).nlink - Unlinks(n, i)) \in Int
    BY <1>2, <2>1 DEF Stat
  <2>3. (ReadInode(i).nlink - Unlinks(n, i)) % LinkMod \in 0 .. LinkMod - 1
    BY <2>2, LinkModAssumption
  <2> QED  BY <2>1, <2>3 DEF Stat
<1>4. DOMAIN inodes \cup U \in SUBSET Nat
  BY <1>1 DEF IsInodes
<1> HIDE DEF U
<1>5. DropLinks(n) = [i \in DOMAIN inodes \cup U |->
        [ReadInode(i) EXCEPT !.nlink = (@ - Unlinks(n, i)) % LinkMod]]
  BY DEF DropLinks, U
<1> QED  BY <1>3, <1>4, <1>5 DEF IsInodes
-----------------------------------------------------------------------------
(***************************************************************************)
(* Type correctness, one lemma per handler that changes the store.         *)
(***************************************************************************)

\* An early return changes nothing but the reply.
LEMMA UnchangedType ==
  ASSUME TypeOK, UNCHANGED store, rc' \in Codes
  PROVE  TypeOK'
  BY DEF TypeOK, store, IsDirectory, IsInodes, IsStorage

\* The two early returns of a handler that looks a name up.
LEMMA LookupFailsType ==
  ASSUME TypeOK, NEW n, LookupFails(n)
  PROVE  TypeOK'
<1>1. rc' \in Codes /\ UNCHANGED store
  BY DEF LookupFails, Reply, Codes
<1> QED  BY <1>1, UnchangedType

\* A handler that only rewrites one stat.
LEMMA OnlyInodesType ==
  ASSUME TypeOK, IsInodes(inodes'), rc' \in Codes,
         UNCHANGED <<directory, dirFile, storage, inode_number, leaked, dcache>>
  PROVE  TypeOK'
  BY DEF TypeOK, IsDirectory, IsStorage

\* safs_mknod keeps the types, where it fails half way too.
LEMMA MknodType ==
  ASSUME TypeOK, NEW n \in Names, NEW mode \in Modes, Mknod(n, mode)
  PROVE  TypeOK'
<1>1. CASE UNCHANGED store /\ Reply("EIO")
  BY <1>1, UnchangedType DEF Reply, Codes
<1>2. CASE /\ HasFds(2)
           /\ storage' = Put(storage, n, EmptyData(n, mode))
           /\ leaked' = leaked + 1
           /\ UNCHANGED dirFile
  <2>1. EmptyData(n, mode) \in DataFile
    BY ModesAssumption DEF EmptyData, DataFile, TypeOK, IsStorage
  <2>2. IsStorage(storage')
    <3>1. DOMAIN storage \subseteq Names /\ storage \in [DOMAIN storage -> DataFile]
      BY DEF TypeOK, IsStorage
    <3>2. /\ DOMAIN Put(storage, n, EmptyData(n, mode)) \subseteq Names
          /\ Put(storage, n, EmptyData(n, mode)) \in
               [DOMAIN Put(storage, n, EmptyData(n, mode)) -> DataFile]
      BY <2>1, <3>1, PutType
    <3> QED  BY <1>2, <3>2 DEF IsStorage
  <2>3. leaked' \in 0 .. MaxFds
    BY <1>2, FdsAssumption DEF TypeOK, HasFds
  <2>4. CASE UNCHANGED <<directory, inodes, inode_number, dcache>> /\ Reply("EIO")
    BY <1>2, <2>2, <2>3, <2>4 DEF TypeOK, IsDirectory, IsInodes, Reply, Codes
  <2>5. CASE /\ \E now \in Times :
                  inodes' = Put(inodes, inode_number, NewStat(mode, now))
             /\ directory' = Put(directory, NewSlot, NewDentry(n))
             /\ inode_number' = inode_number + 1
             /\ dcache' = dcache \cup {n}
             /\ Reply("OK")
    <3>1. inode_number \in Nat /\ NewSlot = inode_number
      BY DEF TypeOK, NewSlot
    <3>2. \A now \in Times : NewStat(mode, now) \in Stat
      BY ModesAssumption, TimesAssumption, LinkModAssumption DEF NewStat, Stat
    <3>3. IsInodes(inodes')
      <4>1. PICK now \in Times :
              inodes' = Put(inodes, inode_number, NewStat(mode, now))
        BY <2>5
      <4> QED  BY <3>1, <3>2, <4>1, PutInodes DEF TypeOK
    <3>4. NewDentry(n) \in Dentry
      BY <3>1 DEF NewDentry, Dentry
    <3>5. IsDirectory(directory')
      BY <2>5, <3>1, <3>4, PutDirectory DEF TypeOK
    <3> QED
      BY <1>2, <2>2, <2>3, <2>5, <3>3, <3>5 DEF TypeOK, Reply, Codes
  <2> QED  BY <2>4, <2>5, <1>1, <1>2 DEF Mknod
<1> QED  BY <1>1, <1>2 DEF Mknod

\* safs_link keeps the types: a count one past the largest wraps to 0.
LEMMA LinkType ==
  ASSUME TypeOK, NEW o \in Names, NEW n \in Names, Link(o, n)
  PROVE  TypeOK'
<1>1. CASE LookupFails(o)
  BY <1>1, LookupFailsType
<1>2. CASE LookupSucceeds(o) /\ ~LookupFails(o)
  <2>1. Found(o) /\ IsDirectory(directory) /\ IsInodes(inodes)
    BY <1>2 DEF LookupSucceeds, TypeOK
  <2>2. Entry(o) \in Dentry
    BY <2>1, FoundEntry
  <2>3. /\ DOMAIN directory \subseteq Nat /\ IsFiniteSet(DOMAIN directory)
        /\ directory \in [DOMAIN directory -> Dentry] /\ DOMAIN directory # {}
    BY <2>1, FoundEntry DEF IsDirectory
  <2>4. FreeSlot(directory) \in Nat /\ EndOfFile(directory) - 1 \in DOMAIN directory
    BY <2>3, FreeSlotType
  <2>5. IsDirectory(directory')
    <3>1. [Entry(o) EXCEPT !.name = n] \in Dentry
      BY <2>2 DEF Dentry
    <3>2. directory' = Put(directory, FreeSlot(directory), [Entry(o) EXCEPT !.name = n])
      BY <1>2 DEF Link
    <3> QED  BY <2>1, <2>4, <3>1, <3>2, PutDirectory
  <2>6. IsInodes(inodes')
    <3> DEFINE i == InumLastRead(directory)
               st == ReadInode(i)
               up == [st EXCEPT !.nlink = (@ + 1) % LinkMod]
    <3>1. i \in Nat
      BY <2>3, <2>4 DEF InumLastRead, Dentry
    <3>2. st \in Stat
      BY <2>1, <3>1, ReadInodeType
    <3>3. (st.nlink + 1) % LinkMod \in 0 .. LinkMod - 1
      BY <3>2, LinkModAssumption DEF Stat
    <3>4. up \in Stat
      BY <3>2, <3>3 DEF Stat
    <3>5. WriteInode(i, up, 1)
      BY <1>2 DEF Link
    <3> HIDE DEF i, st, up
    <3> QED  BY <2>1, <3>1, <3>4, <3>5, WriteInodeType
  <2> QED
    BY <1>2, <2>5, <2>6 DEF Link, TypeOK, IsStorage, Reply, Codes
<1> QED  BY <1>1, <1>2 DEF Link

\* safs_rename rewrites one record in place.
LEMMA RenameType ==
  ASSUME TypeOK, NEW o \in Names, NEW n \in Names, Rename(o, n)
  PROVE  TypeOK'
<1>1. CASE LookupFails(o)
  BY <1>1, LookupFailsType
<1>2. CASE LookupSucceeds(o) /\ ~LookupFails(o)
  <2>1. directory' = [directory EXCEPT ![FirstMatch(directory, o)].name = n]
    BY <1>2 DEF Rename
  <2>2. FirstMatch(directory, o) \in DOMAIN directory
    BY <1>2, FoundEntry DEF LookupSucceeds, TypeOK
  <2>3. directory' \in [DOMAIN directory -> Dentry]
    BY <2>1, <2>2 DEF TypeOK, IsDirectory, Dentry
  <2>4. IsDirectory(directory')
    BY <2>3 DEF TypeOK, IsDirectory
  <2> QED
    BY <1>2, <2>4 DEF Rename, TypeOK, IsInodes, IsStorage, Reply, Codes
<1> QED  BY <1>1, <1>2 DEF Rename

\* What is left of the loop that copies: a subset of the old records.
LEMMA KeptRecords ==
  ASSUME NEW n
  PROVE  Kept(n) \subseteq DOMAIN directory
  BY DEF Kept, Scanned

\* safs_unlink keeps the types at each of its four returns.
LEMMA UnlinkType ==
  ASSUME TypeOK, NEW n \in Names, Unlink(n)
  PROVE  TypeOK'
<1>1. CASE /\ Reply("ENOENT")
           /\ UNCHANGED <<directory, dirFile, inodes, storage, leaked, dcache>>
  BY <1>1, UnchangedType DEF Unlink, store, Reply, Codes
<1>2. CASE /\ directory' = <<>> /\ dirFile' = FALSE /\ leaked' = MaxFds
           /\ Reply("EMFILE")
           /\ UNCHANGED <<inodes, storage, dcache>>
  <2>1. IsDirectory(<<>>)
    <3>1. DOMAIN <<>> = {}  OBVIOUS
    <3> QED  BY <3>1, FS_EmptySet DEF IsDirectory
  <2>2. IsDirectory(directory')
    BY <1>2, <2>1
  <2>3. IsInodes(inodes') /\ IsStorage(storage')
    BY <1>2 DEF TypeOK, IsInodes, IsStorage
  <2>4. leaked' \in 0 .. MaxFds /\ dirFile' \in BOOLEAN
    <3>1. MaxFds \in 0 .. MaxFds  BY FdsAssumption
    <3> QED  BY <1>2, <3>1
  <2>5. inode_number' \in Nat \ {0}
    BY DEF Unlink, TypeOK
  <2>6. dcache' \subseteq Names /\ rc' \in Codes
    BY <1>2 DEF TypeOK, Reply, Codes
  <2> QED  BY <2>2, <2>3, <2>4, <2>5, <2>6 DEF TypeOK
<1>3. CASE /\ HasFds(2) /\ UNCHANGED dirFile
           /\ directory' = Rebuilt(directory, Kept(n))
           /\ inodes' = IF HasFds(3) THEN DropLinks(n) ELSE inodes
           /\ storage' = IF Named(n) = {} THEN storage ELSE Drop(storage, n)
           /\ \/ dcache' = dcache \ {n} /\ Reply("OK") /\ UNCHANGED leaked
              \/ leaked' = leaked + 2 /\ Reply("ENOENT") /\ UNCHANGED dcache
  <2>1. IsDirectory(directory')
    BY <1>3, KeptRecords, RebuiltType DEF TypeOK
  <2>2. IsInodes(inodes')
    BY <1>3, DropLinksType DEF TypeOK
  <2>3. IsStorage(storage')
    <3>1. DOMAIN storage \subseteq Names /\ storage \in [DOMAIN storage -> DataFile]
      BY DEF TypeOK, IsStorage
    <3>2. /\ DOMAIN Drop(storage, n) \subseteq Names
          /\ Drop(storage, n) \in [DOMAIN Drop(storage, n) -> DataFile]
      BY <3>1, DropType
    <3> QED  BY <1>3, <3>1, <3>2 DEF IsStorage
  <2>4. leaked' \in 0 .. MaxFds
    BY <1>3, FdsAssumption DEF TypeOK, HasFds
  <2>5. inode_number' \in Nat \ {0} /\ dirFile' \in BOOLEAN
    BY <1>3 DEF Unlink, TypeOK
  <2>6. dcache' \subseteq Names /\ rc' \in Codes
    BY <1>3 DEF TypeOK, Reply, Codes
  <2> QED  BY <2>1, <2>2, <2>3, <2>4, <2>5, <2>6 DEF TypeOK
<1> QED  BY <1>1, <1>2, <1>3 DEF Unlink

\* A data file overwritten in place keeps its permissions.
LEMMA StorageOverwritten ==
  ASSUME TypeOK, NEW f \in DOMAIN storage,
         NEW off \in Nat, NEW len \in Nat, NEW b \in Nat
  PROVE  IsStorage([storage EXCEPT ![f].data = Overwrite(@, off, len, b)])
<1>1. Overwrite(storage[f].data, off, len, b) \in Seq(Nat)
  BY OverwriteType DEF TypeOK, IsStorage, DataFile
<1> DEFINE new == [storage EXCEPT ![f].data = Overwrite(@, off, len, b)]
<1>2. new \in [DOMAIN storage -> DataFile]
  BY <1>1 DEF TypeOK, IsStorage, DataFile
<1>3. DOMAIN new \subseteq Names
  BY DEF TypeOK, IsStorage
<1> HIDE DEF new
<1>4. IsStorage(new)
  BY <1>2, <1>3 DEF IsStorage
<1> QED  BY <1>4 DEF new

\* safs_write keeps the types, the data file that fails to open included.
LEMMA WriteType ==
  ASSUME TypeOK, NEW n \in Names, NEW off \in Nat, NEW len \in Nat,
         NEW b \in Nat, Write(n, off, len, b)
  PROVE  TypeOK'
<1>1. CASE LookupFails(n)
  BY <1>1, LookupFailsType
<1>2. CASE LookupSucceeds(n) /\ ~LookupFails(n)
  <2> DEFINE e == Entry(n)
             st == ReadInode(e.inum)
  <2>1. e.inum \in Nat /\ st \in Stat
    BY <1>2, FoundEntry, ReadInodeType DEF LookupSucceeds, TypeOK, Dentry
  <2>2. PICK now \in Times :
          WriteInode(e.inum, [st EXCEPT !.size = off + len,
                                        !.atim = now, !.mtim = now], 0)
    BY <1>2 DEF Write
  <2>3. [st EXCEPT !.size = off + len, !.atim = now, !.mtim = now] \in Stat
    <3>1. off + len \in Nat /\ now \in Nat
      BY TimesAssumption
    <3> HIDE DEF st
    <3> QED  BY <2>1, <3>1 DEF Stat
  <2>4. IsInodes(inodes')
    BY <2>1, <2>2, <2>3, WriteInodeType DEF TypeOK
  <2>5. IsStorage(storage') /\ rc' \in Codes
    <3>1. CASE UNCHANGED storage /\ Reply("EIO")
      BY <3>1 DEF TypeOK, IsStorage, Reply, Codes
    <3>2. CASE /\ CanOpenData(e.storage, {"w"}) /\ Reply("OK")
               /\ storage' = [storage EXCEPT ![e.storage].data =
                                Overwrite(@, off, len, b)]
      BY <3>2, StorageOverwritten DEF CanOpenData, Reply, Codes
    <3> QED  BY <1>2, <3>1, <3>2 DEF Write
  <2> QED  BY <1>2, <2>4, <2>5 DEF Write, TypeOK, IsDirectory
<1> QED  BY <1>1, <1>2 DEF Write

\* safs_read changes an access time and nothing else.
LEMMA ReadType ==
  ASSUME TypeOK, NEW n \in Names, Read(n)
  PROVE  TypeOK'
<1>1. CASE LookupFails(n)
  BY <1>1, LookupFailsType
<1>2. CASE LookupSucceeds(n) /\ ~LookupFails(n)
  <2> DEFINE e == Entry(n)
             st == ReadInode(e.inum)
  <2>1. e.inum \in Nat /\ st \in Stat
    BY <1>2, FoundEntry, ReadInodeType DEF LookupSucceeds, TypeOK, Dentry
  <2>2. PICK now \in Times : WriteInode(e.inum, [st EXCEPT !.atim = now], 0)
    BY <1>2 DEF Read
  <2>3. [st EXCEPT !.atim = now] \in Stat
    <3>1. now \in Nat  BY TimesAssumption
    <3> HIDE DEF st
    <3> QED  BY <2>1, <3>1 DEF Stat
  <2>4. IsInodes(inodes')
    BY <2>1, <2>2, <2>3, WriteInodeType DEF TypeOK
  <2> QED  BY <1>2, <2>4, OnlyInodesType DEF Read, Reply, Codes
<1> QED  BY <1>1, <1>2 DEF Read

\* safs_truncate and safs_ftruncate keep the types.
LEMMA TruncateType ==
  ASSUME TypeOK, NEW n \in Names, NEW off \in Nat, Truncate(n, off)
  PROVE  TypeOK'
<1>1. CASE LookupFails(n)
  BY <1>1, LookupFailsType
<1>2. CASE LookupSucceeds(n) /\ ~LookupFails(n)
  <2> DEFINE e == Entry(n)
             st == ReadInode(e.inum)
  <2>1. e.inum \in Nat /\ st \in Stat
    BY <1>2, FoundEntry, ReadInodeType DEF LookupSucceeds, TypeOK, Dentry
  <2>2. IsInodes(inodes')
    <3>1. [st EXCEPT !.size = off] \in Stat
      <4> HIDE DEF st
      <4> QED  BY <2>1 DEF Stat
    <3>2. CASE UNCHANGED inodes
      BY <3>2 DEF TypeOK, IsInodes
    <3>3. CASE WriteInode(e.inum, [st EXCEPT !.size = off], 1)
      BY <2>1, <3>1, <3>3, WriteInodeType DEF TypeOK
    <3> QED  BY <1>2, <3>2, <3>3 DEF Truncate
  <2>3. IsStorage(storage')
    <3>1. CASE UNCHANGED storage
      BY <3>1 DEF TypeOK, IsStorage
    <3>2. CASE /\ CanOpenData(e.storage, {"w"})
               /\ storage' = [storage EXCEPT ![e.storage].data =
                                Overwrite(@, off, 1, 0)]
      BY <3>2, StorageOverwritten DEF CanOpenData
    <3> QED  BY <1>2, <3>1, <3>2 DEF Truncate
  <2> QED  BY <1>2, <2>2, <2>3 DEF Truncate, TypeOK, IsDirectory, Reply, Codes
<1> QED  BY <1>1, <1>2 DEF Truncate

\* safs_chmod stores a permission set.
LEMMA ChmodType ==
  ASSUME TypeOK, NEW n \in Names, NEW mode \in Modes, Chmod(n, mode)
  PROVE  TypeOK'
<1>1. CASE LookupFails(n)
  BY <1>1, LookupFailsType
<1>2. CASE LookupSucceeds(n) /\ ~LookupFails(n)
  <2> DEFINE e == Entry(n)
             st == ReadInode(e.inum)
  <2>1. e.inum \in Nat /\ st \in Stat
    BY <1>2, FoundEntry, ReadInodeType DEF LookupSucceeds, TypeOK, Dentry
  <2>2. [st EXCEPT !.mode = mode] \in Stat
    <3> HIDE DEF st
    <3> QED  BY <2>1, ModesAssumption DEF Stat
  <2>3. WriteInode(e.inum, [st EXCEPT !.mode = mode], 1)
    BY <1>2 DEF Chmod, SetStat
  <2>4. IsInodes(inodes')
    BY <2>1, <2>2, <2>3, WriteInodeType DEF TypeOK
  <2> QED  BY <1>2, <2>4, OnlyInodesType DEF Chmod, SetStat, Reply, Codes
<1> QED  BY <1>1, <1>2 DEF Chmod, SetStat

\* safs_utimens stores two times.
LEMMA UtimensType ==
  ASSUME TypeOK, NEW n \in Names, NEW at \in Times, NEW mt \in Times,
         Utimens(n, at, mt)
  PROVE  TypeOK'
<1>1. CASE LookupFails(n)
  BY <1>1, LookupFailsType
<1>2. CASE LookupSucceeds(n) /\ ~LookupFails(n)
  <2> DEFINE e == Entry(n)
             st == ReadInode(e.inum)
  <2>1. e.inum \in Nat /\ st \in Stat
    BY <1>2, FoundEntry, ReadInodeType DEF LookupSucceeds, TypeOK, Dentry
  <2>2. [st EXCEPT !.atim = at, !.mtim = mt] \in Stat
    <3>1. at \in Nat /\ mt \in Nat  BY TimesAssumption
    <3> HIDE DEF st
    <3> QED  BY <2>1, <3>1 DEF Stat
  <2>3. WriteInode(e.inum, [st EXCEPT !.atim = at, !.mtim = mt], 1)
    BY <1>2 DEF Utimens, SetStat
  <2>4. IsInodes(inodes')
    BY <2>1, <2>2, <2>3, WriteInodeType DEF TypeOK
  <2> QED  BY <1>2, <2>4, OnlyInodesType DEF Utimens, SetStat, Reply, Codes
<1> QED  BY <1>1, <1>2 DEF Utimens, SetStat

\* safs_open keeps the types, whatever the flags.
LEMMA OpenType ==
  ASSUME TypeOK, NEW n \in Names, NEW flags, Open(n, flags)
  PROVE  TypeOK'
<1>1. CASE LookupFails(n)
  BY <1>1, LookupFailsType
<1>2. CASE LookupSucceeds(n) /\ ~LookupFails(n)
  <2> DEFINE e == Entry(n)
             st == ReadInode(e.inum)
  <2>1. e.inum \in Nat /\ st \in Stat
    BY <1>2, FoundEntry, ReadInodeType DEF LookupSucceeds, TypeOK, Dentry
  <2>2. [st EXCEPT !.size = 0] \in Stat
    <3> HIDE DEF st
    <3> QED  BY <2>1 DEF Stat
  <2>3. UNCHANGED inodes \/ WriteInode(e.inum, [st EXCEPT !.size = 0], 1)
    BY <1>2 DEF Open
  <2>4. IsInodes(inodes')
    <3>1. CASE UNCHANGED inodes  BY <3>1 DEF TypeOK, IsInodes
    <3>2. CASE WriteInode(e.inum, [st EXCEPT !.size = 0], 1)
      BY <2>1, <2>2, <3>2, WriteInodeType DEF TypeOK
    <3> QED  BY <2>3, <3>1, <3>2
  <2>5. rc' \in Codes
    BY <1>2 DEF Open, Reply, Codes
  <2>6. UNCHANGED <<directory, dirFile, storage, inode_number, leaked, dcache>>
    BY <1>2 DEF Open
  <2> QED  BY <2>4, <2>5, <2>6, OnlyInodesType
<1> QED  BY <1>1, <1>2 DEF Open

\* safs_getattr changes only what the kernel believes.
LEMMA GetattrType ==
  ASSUME TypeOK, NEW n \in Names, Getattr(n)
  PROVE  TypeOK'
<1>1. dcache' \subseteq Names /\ rc' \in Codes
  BY DEF Getattr, TypeOK, Reply, Codes
<1> QED  BY <1>1 DEF Getattr, TypeOK, IsDirectory, IsInodes, IsStorage

\* safs_init keeps the types: the counter it resumes is a number again.
LEMMA RemountType ==
  ASSUME TypeOK, Remount
  PROVE  TypeOK'
<1>1. inode_number' \in Nat \ {0}
  BY ResumeCounterBound DEF Remount, TypeOK
<1>2. leaked' \in 0 .. MaxFds
  BY FdsAssumption DEF Remount
<1>3. rc' \in Codes /\ dcache' \subseteq Names /\ dirFile' \in BOOLEAN
  BY DEF Remount, Reply, Codes
<1> QED
  BY <1>1, <1>2, <1>3 DEF Remount, TypeOK, IsDirectory, IsInodes, IsStorage

\* At the first mount every file of /tmp/safs is empty.
LEMMA InitType == Init => TypeOK
<1> SUFFICES ASSUME Init PROVE TypeOK
  OBVIOUS
<1>1. DOMAIN <<>> = {}
  OBVIOUS
<1>2. IsDirectory(<<>>) /\ IsInodes(<<>>) /\ IsStorage(<<>>)
  BY <1>1, FS_EmptySet DEF IsDirectory, IsInodes, IsStorage
<1>3. inode_number \in Nat \ {0}
  BY <1>2, ResumeCounterBound DEF Init
<1>4. leaked \in 0 .. MaxFds
  BY FdsAssumption DEF Init
<1> QED  BY <1>2, <1>3, <1>4 DEF Init, TypeOK, Codes

\* Every step of the daemon keeps the types.
LEMMA StepType == TypeOK /\ [Next]_vars => TypeOK'
<1> SUFFICES ASSUME TypeOK, [Next]_vars PROVE TypeOK'
  OBVIOUS
<1>1. CASE Naming
  <2>1. ASSUME NEW n \in Names, MknodSpecial(n) PROVE TypeOK'
    BY <2>1, UnchangedType DEF MknodSpecial, Reply, Codes
  <2> QED
    BY <1>1, <2>1, MknodType, LinkType, RenameType, UnlinkType, RemountType
    DEF Naming
<1>2. CASE Attributes
  <2>1. ASSUME NEW n \in Names, Chown(n) PROVE TypeOK'
    BY <2>1, UnchangedType DEF Chown, Reply, Codes
  <2>2. ASSUME Readdir PROVE TypeOK'
    BY <2>2, UnchangedType DEF Readdir, Reply, Codes
  <2> QED
    BY <1>2, <2>1, <2>2, ChmodType, UtimensType, GetattrType DEF Attributes
<1>3. CASE Contents
  <2>1. Offsets \subseteq Nat /\ Lengths \subseteq Nat
    BY SizeAssumption DEF Offsets, Lengths
  <2> QED
    BY <1>3, <2>1, BytesAssumption, OpenType, ReadType, WriteType, TruncateType
    DEF Contents
<1>4. CASE UNCHANGED vars
  BY <1>4, UnchangedType DEF vars, TypeOK
<1> QED  BY <1>1, <1>2, <1>3, <1>4 DEF Next

\* Whatever calls are made, in whatever order, the state keeps its types: no
\* link count leaves its unsigned range and no more descriptors leak than there
\* are.
THEOREM TypeCorrect == Spec => []TypeOK
BY InitType, StepType, PTL DEF Spec
-----------------------------------------------------------------------------
(***************************************************************************)
(* Handlers of contents and attributes are quiet: they touch neither       *)
(* Directory~ nor the counter nor a link count, and make the kernel        *)
(* believe only in names that are there.                                   *)
(***************************************************************************)
KeepsLinks ==
  \A i \in DOMAIN inodes :
    i \in DOMAIN inodes' /\ inodes'[i].nlink = inodes[i].nlink

Quiet ==
  /\ UNCHANGED <<directory, inode_number>>
  /\ KeepsLinks
  /\ dcache' \subseteq dcache \cup LiveNames(directory)

\* A stat rewritten with the link count it had.
LEMMA WriteInodeKeepsLinks ==
  ASSUME NEW i, NEW st, NEW k, st.nlink = ReadInode(i).nlink, WriteInode(i, st, k)
  PROVE  KeepsLinks
  BY DEF KeepsLinks, WriteInode, ReadInode, Put

\* A handler that changes nothing is quiet.
LEMMA StoreUnchangedQuiet ==
  ASSUME UNCHANGED store
  PROVE  Quiet
  BY DEF Quiet, KeepsLinks, store

\* What a handler does with the stat it has read: some field, never nlink.
LEMMA ChangedStatQuiet ==
  ASSUME TypeOK, NEW n, LookupSucceeds(n), NEW st, NEW k,
         st.nlink = ReadInode(Entry(n).inum).nlink,
         WriteInode(Entry(n).inum, st, k) \/ UNCHANGED inodes,
         UNCHANGED <<directory, inode_number, dcache>>
  PROVE  Quiet
<1>1. KeepsLinks
  <2>1. CASE UNCHANGED inodes  BY <2>1 DEF KeepsLinks
  <2>2. CASE WriteInode(Entry(n).inum, st, k)  BY <2>2, WriteInodeKeepsLinks
  <2> QED  BY <2>1, <2>2
<1> QED  BY <1>1 DEF Quiet

\* Sizes, times and modes are other fields than st_nlink.
LEMMA StatFieldsKeepLinks ==
  ASSUME TypeOK, NEW n, LookupSucceeds(n), NEW a, NEW b, NEW c
  PROVE  LET st == ReadInode(Entry(n).inum)
         IN  /\ [st EXCEPT !.size = a, !.atim = b, !.mtim = c].nlink = st.nlink
             /\ [st EXCEPT !.atim = a, !.mtim = b].nlink = st.nlink
             /\ [st EXCEPT !.atim = a].nlink = st.nlink
             /\ [st EXCEPT !.size = a].nlink = st.nlink
             /\ [st EXCEPT !.mode = a].nlink = st.nlink
<1> DEFINE st == ReadInode(Entry(n).inum)
<1>1. st \in Stat
  BY FoundEntry, ReadInodeType DEF LookupSucceeds, TypeOK, Dentry
<1> HIDE DEF st
<1>2. /\ [st EXCEPT !.size = a, !.atim = b, !.mtim = c].nlink = st.nlink
      /\ [st EXCEPT !.atim = a, !.mtim = b].nlink = st.nlink
      /\ [st EXCEPT !.atim = a].nlink = st.nlink
      /\ [st EXCEPT !.size = a].nlink = st.nlink
      /\ [st EXCEPT !.mode = a].nlink = st.nlink
  BY <1>1 DEF Stat
<1> QED  BY <1>2 DEF st

\* Every handler of contents and attributes is quiet.
LEMMA QuietStep ==
  ASSUME TypeOK, Attributes \/ Contents \/ UNCHANGED vars
  PROVE  Quiet
<1>1. ASSUME NEW n, LookupFails(n) PROVE Quiet
  BY <1>1, StoreUnchangedQuiet DEF LookupFails
<1>2. ASSUME NEW n, NEW mode, Chmod(n, mode) PROVE Quiet
  BY <1>1, <1>2, StatFieldsKeepLinks, ChangedStatQuiet DEF Chmod, SetStat
<1>3. ASSUME NEW n, NEW at, NEW mt, Utimens(n, at, mt) PROVE Quiet
  <2>1. CASE LookupFails(n)  BY <1>1, <2>1
  <2>2. CASE LookupSucceeds(n) /\ ~LookupFails(n)
    <3> DEFINE st == ReadInode(Entry(n).inum)
    <3>1. WriteInode(Entry(n).inum, [st EXCEPT !.atim = at, !.mtim = mt], 1)
      BY <1>3, <2>2 DEF Utimens, SetStat
    <3>2. UNCHANGED <<directory, inode_number, dcache>>
      BY <1>3, <2>2 DEF Utimens, SetStat
    <3>3. [st EXCEPT !.atim = at, !.mtim = mt].nlink = st.nlink
      BY <2>2, StatFieldsKeepLinks
    <3> QED  BY <2>2, <3>1, <3>2, <3>3, ChangedStatQuiet
  <2> QED  BY <1>3, <2>1, <2>2 DEF Utimens, SetStat
<1>4. ASSUME NEW n, Chown(n) PROVE Quiet
  BY <1>4, StoreUnchangedQuiet DEF Chown
<1>5. ASSUME NEW n, Getattr(n) PROVE Quiet
  <2>1. Found(n) => n \in LiveNames(directory)
    BY DEF Found, Matches, LiveNames
  <2>2. KeepsLinks /\ UNCHANGED <<directory, inode_number>>
    BY <1>5 DEF Getattr, KeepsLinks
  <2>3. dcache' \subseteq dcache \cup LiveNames(directory)
    BY <1>5, <2>1 DEF Getattr, LookupSucceeds
  <2> QED  BY <2>2, <2>3 DEF Quiet
<1>6. ASSUME Readdir PROVE Quiet
  BY <1>6, StoreUnchangedQuiet DEF Readdir
<1>7. ASSUME NEW n, NEW flags, Open(n, flags) PROVE Quiet
  <2>1. CASE LookupFails(n)  BY <1>1, <2>1
  <2>2. CASE LookupSucceeds(n) /\ ~LookupFails(n)
    <3> DEFINE st == ReadInode(Entry(n).inum)
    <3>1. \/ UNCHANGED inodes
          \/ WriteInode(Entry(n).inum, [st EXCEPT !.size = 0], 1)
      BY <1>7, <2>2 DEF Open
    <3>2. UNCHANGED <<directory, inode_number, dcache>>
      BY <1>7, <2>2 DEF Open
    <3>3. [st EXCEPT !.size = 0].nlink = st.nlink
      BY <2>2, StatFieldsKeepLinks
    <3> QED  BY <2>2, <3>1, <3>2, <3>3, ChangedStatQuiet
  <2> QED  BY <1>7, <2>1, <2>2 DEF Open
<1>8. ASSUME NEW n, Read(n) PROVE Quiet
  <2>1. CASE LookupFails(n)  BY <1>1, <2>1
  <2>2. CASE LookupSucceeds(n) /\ ~LookupFails(n)
    <3> DEFINE st == ReadInode(Entry(n).inum)
    <3>1. PICK now \in Times : WriteInode(Entry(n).inum, [st EXCEPT !.atim = now], 0)
      BY <1>8, <2>2 DEF Read
    <3>2. UNCHANGED <<directory, inode_number, dcache>>
      BY <1>8, <2>2 DEF Read
    <3>3. [st EXCEPT !.atim = now].nlink = st.nlink
      BY <2>2, StatFieldsKeepLinks
    <3> QED  BY <2>2, <3>1, <3>2, <3>3, ChangedStatQuiet
  <2> QED  BY <1>8, <2>1, <2>2 DEF Read
<1>9. ASSUME NEW n, NEW off, NEW len, NEW b, Write(n, off, len, b) PROVE Quiet
  <2>1. CASE LookupFails(n)  BY <1>1, <2>1
  <2>2. CASE LookupSucceeds(n) /\ ~LookupFails(n)
    <3> DEFINE st == ReadInode(Entry(n).inum)
               New(now) == [st EXCEPT !.size = off + len, !.atim = now, !.mtim = now]
    <3>1. PICK now \in Times : WriteInode(Entry(n).inum, New(now), 0)
      BY <1>9, <2>2 DEF Write
    <3>2. UNCHANGED <<directory, inode_number, dcache>>
      BY <1>9, <2>2 DEF Write
    <3>3. New(now).nlink = st.nlink
      BY <2>2, StatFieldsKeepLinks
    <3> QED  BY <2>2, <3>1, <3>2, <3>3, ChangedStatQuiet
  <2> QED  BY <1>9, <2>1, <2>2 DEF Write
<1>10. ASSUME NEW n, NEW off, Truncate(n, off) PROVE Quiet
  <2>1. CASE LookupFails(n)  BY <1>1, <2>1
  <2>2. CASE LookupSucceeds(n) /\ ~LookupFails(n)
    <3> DEFINE st == ReadInode(Entry(n).inum)
    <3>1. \/ UNCHANGED inodes
          \/ WriteInode(Entry(n).inum, [st EXCEPT !.size = off], 1)
      BY <1>10, <2>2 DEF Truncate
    <3>2. UNCHANGED <<directory, inode_number, dcache>>
      BY <1>10, <2>2 DEF Truncate
    <3>3. [st EXCEPT !.size = off].nlink = st.nlink
      BY <2>2, StatFieldsKeepLinks
    <3> QED  BY <2>2, <3>1, <3>2, <3>3, ChangedStatQuiet
  <2> QED  BY <1>10, <2>1, <2>2 DEF Truncate
<1>11. CASE Attributes
  BY <1>11, <1>2, <1>3, <1>4, <1>5, <1>6 DEF Attributes
<1>12. CASE Contents
  BY <1>12, <1>7, <1>8, <1>9, <1>10 DEF Contents
<1>13. CASE UNCHANGED vars
  BY <1>13, StoreUnchangedQuiet DEF vars
<1> QED  BY <1>11, <1>12, <1>13
-----------------------------------------------------------------------------
(***************************************************************************)
(* Every record of Directory~ has its stat, and the counter covers it.     *)
(***************************************************************************)
Numbered(d, written, counter) ==
  \A s \in DOMAIN d :
    d[s].inum # 0 /\ d[s].inum \in written /\ d[s].inum <= counter

\* Numbered is the two invariants at once, of a directory given to it.
LEMMA NumberedIsBoth ==
  Numbered(directory, DOMAIN inodes, inode_number) <=> InodesBacked /\ CounterCovers
BY DEF Numbered, InodesBacked, CounterCovers, InumOf

\* Records that only move, and numbers that only grow, stay numbered.
LEMMA MovedRecordsNumbered ==
  ASSUME NEW d, NEW e, NEW written, NEW counter, Numbered(d, written, counter),
         NEW more, written \subseteq more,
         \A s \in DOMAIN e : \E t \in DOMAIN d : e[s].inum = d[t].inum
  PROVE  Numbered(e, more, counter)
BY DEF Numbered

\* Every step keeps records numbered, the remount by its loop over them.
LEMMA StepNumbered ==
  ASSUME TypeOK, Numbered(directory, DOMAIN inodes, inode_number), [Next]_vars
  PROVE  Numbered(directory, DOMAIN inodes, inode_number)'
<1> DEFINE N == Numbered(directory, DOMAIN inodes, inode_number)
<1>1. CASE Quiet
  BY <1>1 DEF Quiet, KeepsLinks, Numbered
<1>2. ASSUME NEW n \in Names, NEW mode \in Modes, Mknod(n, mode) PROVE N'
  <2>1. CASE UNCHANGED <<directory, inodes, inode_number>>
    BY <2>1 DEF Numbered
  <2>2. CASE /\ \E now \in Times :
                  inodes' = Put(inodes, inode_number, NewStat(mode, now))
             /\ directory' = Put(directory, NewSlot, NewDentry(n))
             /\ inode_number' = inode_number + 1
    <3>1. inode_number \in Nat \ {0}
      BY DEF TypeOK
    <3>2. DOMAIN inodes' = DOMAIN inodes \cup {inode_number}
      BY <2>2 DEF Put
    <3>3. \A s \in DOMAIN directory' :
            \/ directory'[s].inum = inode_number
            \/ s \in DOMAIN directory /\ directory'[s] = directory[s]
      BY <2>2 DEF Put, NewDentry
    <3>4. \A s \in DOMAIN directory : directory[s].inum \in Nat
      BY DEF TypeOK, IsDirectory, Dentry
    <3> QED  BY <2>2, <3>1, <3>2, <3>3, <3>4 DEF Numbered
  <2> QED  BY <1>2, <2>1, <2>2 DEF Mknod, store
<1>3. ASSUME NEW o \in Names, NEW n \in Names, Link(o, n) PROVE N'
  <2>1. CASE LookupFails(o)
    BY <1>1, <2>1, StoreUnchangedQuiet DEF LookupFails
  <2>2. CASE LookupSucceeds(o) /\ ~LookupFails(o)
    <3>1. directory' = Put(directory, FreeSlot(directory), [Entry(o) EXCEPT !.name = n])
      BY <1>3, <2>2 DEF Link
    <3>2. /\ Entry(o) \in Dentry
          /\ FirstMatch(directory, o) \in DOMAIN directory
          /\ Entry(o) = directory[FirstMatch(directory, o)]
      BY <2>2, FoundEntry DEF LookupSucceeds, TypeOK
    <3>3. [Entry(o) EXCEPT !.name = n].inum = directory[FirstMatch(directory, o)].inum
      BY <3>2 DEF Dentry
    <3>4. \A s \in DOMAIN directory' :
            \E t \in DOMAIN directory : directory'[s].inum = directory[t].inum
      BY <3>1, <3>2, <3>3 DEF Put
    <3>5. DOMAIN inodes \subseteq DOMAIN inodes' /\ inode_number' = inode_number
      BY <1>3, <2>2 DEF Link, WriteInode, Put
    <3> QED  BY <3>4, <3>5, MovedRecordsNumbered
  <2> QED  BY <1>3, <2>1, <2>2 DEF Link
<1>4. ASSUME NEW o \in Names, NEW n \in Names, Rename(o, n) PROVE N'
  <2>1. CASE LookupFails(o)
    BY <1>1, <2>1, StoreUnchangedQuiet DEF LookupFails
  <2>2. CASE LookupSucceeds(o) /\ ~LookupFails(o)
    <3>1. directory' = [directory EXCEPT ![FirstMatch(directory, o)].name = n]
      BY <1>4, <2>2 DEF Rename
    <3>2. DOMAIN directory' = DOMAIN directory
          /\ \A s \in DOMAIN directory : directory'[s].inum = directory[s].inum
      BY <3>1 DEF TypeOK, IsDirectory, Dentry
    <3>3. UNCHANGED <<inodes, inode_number>>
      BY <1>4, <2>2 DEF Rename
    <3> QED  BY <3>2, <3>3 DEF Numbered
  <2> QED  BY <1>4, <2>1, <2>2 DEF Rename
<1>5. ASSUME NEW n \in Names, Unlink(n) PROVE N'
  <2>1. inode_number' = inode_number
    BY <1>5 DEF Unlink
  <2>2. CASE UNCHANGED <<directory, inodes>>
    BY <2>1, <2>2 DEF Numbered
  <2>3. CASE directory' = <<>>
    BY <2>3 DEF Numbered
  <2>4. CASE /\ directory' = Rebuilt(directory, Kept(n))
             /\ inodes' = IF HasFds(3) THEN DropLinks(n) ELSE inodes
    <3>1. DOMAIN inodes \subseteq DOMAIN inodes'
      BY <2>4 DEF DropLinks
    <3>2. Kept(n) \in SUBSET Nat /\ IsFiniteSet(Kept(n))
      BY KeptRecords, FS_Subset DEF TypeOK, IsDirectory
    <3>3. \A s \in DOMAIN directory' : \E k \in Kept(n) : directory'[s] = directory[k]
      BY <2>4, <3>2, RebuiltCopies
    <3>4. \A s \in DOMAIN directory' :
            \E t \in DOMAIN directory : directory'[s].inum = directory[t].inum
      BY <3>3, KeptRecords
    <3> QED  BY <2>1, <3>1, <3>4, MovedRecordsNumbered
  <2> QED  BY <1>5, <2>2, <2>3, <2>4 DEF Unlink
<1>6. ASSUME Remount PROVE N'
  <2>1. /\ inode_number' \in Nat
        /\ \A s \in DOMAIN directory : directory[s].inum <= inode_number'
    BY <1>6, ResumeCounterBound DEF Remount, TypeOK
  <2> QED  BY <1>6, <2>1 DEF Remount, Numbered
<1>7. ASSUME NEW n \in Names, MknodSpecial(n) PROVE N'
  BY <1>1, <1>7, StoreUnchangedQuiet DEF MknodSpecial
<1>8. CASE Naming
  BY <1>8, <1>2, <1>3, <1>4, <1>5, <1>6, <1>7 DEF Naming
<1>9. CASE Attributes \/ Contents \/ UNCHANGED vars
  BY <1>1, <1>9, QuietStep
<1> QED  BY <1>8, <1>9 DEF Next

\* No handler and no remount makes an entry whose stat was never written, or
\* lets inode_number fall behind a number in use.
THEOREM EntriesHaveInodes == Spec => [](InodesBacked /\ CounterCovers)
<1>1. Init => Numbered(directory, DOMAIN inodes, inode_number)
  <2>1. DOMAIN <<>> = {}  OBVIOUS
  <2> QED  BY <2>1 DEF Init, Numbered
<1>2. TypeOK /\ Numbered(directory, DOMAIN inodes, inode_number) /\ [Next]_vars
        => Numbered(directory, DOMAIN inodes, inode_number)'
  BY StepNumbered
<1> QED  BY <1>1, <1>2, TypeCorrect, NumberedIsBoth, PTL DEF Spec

\* inode_number is never behind a number in use, over any number of mounts.
THEOREM CounterStaysAhead == Spec => []CounterCovers
BY EntriesHaveInodes, PTL
-----------------------------------------------------------------------------
(***************************************************************************)
(* One mount without safs_link: mknod never writes over a record, and the  *)
(* link counts are right.  Slots below the counter are not inductive by    *)
(* themselves: safs_unlink moves the records up to slot 2, so there must   *)
(* be fewer of them than numbers handed out (each has a number of its      *)
(* own), by one more when it removes nothing, which it does only for a     *)
(* name that was lost before.                                              *)
(***************************************************************************)
InumsOnce ==
  \A s, t \in DOMAIN directory :
    directory[s].inum = directory[t].inum => s = t

RecordsBelow ==
  \A s \in DOMAIN directory :
    s < inode_number /\ directory[s].inum \in 1 .. inode_number - 1

OneLink ==
  \A s \in DOMAIN directory :
    /\ directory[s].inum \in DOMAIN inodes
    /\ inodes[directory[s].inum].nlink = 1

\* A name the kernel believes in without an entry leaves a number unused.
Room ==
  \A n \in dcache \ LiveNames(directory) :
    Cardinality(DOMAIN directory) + 1 < inode_number

OneMountInv == InumsOnce /\ RecordsBelow /\ OneLink /\ Room

\* Each record has a number of its own below the counter.
LEMMA RecordsCounted ==
  ASSUME TypeOK, InumsOnce, RecordsBelow
  PROVE  /\ Cardinality(DOMAIN directory) \in Nat
         /\ Cardinality(DOMAIN directory) <= inode_number - 1
<1> DEFINE f == [s \in DOMAIN directory |-> directory[s].inum]
           I == 1 .. inode_number - 1
<1>1. f \in Injection(DOMAIN directory, I)
  <2>1. f \in [DOMAIN directory -> I]  BY DEF RecordsBelow
  <2>2. \A s, t \in DOMAIN directory : f[s] = f[t] => s = t  BY DEF InumsOnce
  <2> QED  BY <2>1, <2>2 DEF Injection, IsInjective
<1>2. IsFiniteSet(I) /\ Cardinality(I) = inode_number - 1
  BY FS_Interval DEF TypeOK
<1>3. Cardinality(DOMAIN directory) <= Cardinality(I)
  BY <1>1, <1>2, FS_Injection
<1>4. Cardinality(DOMAIN directory) \in Nat
  BY FS_CardinalityType DEF TypeOK, IsDirectory
<1> QED  BY <1>2, <1>3, <1>4

\* A quiet handler keeps the invariant.
LEMMA QuietOneMount ==
  ASSUME OneMountInv, Quiet
  PROVE  OneMountInv'
<1>1. InumsOnce' /\ RecordsBelow'
  BY DEF Quiet, OneMountInv, InumsOnce, RecordsBelow
<1>2. OneLink'
  BY DEF Quiet, KeepsLinks, OneMountInv, OneLink
<1>3. Room'
  BY DEF Quiet, OneMountInv, Room
<1> QED  BY <1>1, <1>2, <1>3 DEF OneMountInv

\* safs_mknod takes a number and a slot no record has.
LEMMA MknodOneMount ==
  ASSUME TypeOK, OneMountInv, NEW n \in Names, NEW mode \in Modes, Mknod(n, mode)
  PROVE  OneMountInv'
<1>1. CASE UNCHANGED <<directory, inodes, inode_number, dcache>>
  BY <1>1 DEF OneMountInv, InumsOnce, RecordsBelow, OneLink, Room
<1>2. CASE /\ \E now \in Times :
                inodes' = Put(inodes, inode_number, NewStat(mode, now))
           /\ directory' = Put(directory, NewSlot, NewDentry(n))
           /\ inode_number' = inode_number + 1
           /\ dcache' = dcache \cup {n}
  <2>1. inode_number \in Nat \ {0} /\ inode_number \notin DOMAIN directory
    BY DEF TypeOK, OneMountInv, RecordsBelow
  <2>2. /\ DOMAIN directory' = DOMAIN directory \cup {inode_number}
        /\ directory'[inode_number] = NewDentry(n)
        /\ \A s \in DOMAIN directory : directory'[s] = directory[s]
    BY <1>2, <2>1 DEF Put, NewSlot
  <2>3. NewDentry(n).inum = inode_number /\ NewDentry(n).name = n
    BY DEF NewDentry
  <2>4. \A s \in DOMAIN directory :
          /\ s \in Nat /\ s < inode_number
          /\ directory[s].inum \in 1 .. inode_number - 1
    BY DEF TypeOK, IsDirectory, OneMountInv, RecordsBelow
  <2>5. InumsOnce'
    BY <2>1, <2>2, <2>3, <2>4 DEF OneMountInv, InumsOnce
  <2>6. RecordsBelow'
    BY <1>2, <2>1, <2>2, <2>3, <2>4 DEF RecordsBelow
  <2>7. OneLink'
    <3>1. PICK now \in Times :
            inodes' = Put(inodes, inode_number, NewStat(mode, now))
      BY <1>2
    <3>2. /\ DOMAIN inodes' = DOMAIN inodes \cup {inode_number}
          /\ inodes'[inode_number].nlink = 1
          /\ \A i \in DOMAIN inodes \ {inode_number} : inodes'[i] = inodes[i]
      BY <3>1 DEF Put, NewStat
    <3>3. \A s \in DOMAIN directory : directory[s].inum # inode_number
      BY <2>1, <2>4
    <3> QED  BY <2>2, <2>3, <3>2, <3>3 DEF OneMountInv, OneLink
  <2>8. Room'
    <3>1. IsFiniteSet(DOMAIN directory) /\ Cardinality(DOMAIN directory) \in Nat
      BY FS_CardinalityType DEF TypeOK, IsDirectory
    <3>2. Cardinality(DOMAIN directory') = Cardinality(DOMAIN directory) + 1
      BY <2>1, <2>2, <3>1, FS_AddElement
    <3>3. LiveNames(directory) \cup {n} \subseteq LiveNames(directory')
      BY <2>1, <2>2, <2>3 DEF LiveNames, LiveSlots
    <3>4. dcache' \ LiveNames(directory') \subseteq dcache \ LiveNames(directory)
      BY <1>2, <3>3
    <3> QED  BY <1>2, <2>1, <3>1, <3>2, <3>4 DEF OneMountInv, Room
  <2> QED  BY <2>5, <2>6, <2>7, <2>8 DEF OneMountInv
<1> QED  BY <1>1, <1>2 DEF Mknod, store

\* safs_rename gives a name to a record and takes none away.
LEMMA RenameOneMount ==
  ASSUME TypeOK, OneMountInv, NEW o \in Names, NEW n \in Names, Rename(o, n)
  PROVE  OneMountInv'
<1>1. CASE LookupFails(o)
  BY <1>1, StoreUnchangedQuiet, QuietOneMount DEF LookupFails
<1>2. CASE LookupSucceeds(o) /\ ~LookupFails(o)
  <2> DEFINE first == FirstMatch(directory, o)
  <2>1. /\ directory' = [directory EXCEPT ![first].name = n]
        /\ dcache' = (dcache \ {o}) \cup {n}
        /\ UNCHANGED <<inodes, inode_number>>
    BY <1>2 DEF Rename
  <2>2. first \in DOMAIN directory /\ directory[first].name = o
        /\ directory[first].inum # 0 /\ directory[first] \in Dentry
    BY <1>2, FoundEntry DEF LookupSucceeds, TypeOK
  <2> HIDE DEF first
  <2>3. /\ DOMAIN directory' = DOMAIN directory
        /\ \A s \in DOMAIN directory :
             /\ directory'[s].inum = directory[s].inum
             /\ s # first => directory'[s] = directory[s]
        /\ directory'[first].name = n
    BY <2>1, <2>2 DEF TypeOK, IsDirectory, Dentry
  <2>4. InumsOnce' /\ RecordsBelow' /\ OneLink'
    BY <2>1, <2>3 DEF OneMountInv, InumsOnce, RecordsBelow, OneLink
  <2>5. Room'
    <3>1. LiveNames(directory) \ {o} \subseteq LiveNames(directory')
      BY <2>2, <2>3 DEF LiveNames, LiveSlots
    <3>2. n \in LiveNames(directory')
      BY <2>2, <2>3 DEF LiveNames, LiveSlots
    <3>3. dcache' \ LiveNames(directory') \subseteq dcache \ LiveNames(directory)
      BY <2>1, <3>1, <3>2
    <3> QED  BY <2>1, <2>3, <3>3 DEF OneMountInv, Room
  <2> QED  BY <2>4, <2>5 DEF OneMountInv
<1> QED  BY <1>1, <1>2 DEF Rename

\* The compaction keeps fewer records than there are numbers to spare.
LEMMA KeptAreFew ==
  ASSUME TypeOK, OneMountInv, NEW n \in Names, Known(n)
  PROVE  /\ Kept(n) \in SUBSET Nat /\ IsFiniteSet(Kept(n))
         /\ Cardinality(Kept(n)) \in Nat
         /\ Cardinality(Kept(n)) + 1 < inode_number
<1>1. IsFiniteSet(DOMAIN directory) /\ DOMAIN directory \subseteq Nat
  BY DEF TypeOK, IsDirectory
<1>2. /\ Kept(n) \in SUBSET DOMAIN directory /\ IsFiniteSet(Kept(n))
      /\ Cardinality(Kept(n)) \in Nat
      /\ Cardinality(Kept(n)) <= Cardinality(DOMAIN directory)
      /\ Cardinality(Kept(n)) = Cardinality(DOMAIN directory)
           => Kept(n) = DOMAIN directory
  BY <1>1, KeptRecords, FS_Subset, FS_CardinalityType
<1>3. /\ Cardinality(DOMAIN directory) \in Nat
      /\ Cardinality(DOMAIN directory) <= inode_number - 1
  BY RecordsCounted DEF OneMountInv
<1>4. inode_number \in Nat
  BY DEF TypeOK
<1>5. CASE Kept(n) # DOMAIN directory
  <2>1. Cardinality(Kept(n)) # Cardinality(DOMAIN directory)
    BY <1>2, <1>5
  <2>2. Cardinality(Kept(n)) + 1 < inode_number
    BY <1>2, <1>3, <1>4, <2>1
  <2> QED  BY <1>1, <1>2, <2>2
<1>6. CASE Kept(n) = DOMAIN directory
  <2>1. n \notin LiveNames(directory)
    BY <1>6 DEF Kept, Named, LiveNames, LiveSlots
  <2>2. Cardinality(DOMAIN directory) + 1 < inode_number
    BY <2>1 DEF Known, OneMountInv, Room
  <2> QED  BY <1>1, <1>2, <1>6, <2>2
<1> QED  BY <1>5, <1>6

\* Dropping the links of a name leaves those of the records kept.
LEMMA KeptHaveOneLink ==
  ASSUME TypeOK, OneMountInv, NEW n, NEW k \in Kept(n)
  PROVE  /\ directory[k].inum \in DOMAIN DropLinks(n)
         /\ DropLinks(n)[directory[k].inum].nlink = 1
<1> DEFINE i == directory[k].inum
<1>1. k \in DOMAIN directory /\ k \notin Named(n)
  BY DEF Kept, Scanned
<1>2. i \in DOMAIN inodes /\ inodes[i].nlink = 1 /\ inodes[i] \in Stat
  BY <1>1 DEF OneMountInv, OneLink, TypeOK, IsInodes
<1>3. Unlinks(n, i) = 0
  <2>1. {s \in Scanned(n) \cap Named(n) : directory[s].inum = i} = {}
    BY <1>1 DEF OneMountInv, InumsOnce, Scanned
  <2> QED  BY <2>1, FS_EmptySet DEF Unlinks
<1>4. (1 - 0) % LinkMod = 1
  BY LinkModAssumption
<1>5. /\ i \in DOMAIN DropLinks(n)
      /\ DropLinks(n)[i] =
           [ReadInode(i) EXCEPT !.nlink = (@ - Unlinks(n, i)) % LinkMod]
  BY <1>2 DEF DropLinks
<1>6. ReadInode(i) = inodes[i]
  BY <1>2 DEF ReadInode
<1> HIDE DEF i
<1>7. DropLinks(n)[i].nlink = 1
  BY <1>2, <1>3, <1>4, <1>5, <1>6 DEF Stat
<1> QED  BY <1>5, <1>7 DEF i

\* safs_unlink keeps the invariant: the copy fits below the counter.
LEMMA UnlinkOneMount ==
  ASSUME TypeOK, OneMountInv, NEW n \in Names, Unlink(n)
  PROVE  OneMountInv'
<1>0. Known(n) /\ inode_number' = inode_number /\ dcache' \subseteq dcache
  BY DEF Unlink
<1>1. CASE UNCHANGED <<directory, inodes, dcache>>
  BY <1>0, <1>1 DEF OneMountInv, InumsOnce, RecordsBelow, OneLink, Room
<1>2. CASE directory' = <<>>
  <2>1. DOMAIN directory' = {} /\ Cardinality({}) = 0
    BY <1>2, FS_EmptySet
  <2>2. InumsOnce' /\ RecordsBelow' /\ OneLink'
    BY <2>1 DEF InumsOnce, RecordsBelow, OneLink
  <2>3. Cardinality(Kept(n)) + 1 < inode_number /\ Cardinality(Kept(n)) \in Nat
    BY <1>0, KeptAreFew
  <2>4. inode_number \in Nat
    BY DEF TypeOK
  <2>5. Cardinality(DOMAIN directory') + 1 < inode_number'
    BY <1>0, <2>1, <2>3, <2>4
  <2> QED  BY <2>2, <2>5 DEF OneMountInv, Room
<1>3. CASE /\ directory' = Rebuilt(directory, Kept(n))
           /\ inodes' = IF HasFds(3) THEN DropLinks(n) ELSE inodes
  <2>1. /\ Kept(n) \in SUBSET Nat /\ IsFiniteSet(Kept(n))
        /\ Cardinality(Kept(n)) \in Nat
        /\ Cardinality(Kept(n)) + 1 < inode_number
        /\ inode_number \in Nat
    BY <1>0, KeptAreFew DEF TypeOK
  <2>2. /\ DOMAIN directory' = 2 .. Cardinality(Kept(n)) + 1
        /\ \A s \in DOMAIN directory' :
             \E k \in Kept(n) : directory'[s] = directory[k]
        /\ \A s, t \in DOMAIN directory' :
             s # t => \E j, k \in Kept(n) : /\ j # k
                                            /\ directory'[s] = directory[j]
                                            /\ directory'[t] = directory[k]
    BY <1>3, <2>1, RebuiltCopies
  <2>3. Kept(n) \subseteq DOMAIN directory
    BY KeptRecords
  <2>4. InumsOnce'
    BY <2>2, <2>3 DEF OneMountInv, InumsOnce
  <2>5. RecordsBelow'
    <3>1. \A s \in DOMAIN directory' : s < inode_number
      BY <2>1, <2>2
    <3> QED  BY <1>0, <2>2, <2>3, <3>1 DEF OneMountInv, RecordsBelow
  <2>6. OneLink'
    <3>1. \A k \in Kept(n) : /\ directory[k].inum \in DOMAIN inodes'
                             /\ inodes'[directory[k].inum].nlink = 1
      <4>1. CASE HasFds(3)
        BY <1>3, <4>1, KeptHaveOneLink
      <4>2. CASE ~HasFds(3)
        BY <1>3, <2>3, <4>2 DEF OneMountInv, OneLink
      <4> QED  BY <4>1, <4>2
    <3> QED  BY <2>2, <3>1 DEF OneLink
  <2>7. Room'
    <3>1. Cardinality(DOMAIN directory') = Cardinality(Kept(n))
      BY <2>1, <2>2, FS_Interval
    <3> QED  BY <1>0, <2>1, <3>1 DEF Room
  <2> QED  BY <2>4, <2>5, <2>6, <2>7 DEF OneMountInv
<1> QED  BY <1>1, <1>2, <1>3 DEF Unlink

\* Without link and remount every step keeps the invariant.
LEMMA StepOneMount ==
  ASSUME Ops \cap {"link", "remount"} = {}, TypeOK, OneMountInv, [Next]_vars
  PROVE  OneMountInv'
<1>1. CASE Naming
  <2>1. ASSUME NEW n \in Names, MknodSpecial(n) PROVE OneMountInv'
    BY <2>1, StoreUnchangedQuiet, QuietOneMount DEF MknodSpecial
  <2> QED
    BY <1>1, <2>1, MknodOneMount, RenameOneMount, UnlinkOneMount DEF Naming
<1>2. CASE Attributes \/ Contents \/ UNCHANGED vars
  BY <1>2, QuietStep, QuietOneMount
<1> QED  BY <1>1, <1>2 DEF Next

\* The invariant has what the theorem states.
LEMMA InvOneMount ==
  ASSUME TypeOK, OneMountInv
  PROVE  SlotsBelowCounter /\ NlinkCountsNames
<1>1. SlotsBelowCounter
  BY DEF SlotsBelowCounter, OneMountInv, RecordsBelow, LiveSlots
<1>2. NlinkCountsNames
  <2> SUFFICES ASSUME NEW s \in LiveSlots(directory)
               PROVE  inodes[InumOf(s)].nlink =
                        Cardinality({t \in LiveSlots(directory) : InumOf(t) = InumOf(s)})
    BY DEF NlinkCountsNames
  <2>1. {t \in LiveSlots(directory) : InumOf(t) = InumOf(s)} = {s}
    BY DEF OneMountInv, InumsOnce, LiveSlots, InumOf
  <2>2. inodes[InumOf(s)].nlink = 1
    BY DEF OneMountInv, OneLink, LiveSlots, InumOf
  <2> QED  BY <2>1, <2>2, FS_Singleton
<1> QED  BY <1>1, <1>2

\* Within one mount and without safs_link, safs_mknod never writes over an
\* entry and st_nlink is the number of names, even after names were lost or
\* calls failed for want of descriptors.
THEOREM OneMountSlots ==
  ASSUME Ops \cap {"link", "remount"} = {}
  PROVE  Spec => [](SlotsBelowCounter /\ NlinkCountsNames)
<1>1. Init => OneMountInv
  <2>1. DOMAIN <<>> = {}  OBVIOUS
  <2> QED
    BY <2>1 DEF Init, OneMountInv, InumsOnce, RecordsBelow, OneLink, Room
<1>2. TypeOK /\ OneMountInv /\ [Next]_vars => OneMountInv'
  BY StepOneMount
<1>3. TypeOK /\ OneMountInv => SlotsBelowCounter /\ NlinkCountsNames
  BY InvOneMount
<1> QED  BY <1>1, <1>2, <1>3, TypeCorrect, PTL DEF Spec

\* Of these, st_nlink by itself.
THEOREM LinksCounted ==
  ASSUME Ops \cap {"link", "remount"} = {}
  PROVE  Spec => []NlinkCountsNames
BY OneMountSlots, PTL
=============================================================================
