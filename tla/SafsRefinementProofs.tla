------------------------ MODULE SafsRefinementProofs ------------------------
(***************************************************************************)
(* Safs implements FlatFS: every step of the daemon is, through the        *)
(* refinement mapping of SafsProperties, one step of FlatFS or none.       *)
(***************************************************************************)
EXTENDS SafsFilesProofs, SequenceTheorems

(***************************************************************************)
(* Names, attributes and contents.  The mapping searches Directory~ for    *)
(* each name; where names are unique it is as well a property of slots.    *)
(***************************************************************************)
FullView ==
  [n \in LiveNames(directory) |-> [id |-> Entry(n).inum, look |-> LookOf(n)]]

SlotBytes(s) ==
  LET data == storage[directory[s].storage].data
  IN  SubSeq(data, 1, Min({inodes[directory[s].inum].size, Len(data)}))

SlotAttrs(s) ==
  [mode |-> inodes[directory[s].inum].mode, size |-> inodes[directory[s].inum].size]

SlotFile(s) ==
  [id |-> directory[s].inum, look |-> [attrs |-> SlotAttrs(s), bytes |-> SlotBytes(s)]]

FullViewBySlots ==
  /\ FullView = [n \in DOMAIN FullView |-> FullView[n]]
  /\ DOMAIN FullView = {directory[s].name : s \in DOMAIN directory}
  /\ \A s \in DOMAIN directory :
       /\ FullView[directory[s].name] = SlotFile(s)
       /\ SlotAttrs(s) \in AttrsType /\ SlotBytes(s) \in Seq(Nat)

\* The only record of a name is the one a search finds.
LEMMA OnlyEntry ==
  ASSUME TypeOK, OneMountInv, NamesOnce, NEW s \in DOMAIN directory
  PROVE  Entry(directory[s].name) = directory[s] /\ s \in LiveSlots(directory)
<1> DEFINE n == directory[s].name
<1>1. directory[s].inum # 0
  BY DEF OneMountInv, RecordsBelow
<1>2. Found(n)
  BY <1>1 DEF Found, Matches, LiveSlots
<1>3. FirstMatch(directory, n) \in DOMAIN directory /\ Entry(n).name = n
      /\ Entry(n) = directory[FirstMatch(directory, n)]
  BY <1>2, FoundEntry DEF TypeOK
<1> QED  BY <1>1, <1>3 DEF NamesOnce, LiveSlots

\* What a user can read of a file is a sequence of bytes.
LEMMA BytesType ==
  ASSUME NEW data \in Seq(Nat), NEW size \in Nat
  PROVE  SubSeq(data, 1, Min({size, Len(data)})) \in Seq(Nat)
<1> DEFINE m == Min({size, Len(data)})
<1>1. {size, Len(data)} \in SUBSET Nat /\ {size, Len(data)} # {}
  OBVIOUS
<1>2. m \in {size, Len(data)} /\ \A x \in {size, Len(data)} : m <= x
  BY <1>1, MinOfNaturals
<1>3. m \in 0 .. Len(data)
  BY <1>2
<1> HIDE DEF m
<1>4. 1 \in 1 .. Len(data) + 1 /\ m \in 1 - 1 .. Len(data)
  BY <1>3
<1>5. SubSeq(data, 1, m) \in Seq(Nat)
  BY <1>4, SubSeqProperties
<1> QED  BY <1>5 DEF m

\* The mapping, slot by slot.
LEMMA FullViewIsBySlots == TypeOK /\ FilesInv => FullViewBySlots
<1> SUFFICES ASSUME TypeOK, FilesInv PROVE FullViewBySlots
  OBVIOUS
<1>1. LiveSlots(directory) = DOMAIN directory
  BY OnlyEntry DEF FilesInv, LiveSlots
<1>2. DOMAIN FullView = {directory[s].name : s \in DOMAIN directory}
  BY <1>1 DEF FullView, LiveNames
<1>3. FullView = [n \in DOMAIN FullView |-> FullView[n]]
  BY DEF FullView
<1>4. ASSUME NEW s \in DOMAIN directory
      PROVE  /\ FullView[directory[s].name] = SlotFile(s)
             /\ SlotAttrs(s) \in AttrsType /\ SlotBytes(s) \in Seq(Nat)
  <2> DEFINE n == directory[s].name
             i == directory[s].inum
             f == directory[s].storage
  <2>1. Entry(n) = directory[s] /\ n \in LiveNames(directory)
    BY OnlyEntry DEF FilesInv, LiveNames
  <2>2. /\ i \in DOMAIN inodes /\ inodes[i] \in Stat
        /\ f \in DOMAIN storage /\ storage[f] \in DataFile
    BY DEF FilesInv, OneMountInv, OneLink, OwnFile, TypeOK, IsInodes, IsStorage
  <2>3. StatOf(n) = inodes[i]
    BY <2>1, <2>2 DEF StatOf, ReadInode
  <2>4. DataOf(n) = storage[f].data
    BY <2>1, <2>2 DEF DataOf
  <2>5. AttrsOf(n) = SlotAttrs(s) /\ SlotAttrs(s) \in AttrsType
    BY <2>2, <2>3 DEF AttrsOf, SlotAttrs, AttrsType, Stat
  <2>6. Visible(n) = SlotBytes(s)
    BY <2>3, <2>4 DEF Visible, SlotBytes
  <2>7. SlotBytes(s) \in Seq(Nat)
    BY <2>2, BytesType DEF SlotBytes, DataFile, Stat
  <2>8. FullView[n] = [id |-> Entry(n).inum, look |-> LookOf(n)]
    BY <2>1 DEF FullView
  <2>9. FullView[n] = SlotFile(s)
    BY <2>1, <2>5, <2>6, <2>8 DEF SlotFile, LookOf
  <2> QED  BY <2>5, <2>7, <2>9
<1> QED  BY <1>2, <1>3, <1>4 DEF FullViewBySlots

\* At the first mount there are no files.
LEMMA FullInit == Init => FullFS!Init
<1> SUFFICES ASSUME Init PROVE FullView = <<>>
  BY DEF FullFS!Init, FullView
<1>1. LiveNames(directory) = {}
  <2>1. DOMAIN <<>> = {}  OBVIOUS
  <2> QED  BY <2>1 DEF Init, LiveNames, LiveSlots
<1> QED  BY <1>1 DEF FullView

\* The facts a step is made of: both states of it have their types, their
\* invariants, and the mapping by slots.
FullStep ==
  /\ TypeOK /\ FilesInv /\ FullViewBySlots
  /\ TypeOK' /\ FilesInv' /\ FullViewBySlots'

\* A handler that touches the stat and the data file of one record changes one
\* file of FlatFS: no other record has that stat or that data file.
LEMMA TouchIsChange ==
  ASSUME FullStep, NEW s \in DOMAIN directory, TouchesFile(s)
  PROVE  \E n \in DOMAIN FullView : FullFS!Change(n)
<1> DEFINE n == directory[s].name
<1>1. UNCHANGED directory /\ DOMAIN FullView' = DOMAIN FullView
      /\ n \in DOMAIN FullView
  BY DEF TouchesFile, FullStep, FullViewBySlots
<1>2. \A t \in DOMAIN directory : t # s =>
        /\ directory[t].inum # directory[s].inum
        /\ directory[t].inum \in DOMAIN inodes
        /\ directory[t].storage # directory[s].storage
        /\ directory[t].storage \in DOMAIN storage
  BY DEF FullStep, FilesInv, OneMountInv, InumsOnce, OneLink, NamesOnce, OwnFile
<1>3. \A t \in DOMAIN directory : t # s => SlotFile(t)' = SlotFile(t)
  BY <1>1, <1>2 DEF TouchesFile, SlotFile, SlotAttrs, SlotBytes
<1>4. \A t \in DOMAIN directory :
        /\ FullView[directory[t].name] = SlotFile(t)
        /\ FullView'[directory[t].name] = SlotFile(t)'
        /\ SlotFile(t).id = directory[t].inum /\ SlotFile(t)'.id = directory[t].inum
  BY <1>1 DEF FullStep, FullViewBySlots, SlotFile
<1>5. FullView'[n].id = FullView[n].id
  BY <1>4
<1>6. FullView'[n].look \in [attrs : AttrsType, bytes : Seq(Nat)]
  <2>1. SlotAttrs(s)' \in AttrsType /\ SlotBytes(s)' \in Seq(Nat)
    BY <1>1 DEF FullStep, FullViewBySlots
  <2>2. FullView'[n].look = [attrs |-> SlotAttrs(s)', bytes |-> SlotBytes(s)']
    <3>1. FullView'[n] = SlotFile(s)'  BY <1>4
    <3> QED  BY <3>1 DEF SlotFile
  <2> QED  BY <2>1, <2>2
<1>7. \A m \in DOMAIN FullView :
        FullView'[m] = IF FullView[m].id = FullView[n].id THEN FullView'[n]
                                                         ELSE FullView[m]
  <2> TAKE m \in DOMAIN FullView
  <2>1. PICK t \in DOMAIN directory : m = directory[t].name
    BY DEF FullStep, FullViewBySlots
  <2>2. CASE t = s
    BY <2>1, <2>2
  <2>3. CASE t # s
    <3>1. FullView'[m] = FullView[m]
      BY <1>3, <1>4, <2>1, <2>3
    <3>2. FullView[m].id # FullView[n].id
      BY <1>2, <1>4, <2>1, <2>3
    <3> QED  BY <3>1, <3>2
  <2> QED  BY <2>2, <2>3
<1>8. FullFS!Change(n)
  BY <1>1, <1>5, <1>6, <1>7 DEF FullFS!Change, FullView
<1> QED  BY <1>1, <1>8

\* A step that keeps records, stats and data files keeps every file.
LEMMA NothingIsStutter ==
  ASSUME FullStep, TouchesNothing
  PROVE  FullView' = FullView
<1>1. DOMAIN FullView' = DOMAIN FullView
  BY DEF TouchesNothing, FullStep, FullViewBySlots
<1>2. \A s \in DOMAIN directory : SlotFile(s)' = SlotFile(s)
  BY DEF TouchesNothing, SlotFile, SlotAttrs, SlotBytes
<1>3. \A n \in DOMAIN FullView : FullView'[n] = FullView[n]
  <2> TAKE n \in DOMAIN FullView
  <2>1. PICK s \in DOMAIN directory : n = directory[s].name
    BY DEF FullStep, FullViewBySlots
  <2>2. FullView[n] = SlotFile(s)
    BY <2>1 DEF FullStep, FullViewBySlots
  <2>3. FullView'[n] = SlotFile(s)'
    BY <2>1 DEF FullStep, FullViewBySlots, TouchesNothing
  <2> QED  BY <1>2, <2>2, <2>3
<1> QED  BY <1>1, <1>3 DEF FullStep, FullViewBySlots

\* safs_mknod makes one empty file, of a number no other file has, or none.
LEMMA MknodIsCreate ==
  ASSUME FullStep, DescriptorsLast, EnoughFds,
         NEW n \in Names, NEW mode \in Modes, Mknod(n, mode)
  PROVE  FullFS!Create(n) \/ FullView' = FullView
<1>1. CASE UNCHANGED store
  BY <1>1, NothingIsStutter DEF store, TouchesNothing
<1>2. CASE /\ storage' = Put(storage, n, EmptyData(n, mode))
           /\ \E now \in Times :
                inodes' = Put(inodes, inode_number, NewStat(mode, now))
           /\ directory' = Put(directory, NewSlot, NewDentry(n))
  <2>1. \A s \in DOMAIN directory :
          /\ directory[s].name # n /\ directory[s].storage # n
          /\ s # inode_number /\ directory[s].inum # inode_number
          /\ directory[s].inum \in DOMAIN inodes
          /\ directory[s].storage \in DOMAIN storage
    <3> TAKE s \in DOMAIN directory
    <3>1. /\ s \in Nat /\ s < inode_number
          /\ directory[s].inum \in 1 .. inode_number - 1 /\ inode_number \in Nat
          /\ directory[s].inum \in DOMAIN inodes
      BY DEF FullStep, TypeOK, IsDirectory, FilesInv, OneMountInv, RecordsBelow, OneLink
    <3>2. directory[s].name # n
      BY <3>1 DEF Mknod, Unseen, LiveNames, LiveSlots
    <3> QED  BY <3>1, <3>2 DEF FullStep, FilesInv, OwnFile
  <2>2. /\ DOMAIN directory' = DOMAIN directory \cup {inode_number}
        /\ directory'[inode_number] =
             [name |-> n, storage |-> n, inum |-> inode_number]
        /\ \A s \in DOMAIN directory : directory'[s] = directory[s]
    BY <1>2, <2>1 DEF Put, NewSlot, NewDentry
  <2>3. /\ \A i \in DOMAIN inodes : i # inode_number => inodes'[i] = inodes[i]
        /\ inodes'[inode_number].size = 0 /\ inodes'[inode_number].mode = mode
        /\ \A f \in DOMAIN storage : f # n => storage'[f] = storage[f]
        /\ storage'[n].data = <<>>
    BY <1>2 DEF Put, NewStat, EmptyData
  <2>4. /\ DOMAIN FullView' = DOMAIN FullView \cup {n}
        /\ n \notin DOMAIN FullView
    BY <2>1, <2>2 DEF FullStep, FullViewBySlots
  <2>5. \A s \in DOMAIN directory : SlotFile(s)' = SlotFile(s)
    <3> TAKE s \in DOMAIN directory
    <3>1. /\ directory'[s] = directory[s]
          /\ inodes'[directory[s].inum] = inodes[directory[s].inum]
          /\ storage'[directory[s].storage] = storage[directory[s].storage]
      BY <2>1, <2>2, <2>3
    <3> QED  BY <3>1 DEF SlotFile, SlotAttrs, SlotBytes
  <2>6. \A m \in DOMAIN FullView : FullView'[m] = FullView[m]
    <3> TAKE m \in DOMAIN FullView
    <3>1. PICK s \in DOMAIN directory : m = directory[s].name
      BY DEF FullStep, FullViewBySlots
    <3>2. FullView[m] = SlotFile(s)
      BY <3>1 DEF FullStep, FullViewBySlots
    <3>3. FullView'[m] = SlotFile(s)'
      BY <2>2, <3>1 DEF FullStep, FullViewBySlots
    <3> QED  BY <2>5, <3>2, <3>3
  <2>7. /\ FullView'[n].id = inode_number
        /\ FullView'[n].look \in [attrs : NewAttrs, bytes : {<<>>}]
    <3> DEFINE old == inode_number
    <3>1. PICK x : x = inode_number
      OBVIOUS
    <3>2. x \in DOMAIN directory' /\ directory'[x].name = n
          /\ directory'[x].inum = x /\ directory'[x].storage = n
      BY <2>2, <3>1
    <3>3. FullView'[n] = SlotFile(x)'
      BY <3>2 DEF FullStep, FullViewBySlots
    <3>4. SlotAttrs(x)' = [mode |-> mode, size |-> 0]
      BY <2>3, <3>1, <3>2 DEF SlotAttrs
    <3>5. SlotBytes(x)' = <<>>
      <4>1. SlotBytes(x)' = SubSeq(<<>>, 1, Min({0, Len(<<>>)}))
        BY <2>3, <3>1, <3>2 DEF SlotBytes
      <4>2. Len(<<>>) = 0 /\ Min({0, 0}) \in {0, 0}
        BY MinOfNaturals
      <4>3. SubSeq(<<>>, 1, 0) = <<>>
        OBVIOUS
      <4> QED  BY <4>1, <4>2, <4>3
    <3>6. mode \in SUBSET Perms
      BY ModesAssumption
    <3> QED
      BY <3>1, <3>2, <3>3, <3>4, <3>5, <3>6 DEF SlotFile, NewAttrs
  <2>8. FullView'[n].id \in Ids \ {FullView[m].id : m \in DOMAIN FullView}
    <3>1. inode_number \in Ids
      BY SizeAssumption DEF Mknod, Ids, FullStep, TypeOK
    <3>2. \A m \in DOMAIN FullView : FullView[m].id # inode_number
      <4> TAKE m \in DOMAIN FullView
      <4>1. PICK s \in DOMAIN directory : m = directory[s].name
        BY DEF FullStep, FullViewBySlots
      <4>2. FullView[m] = SlotFile(s)
        BY <4>1 DEF FullStep, FullViewBySlots
      <4>3. FullView[m].id = directory[s].inum
        BY <4>2 DEF SlotFile
      <4> QED  BY <2>1, <4>3
    <3> QED  BY <2>7, <3>1, <3>2
  <2>9. FullFS!Create(n)
    <3>1. [m \in DOMAIN FullView |-> FullView'[m]] = [m \in DOMAIN FullView |-> FullView[m]]
      BY <2>6
    <3>2. FullFS!Same(DOMAIN FullView)
      BY <3>1 DEF FullFS!Same, FullFS!Restrict, FullView
    <3>3. FullFS!Ids = {FullView[m].id : m \in DOMAIN FullView}
      BY DEF FullFS!Ids, FullView
    <3>4. FullView'[n].id \in Ids \ FullFS!Ids
      BY <2>8, <3>3
    <3> QED
      BY <2>4, <2>7, <3>2, <3>4 DEF FullFS!Create, FullView
  <2> QED  BY <2>9
<1>3. HasFds(3)
  BY FdsAssumption, SizeAssumption
  DEF FullStep, TypeOK, Mknod, DescriptorsLast, HasFds, EnoughFds
<1> QED  BY <1>1, <1>2, <1>3 DEF Mknod

\* safs_unlink removes one file, or nothing where there is none: the records it
\* copies keep their stats and their data files, wherever they move to.
LEMMA UnlinkIsRemove ==
  ASSUME FullStep, LookupsInv, EnoughFds, InodesBacked, NEW n \in Names, Unlink(n)
  PROVE  FullView' = FullView \/ \E m \in DOMAIN FullView : FullFS!Remove(m)
<1>1. Stuck(n) = {} /\ HasFds(2) /\ dirFile
  BY NeverStuck, SizeAssumption, FdsAssumption
  DEF FullStep, TypeOK, LookupsInv, DescriptorsLast, HasFds, EnoughFds
<1>2. /\ directory' = Rebuilt(directory, Kept(n))
      /\ inodes' = IF HasFds(3) THEN DropLinks(n) ELSE inodes
      /\ storage' = IF Named(n) = {} THEN storage ELSE Drop(storage, n)
  BY <1>1 DEF Unlink
<1>3. Kept(n) = {s \in DOMAIN directory : directory[s].name # n}
  BY <1>1, KeptAllOthers
<1>4. \A k \in Kept(n) :
        /\ storage'[directory[k].storage] = storage[directory[k].storage]
        /\ inodes'[directory[k].inum].size = inodes[directory[k].inum].size
        /\ inodes'[directory[k].inum].mode = inodes[directory[k].inum].mode
  <2> TAKE k \in Kept(n)
  <2>1. k \in DOMAIN directory /\ directory[k].name # n
    BY <1>3
  <2>2. directory[k].inum \in DOMAIN inodes
    BY <2>1 DEF FullStep, FilesInv, OneMountInv, OneLink
  <2>3. /\ inodes'[directory[k].inum].size = inodes[directory[k].inum].size
        /\ inodes'[directory[k].inum].mode = inodes[directory[k].inum].mode
    BY <1>2, <2>2, DropLinksSizes DEF FullStep
  <2>4. directory[k].storage # n /\ directory[k].storage \in DOMAIN storage
    BY <2>1 DEF FullStep, FilesInv, OwnFile
  <2> QED  BY <1>2, <2>3, <2>4 DEF Drop
<1>5. \A t \in DOMAIN directory' : \E k \in Kept(n) :
        directory'[t] = directory[k] /\ SlotFile(t)' = SlotFile(k)
  <2> TAKE t \in DOMAIN directory'
  <2>1. PICK k \in Kept(n) : directory'[t] = directory[k]
    <3>1. Kept(n) \in SUBSET Nat /\ IsFiniteSet(Kept(n))
      BY KeptRecords, FS_Subset DEF FullStep, TypeOK, IsDirectory
    <3> QED  BY <1>2, <3>1, RebuiltCopies
  <2>2. SlotFile(t)' = SlotFile(k)
    BY <1>4, <2>1 DEF SlotFile, SlotAttrs, SlotBytes
  <2> QED  BY <2>1, <2>2
<1>6. DOMAIN FullView' = DOMAIN FullView \ {n}
  <2>1. ASSUME NEW m \in DOMAIN FullView' PROVE m \in DOMAIN FullView \ {n}
    <3>1. PICK t \in DOMAIN directory' : m = directory'[t].name
      BY DEF FullStep, FullViewBySlots
    <3>2. PICK k \in Kept(n) : directory'[t] = directory[k]
      BY <1>5
    <3> QED  BY <1>3, <3>1, <3>2 DEF FullStep, FullViewBySlots
  <2>2. ASSUME NEW m \in DOMAIN FullView \ {n} PROVE m \in DOMAIN FullView'
    <3>1. PICK k \in DOMAIN directory : m = directory[k].name
      BY DEF FullStep, FullViewBySlots
    <3>2. k \in Kept(n)
      BY <1>3, <3>1
    <3>3. PICK t \in LiveSlots(directory') : directory'[t] = directory[k]
      BY <1>2, <3>2, KeptStay DEF FullStep
    <3> QED  BY <3>1, <3>3 DEF FullStep, FullViewBySlots, LiveSlots
  <2> QED  BY <2>1, <2>2
<1>7. \A m \in DOMAIN FullView' : FullView'[m] = FullView[m]
  <2> TAKE m \in DOMAIN FullView'
  <2>1. PICK t \in DOMAIN directory' : m = directory'[t].name
    BY DEF FullStep, FullViewBySlots
  <2>2. PICK k \in Kept(n) : directory'[t] = directory[k] /\ SlotFile(t)' = SlotFile(k)
    BY <1>5
  <2>3. FullView'[m] = SlotFile(t)'
    BY <2>1 DEF FullStep, FullViewBySlots
  <2>4. k \in DOMAIN directory /\ m = directory[k].name
    BY <1>3, <2>1, <2>2
  <2>5. FullView[m] = SlotFile(k)
    BY <2>4 DEF FullStep, FullViewBySlots
  <2> QED  BY <2>2, <2>3, <2>5
<1>8. CASE n \in DOMAIN FullView
  <2>1. FullView' = [m \in DOMAIN FullView \ {n} |-> FullView[m]]
    BY <1>6, <1>7 DEF FullStep, FullViewBySlots
  <2>2. FullFS!Remove(n)
    BY <2>1 DEF FullFS!Remove, FullFS!Restrict, FullView
  <2> QED  BY <1>8, <2>2
<1>9. CASE n \notin DOMAIN FullView
  <2>1. DOMAIN FullView' = DOMAIN FullView
    BY <1>6, <1>9
  <2>2. FullView' = FullView
    BY <1>7, <2>1 DEF FullStep, FullViewBySlots
  <2> QED  BY <2>2
<1> QED  BY <1>8, <1>9

\* Every step of the daemon is one of FlatFS, or none.
LEMMA StepRefinesFull ==
  ASSUME NamesStay, EnoughFds, FullStep, LookupsInv, InodesBacked, [Next]_vars
  PROVE  FullFS!Next \/ FullView' = FullView
<1>1. ASSUME NEW n \in Names, NEW mode \in Modes, Mknod(n, mode)
      PROVE FullFS!Next \/ FullView' = FullView
  BY <1>1, MknodIsCreate DEF LookupsInv, FullFS!Next
<1>2. ASSUME NEW n \in Names, Unlink(n)
      PROVE FullFS!Next \/ FullView' = FullView
  <2>1. ASSUME NEW m \in DOMAIN FullView, FullFS!Remove(m) PROVE FullFS!Next
    BY <2>1 DEF FullFS!Next, FullView
  <2> QED  BY <1>2, <2>1, UnlinkIsRemove
<1>3. ASSUME NEW n \in Names, MknodSpecial(n)
      PROVE FullView' = FullView
  BY <1>3, NothingIsStutter DEF MknodSpecial, store, TouchesNothing
<1>4. CASE Naming
  BY <1>1, <1>2, <1>3, <1>4 DEF Naming, NamesStay
<1>5. CASE Attributes \/ Contents \/ UNCHANGED vars
  <2>1. CASE TouchesNothing
    BY <2>1, NothingIsStutter
  <2>2. CASE TouchesFound
    <3>1. PICK n \in Names : Found(n) /\ TouchesFile(FirstMatch(directory, n))
      BY <2>2 DEF TouchesFound
    <3>2. FirstMatch(directory, n) \in DOMAIN directory
      BY <3>1, FoundEntry DEF FullStep, TypeOK
    <3>3. PICK s \in DOMAIN directory : TouchesFile(s)
      BY <3>1, <3>2
    <3>4. PICK m \in DOMAIN FullView : FullFS!Change(m)
      BY <3>3, TouchIsChange
    <3> QED  BY <3>4 DEF FullFS!Next, FullView
  <2> QED  BY <1>5, <2>1, <2>2, TouchStep
<1> QED  BY <1>4, <1>5 DEF Next

\* The daemon behaves as a map from names to files, each with attributes and
\* contents: no call on one file shows in another, and none changes more than
\* one name.
THEOREM ContentsAreRefined ==
  ASSUME NamesStay, EnoughFds
  PROVE  Spec => ContentsRefine
<1>1. Init => FullFS!Init
  BY FullInit
<1>2. FullStep /\ LookupsInv /\ InodesBacked /\ [Next]_vars
        => FullFS!Next \/ FullView' = FullView
  BY StepRefinesFull
<1>3. FullFS!Next \/ FullView' = FullView
        => [FullFS!Next]_([n \in LiveNames(directory) |->
                             [id |-> Entry(n).inum, look |-> LookOf(n)]])
  BY DEF FullView
<1>4. InodesBacked /\ CounterCovers => InodesBacked
  OBVIOUS
<1>5. TypeOK /\ FilesInv /\ FullViewBySlots /\ TypeOK' /\ FilesInv'
      /\ FullViewBySlots' => FullStep
  BY DEF FullStep
<1> QED
  BY <1>1, <1>2, <1>3, <1>4, <1>5, FullViewIsBySlots, TypeCorrect, FilesAlways,
     LookupsAlways, EntriesHaveInodes, PTL
  DEF Spec, ContentsRefine, FullFS!Spec
-----------------------------------------------------------------------------
(***************************************************************************)
(* Names and attributes alone, with rename.  A data file can be another    *)
(* entry's then, but no stat is.  safs_unlink is left out: it goes by the  *)
(* data file of the name, and stops where that is missing.                 *)
(***************************************************************************)
OnlyRenames == Ops \cap {"link", "replace", "unlink", "remount"} = {}

NamedOnceInv == OneMountInv /\ NamesOnce

\* safs_rename and safs_mknod give out only names that are not in use.
LEMMA StepNamedOnce ==
  ASSUME OnlyRenames, TypeOK, NamedOnceInv, [Next]_vars
  PROVE  NamedOnceInv'
<1>0. OneMountInv'
  BY StepOneMount DEF NamedOnceInv, OnlyRenames
<1>1. CASE UNCHANGED directory
  BY <1>0, <1>1 DEF NamedOnceInv, NamesOnce
<1>2. \A n : Unseen(n) => \A s \in DOMAIN directory : directory[s].name # n
  BY DEF Unseen, LiveNames, LiveSlots, NamedOnceInv, OneMountInv, RecordsBelow
<1>3. ASSUME NEW n \in Names, NEW mode \in Modes, Mknod(n, mode), ~UNCHANGED directory
      PROVE NamesOnce'
  <2>1. directory' = Put(directory, NewSlot, NewDentry(n)) /\ Unseen(n)
    BY <1>3 DEF Mknod, store
  <2>2. /\ DOMAIN directory' = DOMAIN directory \cup {inode_number}
        /\ directory'[inode_number].name = n
        /\ \A s \in DOMAIN directory :
             s # inode_number => directory'[s] = directory[s]
    BY <2>1 DEF Put, NewSlot, NewDentry
  <2> QED  BY <1>2, <2>1, <2>2 DEF NamedOnceInv, NamesOnce
<1>4. ASSUME NEW o \in Names, NEW n \in Names, Unseen(n), Rename(o, n),
             ~UNCHANGED directory
      PROVE NamesOnce'
  <2> DEFINE first == FirstMatch(directory, o)
  <2>1. directory' = [directory EXCEPT ![first].name = n]
    BY <1>4 DEF Rename, LookupFails, store
  <2> HIDE DEF first
  <2>2. /\ DOMAIN directory' = DOMAIN directory
        /\ \A s \in DOMAIN directory : s # first => directory'[s] = directory[s]
        /\ first \in DOMAIN directory => directory'[first].name = n
    BY <2>1 DEF TypeOK, IsDirectory, Dentry
  <2> QED  BY <1>2, <1>4, <2>2 DEF NamedOnceInv, NamesOnce
<1>5. CASE Naming
  BY <1>0, <1>1, <1>3, <1>4, <1>5
  DEF Naming, OnlyRenames, MknodSpecial, store, NamedOnceInv
<1>6. CASE Attributes \/ Contents \/ UNCHANGED vars
  BY <1>1, <1>6, QuietStep DEF Quiet
<1> QED  BY <1>5, <1>6 DEF Next

\* NamedOnceInv is an invariant of the workloads with rename.
LEMMA NamedOnceAlways ==
  ASSUME OnlyRenames
  PROVE  Spec => []NamedOnceInv
<1>1. Init => NamedOnceInv
  BY InitFiles DEF FilesInv, NamedOnceInv
<1>2. TypeOK /\ NamedOnceInv /\ [Next]_vars => NamedOnceInv'
  BY StepNamedOnce
<1> QED  BY <1>1, <1>2, TypeCorrect, PTL DEF Spec

AttrsView ==
  [n \in LiveNames(directory) |-> [id |-> Entry(n).inum, look |-> AttrsOf(n)]]

SlotNode(s) == [id |-> directory[s].inum, look |-> SlotAttrs(s)]

AttrsViewBySlots ==
  /\ AttrsView = [n \in DOMAIN AttrsView |-> AttrsView[n]]
  /\ DOMAIN AttrsView = {directory[s].name : s \in DOMAIN directory}
  /\ \A s \in DOMAIN directory :
       AttrsView[directory[s].name] = SlotNode(s) /\ SlotAttrs(s) \in AttrsType

\* The mapping, slot by slot.
LEMMA AttrsViewIsBySlots == TypeOK /\ NamedOnceInv => AttrsViewBySlots
<1> SUFFICES ASSUME TypeOK, NamedOnceInv PROVE AttrsViewBySlots
  OBVIOUS
<1>1. LiveSlots(directory) = DOMAIN directory
  BY OnlyEntry DEF NamedOnceInv, LiveSlots
<1>2. DOMAIN AttrsView = {directory[s].name : s \in DOMAIN directory}
  BY <1>1 DEF AttrsView, LiveNames
<1>3. AttrsView = [n \in DOMAIN AttrsView |-> AttrsView[n]]
  BY DEF AttrsView
<1>4. ASSUME NEW s \in DOMAIN directory
      PROVE  AttrsView[directory[s].name] = SlotNode(s) /\ SlotAttrs(s) \in AttrsType
  <2> DEFINE n == directory[s].name
             i == directory[s].inum
  <2>1. Entry(n) = directory[s] /\ n \in LiveNames(directory)
    BY OnlyEntry DEF NamedOnceInv, LiveNames
  <2>2. i \in DOMAIN inodes /\ inodes[i] \in Stat
    BY DEF NamedOnceInv, OneMountInv, OneLink, TypeOK, IsInodes
  <2>3. StatOf(n) = inodes[i]
    BY <2>1, <2>2 DEF StatOf, ReadInode
  <2>4. AttrsOf(n) = SlotAttrs(s) /\ SlotAttrs(s) \in AttrsType
    BY <2>2, <2>3 DEF AttrsOf, SlotAttrs, AttrsType, Stat
  <2>5. AttrsView[n] = [id |-> Entry(n).inum, look |-> AttrsOf(n)]
    BY <2>1 DEF AttrsView
  <2> QED  BY <2>1, <2>4, <2>5 DEF SlotNode
<1> QED  BY <1>2, <1>3, <1>4 DEF AttrsViewBySlots

\* The facts a step is made of.
AttrsStep ==
  /\ TypeOK /\ NamedOnceInv /\ AttrsViewBySlots
  /\ TypeOK' /\ NamedOnceInv' /\ AttrsViewBySlots'

\* A name is that of a record, and its file the record's.
LEMMA ViewedRecord ==
  ASSUME AttrsStep, NEW m \in DOMAIN AttrsView
  PROVE  \E s \in DOMAIN directory :
           m = directory[s].name /\ AttrsView[m] = SlotNode(s)
<1>1. PICK s \in DOMAIN directory : m = directory[s].name
  BY DEF AttrsStep, AttrsViewBySlots
<1>2. AttrsView[m] = SlotNode(s)
  BY <1>1 DEF AttrsStep, AttrsViewBySlots
<1> QED  BY <1>1, <1>2

\* A handler that touches the stat of one record changes one file.
LEMMA TouchIsAttrsChange ==
  ASSUME AttrsStep, NEW s \in DOMAIN directory, TouchesFile(s)
  PROVE  \E n \in DOMAIN AttrsView : AttrsFS!Change(n)
<1> DEFINE n == directory[s].name
<1>1. UNCHANGED directory /\ DOMAIN AttrsView' = DOMAIN AttrsView
      /\ n \in DOMAIN AttrsView
  BY DEF TouchesFile, AttrsStep, AttrsViewBySlots
<1>2. \A t \in DOMAIN directory : t # s =>
        /\ directory[t].inum # directory[s].inum
        /\ directory[t].inum \in DOMAIN inodes
  BY DEF AttrsStep, NamedOnceInv, OneMountInv, InumsOnce, OneLink
<1>3. \A t \in DOMAIN directory : t # s => SlotNode(t)' = SlotNode(t)
  BY <1>1, <1>2 DEF TouchesFile, SlotNode, SlotAttrs
<1>4. \A t \in DOMAIN directory :
        /\ AttrsView[directory[t].name] = SlotNode(t)
        /\ AttrsView'[directory[t].name] = SlotNode(t)'
        /\ SlotNode(t).id = directory[t].inum /\ SlotNode(t)'.id = directory[t].inum
  BY <1>1 DEF AttrsStep, AttrsViewBySlots, SlotNode
<1>5. AttrsView'[n].id = AttrsView[n].id
  BY <1>4
<1>6. AttrsView'[n].look \in AttrsType
  <2>1. SlotAttrs(s)' \in AttrsType
    BY <1>1 DEF AttrsStep, AttrsViewBySlots
  <2>2. AttrsView'[n] = SlotNode(s)'
    BY <1>4
  <2> QED  BY <2>1, <2>2 DEF SlotNode
<1>7. \A m \in DOMAIN AttrsView :
        AttrsView'[m] = IF AttrsView[m].id = AttrsView[n].id THEN AttrsView'[n]
                                                            ELSE AttrsView[m]
  <2> TAKE m \in DOMAIN AttrsView
  <2>1. PICK t \in DOMAIN directory : m = directory[t].name
    BY ViewedRecord
  <2>2. CASE t = s
    BY <2>1, <2>2
  <2>3. CASE t # s
    <3>1. AttrsView'[m] = AttrsView[m]
      BY <1>3, <1>4, <2>1, <2>3
    <3>2. AttrsView[m].id # AttrsView[n].id
      BY <1>2, <1>4, <2>1, <2>3
    <3> QED  BY <3>1, <3>2
  <2> QED  BY <2>2, <2>3
<1>8. AttrsFS!Change(n)
  BY <1>1, <1>5, <1>6, <1>7 DEF AttrsFS!Change, AttrsView
<1> QED  BY <1>1, <1>8

\* Data files do not show in names and attributes.
LEMMA StatsKeptIsStutter ==
  ASSUME AttrsStep, UNCHANGED <<directory, inodes>>
  PROVE  AttrsView' = AttrsView
<1>1. DOMAIN AttrsView' = DOMAIN AttrsView
  BY DEF AttrsStep, AttrsViewBySlots
<1>2. \A s \in DOMAIN directory : SlotNode(s)' = SlotNode(s)
  BY DEF SlotNode, SlotAttrs
<1>3. \A n \in DOMAIN AttrsView : AttrsView'[n] = AttrsView[n]
  <2> TAKE n \in DOMAIN AttrsView
  <2>1. PICK s \in DOMAIN directory : n = directory[s].name /\ AttrsView[n] = SlotNode(s)
    BY ViewedRecord
  <2>2. AttrsView'[n] = SlotNode(s)'
    BY <2>1 DEF AttrsStep, AttrsViewBySlots
  <2> QED  BY <1>2, <2>1, <2>2
<1> QED  BY <1>1, <1>3 DEF AttrsStep, AttrsViewBySlots

\* safs_mknod makes one file of size 0, of a number no other has, or none.
LEMMA MknodIsAttrsCreate ==
  ASSUME AttrsStep, NEW n \in Names, NEW mode \in Modes, Mknod(n, mode)
  PROVE  AttrsFS!Create(n) \/ AttrsView' = AttrsView
<1>1. CASE UNCHANGED <<directory, inodes>>
  BY <1>1, StatsKeptIsStutter
<1>2. CASE /\ \E now \in Times :
                inodes' = Put(inodes, inode_number, NewStat(mode, now))
           /\ directory' = Put(directory, NewSlot, NewDentry(n))
  <2>1. \A s \in DOMAIN directory :
          /\ directory[s].name # n
          /\ s # inode_number /\ directory[s].inum # inode_number
          /\ directory[s].inum \in DOMAIN inodes
    <3> TAKE s \in DOMAIN directory
    <3>1. /\ s \in Nat /\ s < inode_number
          /\ directory[s].inum \in 1 .. inode_number - 1 /\ inode_number \in Nat
          /\ directory[s].inum \in DOMAIN inodes
      BY DEF AttrsStep, TypeOK, IsDirectory, NamedOnceInv, OneMountInv,
             RecordsBelow, OneLink
    <3>2. directory[s].name # n
      BY <3>1 DEF Mknod, Unseen, LiveNames, LiveSlots
    <3> QED  BY <3>1, <3>2
  <2>2. /\ DOMAIN directory' = DOMAIN directory \cup {inode_number}
        /\ directory'[inode_number] =
             [name |-> n, storage |-> n, inum |-> inode_number]
        /\ \A s \in DOMAIN directory : directory'[s] = directory[s]
    BY <1>2, <2>1 DEF Put, NewSlot, NewDentry
  <2>3. /\ \A i \in DOMAIN inodes : i # inode_number => inodes'[i] = inodes[i]
        /\ inodes'[inode_number].size = 0 /\ inodes'[inode_number].mode = mode
    BY <1>2 DEF Put, NewStat
  <2>4. /\ DOMAIN AttrsView' = DOMAIN AttrsView \cup {n}
        /\ n \notin DOMAIN AttrsView
    BY <2>1, <2>2 DEF AttrsStep, AttrsViewBySlots
  <2>5. \A s \in DOMAIN directory : SlotNode(s)' = SlotNode(s)
    <3> TAKE s \in DOMAIN directory
    <3>1. /\ directory'[s] = directory[s]
          /\ inodes'[directory[s].inum] = inodes[directory[s].inum]
      BY <2>1, <2>2, <2>3
    <3> QED  BY <3>1 DEF SlotNode, SlotAttrs
  <2>6. \A m \in DOMAIN AttrsView :
          AttrsView'[m] = AttrsView[m] /\ AttrsView[m].id # inode_number
    <3> TAKE m \in DOMAIN AttrsView
    <3>1. PICK s \in DOMAIN directory : m = directory[s].name /\ AttrsView[m] = SlotNode(s)
      BY ViewedRecord
    <3>2. AttrsView'[m] = SlotNode(s)'
      BY <2>2, <3>1 DEF AttrsStep, AttrsViewBySlots
    <3>3. SlotNode(s).id # inode_number
      BY <2>1 DEF SlotNode
    <3> QED  BY <2>5, <3>1, <3>2, <3>3
  <2>7. AttrsView'[n].id = inode_number /\ AttrsView'[n].look \in NewAttrs
    <3>1. PICK x : x = inode_number
      OBVIOUS
    <3>2. x \in DOMAIN directory' /\ directory'[x].name = n /\ directory'[x].inum = x
      BY <2>2, <3>1
    <3>3. AttrsView'[n] = SlotNode(x)'
      BY <3>2 DEF AttrsStep, AttrsViewBySlots
    <3>4. SlotAttrs(x)' = [mode |-> mode, size |-> 0]
      BY <2>3, <3>1, <3>2 DEF SlotAttrs
    <3>5. mode \in SUBSET Perms
      BY ModesAssumption
    <3> QED  BY <3>1, <3>2, <3>3, <3>4, <3>5 DEF SlotNode, NewAttrs
  <2>8. AttrsFS!Create(n)
    <3>1. [m \in DOMAIN AttrsView |-> AttrsView'[m]]
            = [m \in DOMAIN AttrsView |-> AttrsView[m]]
      BY <2>6
    <3>2. AttrsFS!Same(DOMAIN AttrsView)
      BY <3>1 DEF AttrsFS!Same, AttrsFS!Restrict, AttrsView
    <3>3. AttrsFS!Ids = {AttrsView[m].id : m \in DOMAIN AttrsView}
      BY DEF AttrsFS!Ids, AttrsView
    <3>4. inode_number \in Ids
      BY SizeAssumption DEF Mknod, Ids, AttrsStep, TypeOK
    <3>5. AttrsView'[n].id \in Ids \ AttrsFS!Ids
      BY <2>6, <2>7, <3>3, <3>4
    <3> QED
      BY <2>4, <2>7, <3>2, <3>5 DEF AttrsFS!Create, AttrsView
  <2> QED  BY <2>8
<1> QED  BY <1>1, <1>2 DEF Mknod, store

\* safs_rename gives the file of the one record it finds another name, which
\* nothing has.
LEMMA RenameIsMove ==
  ASSUME AttrsStep, NEW o \in Names, NEW n \in Names, Unseen(n), Rename(o, n)
  PROVE  \/ AttrsView' = AttrsView
         \/ \E m \in DOMAIN AttrsView : AttrsFS!Move(m, n)
<1>1. CASE LookupFails(o)
  BY <1>1, StatsKeptIsStutter DEF LookupFails, store
<1>2. CASE LookupSucceeds(o) /\ ~LookupFails(o)
  <2>1. PICK first \in DOMAIN directory : first = FirstMatch(directory, o)
    BY <1>2, FoundEntry DEF LookupSucceeds, AttrsStep, TypeOK
  <2>2. directory[first].name = o /\ o # n
    BY <1>2, <2>1, FoundEntry DEF LookupSucceeds, AttrsStep, TypeOK, Rename
  <2>3. directory' = [directory EXCEPT ![first].name = n] /\ UNCHANGED inodes
    BY <1>2, <2>1 DEF Rename
  <2>4. /\ DOMAIN directory' = DOMAIN directory
        /\ \A s \in DOMAIN directory :
             /\ directory'[s].inum = directory[s].inum
             /\ s # first => directory'[s] = directory[s]
        /\ directory'[first].name = n
    BY <2>1, <2>3 DEF AttrsStep, TypeOK, IsDirectory, Dentry
  <2>5. \A s \in DOMAIN directory : SlotNode(s)' = SlotNode(s)
    BY <2>3, <2>4 DEF SlotNode, SlotAttrs
  <2>6. \A s \in DOMAIN directory :
          /\ directory[s].name # n
          /\ s # first => directory[s].name # o
    <3>1. \A s \in DOMAIN directory : directory[s].inum # 0
      BY DEF AttrsStep, NamedOnceInv, OneMountInv, RecordsBelow
    <3>2. \A s \in DOMAIN directory : directory[s].name # n
      BY <3>1 DEF Unseen, LiveNames, LiveSlots
    <3> QED  BY <2>2, <3>2 DEF AttrsStep, NamedOnceInv, NamesOnce
  <2>7. DOMAIN AttrsView' = (DOMAIN AttrsView \ {o}) \cup {n}
    <3>1. DOMAIN AttrsView' = {directory'[s].name : s \in DOMAIN directory}
      BY <2>4 DEF AttrsStep, AttrsViewBySlots
    <3>2. DOMAIN AttrsView = {directory[s].name : s \in DOMAIN directory}
      BY DEF AttrsStep, AttrsViewBySlots
    <3> QED  BY <2>2, <2>4, <2>6, <3>1, <3>2
  <2>8. AttrsView[o] = SlotNode(first) /\ AttrsView'[n] = SlotNode(first)'
    BY <2>2, <2>4 DEF AttrsStep, AttrsViewBySlots
  <2>9. \A m \in DOMAIN AttrsView \ {o, n} : AttrsView'[m] = AttrsView[m]
    <3> TAKE m \in DOMAIN AttrsView \ {o, n}
    <3>1. PICK s \in DOMAIN directory : m = directory[s].name /\ AttrsView[m] = SlotNode(s)
      BY ViewedRecord
    <3>2. s # first /\ directory'[s] = directory[s] /\ s \in DOMAIN directory'
      BY <2>2, <2>4, <3>1
    <3>3. AttrsView'[m] = SlotNode(s)'
      BY <3>1, <3>2 DEF AttrsStep, AttrsViewBySlots
    <3> QED  BY <2>5, <3>1, <3>3
  <2>10. AttrsView'[n] = AttrsView[o]
    BY <2>5, <2>8
  <2>11. o \in DOMAIN AttrsView
    BY <2>2 DEF AttrsStep, AttrsViewBySlots
  <2>12. AttrsFS!Move(o, n)
    <3>1. [m \in DOMAIN AttrsView \ {o, n} |-> AttrsView'[m]]
            = [m \in DOMAIN AttrsView \ {o, n} |-> AttrsView[m]]
      BY <2>9
    <3>2. AttrsFS!Same(DOMAIN AttrsView \ {o, n})
      BY <3>1 DEF AttrsFS!Same, AttrsFS!Restrict, AttrsView
    <3> QED
      BY <2>2, <2>7, <2>10, <3>2 DEF AttrsFS!Move, AttrsView
  <2> QED  BY <2>11, <2>12
<1> QED  BY <1>1, <1>2 DEF Rename

\* Every step of the daemon is one of FlatFS, or none.
LEMMA StepRefinesAttrs ==
  ASSUME OnlyRenames, AttrsStep, [Next]_vars
  PROVE  AttrsFS!Next \/ AttrsView' = AttrsView
<1>1. ASSUME NEW n \in Names, NEW mode \in Modes, Mknod(n, mode)
      PROVE AttrsFS!Next \/ AttrsView' = AttrsView
  BY <1>1, MknodIsAttrsCreate DEF AttrsFS!Next
<1>2. ASSUME NEW o \in Names, NEW n \in Names, Unseen(n), Rename(o, n)
      PROVE AttrsFS!Next \/ AttrsView' = AttrsView
  <2>1. ASSUME NEW m \in DOMAIN AttrsView, AttrsFS!Move(m, n) PROVE AttrsFS!Next
    BY <2>1 DEF AttrsFS!Next, AttrsView
  <2> QED  BY <1>2, <2>1, RenameIsMove
<1>3. ASSUME NEW n \in Names, MknodSpecial(n)
      PROVE AttrsView' = AttrsView
  BY <1>3, StatsKeptIsStutter DEF MknodSpecial, store
<1>4. CASE Naming
  BY <1>1, <1>2, <1>3, <1>4 DEF Naming, OnlyRenames
<1>5. CASE Attributes \/ Contents \/ UNCHANGED vars
  <2>1. CASE TouchesNothing
    BY <2>1, StatsKeptIsStutter DEF TouchesNothing
  <2>2. CASE TouchesFound
    <3>1. PICK n \in Names : Found(n) /\ TouchesFile(FirstMatch(directory, n))
      BY <2>2 DEF TouchesFound
    <3>2. FirstMatch(directory, n) \in DOMAIN directory
      BY <3>1, FoundEntry DEF AttrsStep, TypeOK
    <3>3. PICK s \in DOMAIN directory : TouchesFile(s)
      BY <3>1, <3>2
    <3>4. PICK m \in DOMAIN AttrsView : AttrsFS!Change(m)
      BY <3>3, TouchIsAttrsChange
    <3> QED  BY <3>4 DEF AttrsFS!Next, AttrsView
  <2> QED  BY <1>5, <2>1, <2>2, TouchStep
<1> QED  BY <1>4, <1>5 DEF Next

\* Names and attributes behave as in FlatFS while files are made and renamed to
\* names that are free, whatever happens to the data files underneath and
\* whether or not there are descriptors.
THEOREM NamesAndAttrsAreRefined ==
  ASSUME OnlyRenames
  PROVE  Spec => NamesAndAttrsRefine
<1>1. Init => AttrsFS!Init
  <2> SUFFICES ASSUME Init PROVE AttrsView = <<>>
    BY DEF AttrsFS!Init, AttrsView
  <2>1. LiveNames(directory) = {}
    <3>1. DOMAIN <<>> = {}  OBVIOUS
    <3> QED  BY <3>1 DEF Init, LiveNames, LiveSlots
  <2> QED  BY <2>1 DEF AttrsView
<1>2. AttrsStep /\ [Next]_vars => AttrsFS!Next \/ AttrsView' = AttrsView
  BY StepRefinesAttrs
<1>3. AttrsFS!Next \/ AttrsView' = AttrsView
        => [AttrsFS!Next]_([n \in LiveNames(directory) |->
                              [id |-> Entry(n).inum, look |-> AttrsOf(n)]])
  BY DEF AttrsView
<1>4. TypeOK /\ NamedOnceInv /\ AttrsViewBySlots /\ TypeOK' /\ NamedOnceInv'
      /\ AttrsViewBySlots' => AttrsStep
  BY DEF AttrsStep
<1> QED
  BY <1>1, <1>2, <1>3, <1>4, AttrsViewIsBySlots, TypeCorrect, NamedOnceAlways, PTL
  DEF Spec, NamesAndAttrsRefine, AttrsFS!Spec
=============================================================================
