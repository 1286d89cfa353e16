-------------------------------- MODULE Safs --------------------------------
(***************************************************************************)
(* The SAFS daemon of safs.c, one action per FUSE handler, as it runs when *)
(* requests do not overlap (fuse_main with -s).  Each action is the whole  *)
(* handler: its early returns, every record it rewrites, the file          *)
(* descriptors it leaks and the code it returns.                           *)
(*                                                                         *)
(* The handlers keep their state in /tmp/safs: the record files Directory~ *)
(* and Inodes~ (module SafsStore) and one data file per storage name.  In  *)
(* memory the daemon has only the counter inode_number and its descriptor  *)
(* table.  The kernel in front of it is external: it only passes on a call *)
(* about a name it has looked up.                                          *)
(***************************************************************************)
EXTENDS SafsStore, Sequences

CONSTANTS
  Names,         \* names users give files (never those of the record files)
  Modes,         \* permission sets passed to mknod and chmod
  Times,         \* what clock_gettime and utimens callers may supply
  Bytes,         \* byte values users write; a hole reads as the byte 0
  MaxSize,       \* bound: no write or truncate reaches past this offset
  MaxInodes,     \* bound: the last inode number mknod may hand out
  MaxRecords,    \* bound: no record is added to as many as this
  MaxFds,        \* descriptors the process may hold beside fuse's own
  LinkMod,       \* nlink_t is unsigned: 2^64 in the build
  DaemonIsRoot,  \* does the daemon bypass the permissions of data files
  Ops            \* the operations the workload uses

Perms == {"r", "w"}

ASSUME ModesAssumption == Modes \subseteq SUBSET Perms
ASSUME TimesAssumption == Times \subseteq Nat /\ Times # {}
ASSUME BytesAssumption == Bytes \subseteq Nat
ASSUME SizeAssumption == {MaxSize, MaxInodes, MaxRecords} \subseteq Nat
ASSUME FdsAssumption == MaxFds \in Nat \ {0, 1}
ASSUME LinkModAssumption == LinkMod \in Nat \ {0, 1}
ASSUME RootAssumption == DaemonIsRoot \in BOOLEAN

VARIABLES
  directory,     \* Directory~: slot -> record
  dirFile,       \* does /tmp/safs/Directory~ exist
  inodes,        \* Inodes~: inode number -> struct stat
  storage,       \* data files of /tmp/safs: name -> contents and permissions
  inode_number,  \* the counter mknod numbers files from
  leaked,        \* descriptors opened and never closed
  dcache,        \* kernel: names the calls so far have made it believe in
  rc             \* what the last call returned

store == <<directory, dirFile, inodes, storage, inode_number, leaked, dcache>>
vars == <<store, rc>>

Dentry == [name : Names, storage : Names, inum : Nat]
Stat == [mode : SUBSET Perms, nlink : 0 .. LinkMod - 1, size : Nat,
         atim : Nat, mtim : Nat]
DataFile == [data : Seq(Nat), perm : SUBSET Perms]
Codes == {"OK", "EIO", "ENOENT", "EPERM", "EMFILE"}

\* The files of /tmp/safs have the layout the C structs give them.
IsDirectory(d) ==
  /\ DOMAIN d \subseteq Nat /\ IsFiniteSet(DOMAIN d)
  /\ d \in [DOMAIN d -> Dentry]

IsInodes(t) == DOMAIN t \subseteq Nat /\ t \in [DOMAIN t -> Stat]

IsStorage(f) == DOMAIN f \subseteq Names /\ f \in [DOMAIN f -> DataFile]

\* Every variable has its type: no link count leaves its unsigned range, and
\* no more descriptors leak than there are.
TypeOK ==
  /\ IsDirectory(directory) /\ IsInodes(inodes) /\ IsStorage(storage)
  /\ dirFile \in BOOLEAN
  /\ inode_number \in Nat \ {0}
  /\ leaked \in 0 .. MaxFds
  /\ dcache \subseteq Names
  /\ rc \in Codes
-----------------------------------------------------------------------------
(***************************************************************************)
(* What the handlers share.                                                *)
(***************************************************************************)

\* k more descriptors can be open at once.
HasFds(k) == leaked + k <= MaxFds

Reply(code) == rc' = code

\* open(directory_path, O_RDWR): no O_CREAT, so the file must exist.
CanOpenDirectory == dirFile /\ HasFds(1)

\* The kernel calls about a name it sees, or still believes in.
Known(n) == n \in dcache \cup LiveNames(directory)

\* The kernel creates only names that its lookup (safs_getattr) did not find.
Unseen(n) == n \notin LiveNames(directory)

Found(n) == Matches(directory, n) # {}

Entry(n) == directory[FirstMatch(directory, n)]

\* The two early returns of every handler that looks a name up.
LookupFails(n) ==
  /\ \/ ~CanOpenDirectory /\ Reply("EIO")
     \/ CanOpenDirectory /\ ~Found(n) /\ Reply("ENOENT")
  /\ UNCHANGED store

LookupSucceeds(n) == CanOpenDirectory /\ Found(n)

\* read_inode: a record below the end of Inodes~ never written is all zeros.
ZeroStat == [mode |-> {}, nlink |-> 0, size |-> 0, atim |-> 0, mtim |-> 0]
ReadInode(i) == IF i \in DOMAIN inodes THEN inodes[i] ELSE ZeroStat

\* Mutant: Inodes~ is opened with O_TRUNC.
WriteInodeTruncates(i, st, k) ==
  inodes' = IF HasFds(k + 1) THEN [j \in {i} |-> st] ELSE inodes

\* read_inode and write_inode each open Inodes~, and their failure is ignored:
\* a handler that holds k descriptors gets no further than that open when
\* there is none left, and rewrites nothing.
WriteInode(i, st, k) ==
  inodes' = IF HasFds(k + 1) THEN Put(inodes, i, st) ELSE inodes

\* open() of an existing data file: the daemon owns it, and its permissions
\* are those mknod passed when it was created.
CanOpenData(f, need) ==
  f \in DOMAIN storage /\ (DaemonIsRoot \/ need \subseteq storage[f].perm)

\* Mutant: one byte short.
OverwriteShort(data, off, len, b) ==
  [i \in 1 .. Max({Len(data), off + len - 1}) |->
     IF i \in off + 1 .. off + len THEN b
     ELSE IF i <= Len(data) THEN data[i] ELSE 0]

\* len copies of the byte b at offset off; a gap before off fills with zeros.
Overwrite(data, off, len, b) ==
  [i \in 1 .. Max({Len(data), off + len}) |->
     IF i \in off + 1 .. off + len THEN b
     ELSE IF i <= Len(data) THEN data[i] ELSE 0]
-----------------------------------------------------------------------------
(***************************************************************************)
(* Making, naming and removing files.                                      *)
(***************************************************************************)

\* open(filePath, O_CREAT|O_TRUNC|O_RDONLY, mode)
CanCreateData(n) == n \in DOMAIN storage => CanOpenData(n, {"r", "w"})

EmptyData(n, mode) ==
  [data |-> <<>>,
   perm |-> IF n \in DOMAIN storage THEN storage[n].perm ELSE mode]

\* Mutant: the record is filled in after inode_number++.
NewDentryLate(n) == [name |-> n, storage |-> n, inum |-> inode_number + 1]

NewDentry(n) == [name |-> n, storage |-> n, inum |-> inode_number]

NewSlotBehind == inode_number - 1         \* mutant: the slot of the last file

NewSlotUnsought == 0                      \* mutant: the seek is left out

\* lseek(directory, inode_number * sizeof(dentry)): whatever is there already.
NewSlot == inode_number

\* Mutant: the link count is not set.
NewStatNoLink(mode, now) ==
  [mode |-> mode, nlink |-> 0, size |-> 0, atim |-> now, mtim |-> now]

NewStat(mode, now) ==
  [mode |-> mode, nlink |-> 1, size |-> 0, atim |-> now, mtim |-> now]

\* safs_mknod.  The descriptor of the new data file is never closed, not even
\* when write_inode then finds none left and the call fails.
Mknod(n, mode) ==
  /\ Unseen(n)
  /\ inode_number <= MaxInodes /\ Cardinality(DOMAIN directory) < MaxRecords
  /\ \/ /\ ~CanOpenDirectory \/ ~HasFds(2) \/ ~CanCreateData(n)
        /\ Reply("EIO")
        /\ UNCHANGED store
     \/ /\ CanOpenDirectory /\ HasFds(2) /\ CanCreateData(n)
        /\ storage' = Put(storage, n, EmptyData(n, mode))
        /\ leaked' = leaked + 1
        /\ UNCHANGED dirFile
        /\ \/ /\ ~HasFds(3)
              /\ Reply("EIO")
              /\ UNCHANGED <<directory, inodes, inode_number, dcache>>
           \/ /\ HasFds(3)
              /\ \E now \in Times :
                   inodes' = Put(inodes, inode_number, NewStat(mode, now))
              /\ directory' = Put(directory, NewSlot, NewDentry(n))
              /\ inode_number' = inode_number + 1
              /\ dcache' = dcache \cup {n}
              /\ Reply("OK")

\* safs_mknod of anything but a regular file.
MknodSpecial(n) == Unseen(n) /\ Reply("EPERM") /\ UNCHANGED store

\* safs_link.  newDir is built before the second loop, the inode is updated
\* after it, by the dir.inum that loop left behind.
Link(o, n) ==
  /\ o # n /\ Known(o) /\ Unseen(n)
  /\ Cardinality(DOMAIN directory) < MaxRecords
  /\ \/ LookupFails(o)
     \/ /\ LookupSucceeds(o)
        /\ directory' = Put(directory, FreeSlot(directory),
                            [Entry(o) EXCEPT !.name = n])
        /\ LET i == InumLastRead(directory)
               st == ReadInode(i)
           IN  WriteInode(i, [st EXCEPT !.nlink = (@ + 1) % LinkMod], 1)
        /\ dcache' = dcache \cup {n}
        /\ Reply("OK")
        /\ UNCHANGED <<dirFile, storage, inode_number, leaked>>

\* safs_rename: the first record of that name gets the new one, in place; a
\* record that has the new name already is left where it is.
Rename(o, n) ==
  /\ o # n /\ Known(o)
  /\ \/ LookupFails(o)
     \/ /\ LookupSucceeds(o)
        /\ directory' = [directory EXCEPT
                           ![FirstMatch(directory, o)].name = n]
        /\ dcache' = (dcache \ {o}) \cup {n}
        /\ Reply("OK")
        /\ UNCHANGED <<dirFile, inodes, storage, inode_number, leaked>>
-----------------------------------------------------------------------------
(***************************************************************************)
(* safs_unlink moves Directory~ aside to .Directory~ (which no handler     *)
(* reads again) and copies every record but those of the name into a new   *)
(* Directory~.  For a record of the name it drops one link of the inode    *)
(* and removes the data file of that NAME, not of the record's storage; if *)
(* there is no such file it returns at once, the copy unfinished and both  *)
(* descriptors open.  It does not look at inum.                            *)
(***************************************************************************)
Named(n) == {s \in DOMAIN directory : directory[s].name = n}

\* Records of the name whose data file is missing when the loop gets to them:
\* all of them, or all but the first, which removes it.
Stuck(n) ==
  {s \in Named(n) : n \in DOMAIN storage => \E t \in Named(n) : t < s}

\* What the loop reads before it ends.
Scanned(n) == {s \in DOMAIN directory : \A t \in Stuck(n) : s <= t}

KeptAll(n) == Scanned(n)                   \* mutant: the record is copied too

Kept(n) == Scanned(n) \ Named(n)

\* How often the loop decrements the link count of inode i.
Unlinks(n, i) == Cardinality({s \in Scanned(n) \cap Named(n) :
                                directory[s].inum = i})

\* Mutant: the count of an unsigned field goes below zero.
DropLinksSigned(n) ==
  [i \in DOMAIN inodes \cup {directory[s].inum : s \in Scanned(n) \cap Named(n)} |->
     [ReadInode(i) EXCEPT !.nlink = @ - Unlinks(n, i)]]

DropLinks(n) ==
  [i \in DOMAIN inodes \cup {directory[s].inum : s \in Scanned(n) \cap Named(n)} |->
     [ReadInode(i) EXCEPT !.nlink = (@ - Unlinks(n, i)) % LinkMod]]

Unlink(n) ==
  /\ Known(n)
  /\ UNCHANGED inode_number
  /\ \/ /\ ~dirFile                             \* rename() fails
        /\ Reply("ENOENT")
        /\ UNCHANGED <<directory, dirFile, inodes, storage, leaked, dcache>>
     \/ /\ dirFile /\ ~HasFds(2)                \* one of the two open()s fails
        /\ directory' = <<>>
        /\ dirFile' = FALSE
        /\ leaked' = MaxFds
        /\ Reply("EMFILE")
        /\ UNCHANGED <<inodes, storage, dcache>>
     \/ /\ dirFile /\ HasFds(2)
        /\ directory' = Rebuilt(directory, Kept(n))
        /\ inodes' = IF HasFds(3) THEN DropLinks(n) ELSE inodes
        /\ storage' = IF Named(n) = {} THEN storage ELSE Drop(storage, n)
        /\ UNCHANGED dirFile
        /\ \/ /\ Stuck(n) = {}
              /\ dcache' = dcache \ {n}
              /\ Reply("OK")
              /\ UNCHANGED leaked
           \/ /\ Stuck(n) # {}
              /\ leaked' = leaked + 2
              /\ Reply("ENOENT")
              /\ UNCHANGED dcache
-----------------------------------------------------------------------------
(***************************************************************************)
(* Contents and attributes.  Each handler reads the whole struct stat,     *)
(* changes some fields and writes the whole struct back.                   *)
(***************************************************************************)

\* safs_write closes Directory~ before it opens anything else, sets st_size to
\* the end of this write, and only then opens the data file.
Write(n, off, len, b) ==
  /\ Known(n)
  /\ \/ LookupFails(n)
     \/ /\ LookupSucceeds(n)
        /\ LET e == Entry(n)
               st == ReadInode(e.inum)
           IN  /\ \E now \in Times :
                    WriteInode(e.inum, [st EXCEPT !.size = off + len,
                                                  !.atim = now, !.mtim = now], 0)
               /\ \/ /\ ~CanOpenData(e.storage, {"w"})
                     /\ Reply("EIO")
                     /\ UNCHANGED storage
                  \/ /\ CanOpenData(e.storage, {"w"})
                     /\ storage' = [storage EXCEPT ![e.storage].data =
                                      Overwrite(@, off, len, b)]
                     /\ Reply("OK")
        /\ UNCHANGED <<directory, dirFile, inode_number, leaked, dcache>>

\* safs_read: the access time, then the data file.
Read(n) ==
  /\ Known(n)
  /\ \/ LookupFails(n)
     \/ /\ LookupSucceeds(n)
        /\ LET e == Entry(n)
           IN  /\ \E now \in Times :
                    WriteInode(e.inum, [ReadInode(e.inum) EXCEPT !.atim = now], 0)
               /\ Reply(IF CanOpenData(e.storage, {"r"}) THEN "OK" ELSE "EIO")
        /\ UNCHANGED <<directory, dirFile, storage, inode_number, leaked, dcache>>

\* safs_truncate and safs_ftruncate.  To extend a file it writes one zero byte
\* at the new end through safs_write, whose result it ignores, and then writes
\* the stat it read before that call, with the new size.  Shrinking touches
\* only the stat.  With no descriptor left for Inodes~ nothing is written.
Truncate(n, off) ==
  /\ Known(n)
  /\ \/ LookupFails(n)
     \/ /\ LookupSucceeds(n)
        /\ LET e == Entry(n)
               st == ReadInode(e.inum)
           IN  /\ IF st.size = off THEN UNCHANGED inodes
                  ELSE WriteInode(e.inum, [st EXCEPT !.size = off], 1)
               /\ storage' =
                    IF st.size < off /\ HasFds(2) /\ CanOpenData(e.storage, {"w"})
                    THEN [storage EXCEPT ![e.storage].data = Overwrite(@, off, 1, 0)]
                    ELSE storage
        /\ Reply("OK")
        /\ UNCHANGED <<directory, dirFile, inode_number, leaked, dcache>>

\* safs_chmod and safs_utimens: one field group of the stat.
SetStat(n, Change(_)) ==
  /\ Known(n)
  /\ \/ LookupFails(n)
     \/ /\ LookupSucceeds(n)
        /\ WriteInode(Entry(n).inum, Change(ReadInode(Entry(n).inum)), 1)
        /\ Reply("OK")
        /\ UNCHANGED <<directory, dirFile, storage, inode_number, leaked, dcache>>

Chmod(n, mode) == SetStat(n, LAMBDA st : [st EXCEPT !.mode = mode])

Utimens(n, at, mt) == SetStat(n, LAMBDA st : [st EXCEPT !.atim = at, !.mtim = mt])
-----------------------------------------------------------------------------

(***************************************************************************)
(* safs_open tests flags as bits: O_RDONLY is no bit at all, O_RDWR is not *)
(* the bit of O_WRONLY.  libfuse passes O_TRUNC on only under the mount    *)
(* option atomic_o_trunc.                                                  *)
(***************************************************************************)
O_RDONLY == {}
O_WRONLY == {"WRONLY"}
O_RDWR == {"RDWR"}
O_TRUNC == {"TRUNC"}

Denied(flags, mode) ==
  \/ flags \cap O_RDONLY # {} /\ "r" \notin mode
  \/ flags \cap O_WRONLY # {} /\ "w" \notin mode

\* Without a descriptor for Inodes~ the mode tested is uninitialized.
Open(n, flags) ==
  /\ Known(n)
  /\ \/ LookupFails(n)
     \/ /\ LookupSucceeds(n)
        /\ \E mode \in IF HasFds(2) THEN {ReadInode(Entry(n).inum).mode}
                                    ELSE SUBSET Perms :
             \/ Denied(flags, mode) /\ Reply("EPERM") /\ UNCHANGED inodes
             \/ /\ ~Denied(flags, mode) /\ Reply("OK")
                /\ IF O_TRUNC \subseteq flags
                   THEN WriteInode(Entry(n).inum,
                                   [ReadInode(Entry(n).inum) EXCEPT !.size = 0], 1)
                   ELSE UNCHANGED inodes
        /\ UNCHANGED <<directory, dirFile, storage, inode_number, leaked, dcache>>

\* safs_getattr is also the lookup behind the kernel's cache of names.
Getattr(n) ==
  /\ \/ ~CanOpenDirectory /\ Reply("EIO") /\ UNCHANGED dcache
     \/ /\ CanOpenDirectory /\ ~Found(n)
        /\ Reply("ENOENT") /\ dcache' = dcache \ {n}
     \/ LookupSucceeds(n) /\ Reply("OK") /\ dcache' = dcache \cup {n}
  /\ UNCHANGED <<directory, dirFile, inodes, storage, inode_number, leaked>>

Readdir ==
  /\ Reply(IF CanOpenDirectory THEN "OK" ELSE "EIO")
  /\ UNCHANGED store

\* safs_chown and safs_setattr accept everything and do nothing.
Chown(n) == Known(n) /\ Reply("OK") /\ UNCHANGED store
-----------------------------------------------------------------------------
ResumeCounterAtOne(d) == 1                 \* mutant: the loop is left out

(***************************************************************************)
(* Mounting.  safs_init keeps a descriptor of Inodes~ open for ever and    *)
(* resumes the counter at the largest number in Directory~.  The kernel    *)
(* starts with no names.                                                   *)
(***************************************************************************)
ResumeCounter(d) == Max({1} \cup {d[s].inum : s \in DOMAIN d})

Remount ==
  /\ inode_number' = ResumeCounter(directory)
  /\ leaked' = 1
  /\ dirFile' = TRUE
  /\ dcache' = {}
  /\ Reply("OK")
  /\ UNCHANGED <<directory, inodes, storage>>

\* The first mount, on an empty /tmp/safs.
Init ==
  /\ directory = <<>>
  /\ dirFile = TRUE
  /\ inodes = <<>>
  /\ storage = <<>>
  /\ inode_number = ResumeCounter(<<>>)
  /\ leaked = 1
  /\ dcache = {}
  /\ rc = "OK"
-----------------------------------------------------------------------------
(***************************************************************************)
(* safs_oper, with the operations of the workload.  "replace" is a rename  *)
(* onto a name that exists, which the kernel passes on like any other.     *)
(***************************************************************************)
Offsets == 0 .. MaxSize
Lengths == 1 .. MaxSize       \* the kernel passes no empty write on

Naming ==
  \/ "mknod" \in Ops /\ \E n \in Names, mode \in Modes : Mknod(n, mode)
  \/ "mknod" \in Ops /\ \E n \in Names : MknodSpecial(n)
  \/ "link" \in Ops /\ \E o, n \in Names : Link(o, n)
  \/ "rename" \in Ops /\ \E o, n \in Names : Unseen(n) /\ Rename(o, n)
  \/ "replace" \in Ops /\ \E o, n \in Names : ~Unseen(n) /\ Rename(o, n)
  \/ "unlink" \in Ops /\ \E n \in Names : Unlink(n)
  \/ "remount" \in Ops /\ Remount

Attributes ==
  \/ "chmod" \in Ops /\ \E n \in Names, mode \in Modes : Chmod(n, mode)
  \/ "chown" \in Ops /\ \E n \in Names : Chown(n)
  \/ "utimens" \in Ops /\ \E n \in Names, at, mt \in Times : Utimens(n, at, mt)
  \/ "getattr" \in Ops /\ \E n \in Names : Getattr(n)
  \/ "readdir" \in Ops /\ Readdir

Contents ==
  \/ "open" \in Ops /\ \E n \in Names, how \in {O_RDONLY, O_WRONLY, O_RDWR},
                          trunc \in {{}, O_TRUNC} : Open(n, how \cup trunc)
  \/ "read" \in Ops /\ \E n \in Names : Read(n)
  \/ "write" \in Ops /\ \E n \in Names, off \in Offsets, len \in Lengths, b \in Bytes :
                          off + len <= MaxSize /\ Write(n, off, len, b)
  \/ "truncate" \in Ops /\ \E n \in Names, off \in Offsets : Truncate(n, off)

Next == Naming \/ Attributes \/ Contents

Spec == Init /\ [][Next]_vars
=============================================================================
