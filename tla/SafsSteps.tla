------------------------------ MODULE SafsSteps ------------------------------
(***************************************************************************)
(* The SAFS daemon as fuse_main runs it without -s: every request has a    *)
(* thread of its own, the handlers run side by side, and the daemon may    *)
(* die between any two system calls and be mounted again.  Module Safs has *)
(* the same handlers in one step each.                                     *)
(*                                                                         *)
(* A handler is a list of steps, one for every system call or assignment   *)
(* that another thread, or the mount after a crash, could tell from its    *)
(* neighbours.  The open of Directory~ and the scan of it are one step:    *)
(* the calls that change Directory~ exclude each other, so a record        *)
(* appears in, or leaves, the file a scan reads at one moment.             *)
(*                                                                         *)
(* Descriptors never run out here; what happens then is in Safs.           *)
(***************************************************************************)
EXTENDS Safs

CONSTANTS
  Threads,       \* libfuse worker threads
  MaxCrashes     \* bound: how often the daemon dies

ASSUME ThreadsAssumption == IsFiniteSet(Threads)
ASSUME CrashesAssumption == MaxCrashes \in Nat

VARIABLES
  aside,         \* .Directory~: slot -> record; <<>> if there is none
  stray,         \* data files under no user's name: path -> permissions
  filePath,      \* the global buffer: the names after "/tmp/safs/"
  th,            \* thread -> its call and the locals of its handler
  crashes        \* how often the daemon died

stepVars == <<vars, aside, stray, filePath, th, crashes>>
-----------------------------------------------------------------------------
(***************************************************************************)
(* The steps of each handler.                                              *)
(***************************************************************************)
DataSteps == <<"path", "cat", "data">>        \* strcpy, strcat, open and use

RecordEarly == <<"open", "path", "cat", "create", "enter", "save">>   \* mutant
MknodSteps == <<"open", "path", "cat", "create", "save", "enter">>

UnlinkSteps == <<"aside", "fresh", "copy", "finish">>

RemoveDataFirst == <<"path", "cat", "remove", "load", "save">>        \* mutant
\* What the loop of safs_unlink does about a record of the name.
RemoveSteps == <<"load", "save", "path", "cat", "remove">>

StepsOf(op) ==
  CASE op = "mknod" -> MknodSteps
    [] op = "unlink" -> UnlinkSteps
    [] op = "link" -> <<"scan", "slot", "load", "save">>
    [] op = "rename" -> <<"scan", "rewrite">>
    [] op \in {"read", "write"} -> <<"scan", "load", "save">> \o DataSteps
    [] op \in {"chmod", "utimens", "truncate", "open"} -> <<"scan", "load", "save">>
    [] op \in {"getattr", "lookup"} -> <<"scan">>

Calls ==
       [op : {"mknod"}, n : Names, mode : Modes]
  \cup [op : {"unlink", "read", "getattr", "lookup"}, n : Names]
  \cup {c \in [op : {"link", "rename"}, n : Names, to : Names] : c.n # c.to}
  \cup {c \in [op : {"write"}, n : Names, off : Offsets, len : Lengths, b : Bytes] :
          c.off + c.len <= MaxSize}
  \cup [op : {"truncate"}, n : Names, off : Offsets]
  \cup [op : {"chmod"}, n : Names, mode : Modes]
  \cup [op : {"utimens"}, n : Names, at : Times, mt : Times]
  \cup [op : {"open"}, n : Names,
        flags : {how \cup trunc : how \in {O_RDONLY, O_WRONLY, O_RDWR},
                                  trunc \in {{}, O_TRUNC}}]

Touches(c) == {c.n} \cup IF c.op \in {"link", "rename"} THEN {c.to} ELSE {}

\* The write that safs_ftruncate makes to extend a file, one zero byte.
Extension(n, off) == [op |-> "write", n |-> n, off |-> off, len |-> 1, b |-> 0]
-----------------------------------------------------------------------------
(***************************************************************************)
(* Locals of a handler: the call; the steps left; the inode number and     *)
(* storage name of the record found; the stat buffer; of safs_unlink the   *)
(* slots not read yet and the slot to write next; of safs_ftruncate, while *)
(* it is inside safs_write, the stat it will write.                        *)
(***************************************************************************)
NoLocals(c, steps) ==
  [call |-> c, todo |-> steps, inum |-> 0, file |-> c.n, st |-> ZeroStat,
   left |-> {}, slot |-> FirstNewSlot, back |-> <<>>]

Idle == [todo |-> <<>>]
Busy(t) == th[t].todo # <<>>
At(t, step) == Busy(t) /\ Head(th[t].todo) = step
CallOf(t) == th[t].call

\* The handler's return; safs_write may return into safs_ftruncate.
Returns(t, code) ==
  LET r == th[t]
  IN  IF r.back # <<>> THEN /\ th' = [th EXCEPT ![t].todo = <<"saveback">>]
                            /\ UNCHANGED rc
                       ELSE th' = [th EXCEPT ![t] = Idle] /\ Reply(code)

\* The handler goes on to its next step with the locals r.
GoesOn(t, r) ==
  IF Len(r.todo) = 1 THEN Returns(t, "OK")
  ELSE th' = [th EXCEPT ![t] = [r EXCEPT !.todo = Tail(@)]] /\ UNCHANGED rc

\* The handler does the given steps next.
Turns(t, r, steps) == th' = [th EXCEPT ![t] = [r EXCEPT !.todo = steps]] /\ UNCHANGED rc

files == <<directory, dirFile, inodes, storage, aside, stray>>
-----------------------------------------------------------------------------
(***************************************************************************)
(* The kernel and libfuse.  The kernel holds the lock of the one directory *)
(* through a call that names files and through a lookup, and the lock of   *)
(* the inode through a call that changes contents or attributes.  libfuse  *)
(* keeps every other call off a name that is being unlinked or renamed.    *)
(***************************************************************************)
DirectoryLocked == {"mknod", "link", "rename", "unlink", "lookup"}
InodeLocked == {"write", "truncate", "chmod", "utimens"}
PathLocked == {"rename", "unlink"}

Excludes(c, d) ==
  \/ {c.op, d.op} \subseteq DirectoryLocked
  \/ {c.op, d.op} \subseteq InodeLocked /\ c.n = d.n
  \/ {c.op, d.op} \cap PathLocked # {} /\ Touches(c) \cap Touches(d) # {}

\* A name the kernel does not believe in is looked up first, and no lookup
\* overlaps a call that names files.
Seen(n) ==
  \/ n \in dcache
  \/ Known(n) /\ \A u \in Threads : Busy(u) => CallOf(u).op \notin DirectoryLocked

\* What the kernel knows of the names when it passes the call on.
Passes(c) ==
  CASE c.op = "mknod" -> /\ Unseen(c.n) /\ inode_number <= MaxInodes
                         /\ Cardinality(DOMAIN directory) < MaxRecords
    [] c.op \in {"link", "rename"} ->
         /\ Seen(c.n) /\ Unseen(c.to)
         /\ Cardinality(DOMAIN directory) < MaxRecords
    [] c.op = "lookup" -> c.n \notin dcache
    [] c.op = "getattr" -> c.n \in dcache
    [] OTHER -> Seen(c.n)

\* Bound: a handler holds three descriptors at most, and a call that may leave
\* one or two of them open comes only while that leaves enough for all threads;
\* two fewer may be left open in each mount than in the one before.
EnoughFds(c) ==
  c.op \in {"mknod", "unlink"} =>
    HasFds(2 + 3 * Cardinality(Threads) + 2 * crashes)

Begin(t, c) ==
  /\ ~Busy(t)
  /\ (IF c.op = "lookup" THEN "getattr" ELSE c.op) \in Ops
  /\ \A u \in Threads : Busy(u) => ~Excludes(c, CallOf(u))
  /\ Passes(c)
  /\ EnoughFds(c)
  /\ th' = [th EXCEPT ![t] = NoLocals(c, StepsOf(c.op))]
  /\ UNCHANGED <<vars, aside, stray, filePath, crashes>>
-----------------------------------------------------------------------------
(***************************************************************************)
(* Steps that find a record and read or write its stat.                    *)
(***************************************************************************)

\* open(directory_path), the scan, close.
Scan(t) ==
  /\ At(t, "scan")
  /\ LET c == CallOf(t)
     IN  \/ /\ ~dirFile /\ Returns(t, "EIO")
            /\ UNCHANGED dcache
         \/ /\ dirFile /\ ~Found(c.n) /\ Returns(t, "ENOENT")
            /\ dcache' = IF c.op \in {"getattr", "lookup"} THEN dcache \ {c.n} ELSE dcache
         \/ /\ dirFile /\ Found(c.n)
            /\ GoesOn(t, [th[t] EXCEPT !.inum = Entry(c.n).inum,
                                       !.file = Entry(c.n).storage])
            /\ dcache' = IF c.op \in {"getattr", "lookup"} THEN dcache \cup {c.n} ELSE dcache
  /\ UNCHANGED <<files, inode_number, leaked, filePath, crashes>>

\* What the handler makes of the stat in its buffer.
Changed(c, st, now) ==
  CASE c.op = "mknod" -> NewStat(c.mode, now)
    [] c.op = "link" -> [st EXCEPT !.nlink = (@ + 1) % LinkMod]
    [] c.op = "unlink" -> [st EXCEPT !.nlink = (@ - 1) % LinkMod]
    [] c.op = "read" -> [st EXCEPT !.atim = now]
    [] c.op = "write" -> [st EXCEPT !.size = c.off + c.len, !.atim = now, !.mtim = now]
    [] c.op = "truncate" -> [st EXCEPT !.size = c.off]
    [] c.op = "open" -> [st EXCEPT !.size = 0]
    [] c.op = "chmod" -> [st EXCEPT !.mode = c.mode]
    [] c.op = "utimens" -> [st EXCEPT !.atim = c.at, !.mtim = c.mt]

\* read_inode, and what the handler decides by the stat: safs_open whether to
\* go on, safs_ftruncate whether and how to write it back.
Load(t) ==
  /\ At(t, "load")
  /\ LET c == CallOf(t)
         st == ReadInode(th[t].inum)
         r == [th[t] EXCEPT !.st = st]
     IN  \/ c.op = "open" /\ Denied(c.flags, st.mode) /\ Returns(t, "EPERM")
         \/ /\ c.op = "open" /\ ~Denied(c.flags, st.mode)
            /\ IF O_TRUNC \subseteq c.flags THEN GoesOn(t, r) ELSE Returns(t, "OK")
         \/ c.op = "truncate" /\ st.size = c.off /\ Returns(t, "OK")
         \/ c.op = "truncate" /\ st.size > c.off /\ GoesOn(t, r)
         \/ /\ c.op = "truncate" /\ st.size < c.off
            /\ Turns(t, [r EXCEPT !.call = Extension(c.n, c.off),
                                  !.back = <<[inum |-> r.inum, st |-> Changed(c, st, 0)]>>],
                     StepsOf("write"))
         \/ c.op \notin {"open", "truncate"} /\ GoesOn(t, r)
  /\ UNCHANGED <<files, inode_number, leaked, dcache, filePath, crashes>>

\* write_inode.  For safs_link it is the end of the call.
Save(t) ==
  /\ At(t, "save")
  /\ \E now \in Times :
       WriteInode(th[t].inum, Changed(CallOf(t), th[t].st, now), 1)
  /\ GoesOn(t, [th[t] EXCEPT !.st = ZeroStat])
  /\ dcache' = IF CallOf(t).op = "link" THEN dcache \cup {CallOf(t).to} ELSE dcache
  /\ UNCHANGED <<directory, dirFile, storage, aside, stray, inode_number, leaked,
                 filePath, crashes>>

\* Back in safs_ftruncate: the stat read before safs_write wrote its own.
SaveBack(t) ==
  /\ At(t, "saveback")
  /\ WriteInode(th[t].back[1].inum, th[t].back[1].st, 1)
  /\ th' = [th EXCEPT ![t] = Idle]
  /\ Reply("OK")
  /\ UNCHANGED <<directory, dirFile, storage, aside, stray, inode_number, leaked,
                 dcache, filePath, crashes>>
-----------------------------------------------------------------------------
(***************************************************************************)
(* Steps on filePath and on the file it names by the time it is opened.    *)
(* One name is a data file; none is the directory /tmp/safs; several run   *)
(* together are a name no user gave a file, unless a mknod made it.        *)
(***************************************************************************)
KeptPath == filePath                      \* mutant: strcat in strcpy's place
CopiedPrefix == <<>>

Path(t) ==
  /\ At(t, "path")
  /\ filePath' = CopiedPrefix
  /\ GoesOn(t, th[t])
  /\ UNCHANGED <<files, inode_number, leaked, dcache, crashes>>

Cat(t) ==
  /\ At(t, "cat")
  /\ filePath' = Append(filePath, th[t].file)
  /\ GoesOn(t, th[t])
  /\ UNCHANGED <<files, inode_number, leaked, dcache, crashes>>

NamesData == Len(filePath) = 1
DataName == filePath[1]

\* open(filePath) of an existing file.
CanOpenPath(need) ==
  \/ NamesData /\ CanOpenData(DataName, need)
  \/ filePath \in DOMAIN stray /\ (DaemonIsRoot \/ need \subseteq stray[filePath])

\* The end of safs_read and safs_write.  A directory can be opened for reading,
\* and read() then returns -1, that is EPERM; memcpy() is given this length.
Data(t) ==
  /\ At(t, "data")
  /\ LET c == CallOf(t)
     IN  \/ /\ c.op = "read"
            /\ Returns(t, IF filePath = <<>> THEN "EPERM"
                          ELSE IF CanOpenPath({"r"}) THEN "OK" ELSE "EIO")
            /\ UNCHANGED storage
         \/ /\ c.op = "write" /\ ~CanOpenPath({"w"})
            /\ Returns(t, "EIO")
            /\ UNCHANGED storage
         \/ /\ c.op = "write" /\ CanOpenPath({"w"})
            /\ storage' = IF NamesData
                          THEN [storage EXCEPT ![DataName].data =
                                  Overwrite(@, c.off, c.len, c.b)]
                          ELSE storage
            /\ Returns(t, "OK")
  /\ UNCHANGED <<directory, dirFile, inodes, aside, stray, inode_number, leaked,
                 dcache, filePath, crashes>>
-----------------------------------------------------------------------------
(***************************************************************************)
(* Steps of safs_mknod, safs_link and safs_rename.                         *)
(***************************************************************************)

\* open(directory_path); the number is read here, and written to the record.
OpenDirectory(t) ==
  /\ At(t, "open")
  /\ \/ ~dirFile /\ Returns(t, "EIO")
     \/ dirFile /\ GoesOn(t, [th[t] EXCEPT !.inum = inode_number])
  /\ UNCHANGED <<files, inode_number, leaked, dcache, filePath, crashes>>

\* open(filePath, O_CREAT|O_TRUNC|O_RDONLY, mode), never closed.
CreateData(t) ==
  /\ At(t, "create")
  /\ LET mode == CallOf(t).mode
         may == IF NamesData THEN CanCreateData(DataName)
                ELSE /\ filePath # <<>>
                     /\ filePath \in DOMAIN stray => CanOpenPath({"r", "w"})
     IN  \/ ~may /\ Returns(t, "EIO") /\ UNCHANGED <<storage, stray, leaked>>
         \/ /\ may
            /\ IF NamesData
               THEN /\ storage' = Put(storage, DataName, EmptyData(DataName, mode))
                    /\ UNCHANGED stray
               ELSE /\ stray' = IF filePath \in DOMAIN stray THEN stray
                                ELSE Put(stray, filePath, mode)
                    /\ UNCHANGED storage
            /\ leaked' = leaked + 1
            /\ GoesOn(t, th[t])
  /\ UNCHANGED <<directory, dirFile, inodes, aside, inode_number, dcache,
                 filePath, crashes>>

SameNumber == inode_number                \* mutant: the increment is left out
NextNumber == inode_number + 1

\* The record, and inode_number++.
Enter(t) ==
  /\ At(t, "enter")
  /\ directory' = Put(directory, NewSlot, [NewDentry(CallOf(t).n) EXCEPT !.inum = th[t].inum])
  /\ inode_number' = NextNumber
  /\ dcache' = dcache \cup {CallOf(t).n}
  /\ GoesOn(t, th[t])
  /\ UNCHANGED <<dirFile, inodes, storage, aside, stray, leaked, filePath, crashes>>

\* safs_link's record, and the number its search left in dir.
LinkRecord(t) ==
  /\ At(t, "slot")
  /\ directory' = Put(directory, FreeSlot(directory),
                      [name |-> CallOf(t).to, storage |-> th[t].file, inum |-> th[t].inum])
  /\ GoesOn(t, [th[t] EXCEPT !.inum = InumLastRead(directory)])
  /\ UNCHANGED <<dirFile, inodes, storage, aside, stray, inode_number, leaked, dcache,
                 filePath, crashes>>

\* safs_rename's record.
Rewrite(t) ==
  /\ At(t, "rewrite")
  /\ directory' = [directory EXCEPT
                     ![FirstMatch(directory, CallOf(t).n)].name = CallOf(t).to]
  /\ dcache' = (dcache \ {CallOf(t).n}) \cup {CallOf(t).to}
  /\ GoesOn(t, th[t])
  /\ UNCHANGED <<dirFile, inodes, storage, aside, stray, inode_number, leaked,
                 filePath, crashes>>
-----------------------------------------------------------------------------
(***************************************************************************)
(* Steps of safs_unlink.                                                   *)
(***************************************************************************)

\* rename(directory_path, tmp_directory_path), over what was left there.
Aside(t) ==
  /\ At(t, "aside")
  /\ \/ /\ ~dirFile /\ Returns(t, "ENOENT")
        /\ UNCHANGED <<directory, dirFile, aside>>
     \/ /\ dirFile
        /\ aside' = directory
        /\ directory' = <<>>
        /\ dirFile' = FALSE
        /\ GoesOn(t, th[t])
  /\ UNCHANGED <<inodes, storage, stray, inode_number, leaked, dcache, filePath, crashes>>


\* open(directory_path, O_CREAT|O_RDWR)
CanMakeDirectory == HasFds(2)

Fresh(t) ==
  /\ At(t, "fresh")
  /\ \/ /\ ~CanMakeDirectory /\ Returns(t, "EMFILE")
        /\ leaked' = leaked + 1
        /\ UNCHANGED dirFile
     \/ /\ CanMakeDirectory
        /\ dirFile' = TRUE
        /\ GoesOn(t, [th[t] EXCEPT !.left = DOMAIN aside])
        /\ UNCHANGED leaked
  /\ UNCHANGED <<directory, inodes, storage, aside, stray, inode_number, dcache,
                 filePath, crashes>>

\* Removal before the turns that are left; mutant: a break ends the loop.
RemovalOnly(turns) == RemoveSteps \o Tail(turns)
RemovalThen(turns) == RemoveSteps \o turns

\* One turn of the loop: the record is copied, or its removal begins.
Copy(t) ==
  /\ At(t, "copy")
  /\ LET r == th[t]
         s == Min(r.left)
     IN  \/ /\ r.left = {} /\ GoesOn(t, r)
            /\ UNCHANGED directory
         \/ /\ r.left # {} /\ aside[s].name # r.call.n
            /\ directory' = Put(directory, r.slot, aside[s])
            /\ Turns(t, [r EXCEPT !.left = @ \ {s}, !.slot = @ + 1], r.todo)
         \/ /\ r.left # {} /\ aside[s].name = r.call.n
            /\ Turns(t, [r EXCEPT !.left = @ \ {s}, !.inum = aside[s].inum],
                     RemovalThen(r.todo))
            /\ UNCHANGED directory
  /\ UNCHANGED <<dirFile, inodes, storage, aside, stray, inode_number, leaked, dcache,
                 filePath, crashes>>

\* Mutant: the handler tries again until there is such a file.
RemoveTriesAgain(t) == UNCHANGED <<th, rc, leaked>>

\* unlink(filePath) < 0: both descriptors stay open.
RemoveFails(t) == Returns(t, "ENOENT") /\ leaked' = leaked + 2

Remove(t) ==
  /\ At(t, "remove")
  /\ \/ /\ NamesData /\ DataName \in DOMAIN storage
        /\ storage' = Drop(storage, DataName)
        /\ GoesOn(t, th[t])
        /\ UNCHANGED <<stray, leaked>>
     \/ /\ filePath \in DOMAIN stray
        /\ stray' = Drop(stray, filePath)
        /\ GoesOn(t, th[t])
        /\ UNCHANGED <<storage, leaked>>
     \/ /\ filePath \notin DOMAIN stray
        /\ NamesData => DataName \notin DOMAIN storage
        /\ RemoveFails(t)
        /\ UNCHANGED <<storage, stray>>
  /\ UNCHANGED <<directory, dirFile, inodes, aside, inode_number, dcache, filePath,
                 crashes>>

\* close, close, unlink(tmp_directory_path).
Finish(t) ==
  /\ At(t, "finish")
  /\ aside' = <<>>
  /\ dcache' = dcache \ {CallOf(t).n}
  /\ GoesOn(t, th[t])
  /\ UNCHANGED <<directory, dirFile, inodes, storage, stray, inode_number, leaked,
                 filePath, crashes>>
-----------------------------------------------------------------------------
Step(t) ==
  \/ Scan(t) \/ Load(t) \/ Save(t) \/ SaveBack(t)
  \/ Path(t) \/ Cat(t) \/ Data(t)
  \/ OpenDirectory(t) \/ CreateData(t) \/ Enter(t) \/ LinkRecord(t) \/ Rewrite(t)
  \/ Aside(t) \/ Fresh(t) \/ Copy(t) \/ Remove(t) \/ Finish(t)

\* The daemon dies and is mounted again: the record files and the data files
\* are as the last system call left them, everything in memory is gone.
Crash ==
  /\ crashes < MaxCrashes
  /\ crashes' = crashes + 1
  /\ th' = [t \in Threads |-> Idle]
  /\ filePath' = <<>>
  /\ Remount
  /\ UNCHANGED <<aside, stray>>

StepsInit ==
  /\ Init
  /\ aside = <<>> /\ stray = <<>> /\ filePath = <<>>
  /\ th = [t \in Threads |-> Idle]
  /\ crashes = 0

StepsNext ==
  \/ \E t \in Threads : Step(t)
  \/ \E t \in Threads, c \in Calls : Begin(t, c)
  \/ Crash

StepsSafety == StepsInit /\ [][StepsNext]_stepVars

\* A handler waits for nothing and no one: every thread that has a request
\* gets on with it.  Requests and crashes come or do not come.
StepsSpec == StepsSafety /\ \A t \in Threads : WF_stepVars(Step(t))
=============================================================================
