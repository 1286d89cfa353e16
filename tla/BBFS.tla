-------------------------------- MODULE BBFS --------------------------------
(***************************************************************************)
(* The pass-through example fuse-examples/bbfs/src/bbfs.c.  Every handler  *)
(* makes one system call on the file of the same path under rootdir, or on *)
(* the descriptor that open, create or opendir left in fi->fh, and returns *)
(* what the call returned.  The state is the daemon's descriptor table,    *)
(* the file handles the kernel holds, and the tree underneath.             *)
(*                                                                         *)
(* Threads do not matter within one system call; bb_mknod makes two, and   *)
(* is two steps.  The kernel and other programs that use the tree may ask  *)
(* for anything at any time, except that a handle is used between its open *)
(* and its only release.  The tree has one level of names.                 *)
(***************************************************************************)
EXTENDS Integers, FiniteSets, FiniteSetsExt, Functions

CONSTANTS
  Names,        \* paths the kernel passes
  Handles,      \* the kernel's file handles (struct fuse_file_info)
  Values,       \* contents of a file, and attributes of a node; 0 is none
  MaxFds,       \* descriptors the daemon may have open for its handlers
  MaxNodes,     \* bound: nodes of the underlying file system
  MaxMaking     \* bound: bb_mknod calls at a time

ASSUME ValuesAssumption == 0 \in Values
ASSUME BoundsAssumption == MaxFds \in Nat /\ MaxNodes \in Nat /\ MaxMaking \in Nat

VARIABLES
  entries,      \* underlying path -> node number
  node,         \* node number -> kind, contents and attributes
  fds,          \* descriptor -> its node, what it may do, and where a DIR stands
  making,       \* descriptors of bb_mknod calls that have not closed them yet
  handles,      \* handle -> fi->fh, and what it was opened at (a history)
  rc            \* what the last handler returned

vars == <<entries, node, fds, making, handles, rc>>

Kinds == {"reg", "dir", "link", "special"}
Put(f, x, y) == [z \in DOMAIN f \cup {x} |-> IF z = x THEN y ELSE f[z]]
Drop(f, x) == Restrict(f, DOMAIN f \ {x})

\* bb_fullpath, short of a path longer than its buffer.
Fullpath(p) == <<"rootdir", p>>
-----------------------------------------------------------------------------
(***************************************************************************)
(* The underlying file system.                                             *)
(***************************************************************************)
Exists(p) == Fullpath(p) \in DOMAIN entries
NodeOf(p) == entries[Fullpath(p)]
Is(p, kind) == Exists(p) /\ node[NodeOf(p)].kind = kind

FreeFds == 1 .. MaxFds \ DOMAIN fds
NewFd == Min(FreeFds)
FreeNodes == 1 .. MaxNodes \ DOMAIN node
NewNode == Min(FreeNodes)

\* A node is there for as long as a name or a descriptor leads to it.
Becomes(e, nodes, f) ==
  /\ entries' = e
  /\ fds' = f
  /\ node' = Restrict(nodes, Range(e) \cup {f[d].node : d \in DOMAIN f})

Named(p, n) == Put(entries, Fullpath(p), n)
Made(kind) == Put(node, NewNode, [kind |-> kind, data |-> 0, attr |-> 0])
Opened(n, may) == [node |-> n, may |-> may, pos |-> "start"]

\* A handler that changes nothing; bb_error gives its caller -errno.
Answers(code) == rc' = code /\ UNCHANGED <<entries, node, fds, making, handles>>
Error(errno) == Answers(errno)

\* The handlers that return the -1 of the system call: the caller gets EPERM.
ErrorLogged == Answers("EPERM")

\* Any system call may fail, for reasons of its own.
Refused == Error("EIO")
-----------------------------------------------------------------------------
(***************************************************************************)
(* Handlers that make and remove names.                                    *)
(***************************************************************************)

\* A name cannot be made: it is there, or the call is refused.
NotMade(p) == IF Exists(p) THEN Error("EEXIST") ELSE Refused

Makes(p, kind) ==
  \/ NotMade(p)
  \/ /\ ~Exists(p) /\ FreeNodes # {}
     /\ Becomes(Named(p, NewNode), Made(kind), fds)
     /\ rc' = "OK" /\ UNCHANGED <<making, handles>>

Mkdir(p) == Makes(p, "dir")
Symlink(p) == Makes(p, "link")
MknodSpecial(p) == Makes(p, "special")

\* bb_mknod of a regular file: open(O_CREAT | O_EXCL | O_WRONLY) ...
MknodOpen(p) ==
  /\ Cardinality(making) < MaxMaking
  /\ \/ NotMade(p)
     \/ ~Exists(p) /\ FreeFds = {} /\ Error("EMFILE")
     \/ /\ ~Exists(p) /\ FreeFds # {} /\ FreeNodes # {}
        /\ Becomes(Named(p, NewNode), Made("reg"), Put(fds, NewFd, Opened(NewNode, {"w"})))
        /\ making' = making \cup {NewFd}
        /\ UNCHANGED <<handles, rc>>

\* ... and close, which gives the descriptor back even when it reports an error.
NeverClosed(fd) == fds                                             \* mutant
Closed(fd) == Drop(fds, fd)

MknodClose(fd) ==
  /\ Becomes(entries, node, Closed(fd))
  /\ making' = making \ {fd}
  /\ rc' \in {"OK", "EIO"}
  /\ UNCHANGED handles

Removes(p) ==
  /\ Becomes(Drop(entries, Fullpath(p)), node, fds)
  /\ rc' = "OK" /\ UNCHANGED <<making, handles>>

Unlink(p) ==
  \/ ~Exists(p) /\ Error("ENOENT")
  \/ Is(p, "dir") /\ Error("EISDIR")
  \/ Exists(p) /\ Refused
  \/ Exists(p) /\ ~Is(p, "dir") /\ Removes(p)

Rmdir(p) ==
  \/ ~Exists(p) /\ Error("ENOENT")
  \/ Exists(p) /\ ~Is(p, "dir") /\ Error("ENOTDIR")
  \/ Exists(p) /\ Refused
  \/ Is(p, "dir") /\ Removes(p)

\* A name that is there already is replaced, by a node of its sort only.
Rename(p, q) ==
  \/ ~Exists(p) /\ Error("ENOENT")
  \/ Is(p, "dir") /\ Exists(q) /\ ~Is(q, "dir") /\ Error("ENOTDIR")
  \/ ~Is(p, "dir") /\ Exists(p) /\ Is(q, "dir") /\ Error("EISDIR")
  \/ Exists(p) /\ Refused
  \/ Exists(p) /\ Exists(q) /\ NodeOf(p) = NodeOf(q) /\ Answers("OK")
  \/ /\ Exists(p)
     /\ Exists(q) => NodeOf(p) # NodeOf(q) /\ (Is(p, "dir") <=> Is(q, "dir"))
     /\ Becomes(Drop(Named(q, NodeOf(p)), Fullpath(p)), node, fds)
     /\ rc' = "OK" /\ UNCHANGED <<making, handles>>

Link(p, q) ==
  \/ ~Exists(p) /\ Error("ENOENT")
  \/ Exists(p) /\ NotMade(q)
  \/ Is(p, "dir") /\ ~Exists(q) /\ Error("EPERM")
  \/ /\ Exists(p) /\ ~Is(p, "dir") /\ ~Exists(q)
     /\ Becomes(Named(q, NodeOf(p)), node, fds)
     /\ rc' = "OK" /\ UNCHANGED <<making, handles>>
-----------------------------------------------------------------------------
(***************************************************************************)
(* Handlers that read and change what a path has.  The kernel follows      *)
(* symbolic links itself, and calls only those of them with the path of a  *)
(* link that do not follow it.                                             *)
(***************************************************************************)
Asks(p) == IF Exists(p) THEN Refused \/ Answers("OK") ELSE Error("ENOENT")

Getattr(p) == Asks(p)
Statfs(p) == Asks(p)
Access(p) == Asks(p)
Getxattr(p) == Asks(p)
Listxattr(p) == Asks(p)
Readlink(p) == IF Exists(p) /\ ~Is(p, "link") THEN Error("EINVAL") ELSE Asks(p)

Marks(p, v) ==
  \/ ~Exists(p) /\ Error("ENOENT")
  \/ Exists(p) /\ Refused
  \/ /\ Exists(p)
     /\ node' = [node EXCEPT ![NodeOf(p)].attr = v]
     /\ rc' = "OK" /\ UNCHANGED <<entries, fds, making, handles>>

Chmod(p, v) == ~Is(p, "link") /\ Marks(p, v)
Chown(p, v) == ~Is(p, "link") /\ Marks(p, v)
Utime(p, v) == ~Is(p, "link") /\ Marks(p, v)
Setxattr(p, v) == Marks(p, v)
Removexattr(p) == Marks(p, 0)

\* The contents of node n become v.
Contents(n, v) ==
  /\ node' = [node EXCEPT ![n].data = v]
  /\ rc' = "OK" /\ UNCHANGED <<entries, fds, making, handles>>

\* Whatever is wrong, the caller is told EPERM.
Truncate(p, v) ==
  /\ Exists(p) => Is(p, "reg")
  /\ ErrorLogged \/ (Exists(p) /\ Contents(NodeOf(p), v))
-----------------------------------------------------------------------------
(***************************************************************************)
(* Handlers that open a handle.  One that fails leaves -1 or NULL in       *)
(* fi->fh, and the kernel gets no handle.                                  *)
(***************************************************************************)
Unused(h) == h \notin DOMAIN handles

\* A new descriptor for node n, and the handle that has it.
Gives(h, e, nodes, n, may) ==
  /\ Becomes(e, nodes, Put(fds, NewFd, Opened(n, may)))
  /\ handles' = Put(handles, h, [fh |-> NewFd, node |-> n, dir |-> may = {}])
  /\ rc' = "OK" /\ UNCHANGED making

\* Without a descriptor, or without the file, nothing is opened.
NotOpened(p) ==
  \/ ~Exists(p) /\ Error("ENOENT")
  \/ Exists(p) /\ FreeFds = {} /\ Error("EMFILE")
  \/ Exists(p) /\ Refused

Open(h, p, may) ==
  /\ Unused(h) /\ (Exists(p) => Is(p, "reg"))
  /\ \/ NotOpened(p)
     \/ Exists(p) /\ FreeFds # {} /\ Gives(h, entries, node, NodeOf(p), may)

Opendir(h, p) ==
  /\ Unused(h) /\ (Exists(p) => Is(p, "dir"))
  /\ \/ NotOpened(p)
     \/ Exists(p) /\ FreeFds # {} /\ Gives(h, entries, node, NodeOf(p), {})

\* creat() takes no notice of fi->flags: it may only write, and a file that
\* another program has made in the meantime is emptied.
Create(h, p) ==
  /\ Unused(h) /\ (Exists(p) => Is(p, "reg"))
  /\ \/ Refused
     \/ FreeFds = {} /\ Error("EMFILE")
     \/ /\ Exists(p) /\ FreeFds # {}
        /\ Gives(h, entries, [node EXCEPT ![NodeOf(p)].data = 0], NodeOf(p), {"w"})
     \/ /\ ~Exists(p) /\ FreeFds # {} /\ FreeNodes # {}
        /\ Gives(h, Named(p, NewNode), Made("reg"), NewNode, {"w"})
-----------------------------------------------------------------------------
(***************************************************************************)
(* Handlers that use the descriptor of a handle, whatever it is by then.   *)
(***************************************************************************)
File(h) == ~Unused(h) /\ ~handles[h].dir
Dir(h) == ~Unused(h) /\ handles[h].dir
IsOpen(h) == handles[h].fh \in DOMAIN fds
May(h, what) == IsOpen(h) /\ what \in fds[handles[h].fh].may

\* pread, pwrite, ftruncate, fstat and fsync with fi->fh.
Read(h) == File(h) /\ (IF May(h, "r") THEN Refused \/ Answers("OK") ELSE Error("EBADF"))

Write(h, v) ==
  /\ File(h)
  /\ \/ ~May(h, "w") /\ Error("EBADF")
     \/ May(h, "w") /\ Refused
     \/ May(h, "w") /\ Contents(fds[handles[h].fh].node, v)

Ftruncate(h, v) ==
  /\ File(h)
  /\ \/ ~May(h, "w") /\ Error("EINVAL")
     \/ May(h, "w") /\ Refused
     \/ May(h, "w") /\ Contents(fds[handles[h].fh].node, v)

Fgetattr(h) == File(h) /\ (IF IsOpen(h) THEN Refused \/ Answers("OK") ELSE Error("EBADF"))
Fsync(h) == File(h) /\ (ErrorLogged \/ (IsOpen(h) /\ Answers("OK")))
Fsyncdir(h) == Dir(h) /\ Answers("OK")

\* Once for every close() of the caller; bb_flush leaves the descriptor alone.
ClosedByFlush(fd) == Drop(fds, fd)                                 \* mutant
Flushed(fd) == fds

Flush(h) ==
  /\ File(h)
  /\ Becomes(entries, node, Flushed(handles[h].fh))
  /\ rc' = "OK" /\ UNCHANGED <<making, handles>>

\* The whole directory is read at once, and the stream stays at its end: asked
\* again, after a rewinddir(), bb_readdir takes the end for an error and returns
\* the errno that some earlier call has left.
Readdir(h) ==
  /\ Dir(h) /\ IsOpen(h)
  /\ \/ Refused
     \/ fds[handles[h].fh].pos = "end" /\ \E stale \in {"OK", "ENOENT", "EIO"} : Error(stale)
     \/ /\ fds[handles[h].fh].pos = "start"
        /\ fds' = [fds EXCEPT ![handles[h].fh].pos = "end"]
        /\ rc' \in {"OK", "ENOMEM"}
        /\ UNCHANGED <<entries, node, making, handles>>

\* The kernel asks once, and pays no heed to the answer.
LetsGo(h) ==
  /\ Becomes(entries, node, Closed(handles[h].fh))
  /\ handles' = Drop(handles, h)
  /\ rc' = "OK" /\ UNCHANGED making

Release(h) == File(h) /\ LetsGo(h)
Releasedir(h) == Dir(h) /\ LetsGo(h)
-----------------------------------------------------------------------------
\* What fuse_main finds: an empty tree, and no descriptor but log and stdio.
Init ==
  /\ entries = <<>> /\ node = <<>> /\ fds = <<>>
  /\ making = {} /\ handles = <<>>
  /\ rc = "OK"

OnName(p) ==
  \/ MknodOpen(p) \/ MknodSpecial(p) \/ Mkdir(p) \/ Symlink(p) \/ Unlink(p) \/ Rmdir(p)
  \/ \E q \in Names \ {p} : Rename(p, q) \/ Link(p, q)
  \/ Getattr(p) \/ Statfs(p) \/ Access(p) \/ Readlink(p) \/ Getxattr(p) \/ Listxattr(p)
  \/ \E v \in Values : Chmod(p, v) \/ Chown(p, v) \/ Utime(p, v) \/ Setxattr(p, v)
  \/ Removexattr(p)
  \/ \E v \in Values : Truncate(p, v)

OnHandle(h) ==
  \/ \E p \in Names : Create(h, p) \/ Opendir(h, p)
  \/ \E p \in Names, may \in {{"r"}, {"w"}, {"r", "w"}} : Open(h, p, may)
  \/ Read(h) \/ Fgetattr(h) \/ Fsync(h) \/ Flush(h) \/ Release(h)
  \/ \E v \in Values : Write(h, v) \/ Ftruncate(h, v)
  \/ Readdir(h) \/ Fsyncdir(h) \/ Releasedir(h)

\* bb_oper
Next ==
  \/ \E p \in Names : OnName(p)
  \/ \E h \in Handles : OnHandle(h)
  \/ \E fd \in making : MknodClose(fd)

Spec == Init /\ [][Next]_vars
-----------------------------------------------------------------------------
(***************************************************************************)
(* Properties.                                                             *)
(***************************************************************************)

\* Every map has its type, and every name and descriptor leads to a node.
TypeOK ==
  /\ DOMAIN entries \subseteq {Fullpath(p) : p \in Names}
  /\ Range(entries) \subseteq DOMAIN node
  /\ node \in [DOMAIN node -> [kind : Kinds, data : Values, attr : Values]]
  /\ DOMAIN node \subseteq 1 .. MaxNodes
  /\ fds \in [DOMAIN fds -> [node : DOMAIN node, may : SUBSET {"r", "w"},
                             pos : {"start", "end"}]]
  /\ DOMAIN fds \subseteq 1 .. MaxFds
  /\ DOMAIN handles \subseteq Handles
  /\ handles \in [DOMAIN handles -> [fh : 1 .. MaxFds, node : DOMAIN node, dir : BOOLEAN]]

\* The daemon has open what its handles and its bb_mknod calls under way need
\* and nothing more: no handler leaves a descriptor behind, on any path through
\* it, and no two handles share one.
DescriptorsAccounted ==
  /\ DOMAIN fds = making \cup {handles[h].fh : h \in DOMAIN handles}
  /\ Cardinality(DOMAIN fds) = Cardinality(making) + Cardinality(DOMAIN handles)

\* fi->fh is a number, and numbers are used again: as long as the kernel holds
\* the handle, it leads to the node the handle was opened at, whatever names
\* have been removed, renamed, made anew and opened since.
HandlesKeepFiles ==
  \A h \in DOMAIN handles :
    IsOpen(h) /\ fds[handles[h].fh].node = handles[h].node
=============================================================================
