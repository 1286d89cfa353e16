------------------------------ MODULE BBFSProofs ------------------------------
(***************************************************************************)
(* Theorems about BBFS, for any number of paths, handles, descriptors,     *)
(* nodes and bb_mknod calls at a time.                                     *)
(***************************************************************************)
EXTENDS BBFS, MinMaxProofs

(***************************************************************************)
(* The inductive invariant, of a tree e, its nodes and the descriptors f,  *)
(* and of the descriptors f with their owners: the bb_mknod calls m that   *)
(* have not closed theirs, and the handles hs.  That a handle keeps its    *)
(* file is not inductive by itself: it could lose it to the close of       *)
(* another handle, or of bb_mknod, with the same number.                   *)
(***************************************************************************)
Nodes == [kind : Kinds, data : Values, attr : Values]

TreeOK(e, nodes, f) ==
  /\ DOMAIN e \subseteq {Fullpath(p) : p \in Names}
  /\ Range(e) \subseteq DOMAIN nodes
  /\ nodes \in [DOMAIN nodes -> Nodes] /\ DOMAIN nodes \subseteq 1 .. MaxNodes
  /\ f \in [DOMAIN f -> [node : DOMAIN nodes, may : SUBSET {"r", "w"},
                         pos : {"start", "end"}]]
  /\ DOMAIN f \subseteq 1 .. MaxFds

Owned(f, m, hs) ==
  /\ m \subseteq DOMAIN f
  /\ DOMAIN hs \subseteq Handles
  /\ hs \in [DOMAIN hs -> [fh : DOMAIN f \ m, node : 1 .. MaxNodes, dir : BOOLEAN]]
  /\ \A h \in DOMAIN hs : f[hs[h].fh].node = hs[h].node
  /\ \A g, h \in DOMAIN hs : hs[g].fh = hs[h].fh => g = h
  /\ \A d \in DOMAIN f \ m : \E h \in DOMAIN hs : hs[h].fh = d

Inv == TreeOK(entries, node, fds) /\ Owned(fds, making, handles)

\* The invariant has what the run checks.
LEMMA InvImplies == Inv => TypeOK /\ DescriptorsAccounted /\ HandlesKeepFiles
<1> SUFFICES ASSUME Inv PROVE TypeOK /\ DescriptorsAccounted /\ HandlesKeepFiles
  OBVIOUS
<1> USE DEF Inv, TreeOK, Owned
<1>1. \A h \in DOMAIN handles :
        /\ handles[h].fh \in DOMAIN fds \ making /\ handles[h].dir \in BOOLEAN
        /\ handles[h].node = fds[handles[h].fh].node
        /\ handles[h] = [fh |-> handles[h].fh, node |-> handles[h].node,
                         dir |-> handles[h].dir]
  OBVIOUS
<1>2. TypeOK
  <2>1. \A d \in DOMAIN fds : fds[d].node \in DOMAIN node
    OBVIOUS
  <2>2. handles \in [DOMAIN handles ->
                       [fh : 1 .. MaxFds, node : DOMAIN node, dir : BOOLEAN]]
    BY <1>1, <2>1
  <2> QED  BY <2>2 DEF TypeOK, Nodes
<1>3. HandlesKeepFiles
  BY <1>1 DEF HandlesKeepFiles, IsOpen
<1>4. DescriptorsAccounted
  <2> DEFINE F == {handles[h].fh : h \in DOMAIN handles}
             f == [h \in DOMAIN handles |-> handles[h].fh]
  <2>1. DOMAIN fds = making \cup F /\ making \cap F = {}
    <3>1. F \subseteq DOMAIN fds \ making
      BY <1>1
    <3>2. \A d \in DOMAIN fds \ making : d \in F
      OBVIOUS
    <3>3. making \subseteq DOMAIN fds
      OBVIOUS
    <3> HIDE DEF F, Inv, Owned, TreeOK
    <3> QED  BY <3>1, <3>2, <3>3
  <2>2. IsFiniteSet(making) /\ IsFiniteSet(F)
    <3>1. IsFiniteSet(1 .. MaxFds)
      BY FS_Interval, BoundsAssumption
    <3>2. making \in SUBSET (1 .. MaxFds) /\ F \in SUBSET (1 .. MaxFds)
      BY <1>1
    <3> QED  BY <3>1, <3>2, FS_Subset
  <2>3. f \in Bijection(DOMAIN handles, F)
    BY DEF Bijection, Injection, Surjection, IsInjective
  <2>4. Cardinality(DOMAIN handles) = Cardinality(F)
    <3>1. IsFiniteSet(DOMAIN handles)
      BY <2>2, <2>3, FS_Injection DEF Bijection
    <3> QED  BY <2>2, <2>3, <3>1, FS_Bijection DEF ExistsBijection
  <2>5. Cardinality(making \cup F) = Cardinality(making) + Cardinality(F)
    <3>1. Cardinality(making \cap F) = 0
      BY <2>1, FS_EmptySet
    <3>2. Cardinality(making) \in Nat /\ Cardinality(F) \in Nat
      BY <2>2, FS_CardinalityType
    <3>3. Cardinality(making \cup F)
            = Cardinality(making) + Cardinality(F) - Cardinality(making \cap F)
      BY <2>2, FS_Union
    <3> HIDE DEF F, Inv, Owned, TreeOK
    <3> QED  BY <3>1, <3>2, <3>3
  <2> QED  BY <2>1, <2>4, <2>5 DEF DescriptorsAccounted
<1> QED  BY <1>2, <1>3, <1>4

-----------------------------------------------------------------------------
(***************************************************************************)
(* Trees and descriptors stay well formed when one thing about them        *)
(* changes; a handler composes these changes.                              *)
(***************************************************************************)

\* Nodes nothing leads to any more go, and no name or descriptor led to them.
LEMMA TreeBecomes ==
  ASSUME NEW e, NEW nodes, NEW f, TreeOK(e, nodes, f), Becomes(e, nodes, f)
  PROVE  TreeOK(entries', node', fds')
<1> DEFINE live == Range(e) \cup {f[d].node : d \in DOMAIN f}
<1>1. live \subseteq DOMAIN nodes
  BY DEF TreeOK
<1>2. entries' = e /\ fds' = f /\ node' = [n \in live |-> nodes[n]]
  BY DEF Becomes, Restrict
<1>3. \A d \in DOMAIN f : f[d].node \in live /\ f[d] \in [node : DOMAIN nodes,
                           may : SUBSET {"r", "w"}, pos : {"start", "end"}]
  BY DEF TreeOK
<1>4. \A d \in DOMAIN f : f[d] \in [node : live, may : SUBSET {"r", "w"},
                                   pos : {"start", "end"}]
  BY <1>3
<1>5. f \in [DOMAIN f -> [node : live, may : SUBSET {"r", "w"}, pos : {"start", "end"}]]
  BY <1>4 DEF TreeOK
<1>6. Range(e) \subseteq live
  OBVIOUS
<1> HIDE DEF live
<1>7. DOMAIN node' = live /\ node' \in [live -> Nodes]
  BY <1>1, <1>2 DEF TreeOK
<1> QED  BY <1>1, <1>2, <1>5, <1>6, <1>7 DEF TreeOK

\* A name is made for a node there is, or moved to it.
LEMMA TreeNamed ==
  ASSUME NEW e, NEW nodes, NEW f, TreeOK(e, nodes, f),
         NEW p \in Names, NEW n \in DOMAIN nodes
  PROVE  TreeOK(Put(e, Fullpath(p), n), nodes, f)
  BY DEF TreeOK, Put, Range

\* A name is removed.
LEMMA TreeUnnamed ==
  ASSUME NEW e, NEW nodes, NEW f, TreeOK(e, nodes, f), NEW x
  PROVE  TreeOK(Drop(e, x), nodes, f)
  BY DEF TreeOK, Drop, Restrict, Range

\* A new node gets a number no node has.
LEMMA NewNodeIsFree ==
  ASSUME FreeNodes # {}
  PROVE  NewNode \in 1 .. MaxNodes /\ NewNode \notin DOMAIN node
<1>1. FreeNodes \in SUBSET Nat
  BY BoundsAssumption DEF FreeNodes
<1>2. NewNode \in FreeNodes
  BY <1>1, MinOfNaturals DEF NewNode
<1> QED  BY <1>2 DEF FreeNodes

\* A node is made, not led to yet.
LEMMA TreeMade ==
  ASSUME TreeOK(entries, node, fds), FreeNodes # {}, NEW kind \in Kinds
  PROVE  TreeOK(entries, Made(kind), fds) /\ NewNode \in DOMAIN Made(kind)
<1>1. NewNode \in 1 .. MaxNodes /\ NewNode \notin DOMAIN node
  BY NewNodeIsFree
<1>2. [kind |-> kind, data |-> 0, attr |-> 0] \in Nodes
  BY ValuesAssumption DEF Nodes
<1> DEFINE nodes == Made(kind)
<1>3. DOMAIN nodes = DOMAIN node \cup {NewNode} /\ nodes \in [DOMAIN nodes -> Nodes]
  BY <1>1, <1>2 DEF Made, Put, TreeOK
<1> HIDE DEF nodes
<1>4. \A d \in DOMAIN fds : fds[d] \in [node : DOMAIN nodes, may : SUBSET {"r", "w"},
                                       pos : {"start", "end"}]
  BY <1>3 DEF TreeOK
<1>5. fds \in [DOMAIN fds -> [node : DOMAIN nodes, may : SUBSET {"r", "w"},
                              pos : {"start", "end"}]]
  BY <1>4 DEF TreeOK
<1>6. TreeOK(entries, nodes, fds)
  BY <1>1, <1>3, <1>5 DEF TreeOK
<1> QED  BY <1>3, <1>6 DEF nodes

\* The contents or the attributes of a node change.
LEMMA TreeChanged ==
  ASSUME NEW e, NEW nodes, NEW f, TreeOK(e, nodes, f),
         NEW n \in DOMAIN nodes, NEW v \in Values
  PROVE  /\ TreeOK(e, [nodes EXCEPT ![n].data = v], f)
         /\ TreeOK(e, [nodes EXCEPT ![n].attr = v], f)
<1>1. nodes[n] \in Nodes
  BY DEF TreeOK
<1>2. [nodes[n] EXCEPT !.data = v] \in Nodes /\ [nodes[n] EXCEPT !.attr = v] \in Nodes
  BY <1>1 DEF Nodes
<1> QED  BY <1>2 DEF TreeOK

\* A descriptor is opened at a node there is.
LEMMA TreeOpened ==
  ASSUME NEW e, NEW nodes, NEW f, TreeOK(e, nodes, f),
         NEW n \in DOMAIN nodes, NEW d \in 1 .. MaxFds, NEW may \in SUBSET {"r", "w"}
  PROVE  TreeOK(e, nodes, Put(f, d, Opened(n, may)))
  BY DEF TreeOK, Put, Opened

\* A descriptor is closed.
LEMMA TreeClosed ==
  ASSUME NEW e, NEW nodes, NEW f, TreeOK(e, nodes, f), NEW d
  PROVE  TreeOK(e, nodes, Drop(f, d))
  BY DEF TreeOK, Drop, Restrict
-----------------------------------------------------------------------------
(***************************************************************************)
(* Owners, when a descriptor is opened for one of them or closed by it.    *)
(***************************************************************************)

\* A new descriptor gets a number no open one has.
LEMMA NewFdIsFree ==
  ASSUME FreeFds # {}
  PROVE  NewFd \in 1 .. MaxFds /\ NewFd \notin DOMAIN fds
<1>1. FreeFds \in SUBSET Nat
  BY BoundsAssumption DEF FreeFds
<1>2. NewFd \in FreeFds
  BY <1>1, MinOfNaturals DEF NewFd
<1> QED  BY <1>2 DEF FreeFds

\* bb_mknod opens one, and closes it.
LEMMA OwnedByMaking ==
  ASSUME NEW f, NEW m, NEW hs, Owned(f, m, hs), NEW d, NEW x
  PROVE  /\ d \notin DOMAIN f => Owned(Put(f, d, x), m \cup {d}, hs)
         /\ d \in m => Owned(Drop(f, d), m \ {d}, hs)
  BY DEF Owned, Put, Drop, Restrict

\* A handle gets one of its own.
LEMMA OwnedByNewHandle ==
  ASSUME NEW f, NEW m, NEW hs, Owned(f, m, hs), NEW d, d \notin DOMAIN f,
         NEW h \in Handles, h \notin DOMAIN hs, NEW n \in 1 .. MaxNodes, NEW may
  PROVE  Owned(Put(f, d, Opened(n, may)), m,
               Put(hs, h, [fh |-> d, node |-> n, dir |-> may = {}]))
  BY DEF Owned, Put, Opened

\* A handle that goes takes its own with it.
LEMMA OwnedByOthers ==
  ASSUME NEW f, NEW m, NEW hs, Owned(f, m, hs), NEW h \in DOMAIN hs
  PROVE  Owned(Drop(f, hs[h].fh), m, Drop(hs, h))
  BY DEF Owned, Drop, Restrict
-----------------------------------------------------------------------------
(***************************************************************************)
(* The handlers keep the invariant.                                        *)
(***************************************************************************)

\* A handler that changes nothing but its answer.
LEMMA StutterKeepsInv ==
  ASSUME Inv, UNCHANGED <<entries, node, fds, making, handles>>
  PROVE  Inv'
  BY DEF Inv

\* A handler that leaves descriptors, bb_mknod calls and handles as they are.
LEMMA TreeStepKeepsInv ==
  ASSUME Inv, NEW e, NEW nodes, TreeOK(e, nodes, fds), Becomes(e, nodes, fds),
         UNCHANGED <<making, handles>>
  PROVE  Inv'
<1>1. TreeOK(entries', node', fds')
  BY TreeBecomes
<1>2. fds' = fds
  BY DEF Becomes
<1> QED  BY <1>1, <1>2 DEF Inv

\* A node that is made gets an entry at once.
LEMMA MakesKeepsInv ==
  ASSUME Inv, NEW p \in Names, NEW kind \in Kinds, Makes(p, kind)
  PROVE  Inv'
<1>1. CASE NotMade(p)
  BY <1>1, StutterKeepsInv DEF NotMade, Refused, Error, Answers
<1>2. CASE /\ FreeNodes # {}
           /\ Becomes(Named(p, NewNode), Made(kind), fds)
           /\ UNCHANGED <<making, handles>>
  <2>1. TreeOK(entries, Made(kind), fds) /\ NewNode \in DOMAIN Made(kind)
    BY <1>2, TreeMade DEF Inv
  <2>2. TreeOK(Named(p, NewNode), Made(kind), fds)
    BY <2>1, TreeNamed DEF Named
  <2> QED  BY <1>2, <2>2, TreeStepKeepsInv
<1> QED  BY <1>1, <1>2 DEF Makes

\* bb_mknod between its open and its close owns the descriptor.
LEMMA MknodOpenKeepsInv ==
  ASSUME Inv, NEW p \in Names, MknodOpen(p)
  PROVE  Inv'
<1>1. CASE NotMade(p) \/ Error("EMFILE")
  BY <1>1, StutterKeepsInv DEF NotMade, Refused, Error, Answers
<1>2. CASE /\ FreeFds # {} /\ FreeNodes # {}
           /\ Becomes(Named(p, NewNode), Made("reg"), Put(fds, NewFd, Opened(NewNode, {"w"})))
           /\ making' = making \cup {NewFd}
           /\ UNCHANGED <<handles, rc>>
  <2>1. TreeOK(entries, Made("reg"), fds) /\ NewNode \in DOMAIN Made("reg")
    BY <1>2, TreeMade DEF Inv, Kinds
  <2>2. TreeOK(Named(p, NewNode), Made("reg"), fds)
    BY <2>1, TreeNamed DEF Named
  <2>3. NewFd \in 1 .. MaxFds /\ NewFd \notin DOMAIN fds
    BY <1>2, NewFdIsFree
  <2>4. TreeOK(Named(p, NewNode), Made("reg"), Put(fds, NewFd, Opened(NewNode, {"w"})))
    BY <2>1, <2>2, <2>3, TreeOpened
  <2>5. TreeOK(entries', node', fds')
    BY <1>2, <2>4, TreeBecomes
  <2>6. Owned(Put(fds, NewFd, Opened(NewNode, {"w"})), making \cup {NewFd}, handles)
    BY <2>3, OwnedByMaking DEF Inv
  <2> QED  BY <1>2, <2>5, <2>6 DEF Inv, Becomes
<1> QED  BY <1>1, <1>2 DEF MknodOpen

\* The close of bb_mknod gives back the descriptor it owned.
LEMMA MknodCloseKeepsInv ==
  ASSUME Inv, NEW fd \in making, MknodClose(fd)
  PROVE  Inv'
<1>1. Becomes(entries, node, Drop(fds, fd)) /\ making' = making \ {fd} /\ handles' = handles
  BY DEF MknodClose, Closed
<1>2. TreeOK(entries', node', fds')
  BY <1>1, TreeClosed, TreeBecomes DEF Inv
<1>3. Owned(Drop(fds, fd), making \ {fd}, handles)
  BY OwnedByMaking DEF Inv
<1> QED  BY <1>1, <1>2, <1>3 DEF Inv, Becomes

\* An entry goes; its node stays for as long as a descriptor leads to it.
LEMMA RemovalKeepsInv ==
  ASSUME Inv, NEW p \in Names, Unlink(p) \/ Rmdir(p)
  PROVE  Inv'
<1>1. CASE Removes(p)
  <2>1. TreeOK(Drop(entries, Fullpath(p)), node, fds)
    BY TreeUnnamed DEF Inv
  <2> QED  BY <1>1, <2>1, TreeStepKeepsInv DEF Removes
<1>2. CASE ~Removes(p)
  BY <1>2, StutterKeepsInv DEF Unlink, Rmdir, Refused, Error, Answers
<1> QED  BY <1>1, <1>2

\* What a name that is there leads to.
LEMMA NodeOfName ==
  ASSUME Inv, NEW p, Exists(p)
  PROVE  NodeOf(p) \in DOMAIN node
  BY DEF Inv, TreeOK, Exists, NodeOf, Range

\* An entry moves, and the one that was there goes.
LEMMA RenameKeepsInv ==
  ASSUME Inv, NEW p \in Names, NEW q \in Names, Rename(p, q)
  PROVE  Inv'
<1>1. CASE UNCHANGED <<entries, node, fds, making, handles>>
  BY <1>1, StutterKeepsInv
<1>2. CASE /\ Exists(p)
           /\ Becomes(Drop(Named(q, NodeOf(p)), Fullpath(p)), node, fds)
           /\ UNCHANGED <<making, handles>>
  <2>1. TreeOK(Named(q, NodeOf(p)), node, fds)
    BY <1>2, NodeOfName, TreeNamed DEF Inv, Named
  <2>2. TreeOK(Drop(Named(q, NodeOf(p)), Fullpath(p)), node, fds)
    BY <2>1, TreeUnnamed
  <2> QED  BY <1>2, <2>2, TreeStepKeepsInv
<1> QED  BY <1>1, <1>2 DEF Rename, Refused, Error, Answers

\* One more entry leads to a node there is.
LEMMA LinkKeepsInv ==
  ASSUME Inv, NEW p \in Names, NEW q \in Names, Link(p, q)
  PROVE  Inv'
<1>1. CASE UNCHANGED <<entries, node, fds, making, handles>>
  BY <1>1, StutterKeepsInv
<1>2. CASE /\ Exists(p)
           /\ Becomes(Named(q, NodeOf(p)), node, fds)
           /\ UNCHANGED <<making, handles>>
  <2>1. TreeOK(Named(q, NodeOf(p)), node, fds)
    BY <1>2, NodeOfName, TreeNamed DEF Inv, Named
  <2> QED  BY <1>2, <2>1, TreeStepKeepsInv
<1> QED  BY <1>1, <1>2 DEF Link, NotMade, Refused, Error, Answers

\* A handler that changes a node in place.
LEMMA NodeStepKeepsInv ==
  ASSUME Inv, NEW n \in DOMAIN node, NEW v \in Values,
         \/ node' = [node EXCEPT ![n].data = v]
         \/ node' = [node EXCEPT ![n].attr = v],
         UNCHANGED <<entries, fds, making, handles>>
  PROVE  Inv'
<1>1. TreeOK(entries, [node EXCEPT ![n].data = v], fds)
  BY TreeChanged DEF Inv
<1>2. TreeOK(entries, [node EXCEPT ![n].attr = v], fds)
  BY TreeChanged DEF Inv
<1> QED  BY <1>1, <1>2 DEF Inv

\* What is written through a name goes to the node the name leads to.
LEMMA MarksKeepsInv ==
  ASSUME Inv, NEW p \in Names, NEW v \in Values, Marks(p, v)
  PROVE  Inv'
<1>1. CASE UNCHANGED <<entries, node, fds, making, handles>>
  BY <1>1, StutterKeepsInv
<1>2. CASE /\ Exists(p) /\ node' = [node EXCEPT ![NodeOf(p)].attr = v]
           /\ UNCHANGED <<entries, fds, making, handles>>
  BY <1>2, NodeOfName, NodeStepKeepsInv
<1> QED  BY <1>1, <1>2 DEF Marks, Refused, Error, Answers

\* So does the length that bb_truncate sets.
LEMMA TruncateKeepsInv ==
  ASSUME Inv, NEW p \in Names, NEW v \in Values, Truncate(p, v)
  PROVE  Inv'
<1>1. CASE ErrorLogged
  BY <1>1, StutterKeepsInv DEF ErrorLogged, Answers
<1>2. CASE Exists(p) /\ Contents(NodeOf(p), v)
  BY <1>2, NodeOfName, NodeStepKeepsInv DEF Contents
<1> QED  BY <1>1, <1>2 DEF Truncate

\* All handlers that are given a path.
LEMMA OnNameKeepsInv ==
  ASSUME Inv, NEW p \in Names, OnName(p)
  PROVE  Inv'
<1>1. CASE MknodOpen(p)
  BY <1>1, MknodOpenKeepsInv
<1>2. CASE MknodSpecial(p) \/ Mkdir(p) \/ Symlink(p)
  BY <1>2, MakesKeepsInv DEF MknodSpecial, Mkdir, Symlink, Kinds
<1>3. CASE Unlink(p) \/ Rmdir(p)
  BY <1>3, RemovalKeepsInv
<1>4. CASE \E q \in Names \ {p} : Rename(p, q) \/ Link(p, q)
  BY <1>4, RenameKeepsInv, LinkKeepsInv
<1>5. CASE Getattr(p) \/ Statfs(p) \/ Access(p) \/ Readlink(p) \/ Getxattr(p) \/ Listxattr(p)
  BY <1>5, StutterKeepsInv DEF Getattr, Statfs, Access, Readlink, Getxattr, Listxattr, Asks,
                               Refused, Error, Answers
<1>6. CASE \/ \E v \in Values : Chmod(p, v) \/ Chown(p, v) \/ Utime(p, v) \/ Setxattr(p, v)
           \/ Removexattr(p)
  BY <1>6, MarksKeepsInv, ValuesAssumption DEF Chmod, Chown, Utime, Setxattr, Removexattr
<1>7. CASE \E v \in Values : Truncate(p, v)
  BY <1>7, TruncateKeepsInv
<1> QED  BY <1>1, <1>2, <1>3, <1>4, <1>5, <1>6, <1>7 DEF OnName
-----------------------------------------------------------------------------
\* A handler that opens a handle gives it a descriptor of its own, at the node.
LEMMA GivesKeepsInv ==
  ASSUME Inv, NEW h \in Handles, Unused(h), FreeFds # {},
         NEW e, NEW nodes, TreeOK(e, nodes, fds), NEW n \in DOMAIN nodes,
         NEW may \in SUBSET {"r", "w"}, Gives(h, e, nodes, n, may)
  PROVE  Inv'
<1>1. NewFd \in 1 .. MaxFds /\ NewFd \notin DOMAIN fds
  BY NewFdIsFree
<1>2. TreeOK(e, nodes, Put(fds, NewFd, Opened(n, may)))
  BY <1>1, TreeOpened
<1>3. TreeOK(entries', node', fds')
  BY <1>2, TreeBecomes DEF Gives
<1>4. n \in 1 .. MaxNodes
  BY DEF TreeOK
<1>5. Owned(Put(fds, NewFd, Opened(n, may)), making,
            Put(handles, h, [fh |-> NewFd, node |-> n, dir |-> may = {}]))
  BY <1>1, <1>4, OwnedByNewHandle DEF Inv, Unused
<1> QED  BY <1>3, <1>5 DEF Inv, Gives, Becomes

\* A handle that is opened owns the descriptor its call opened.
LEMMA OpenKeepsInv ==
  ASSUME Inv, NEW h \in Handles, NEW p \in Names, NEW may \in SUBSET {"r", "w"},
         Open(h, p, may) \/ (may = {} /\ Opendir(h, p))
  PROVE  Inv'
<1>1. CASE NotOpened(p)
  BY <1>1, StutterKeepsInv DEF NotOpened, Refused, Error, Answers
<1>2. CASE /\ Unused(h) /\ Exists(p) /\ FreeFds # {}
           /\ Gives(h, entries, node, NodeOf(p), may)
  <2>1. TreeOK(entries, node, fds) /\ NodeOf(p) \in DOMAIN node
    BY <1>2, NodeOfName DEF Inv
  <2> QED  BY <1>2, <2>1, GivesKeepsInv
<1> QED  BY <1>1, <1>2 DEF Open, Opendir

\* So does the one of bb_create, which opens what it makes.
LEMMA CreateKeepsInv ==
  ASSUME Inv, NEW h \in Handles, NEW p \in Names, Create(h, p)
  PROVE  Inv'
<1>1. CASE Refused \/ Error("EMFILE")
  BY <1>1, StutterKeepsInv DEF Refused, Error, Answers
<1>2. CASE /\ Unused(h) /\ Exists(p) /\ FreeFds # {}
           /\ Gives(h, entries, [node EXCEPT ![NodeOf(p)].data = 0], NodeOf(p), {"w"})
  <2>1. NodeOf(p) \in DOMAIN node
    BY <1>2, NodeOfName
  <2>2. TreeOK(entries, [node EXCEPT ![NodeOf(p)].data = 0], fds)
    BY <2>1, TreeChanged, ValuesAssumption DEF Inv
  <2>3. NodeOf(p) \in DOMAIN [node EXCEPT ![NodeOf(p)].data = 0]
    BY <2>1
  <2> QED  BY <1>2, <2>2, <2>3, GivesKeepsInv
<1>3. CASE /\ Unused(h) /\ FreeFds # {} /\ FreeNodes # {}
           /\ Gives(h, Named(p, NewNode), Made("reg"), NewNode, {"w"})
  <2>1. TreeOK(entries, Made("reg"), fds) /\ NewNode \in DOMAIN Made("reg")
    BY <1>3, TreeMade DEF Inv, Kinds
  <2>2. TreeOK(Named(p, NewNode), Made("reg"), fds)
    BY <2>1, TreeNamed DEF Named
  <2> QED  BY <1>3, <2>1, <2>2, GivesKeepsInv
<1> QED  BY <1>1, <1>2, <1>3 DEF Create

\* The descriptor of a handle is open, at a node there is.
LEMMA HandleIsOpen ==
  ASSUME Inv, NEW h \in DOMAIN handles
  PROVE  handles[h].fh \in DOMAIN fds /\ fds[handles[h].fh].node \in DOMAIN node
  BY DEF Inv, Owned, TreeOK

\* What is written through a handle goes to the node its descriptor leads to.
LEMMA WritingKeepsInv ==
  ASSUME Inv, NEW h, NEW v \in Values, Write(h, v) \/ Ftruncate(h, v)
  PROVE  Inv'
<1>1. h \in DOMAIN handles
  BY DEF Write, Ftruncate, File, Unused
<1>2. CASE Contents(fds[handles[h].fh].node, v)
  BY <1>1, <1>2, HandleIsOpen, NodeStepKeepsInv DEF Contents
<1>3. CASE ~Contents(fds[handles[h].fh].node, v)
  BY <1>3, StutterKeepsInv DEF Write, Ftruncate, Refused, Error, Answers
<1> QED  BY <1>2, <1>3

\* bb_flush touches no descriptor.
LEMMA FlushKeepsInv ==
  ASSUME Inv, NEW h, Flush(h)
  PROVE  Inv'
<1>1. TreeOK(entries, node, fds)
  BY DEF Inv
<1> QED  BY <1>1, TreeStepKeepsInv DEF Flush, Flushed

\* bb_readdir moves the position of the descriptor, which stays the handle's.
LEMMA ReaddirKeepsInv ==
  ASSUME Inv, NEW h, Readdir(h)
  PROVE  Inv'
<1> DEFINE d == handles[h].fh
<1>1. CASE UNCHANGED <<entries, node, fds, making, handles>>
  BY <1>1, StutterKeepsInv
<1>2. CASE /\ d \in DOMAIN fds /\ fds' = [fds EXCEPT ![d].pos = "end"]
           /\ UNCHANGED <<entries, node, making, handles>>
  <2>1. fds[d] \in [node : DOMAIN node, may : SUBSET {"r", "w"}, pos : {"start", "end"}]
    BY <1>2 DEF Inv, TreeOK
  <2>2. /\ [fds[d] EXCEPT !.pos = "end"]
             \in [node : DOMAIN node, may : SUBSET {"r", "w"}, pos : {"start", "end"}]
        /\ [fds[d] EXCEPT !.pos = "end"].node = fds[d].node
    BY <2>1
  <2>3. TreeOK(entries, node, fds')
    BY <1>2, <2>2 DEF Inv, TreeOK
  <2>4. DOMAIN fds' = DOMAIN fds /\ \A x \in DOMAIN fds : fds'[x].node = fds[x].node
    BY <1>2, <2>2 DEF Inv, TreeOK
  <2>5. Owned(fds', making, handles)
    BY <2>4 DEF Inv, Owned
  <2> QED  BY <1>2, <2>3, <2>5 DEF Inv
<1> QED  BY <1>1, <1>2 DEF Readdir, IsOpen, Refused, Error, Answers

\* A handle goes with the descriptor it owned.
LEMMA ReleaseKeepsInv ==
  ASSUME Inv, NEW h, Release(h) \/ Releasedir(h)
  PROVE  Inv'
<1>1. h \in DOMAIN handles /\ LetsGo(h)
  BY DEF Release, Releasedir, File, Dir, Unused
<1>2. TreeOK(entries', node', fds')
  BY <1>1, TreeClosed, TreeBecomes DEF Inv, LetsGo, Closed
<1>3. Owned(Drop(fds, handles[h].fh), making, Drop(handles, h))
  BY <1>1, OwnedByOthers DEF Inv
<1> QED  BY <1>1, <1>2, <1>3 DEF Inv, LetsGo, Closed, Becomes

\* All handlers that are given a handle.
LEMMA OnHandleKeepsInv ==
  ASSUME Inv, NEW h \in Handles, OnHandle(h)
  PROVE  Inv'
<1>1. CASE \E p \in Names : Create(h, p)
  BY <1>1, CreateKeepsInv
<1>2. CASE \E p \in Names : Opendir(h, p)
  <2>1. PICK p \in Names : Opendir(h, p)
    BY <1>2
  <2>2. {} \in SUBSET {"r", "w"}
    OBVIOUS
  <2> QED  BY <2>1, <2>2, OpenKeepsInv
<1>3. CASE \E p \in Names, may \in {{"r"}, {"w"}, {"r", "w"}} : Open(h, p, may)
  <2>1. PICK p \in Names, may \in SUBSET {"r", "w"} : Open(h, p, may)
    BY <1>3
  <2> QED  BY <2>1, OpenKeepsInv
<1>4. CASE Read(h) \/ Fgetattr(h) \/ Fsync(h) \/ Fsyncdir(h)
  BY <1>4, StutterKeepsInv DEF Read, Fgetattr, Fsync, Fsyncdir, ErrorLogged, Refused,
                               Error, Answers
<1>5. CASE Flush(h)
  BY <1>5, FlushKeepsInv
<1>6. CASE Release(h) \/ Releasedir(h)
  BY <1>6, ReleaseKeepsInv
<1>7. CASE \E v \in Values : Write(h, v) \/ Ftruncate(h, v)
  BY <1>7, WritingKeepsInv
<1>8. CASE Readdir(h)
  BY <1>8, ReaddirKeepsInv
<1> QED  BY <1>1, <1>2, <1>3, <1>4, <1>5, <1>6, <1>7, <1>8 DEF OnHandle
-----------------------------------------------------------------------------
\* The invariant is inductive.
LEMMA NextKeepsInv == Inv /\ [Next]_vars => Inv'
<1> SUFFICES ASSUME Inv, [Next]_vars  PROVE Inv'
  OBVIOUS
<1>1. CASE \E p \in Names : OnName(p)
  BY <1>1, OnNameKeepsInv
<1>2. CASE \E h \in Handles : OnHandle(h)
  BY <1>2, OnHandleKeepsInv
<1>3. CASE \E fd \in making : MknodClose(fd)
  BY <1>3, MknodCloseKeepsInv
<1>4. CASE UNCHANGED vars
  BY <1>4, StutterKeepsInv DEF vars
<1> QED  BY <1>1, <1>2, <1>3, <1>4 DEF Next

\* The tree and the descriptors of bb_init, before the first call.
LEMMA InitHasInv == Init => Inv
  BY DEF Init, Inv, TreeOK, Owned, Range

\* The invariant holds in every state bbfs can reach.
LEMMA InvHolds == Spec => []Inv
  BY InitHasInv, NextKeepsInv, PTL DEF Spec

(***************************************************************************)
(* The theorems.                                                           *)
(***************************************************************************)

\* Names and descriptors always lead to a node there is.
THEOREM TypeCorrect == Spec => []TypeOK
  BY InvHolds, InvImplies, PTL

\* No handler of bbfs.c leaves a descriptor behind or closes one twice: as many
\* are open as handles and bb_mknod calls under way need.
THEOREM DescriptorsAreAccounted == Spec => []DescriptorsAccounted
  BY InvHolds, InvImplies, PTL

\* fi->fh leads to the file the handle was opened at for as long as the kernel
\* holds the handle, though its number is used for one file after another.
THEOREM HandlesAreFaithful == Spec => []HandlesKeepFiles
  BY InvHolds, InvImplies, PTL
=============================================================================
