--------------------------- MODULE SafsStepsProofs ---------------------------
(***************************************************************************)
(* Theorems about SafsSteps, for any number of threads, names, requests    *)
(* that overlap and crashes of the daemon.                                 *)
(***************************************************************************)
EXTENDS SafsOverlap, SafsProofs, SequenceTheorems

(***************************************************************************)
(* The plan of a handler: which steps the handler of op may have before    *)
(* it, and which of them follows which.  A plan is described by its pairs  *)
(* of neighbours, for what is left of it then has the same description.    *)
(***************************************************************************)
StepsIn(op) ==
  CASE op = "mknod" -> {"open", "path", "cat", "create", "save", "enter"}
    [] op = "unlink" -> {"aside", "fresh", "copy", "finish",
                         "load", "save", "path", "cat", "remove"}
    [] op = "link" -> {"scan", "slot", "load", "save"}
    [] op = "rename" -> {"scan", "rewrite"}
    [] op = "read" -> {"scan", "load", "save", "path", "cat", "data"}
    [] op = "write" -> {"scan", "load", "save", "path", "cat", "data", "saveback"}
    [] op \in {"chmod", "utimens", "truncate", "open"} -> {"scan", "load", "save"}
    [] op \in {"getattr", "lookup"} -> {"scan"}

Follows(op) ==
  CASE op = "mknod" -> {<<"open", "path">>, <<"path", "cat">>, <<"cat", "create">>,
                        <<"create", "save">>, <<"save", "enter">>}
    [] op = "unlink" -> {<<"aside", "fresh">>, <<"fresh", "copy">>, <<"copy", "finish">>,
                         <<"load", "save">>, <<"save", "path">>, <<"path", "cat">>,
                         <<"cat", "remove">>, <<"remove", "copy">>}
    [] op = "link" -> {<<"scan", "slot">>, <<"slot", "load">>, <<"load", "save">>}
    [] op = "rename" -> {<<"scan", "rewrite">>}
    [] op \in {"read", "write"} -> {<<"scan", "load">>, <<"load", "save">>, <<"save", "path">>,
                                    <<"path", "cat">>, <<"cat", "data">>}
    [] op \in {"chmod", "utimens", "truncate", "open"} -> {<<"scan", "load">>, <<"load", "save">>}
    [] op \in {"getattr", "lookup"} -> {}

PlanOK(op, todo) ==
  /\ todo \in Seq(StepsIn(op)) /\ todo # <<>>
  /\ \A i \in 1 .. Len(todo) - 1 : <<todo[i], todo[i + 1]>> \in Follows(op)

\* What is left of a plan is one, and starts with what follows its first step.
LEMMA RestOfPlan ==
  ASSUME NEW op, NEW todo, PlanOK(op, todo)
  PROVE  /\ Len(todo) \in Nat \ {0} /\ Head(todo) = todo[1] /\ Head(todo) \in StepsIn(op)
         /\ Len(todo) # 1 => /\ PlanOK(op, Tail(todo))
                             /\ <<Head(todo), Head(Tail(todo))>> \in Follows(op)
<1> DEFINE S == StepsIn(op)
<1>1. todo \in Seq(S) /\ todo # <<>>
  BY DEF PlanOK
<1> HIDE DEF S
<1>2. /\ Len(todo) \in Nat \ {0} /\ Head(todo) = todo[1] /\ Head(todo) \in S
  BY <1>1, EmptySeq, HeadTailProperties
<1>3. /\ Tail(todo) \in Seq(S) /\ Len(Tail(todo)) = Len(todo) - 1
      /\ \A i \in 1 .. Len(todo) - 1 : Tail(todo)[i] = todo[i + 1]
  BY <1>1, HeadTailProperties
<1>4. ASSUME Len(todo) # 1
      PROVE  /\ PlanOK(op, Tail(todo))
             /\ <<Head(todo), Head(Tail(todo))>> \in Follows(op)
  <2> DEFINE rest == Tail(todo)
  <2>0. Len(rest) \in Nat \ {0} /\ 1 \in 1 .. Len(todo) - 1
    BY <1>2, <1>3, <1>4
  <2>1. Tail(todo) # <<>> /\ Head(Tail(todo)) = todo[2]
    <3>1. rest \in Seq(S) /\ rest[1] = todo[1 + 1]
      BY <1>3, <2>0
    <3>3. rest # <<>>
      BY <2>0, EmptySeq
    <3> HIDE DEF rest
    <3>2. Head(rest) = rest[1]
      BY <3>1, <2>0
    <3> QED  BY <3>1, <3>2, <3>3 DEF rest
  <2>2. <<todo[1], todo[2]>> \in Follows(op)
    <3>1. <<todo[1], todo[1 + 1]>> \in Follows(op)
      BY <2>0 DEF PlanOK
    <3> QED  BY <3>1
  <2>3. \A i \in 1 .. Len(Tail(todo)) - 1 :
          <<Tail(todo)[i], Tail(todo)[i + 1]>> \in Follows(op)
    <3> TAKE i \in 1 .. Len(Tail(todo)) - 1
    <3>1. i + 1 \in 1 .. Len(todo) - 1
      BY <1>2, <1>3
    <3>2. <<todo[i + 1], todo[i + 1 + 1]>> \in Follows(op)
      BY <3>1 DEF PlanOK
    <3>3. Tail(todo)[i] = todo[i + 1] /\ Tail(todo)[i + 1] = todo[i + 1 + 1]
      BY <1>2, <1>3, <3>1
    <3> QED  BY <3>2, <3>3
  <2> QED  BY <1>2, <1>3, <2>1, <2>2, <2>3 DEF PlanOK, S
<1> QED  BY <1>2, <1>4 DEF S

\* Two plans in a row are a plan, if the second follows the first.
LEMMA PlansInARow ==
  ASSUME NEW op, NEW one, NEW two, PlanOK(op, one), PlanOK(op, two),
         <<one[Len(one)], two[1]>> \in Follows(op)
  PROVE  PlanOK(op, one \o two) /\ (one \o two)[1] = one[1]
<1> DEFINE S == StepsIn(op)
           m == Len(one)
           k == Len(two)
<1>1. one \in Seq(S) /\ two \in Seq(S) /\ m \in Nat \ {0} /\ k \in Nat \ {0}
  BY RestOfPlan DEF PlanOK
<1> HIDE DEF S
<1>2. /\ one \o two \in Seq(S) /\ Len(one \o two) = m + k
      /\ \A i \in 1 .. m + k :
           (one \o two)[i] = IF i <= m THEN one[i] ELSE two[i - m]
  BY <1>1, ConcatProperties
<1>3. \A i \in 1 .. m + k - 1 : <<(one \o two)[i], (one \o two)[i + 1]>> \in Follows(op)
  <2> TAKE i \in 1 .. m + k - 1
  <2>1. (one \o two)[i] = (IF i <= m THEN one[i] ELSE two[i - m])
        /\ (one \o two)[i + 1] = IF i + 1 <= m THEN one[i + 1] ELSE two[i + 1 - m]
    BY <1>1, <1>2
  <2>2. CASE i + 1 <= m
    <3>1. i \in 1 .. Len(one) - 1  BY <1>1, <2>2
    <3> QED  BY <1>1, <2>1, <2>2, <3>1 DEF PlanOK
  <2>3. CASE i = m
    BY <1>1, <2>1, <2>3
  <2>4. CASE i > m
    <3>1. i - m \in 1 .. Len(two) - 1 /\ i - m + 1 = i + 1 - m  BY <1>1, <2>4
    <3>2. <<two[i - m], two[i - m + 1]>> \in Follows(op)  BY <3>1 DEF PlanOK
    <3>3. (one \o two)[i] = two[i - m] /\ (one \o two)[i + 1] = two[i - m + 1]
      BY <1>1, <2>1, <2>4, <3>1
    <3> QED  BY <3>2, <3>3
  <2>5. i + 1 <= m \/ i = m \/ i > m
    BY <1>1
  <2> QED  BY <2>2, <2>3, <2>4, <2>5
<1>4. one \o two # <<>> /\ (one \o two)[1] = one[1]
  BY <1>1, <1>2
<1>5. \A i \in 1 .. Len(one \o two) - 1 :
        <<(one \o two)[i], (one \o two)[i + 1]>> \in Follows(op)
  BY <1>2, <1>3
<1> HIDE DEF m, k
<1> QED  BY <1>2, <1>4, <1>5 DEF PlanOK, S

\* The lists StepsOf and RemovalThen give a handler are plans.
LEMMA PlansOfHandlers ==
  /\ PlanOK("mknod", MknodSteps) /\ MknodSteps[1] = "open"
  /\ PlanOK("unlink", UnlinkSteps) /\ UnlinkSteps[1] = "aside"
  /\ PlanOK("unlink", RemoveSteps) /\ RemoveSteps[1] = "load"
  /\ RemoveSteps[Len(RemoveSteps)] = "remove"
  /\ PlanOK("link", StepsOf("link")) /\ StepsOf("link")[1] = "scan"
  /\ PlanOK("rename", StepsOf("rename")) /\ StepsOf("rename")[1] = "scan"
  /\ \A op \in {"chmod", "utimens", "truncate", "open", "getattr", "lookup"} :
       PlanOK(op, StepsOf(op)) /\ StepsOf(op)[1] = "scan"
  /\ \A op \in {"read", "write"} : PlanOK(op, StepsOf(op)) /\ StepsOf(op)[1] = "scan"
<1>1. PlanOK("mknod", MknodSteps) /\ MknodSteps[1] = "open"
  BY DEF PlanOK, StepsIn, Follows, MknodSteps
<1>2. PlanOK("unlink", UnlinkSteps) /\ UnlinkSteps[1] = "aside"
  BY DEF PlanOK, StepsIn, Follows, UnlinkSteps
<1>3. /\ PlanOK("unlink", RemoveSteps) /\ RemoveSteps[1] = "load"
      /\ RemoveSteps[Len(RemoveSteps)] = "remove"
  BY DEF PlanOK, StepsIn, Follows, RemoveSteps
<1>4. PlanOK("link", StepsOf("link")) /\ StepsOf("link")[1] = "scan"
  BY DEF PlanOK, StepsIn, Follows, StepsOf
<1>5. PlanOK("rename", StepsOf("rename")) /\ StepsOf("rename")[1] = "scan"
  BY DEF PlanOK, StepsIn, Follows, StepsOf
<1>6. ASSUME NEW op \in {"chmod", "utimens", "truncate", "open", "getattr", "lookup"}
      PROVE  PlanOK(op, StepsOf(op)) /\ StepsOf(op)[1] = "scan"
  <2>1. CASE op \in {"chmod", "utimens", "truncate", "open"}
    <3>1. /\ StepsOf(op) = <<"scan", "load", "save">>
          /\ StepsIn(op) = {"scan", "load", "save"}
          /\ Follows(op) = {<<"scan", "load">>, <<"load", "save">>}
      BY <2>1 DEF StepsIn, Follows, StepsOf
    <3> QED  BY <3>1 DEF PlanOK
  <2>2. CASE op \in {"getattr", "lookup"}
    <3>1. StepsOf(op) = <<"scan">> /\ StepsIn(op) = {"scan"}
      BY <2>2 DEF StepsIn, StepsOf
    <3> QED  BY <3>1 DEF PlanOK
  <2> QED  BY <2>1, <2>2
<1>7. ASSUME NEW op \in {"read", "write"}
      PROVE  PlanOK(op, StepsOf(op)) /\ StepsOf(op)[1] = "scan"
  <2> DEFINE first == <<"scan", "load", "save">>
             F == {<<"scan", "load">>, <<"load", "save">>, <<"save", "path">>,
                   <<"path", "cat">>, <<"cat", "data">>}
  <2>0. Follows(op) = F /\ {"scan", "load", "save", "path", "cat", "data"} \subseteq StepsIn(op)
    BY DEF StepsIn, Follows
  <2>1. PlanOK(op, first) /\ first[Len(first)] = "save" /\ first[1] = "scan"
    BY <2>0 DEF PlanOK
  <2>2. PlanOK(op, DataSteps) /\ DataSteps[1] = "path"
    BY <2>0 DEF PlanOK, DataSteps
  <2>3. <<"save", "path">> \in Follows(op)
    BY DEF Follows
  <2> HIDE DEF first
  <2>4. PlanOK(op, first \o DataSteps) /\ (first \o DataSteps)[1] = "scan"
    BY <2>1, <2>2, <2>3, PlansInARow
  <2>5. StepsOf(op) = first \o DataSteps
    BY DEF StepsOf, first
  <2> QED  BY <2>4, <2>5
<1> QED  BY <1>1, <1>2, <1>3, <1>4, <1>5, <1>6, <1>7
-----------------------------------------------------------------------------
(***************************************************************************)
(* The inductive invariant, in parts.                                      *)
(***************************************************************************)

\* The locals of a handler: a plan for its call, and of safs_write whether it
\* was called by safs_ftruncate.
AllCalls == Calls \cup {Extension(n, off) : n \in Names, off \in Offsets}
AllSteps == UNION {StepsIn(c.op) : c \in AllCalls}

Locals == [call : AllCalls, todo : Seq(AllSteps), inum : Nat, file : Names, st : Stat,
           left : SUBSET Nat, slot : Nat, back : Seq([inum : Nat, st : Stat])]

LocalsOK(r) ==
  /\ PlanOK(r.call.op, r.todo)
  /\ r.back # <<>> => r.call.op = "write"
  /\ Head(r.todo) = "saveback" => r.back # <<>>
  /\ r.left # {} => r.call.op = "unlink"

Good == {r \in Locals : LocalsOK(r)}

ThreadsOK == th \in [Threads -> Good \cup {Idle}]

\* The kernel's lock of the directory.
Locks(t) == Busy(t) /\ CallOf(t).op \in DirectoryLocked
OneLocks == \A t, u \in Threads : Locks(t) /\ Locks(u) => t = u

\* Whoever has still to append to filePath has cleared it, or it was longer.
PathBound ==
  /\ filePath \in Seq(Names)
  /\ Len(filePath) + Cardinality({t \in Threads : At(t, "cat")}) <= Cardinality(Threads)

\* Descriptors last: for what a mknod or an unlink under way may still leave
\* open, for what each handler holds, and for two more after every crash.
Reserve == 3 * Cardinality(Threads) + 2 * crashes
Creates(t) == At(t, "open") \/ At(t, "path") \/ At(t, "cat") \/ At(t, "create")
FdsLast ==
  /\ leaked = 1 \/ leaked + Reserve <= MaxFds
  /\ \A t \in Threads : Handles(t, "mknod") => leaked + Reserve + 1 <= MaxFds
  /\ \A t \in Threads : Handles(t, "unlink") \/ (Handles(t, "mknod") /\ Creates(t)) =>
       leaked + Reserve + 2 <= MaxFds

LeftInAside ==
  \A t \in Threads :
    /\ Busy(t) => th[t].left \subseteq DOMAIN aside
    /\ At(t, "aside") => th[t].left = {}

\* Directory~ does not change between the scan and the record written after it.
StillFound ==
  \A t \in Threads : At(t, "slot") \/ At(t, "rewrite") => Found(CallOf(t).n)

StepsInv ==
  /\ TypeOK /\ IsDirectory(aside)
  /\ \A p \in DOMAIN stray : p \in Seq(Names) /\ stray[p] \in SUBSET Perms
  /\ crashes \in 0 .. MaxCrashes
  /\ ThreadsOK /\ OneLocks /\ PathBound /\ FdsLast /\ LeftInAside /\ StillFound

\* Past the rename of Directory~ in safs_unlink, and past its open of a new one.
Aloof(t) == Handles(t, "unlink") /\ ~At(t, "aside")
Copies(t) == Aloof(t) /\ ~At(t, "fresh")

\* Records have a stat and a number the counter covers, also those that are
\* still to be copied or entered.
RecordsOK ==
  /\ Numbered(directory, DOMAIN inodes, inode_number)
  /\ \A s \in DOMAIN aside : aside[s].inum # 0 /\ aside[s].inum \in DOMAIN inodes
  /\ \A t \in Threads : Aloof(t) => Numbered(aside, DOMAIN inodes, inode_number)
  /\ \A t \in Threads :
       /\ At(t, "slot") => /\ th[t].inum # 0 /\ th[t].inum \in DOMAIN inodes
                           /\ th[t].inum <= inode_number
       /\ Handles(t, "mknod") /\ ~At(t, "open") => th[t].inum \in 1 .. inode_number
       /\ At(t, "enter") => th[t].inum \in DOMAIN inodes

\* In the first mount there is one name to a number: f says which.
NamesOf(f) ==
  /\ \A d \in {directory, aside} : \A s \in DOMAIN d :
       d[s].inum \in DOMAIN f /\ f[d[s].inum] = d[s].name
  /\ \A t \in Threads :
       Busy(t) /\ CallOf(t).op \notin {"mknod", "unlink"} /\ th[t].inum # 0 =>
         th[t].inum \in DOMAIN f /\ f[th[t].inum] = CallOf(t).n

NumbersOwned ==
  crashes = 0 =>
    /\ \E f \in [1 .. inode_number - 1 -> Names] : NamesOf(f)
    /\ \A t \in Threads :
         Handles(t, "mknod") /\ ~At(t, "open") => th[t].inum = inode_number

\* What safs_unlink has read of .Directory~ is in Directory~ again, below the
\* slot it writes next.
CopyOK ==
  \A t \in Threads :
    /\ Handles(t, "unlink") => th[t].slot >= FirstNewSlot
    /\ At(t, "aside") \/ At(t, "fresh") => th[t].slot = FirstNewSlot
    /\ At(t, "fresh") => directory = <<>>
    /\ Copies(t) =>
         /\ DOMAIN directory \subseteq 2 .. th[t].slot - 1
         /\ \A s \in LiveSlots(aside) \ th[t].left :
              aside[s].name = CallOf(t).n \/ aside[s].name \in LiveNames(directory)
    /\ At(t, "finish") => th[t].left = {}

\* In the first mount records lie below the counter.  safs_unlink moves them up
\* by one slot at most, and slot 1 is empty then, unless it will remove a
\* record, which it will if slot 1 is in use: no name has been lost before the
\* first safs_unlink.
Slots(d) == DOMAIN d \subseteq 1 .. inode_number - 1

SlotsOK ==
  crashes = 0 =>
    /\ Slots(directory)
    /\ inode_number = 1 => dcache = {}
    /\ 1 \in DOMAIN directory => dcache \subseteq LiveNames(directory)
    /\ \A t \in Threads :
         /\ Handles(t, "unlink") /\ At(t, "aside") /\ 1 \in DOMAIN directory =>
              CallOf(t).n \in LiveNames(directory)
         /\ Aloof(t) => Slots(aside)
         /\ At(t, "fresh") /\ 1 \in DOMAIN aside => CallOf(t).n \in LiveNames(aside)
         /\ Copies(t) =>
              \/ \A s \in th[t].left : th[t].slot <= s
              \/ /\ \A s \in th[t].left : th[t].slot <= s + 1
                 /\ \E s \in th[t].left : aside[s].name = CallOf(t).n
-----------------------------------------------------------------------------
(***************************************************************************)
(* How a thread moves.                                                     *)
(***************************************************************************)

\* What a call has.
LEMMA CallFields ==
  ASSUME NEW c \in AllCalls
  PROVE  /\ c.n \in Names
         /\ c.op \in {"mknod", "unlink", "read", "getattr", "lookup", "link", "rename",
                      "write", "truncate", "chmod", "utimens", "open"}
         /\ c.op \in {"mknod", "chmod"} => c.mode \in Modes
         /\ c.op \in {"link", "rename"} => c.to \in Names
         /\ c.op = "write" => c.off \in Nat /\ c.len \in Nat /\ c.b \in Nat
         /\ c.op = "truncate" => c.off \in Nat /\ Extension(c.n, c.off) \in AllCalls
         /\ c.op = "utimens" => c.at \in Times /\ c.mt \in Times
<1>1. Offsets \subseteq Nat /\ Lengths \subseteq Nat
  BY SizeAssumption DEF Offsets, Lengths
<1>2. CASE c \in Calls
  BY <1>1, <1>2, BytesAssumption DEF Calls, AllCalls
<1>3. CASE c \in {Extension(n, off) : n \in Names, off \in Offsets}
  BY <1>1, <1>3 DEF Extension
<1> QED  BY <1>2, <1>3 DEF AllCalls

\* A plan of the call's op is a list of steps.
LEMMA PlanIsSteps ==
  ASSUME NEW c \in AllCalls, NEW todo, PlanOK(c.op, todo)
  PROVE  todo \in Seq(AllSteps) /\ todo # <<>>
<1>1. StepsIn(c.op) \subseteq AllSteps
  BY DEF AllSteps
<1> QED  BY <1>1, SeqMonotonic DEF PlanOK

\* The handler of thread t ends, or safs_write goes back into safs_ftruncate.
Ended(t) ==
  \/ th' = [th EXCEPT ![t] = Idle]
  \/ CallOf(t).op = "write" /\ th' = [th EXCEPT ![t].todo = <<"saveback">>]

\* It goes on with the locals r.
On(t, r) ==
  /\ th' = [th EXCEPT ![t] = [r EXCEPT !.todo = Tail(@)]]
  /\ <<Head(r.todo), Head(Tail(r.todo))>> \in Follows(r.call.op)

\* A busy thread has good locals.
LEMMA BusyIsGood ==
  ASSUME ThreadsOK, NEW t \in Threads, Busy(t)
  PROVE  /\ th[t] \in Locals /\ LocalsOK(th[t]) /\ th[t] \in Good
         /\ th[t].call \in AllCalls
<1>1. th[t] \in Good \/ th[t] = Idle
  BY DEF ThreadsOK
<1>2. th[t] # Idle
  BY DEF Busy, Idle
<1> QED  BY <1>1, <1>2 DEF Good, Locals

\* The function of threads, changed for one of them.
LEMMA SetThread ==
  ASSUME ThreadsOK, NEW t \in Threads, NEW r \in Good \cup {Idle}
  PROVE  [th EXCEPT ![t] = r] \in [Threads -> Good \cup {Idle}]
  BY DEF ThreadsOK

\* The three ways a step hands over to what comes next keep the locals good.
LEMMA ReturnsTo ==
  ASSUME ThreadsOK, rc \in Codes, NEW t \in Threads, Busy(t), NEW code \in Codes,
         Returns(t, code)
  PROVE  ThreadsOK' /\ Ended(t) /\ rc' \in Codes
<1>1. th[t] \in Locals /\ LocalsOK(th[t]) /\ th[t].call \in AllCalls
  BY BusyIsGood
<1>2. CASE th[t].back # <<>>
  <2> DEFINE new == [th[t] EXCEPT !.todo = <<"saveback">>]
  <2>1. th' = [th EXCEPT ![t] = new] /\ rc' = rc
    BY <1>2 DEF Returns
  <2>2. th[t].call.op = "write"
    BY <1>1, <1>2 DEF LocalsOK
  <2>3. PlanOK("write", <<"saveback">>) /\ Head(<<"saveback">>) = "saveback"
    BY DEF PlanOK, StepsIn
  <2>4. <<"saveback">> \in Seq(AllSteps)
    BY <1>1, <2>2, <2>3, PlanIsSteps
  <2>5. new \in Locals
    BY <1>1, <2>4 DEF Locals
  <2>6. /\ new.call = th[t].call /\ new.todo = <<"saveback">> /\ new.back = th[t].back
        /\ new.left = th[t].left
    BY <1>1 DEF Locals
  <2>7. LocalsOK(new)
    BY <1>1, <1>2, <2>2, <2>3, <2>6 DEF LocalsOK
  <2>8. th' \in [Threads -> Good \cup {Idle}]
    BY <2>1, <2>5, <2>7, SetThread DEF Good
  <2>9. th' = [th EXCEPT ![t].todo = <<"saveback">>]
    BY <2>1
  <2> QED  BY <2>1, <2>2, <2>8, <2>9 DEF ThreadsOK, Ended, CallOf
<1>3. CASE th[t].back = <<>>
  <2>1. th' = [th EXCEPT ![t] = Idle] /\ rc' = code
    BY <1>3 DEF Returns, Reply
  <2>2. th' \in [Threads -> Good \cup {Idle}]
    BY <2>1, SetThread
  <2> QED  BY <2>1, <2>2 DEF ThreadsOK, Ended
<1> QED  BY <1>2, <1>3

\* GoesOn ends the handler or does the next step of its plan.
LEMMA GoesOnTo ==
  ASSUME ThreadsOK, rc \in Codes, NEW t \in Threads, Busy(t), NEW r \in Locals,
         r.todo = th[t].todo, r.call = th[t].call, r.back = th[t].back,
         r.left # {} => r.call.op = "unlink",
         GoesOn(t, r)
  PROVE  ThreadsOK' /\ (Ended(t) \/ On(t, r)) /\ rc' \in Codes
<1>1. th[t] \in Locals /\ LocalsOK(th[t]) /\ th[t].call \in AllCalls
  BY BusyIsGood
<1>2. CASE Len(r.todo) = 1
  <2>1. Returns(t, "OK")
    BY <1>2 DEF GoesOn
  <2> QED  BY <2>1, ReturnsTo DEF Codes
<1>3. CASE Len(r.todo) # 1
  <2> DEFINE new == [r EXCEPT !.todo = Tail(@)]
  <2>1. th' = [th EXCEPT ![t] = new] /\ rc' = rc
    BY <1>3 DEF GoesOn
  <2>2. PlanOK(r.call.op, r.todo)
    BY <1>1 DEF LocalsOK
  <2>3. /\ PlanOK(r.call.op, Tail(r.todo))
        /\ <<Head(r.todo), Head(Tail(r.todo))>> \in Follows(r.call.op)
    BY <1>3, <2>2, RestOfPlan
  <2>4. Tail(r.todo) \in Seq(AllSteps)
    BY <1>1, <2>3, PlanIsSteps
  <2>5. new \in Locals
    BY <2>4 DEF Locals
  <2>6. new.call = r.call /\ new.todo = Tail(r.todo) /\ new.back = r.back /\ new.left = r.left
    BY DEF Locals
  <2>7. Head(Tail(r.todo)) # "saveback"
    BY <1>1, <2>3, CallFields DEF Follows
  <2>8. LocalsOK(new)
    BY <1>1, <2>3, <2>6, <2>7 DEF LocalsOK
  <2>9. th' \in [Threads -> Good \cup {Idle}]
    BY <2>1, <2>5, <2>8, SetThread DEF Good
  <2> QED  BY <2>1, <2>3, <2>9 DEF ThreadsOK, On
<1> QED  BY <1>2, <1>3

\* Turns gives the handler another plan.
LEMMA TurnsTo ==
  ASSUME ThreadsOK, NEW t \in Threads, NEW r \in Locals, NEW steps,
         PlanOK(r.call.op, steps), Head(steps) # "saveback",
         r.back # <<>> => r.call.op = "write", r.left # {} => r.call.op = "unlink",
         Turns(t, r, steps)
  PROVE  ThreadsOK' /\ th' = [th EXCEPT ![t] = [r EXCEPT !.todo = steps]] /\ rc' = rc
<1> DEFINE new == [r EXCEPT !.todo = steps]
<1>1. r.call \in AllCalls
  BY DEF Locals
<1>2. steps \in Seq(AllSteps)
  BY <1>1, PlanIsSteps
<1>3. new \in Locals
  BY <1>2 DEF Locals
<1>4. new.call = r.call /\ new.todo = steps /\ new.back = r.back /\ new.left = r.left
  BY DEF Locals
<1>5. LocalsOK(new)
  BY <1>4 DEF LocalsOK
<1>6. [th EXCEPT ![t] = new] \in [Threads -> Good \cup {Idle}]
  BY <1>3, <1>5, SetThread DEF Good
<1> QED  BY <1>6 DEF ThreadsOK, Turns
-----------------------------------------------------------------------------
(***************************************************************************)
(* Every step moves its thread in one of these ways, and keeps the locals  *)
(* good.                                                                   *)
(***************************************************************************)

\* The thread goes on with its locals, but for the stat buffer.
Proceeds(t) == \E st \in Stat : On(t, [th[t] EXCEPT !.st = st])

\* Whose step a step is.
LEMMA OpOfStep ==
  ASSUME NEW c \in AllCalls, NEW step, step \in StepsIn(c.op)
  PROVE  /\ step \in {"open", "create", "enter"} => c.op = "mknod"
         /\ step \in {"aside", "fresh", "copy", "remove", "finish"} => c.op = "unlink"
         /\ step = "slot" => c.op = "link"
         /\ step = "rewrite" => c.op = "rename"
         /\ step = "saveback" => c.op = "write"
         /\ step = "data" => c.op \in {"read", "write"}
         /\ step = "scan" => c.op \notin {"mknod", "unlink"}
         /\ step = "load" => c.op \notin {"mknod", "rename", "getattr", "lookup"}
  BY CallFields DEF StepsIn

\* The thread that takes a step.
LEMMA StepOfThread ==
  ASSUME ThreadsOK, NEW t \in Threads, NEW step, At(t, step)
  PROVE  /\ Busy(t) /\ th[t] \in Locals /\ LocalsOK(th[t]) /\ CallOf(t) \in AllCalls
         /\ step \in StepsIn(CallOf(t).op) /\ Head(th[t].todo) = step
<1>1. Busy(t) /\ Head(th[t].todo) = step
  BY DEF At
<1>2. th[t] \in Locals /\ LocalsOK(th[t]) /\ CallOf(t) \in AllCalls
  BY <1>1, BusyIsGood DEF CallOf
<1>3. PlanOK(CallOf(t).op, th[t].todo)
  BY <1>2 DEF LocalsOK, CallOf
<1> QED  BY <1>1, <1>2, <1>3, RestOfPlan

\* A step whose thread goes on with its locals as they are.
LEMMA GoesOnAsIs ==
  ASSUME ThreadsOK, rc \in Codes, NEW t \in Threads, Busy(t), GoesOn(t, th[t])
  PROVE  ThreadsOK' /\ rc' \in Codes /\ (Ended(t) \/ Proceeds(t))
<1>1. th[t] \in Locals /\ LocalsOK(th[t])
  BY BusyIsGood
<1>2. ThreadsOK' /\ rc' \in Codes /\ (Ended(t) \/ On(t, th[t]))
  BY <1>1, GoesOnTo DEF LocalsOK
<1>3. th[t].st \in Stat /\ th[t] = [th[t] EXCEPT !.st = th[t].st]
  BY <1>1 DEF Locals
<1> QED  BY <1>2, <1>3 DEF Proceeds

ScanFinds(t) ==
  /\ dirFile /\ Found(CallOf(t).n)
  /\ On(t, [th[t] EXCEPT !.inum = Entry(CallOf(t).n).inum,
                         !.file = Entry(CallOf(t).n).storage])

\* A scan finds the record, or the handler ends.
LEMMA ScanMoves ==
  ASSUME TypeOK, ThreadsOK, NEW t \in Threads, Scan(t)
  PROVE  ThreadsOK' /\ rc' \in Codes /\ (Ended(t) \/ ScanFinds(t))
<1>0. At(t, "scan") /\ rc \in Codes
  BY DEF Scan, TypeOK
<1>1. Busy(t) /\ th[t] \in Locals /\ LocalsOK(th[t])
  BY <1>0, StepOfThread
<1>2. CASE \E code \in {"EIO", "ENOENT"} : Returns(t, code)
  <2>1. PICK code \in Codes : Returns(t, code)
    BY <1>2 DEF Codes
  <2> QED  BY <1>0, <1>1, <2>1, ReturnsTo
<1>3. CASE /\ dirFile /\ Found(CallOf(t).n)
           /\ GoesOn(t, [th[t] EXCEPT !.inum = Entry(CallOf(t).n).inum,
                                      !.file = Entry(CallOf(t).n).storage])
  <2> DEFINE e == Entry(CallOf(t).n)
             r == [th[t] EXCEPT !.inum = e.inum, !.file = e.storage]
  <2>1. e \in Dentry
    BY <1>3, FoundEntry DEF TypeOK
  <2>2. r \in Locals
    BY <1>1, <2>1 DEF Locals, Dentry
  <2>3. r.todo = th[t].todo /\ r.call = th[t].call /\ r.back = th[t].back
        /\ r.left = th[t].left
    BY <1>1 DEF Locals
  <2>4. r.left # {} => r.call.op = "unlink"
    BY <1>1, <2>3 DEF LocalsOK
  <2>5. GoesOn(t, r)
    BY <1>3
  <2> HIDE DEF r
  <2>6. ThreadsOK' /\ rc' \in Codes /\ (Ended(t) \/ On(t, r))
    BY <1>0, <1>1, <2>2, <2>3, <2>4, <2>5, GoesOnTo
  <2> QED  BY <1>3, <2>6 DEF ScanFinds, r
<1> QED  BY <1>2, <1>3 DEF Scan

\* What a handler writes back is a whole struct stat.
LEMMA ChangedType ==
  ASSUME NEW c \in AllCalls, "save" \in StepsIn(c.op), NEW st \in Stat, NEW now \in Nat
  PROVE  Changed(c, st, now) \in Stat
<1>1. now \in Nat
  OBVIOUS
<1>2. /\ (st.nlink + 1) % LinkMod \in 0 .. LinkMod - 1
      /\ (st.nlink - 1) % LinkMod \in 0 .. LinkMod - 1
  BY LinkModAssumption DEF Stat
<1>3. CASE c.op \in {"mknod", "chmod"}
  <2>1. c.mode \in SUBSET Perms
    BY <1>3, CallFields, ModesAssumption
  <2> QED  BY <1>1, <1>3, <2>1, LinkModAssumption DEF Changed, Stat, NewStat
<1>4. CASE c.op \in {"link", "unlink"}
  BY <1>2, <1>4 DEF Changed, Stat
<1>5. CASE c.op = "read"
  BY <1>1, <1>5 DEF Changed, Stat
<1>6. CASE c.op = "write"
  <2>1. c.off + c.len \in Nat
    BY <1>6, CallFields
  <2> QED  BY <1>1, <1>6, <2>1 DEF Changed, Stat
<1>7. CASE c.op \in {"truncate", "open"}
  <2>1. c.op = "truncate" => c.off \in Nat
    BY CallFields
  <2> QED  BY <1>7, <2>1 DEF Changed, Stat
<1>8. CASE c.op = "utimens"
  <2>1. c.at \in Nat /\ c.mt \in Nat
    BY <1>8, CallFields, TimesAssumption
  <2> QED  BY <1>8, <2>1 DEF Changed, Stat
<1>9. c.op \notin {"getattr", "lookup", "rename"}
  BY DEF StepsIn
<1> QED  BY <1>3, <1>4, <1>5, <1>6, <1>7, <1>8, <1>9, CallFields

\* safs_ftruncate calls safs_write, for the same name and from its start.
Extends(t) ==
  \E r \in Locals :
    /\ CallOf(t).op = "truncate" /\ th' = [th EXCEPT ![t] = r]
    /\ r.call.op = "write" /\ r.call.n = CallOf(t).n /\ Head(r.todo) = "scan"
    /\ r.inum = th[t].inum /\ r.left = th[t].left

\* After read_inode the handler ends, goes on, or safs_ftruncate calls safs_write.
LEMMA LoadMoves ==
  ASSUME TypeOK, ThreadsOK, NEW t \in Threads, Load(t)
  PROVE  ThreadsOK' /\ rc' \in Codes /\ (Ended(t) \/ Proceeds(t) \/ Extends(t))
<1>0. At(t, "load") /\ rc \in Codes
  BY DEF Load, TypeOK
<1>1. Busy(t) /\ th[t] \in Locals /\ LocalsOK(th[t]) /\ CallOf(t) \in AllCalls
  BY <1>0, StepOfThread
<1> DEFINE c == CallOf(t)
           st == ReadInode(th[t].inum)
           r == [th[t] EXCEPT !.st = st]
<1>2. st \in Stat
  BY <1>1, ReadInodeType DEF TypeOK, Locals
<1> HIDE DEF st
<1>3. /\ r \in Locals /\ r.todo = th[t].todo /\ r.call = c /\ r.back = th[t].back
      /\ r.left = th[t].left /\ r.inum = th[t].inum
  BY <1>1, <1>2 DEF Locals, CallOf
<1>4. CASE Returns(t, "EPERM") \/ Returns(t, "OK")
  BY <1>0, <1>1, <1>4, ReturnsTo DEF Codes
<1>5. CASE GoesOn(t, r)
  <2>1. r.left # {} => r.call.op = "unlink"
    BY <1>1, <1>3 DEF LocalsOK, CallOf
  <2>2. ThreadsOK' /\ rc' \in Codes /\ (Ended(t) \/ On(t, r))
    BY <1>0, <1>1, <1>3, <1>5, <2>1, GoesOnTo DEF CallOf
  <2> QED  BY <1>2, <2>2 DEF Proceeds
<1>6. CASE /\ c.op = "truncate"
           /\ Turns(t, [r EXCEPT !.call = Extension(c.n, c.off),
                                 !.back = <<[inum |-> r.inum, st |-> Changed(c, st, 0)]>>],
                    StepsOf("write"))
  <2> DEFINE b == [inum |-> r.inum, st |-> Changed(c, st, 0)]
             q == [r EXCEPT !.call = Extension(c.n, c.off), !.back = <<b>>]
             new == [q EXCEPT !.todo = StepsOf("write")]
  <2>1. "save" \in StepsIn(c.op)
    BY <1>6 DEF StepsIn
  <2>2. Changed(c, st, 0) \in Stat
    BY <1>1, <1>2, <2>1, ChangedType
  <2>3. b \in [inum : Nat, st : Stat]
    BY <1>3, <2>2 DEF Locals
  <2> HIDE DEF b
  <2>4. <<b>> \in Seq([inum : Nat, st : Stat])
    BY <2>3
  <2>5. Extension(c.n, c.off) \in AllCalls
    BY <1>1, <1>6, CallFields
  <2> HIDE DEF r
  <2>6. q \in Locals
    BY <1>3, <2>4, <2>5 DEF Locals
  <2>7. /\ q.call = Extension(c.n, c.off) /\ q.left = th[t].left
        /\ q.inum = th[t].inum
    BY <1>3 DEF Locals
  <2>8. q.call.op = "write" /\ q.call.n = c.n
    BY <2>7 DEF Extension
  <2>9. th[t].left = {}
    BY <1>1, <1>6 DEF LocalsOK, CallOf
  <2>10. PlanOK("write", StepsOf("write")) /\ StepsOf("write")[1] = "scan"
    BY PlansOfHandlers
  <2>11. Head(StepsOf("write")) = "scan"
    BY <2>10, RestOfPlan
  <2>12. Turns(t, q, StepsOf("write"))
    BY <1>6 DEF b, r
  <2> HIDE DEF q
  <2>13. ThreadsOK' /\ th' = [th EXCEPT ![t] = [q EXCEPT !.todo = StepsOf("write")]] /\ rc' = rc
    BY <2>6, <2>7, <2>8, <2>9, <2>10, <2>11, <2>12, TurnsTo
  <2>14. new \in Locals
    BY <1>1, <2>6, <2>8, <2>10, PlanIsSteps DEF Locals
  <2>15. /\ new.call = q.call /\ new.todo = StepsOf("write") /\ new.inum = q.inum
         /\ new.left = q.left
    BY <2>6 DEF Locals
  <2>16. Extends(t)
    BY <1>6, <2>7, <2>8, <2>11, <2>13, <2>14, <2>15 DEF Extends
  <2> QED  BY <1>0, <2>13, <2>16
<1>7. Returns(t, "EPERM") \/ Returns(t, "OK") \/ GoesOn(t, r)
      \/ /\ c.op = "truncate"
         /\ Turns(t, [r EXCEPT !.call = Extension(c.n, c.off),
                               !.back = <<[inum |-> r.inum, st |-> Changed(c, st, 0)]>>],
                  StepsOf("write"))
  BY DEF Load, st
<1> QED  BY <1>4, <1>5, <1>6, <1>7

\* After write_inode the handler ends or goes on.
LEMMA SaveMoves ==
  ASSUME TypeOK, ThreadsOK, NEW t \in Threads, Save(t)
  PROVE  ThreadsOK' /\ rc' \in Codes /\ (Ended(t) \/ Proceeds(t))
<1>0. At(t, "save") /\ rc \in Codes /\ GoesOn(t, [th[t] EXCEPT !.st = ZeroStat])
  BY DEF Save, TypeOK
<1>1. Busy(t) /\ th[t] \in Locals /\ LocalsOK(th[t])
  BY <1>0, StepOfThread
<1>2. ZeroStat \in Stat
  BY LinkModAssumption DEF ZeroStat, Stat
<1> DEFINE r == [th[t] EXCEPT !.st = ZeroStat]
<1>3. /\ r \in Locals /\ r.todo = th[t].todo /\ r.call = th[t].call /\ r.back = th[t].back
      /\ r.left = th[t].left
  BY <1>1, <1>2 DEF Locals
<1>4. r.left # {} => r.call.op = "unlink"
  BY <1>1, <1>3 DEF LocalsOK
<1>5. ThreadsOK' /\ rc' \in Codes /\ (Ended(t) \/ On(t, r))
  BY <1>0, <1>1, <1>3, <1>4, GoesOnTo
<1> QED  BY <1>2, <1>5 DEF Proceeds

\* The last step of safs_ftruncate is its end.
LEMMA SaveBackMoves ==
  ASSUME TypeOK, ThreadsOK, NEW t \in Threads, SaveBack(t)
  PROVE  ThreadsOK' /\ rc' \in Codes /\ Ended(t)
<1>1. th' = [th EXCEPT ![t] = Idle] /\ rc' = "OK"
  BY DEF SaveBack, Reply
<1> QED  BY <1>1, SetThread DEF ThreadsOK, Ended, Codes

\* strcpy and strcat are followed by the next step of the plan.
LEMMA PathMoves ==
  ASSUME TypeOK, ThreadsOK, NEW t \in Threads, Path(t) \/ Cat(t)
  PROVE  ThreadsOK' /\ rc' \in Codes /\ (Ended(t) \/ Proceeds(t))
  BY GoesOnAsIs DEF Path, Cat, At, TypeOK

\* The use of the data file ends safs_read and safs_write.
LEMMA DataMoves ==
  ASSUME TypeOK, ThreadsOK, NEW t \in Threads, Data(t)
  PROVE  ThreadsOK' /\ rc' \in Codes /\ Ended(t)
<1>1. PICK code \in Codes : Returns(t, code)
  BY DEF Data, Codes
<1> QED  BY <1>1, ReturnsTo DEF Data, At, TypeOK

\* The thread goes on with its locals, and with another number or other slots.
Recalls(t, inum) == On(t, [th[t] EXCEPT !.inum = inum])

\* A handler that goes on with another number has its types.
LEMMA RecallsType ==
  ASSUME ThreadsOK, rc \in Codes, NEW t \in Threads, Busy(t), NEW inum \in Nat,
         GoesOn(t, [th[t] EXCEPT !.inum = inum])
  PROVE  ThreadsOK' /\ rc' \in Codes /\ (Ended(t) \/ Recalls(t, inum))
<1>1. th[t] \in Locals /\ LocalsOK(th[t])
  BY BusyIsGood
<1> DEFINE r == [th[t] EXCEPT !.inum = inum]
<1>2. /\ r \in Locals /\ r.todo = th[t].todo /\ r.call = th[t].call /\ r.back = th[t].back
      /\ r.left = th[t].left
  BY <1>1 DEF Locals
<1>3. r.left # {} => r.call.op = "unlink"
  BY <1>1, <1>2 DEF LocalsOK
<1>4. ThreadsOK' /\ rc' \in Codes /\ (Ended(t) \/ On(t, r))
  BY <1>2, <1>3, GoesOnTo
<1> QED  BY <1>4 DEF Recalls

\* safs_mknod goes on with the number the next file gets.
LEMMA OpenDirectoryMoves ==
  ASSUME TypeOK, ThreadsOK, NEW t \in Threads, OpenDirectory(t)
  PROVE  ThreadsOK' /\ rc' \in Codes /\ (Ended(t) \/ Recalls(t, inode_number))
<1>1. Busy(t) /\ rc \in Codes /\ inode_number \in Nat
  BY DEF OpenDirectory, At, TypeOK
<1>2. CASE Returns(t, "EIO")
  BY <1>1, <1>2, ReturnsTo DEF Codes
<1>3. CASE GoesOn(t, [th[t] EXCEPT !.inum = inode_number])
  BY <1>1, <1>3, RecallsType
<1> QED  BY <1>2, <1>3 DEF OpenDirectory

\* safs_mknod ends or goes on, by the outcome of open(filePath).
LEMMA CreateDataMoves ==
  ASSUME TypeOK, ThreadsOK, NEW t \in Threads, CreateData(t)
  PROVE  ThreadsOK' /\ rc' \in Codes /\ (Ended(t) \/ Proceeds(t))
<1>1. Busy(t) /\ rc \in Codes
  BY DEF CreateData, At, TypeOK
<1>2. CASE Returns(t, "EIO")
  BY <1>1, <1>2, ReturnsTo DEF Codes
<1>3. CASE GoesOn(t, th[t])
  BY <1>1, <1>3, GoesOnAsIs
<1> QED  BY <1>2, <1>3 DEF CreateData

\* The new record ends safs_mknod, the new name in it safs_rename, and the
\* removal of .Directory~ safs_unlink.
LEMMA EnterMoves ==
  ASSUME TypeOK, ThreadsOK, NEW t \in Threads, Enter(t) \/ Rewrite(t) \/ Finish(t)
  PROVE  ThreadsOK' /\ rc' \in Codes /\ (Ended(t) \/ Proceeds(t))
  BY GoesOnAsIs DEF Enter, Rewrite, Finish, At, TypeOK

\* The number safs_link's search leaves behind is one.
LEMMA InumLastReadType ==
  ASSUME IsDirectory(directory), NEW n, Found(n)
  PROVE  FreeSlot(directory) \in Nat /\ InumLastRead(directory) \in Nat
<1>1. DOMAIN directory # {}
  BY FoundEntry
<1>2. /\ FreeSlot(directory) \in Nat /\ EndOfFile(directory) \in Nat
      /\ EndOfFile(directory) - 1 \in DOMAIN directory
  BY <1>1, FreeSlotType DEF IsDirectory
<1> QED  BY <1>2 DEF InumLastRead, IsDirectory, Dentry

\* safs_link goes on with the number its second loop read last.
LEMMA LinkRecordMoves ==
  ASSUME TypeOK, ThreadsOK, StillFound, NEW t \in Threads, LinkRecord(t)
  PROVE  ThreadsOK' /\ rc' \in Codes /\ (Ended(t) \/ Recalls(t, InumLastRead(directory)))
<1>1. At(t, "slot") /\ Busy(t) /\ rc \in Codes
      /\ GoesOn(t, [th[t] EXCEPT !.inum = InumLastRead(directory)])
  BY DEF LinkRecord, At, TypeOK
<1>2. InumLastRead(directory) \in Nat
  BY <1>1, InumLastReadType DEF StillFound, TypeOK
<1> QED  BY <1>1, <1>2, RecallsType

\* safs_unlink ends or goes on, by the outcome of its first rename.
LEMMA AsideMoves ==
  ASSUME TypeOK, ThreadsOK, NEW t \in Threads, Aside(t)
  PROVE  ThreadsOK' /\ rc' \in Codes /\ (Ended(t) \/ Proceeds(t))
<1>1. Busy(t) /\ rc \in Codes
  BY DEF Aside, At, TypeOK
<1>2. CASE Returns(t, "ENOENT")
  BY <1>1, <1>2, ReturnsTo DEF Codes
<1>3. CASE GoesOn(t, th[t])
  BY <1>1, <1>3, GoesOnAsIs
<1> QED  BY <1>2, <1>3 DEF Aside

\* It ends, or goes on with every slot of .Directory~ before it.
LEMMA FreshMoves ==
  ASSUME TypeOK, ThreadsOK, IsDirectory(aside), NEW t \in Threads, Fresh(t)
  PROVE  /\ ThreadsOK' /\ rc' \in Codes
         /\ Ended(t) \/ (CanMakeDirectory /\ On(t, [th[t] EXCEPT !.left = DOMAIN aside]))
<1>0. At(t, "fresh") /\ rc \in Codes
  BY DEF Fresh, TypeOK
<1>1. /\ Busy(t) /\ th[t] \in Locals /\ LocalsOK(th[t]) /\ CallOf(t) \in AllCalls
      /\ "fresh" \in StepsIn(CallOf(t).op)
  BY <1>0, StepOfThread
<1>2. CASE Returns(t, "EMFILE")
  BY <1>0, <1>1, <1>2, ReturnsTo DEF Codes
<1>3. CASE CanMakeDirectory /\ GoesOn(t, [th[t] EXCEPT !.left = DOMAIN aside])
  <2> DEFINE r == [th[t] EXCEPT !.left = DOMAIN aside]
  <2>1. /\ r \in Locals /\ r.todo = th[t].todo /\ r.call = th[t].call /\ r.back = th[t].back
    BY <1>1 DEF Locals, IsDirectory
  <2>2. r.call.op = "unlink"
    BY <1>1, <2>1, OpOfStep DEF CallOf
  <2>3. ThreadsOK' /\ rc' \in Codes /\ (Ended(t) \/ On(t, r))
    BY <1>0, <1>1, <1>3, <2>1, <2>2, GoesOnTo
  <2> QED  BY <1>3, <2>3
<1> QED  BY <1>2, <1>3 DEF Fresh

\* One turn of the loop of safs_unlink: over, a record copied, or one of the
\* name met.
CopiesOne(t) ==
  LET s == Min(th[t].left)
  IN  /\ th[t].left # {} /\ aside[s].name # CallOf(t).n
      /\ directory' = Put(directory, th[t].slot, aside[s])
      /\ th' = [th EXCEPT ![t] = [th[t] EXCEPT !.left = @ \ {s}, !.slot = @ + 1]]

MeetsOne(t) ==
  LET s == Min(th[t].left)
  IN  /\ th[t].left # {} /\ aside[s].name = CallOf(t).n /\ UNCHANGED directory
      /\ \E todo : /\ Head(todo) = "load"
                   /\ th' = [th EXCEPT ![t] = [th[t] EXCEPT !.left = @ \ {s},
                                             !.inum = aside[s].inum, !.todo = todo]]

\* A turn of its loop copies one record, or meets one it will remove, or there
\* are none left.
LEMMA CopyMoves ==
  ASSUME TypeOK, ThreadsOK, IsDirectory(aside), LeftInAside, NEW t \in Threads, Copy(t)
  PROVE  /\ ThreadsOK' /\ rc' \in Codes
         /\ \/ th[t].left = {} /\ UNCHANGED directory /\ (Ended(t) \/ Proceeds(t))
            \/ CopiesOne(t) \/ MeetsOne(t)
<1>0. At(t, "copy") /\ rc \in Codes
  BY DEF Copy, TypeOK
<1>1. /\ Busy(t) /\ th[t] \in Locals /\ LocalsOK(th[t]) /\ CallOf(t) \in AllCalls
      /\ "copy" \in StepsIn(CallOf(t).op) /\ Head(th[t].todo) = "copy"
  BY <1>0, StepOfThread
<1>2. CallOf(t).op = "unlink" /\ th[t].call = CallOf(t)
  BY <1>1, OpOfStep DEF CallOf
<1>3. th[t].back = <<>> /\ PlanOK("unlink", th[t].todo)
  BY <1>1, <1>2 DEF LocalsOK
<1>4. th[t].left \in SUBSET Nat /\ th[t].left \subseteq DOMAIN aside
  <2>1. th[t].left \in SUBSET Nat  BY <1>1 DEF Locals
  <2>2. th[t].left \subseteq DOMAIN aside  BY <1>1 DEF LeftInAside
  <2> QED  BY <2>1, <2>2
<1>5. th[t].left # {} => Min(th[t].left) \in th[t].left
  BY <1>4, MinOfNaturals
<1> DEFINE s == Min(th[t].left)
<1>6. CASE th[t].left = {}
  BY <1>0, <1>1, <1>6, GoesOnAsIs DEF Copy
<1>7. CASE /\ th[t].left # {} /\ aside[s].name # CallOf(t).n
           /\ directory' = Put(directory, th[t].slot, aside[s])
           /\ Turns(t, [th[t] EXCEPT !.left = @ \ {s}, !.slot = @ + 1], th[t].todo)
  <2> DEFINE r == [th[t] EXCEPT !.left = @ \ {s}, !.slot = @ + 1]
  <2>0. th[t].left \ {s} \in SUBSET Nat /\ th[t].slot + 1 \in Nat
    BY <1>1, <1>4 DEF Locals
  <2>1. r \in Locals /\ r.call = CallOf(t) /\ r.back = <<>> /\ r.todo = th[t].todo
    <3> HIDE DEF s
    <3> QED  BY <1>1, <1>2, <1>3, <2>0 DEF Locals
  <2>2. ThreadsOK' /\ th' = [th EXCEPT ![t] = [r EXCEPT !.todo = th[t].todo]] /\ rc' = rc
    BY <1>1, <1>2, <1>3, <1>7, <2>1, TurnsTo
  <2>3. [r EXCEPT !.todo = th[t].todo] = r
    BY <2>1 DEF Locals
  <2>4. CopiesOne(t)
    BY <1>7, <2>2, <2>3 DEF CopiesOne
  <2> QED  BY <1>0, <2>2, <2>4
<1>8. CASE /\ th[t].left # {} /\ aside[s].name = CallOf(t).n
           /\ Turns(t, [th[t] EXCEPT !.left = @ \ {s}, !.inum = aside[s].inum],
                    RemovalThen(th[t].todo))
           /\ UNCHANGED directory
  <2> DEFINE r == [th[t] EXCEPT !.left = @ \ {s}, !.inum = aside[s].inum]
             todo == RemovalThen(th[t].todo)
  <2>1. aside[s].inum \in Nat
    BY <1>4, <1>5, <1>8 DEF IsDirectory, Dentry
  <2>2. r \in Locals /\ r.call = CallOf(t) /\ r.back = <<>>
    BY <1>1, <1>2, <1>3, <2>1 DEF Locals
  <2>3. PlanOK("unlink", todo) /\ todo[1] = "load"
    <3>1. th[t].todo[1] = "copy"
      BY <1>1, <1>3, RestOfPlan
    <3>2. <<"remove", "copy">> \in Follows("unlink")
      BY DEF Follows
    <3>3. /\ PlanOK("unlink", RemoveSteps) /\ RemoveSteps[1] = "load"
          /\ <<RemoveSteps[Len(RemoveSteps)], th[t].todo[1]>> \in Follows("unlink")
      BY <3>1, <3>2, PlansOfHandlers
    <3>4. /\ PlanOK("unlink", RemoveSteps \o th[t].todo)
          /\ (RemoveSteps \o th[t].todo)[1] = RemoveSteps[1]
      BY <1>3, <3>3, PlansInARow
    <3> QED  BY <3>3, <3>4 DEF RemovalThen
  <2>4. Head(todo) = "load"
    BY <2>3, RestOfPlan
  <2> HIDE DEF todo
  <2>5. ThreadsOK' /\ th' = [th EXCEPT ![t] = [r EXCEPT !.todo = todo]] /\ rc' = rc
    BY <1>2, <1>8, <2>2, <2>3, <2>4, TurnsTo DEF todo
  <2>6. MeetsOne(t)
    BY <1>8, <2>4, <2>5 DEF MeetsOne
  <2> QED  BY <1>0, <2>5, <2>6
<1> QED  BY <1>6, <1>7, <1>8, <1>2 DEF Copy

\* It ends or goes on, by the outcome of unlink(filePath).
LEMMA RemoveMoves ==
  ASSUME TypeOK, ThreadsOK, NEW t \in Threads, Remove(t)
  PROVE  ThreadsOK' /\ rc' \in Codes /\ (Ended(t) \/ Proceeds(t))
<1>1. Busy(t) /\ rc \in Codes
  BY DEF Remove, At, TypeOK
<1>2. CASE Returns(t, "ENOENT")
  BY <1>1, <1>2, ReturnsTo DEF Codes
<1>3. CASE GoesOn(t, th[t])
  BY <1>1, <1>3, GoesOnAsIs
<1> QED  BY <1>2, <1>3 DEF Remove, RemoveFails

\* A request comes in, and its handler starts from the top.
Starts(t, c) ==
  /\ th' = [th EXCEPT ![t] = NoLocals(c, StepsOf(c.op))]
  /\ NoLocals(c, StepsOf(c.op)) \in Locals
  /\ Head(StepsOf(c.op)) = IF c.op = "mknod" THEN "open"
                           ELSE IF c.op = "unlink" THEN "aside" ELSE "scan"

\* The plan of every call is one.
LEMMA BeginMoves ==
  ASSUME ThreadsOK, NEW t \in Threads, NEW c \in Calls, Begin(t, c)
  PROVE  ThreadsOK' /\ Starts(t, c)
<1>0. c \in AllCalls
  BY DEF AllCalls
<1> DEFINE steps == StepsOf(c.op)
<1>1. PlanOK(c.op, steps) /\ steps[1] = (IF c.op = "mknod" THEN "open"
                           ELSE IF c.op = "unlink" THEN "aside" ELSE "scan")
  <2>1. CASE c.op = "mknod"
    BY <2>1, PlansOfHandlers DEF StepsOf
  <2>2. CASE c.op = "unlink"
    BY <2>2, PlansOfHandlers DEF StepsOf
  <2>3. CASE c.op \notin {"mknod", "unlink"}
    BY <1>0, <2>3, PlansOfHandlers, CallFields
  <2> QED  BY <2>1, <2>2, <2>3
<1>2. Head(steps) = steps[1] /\ steps \in Seq(AllSteps)
  BY <1>0, <1>1, RestOfPlan, PlanIsSteps
<1> HIDE DEF steps
<1> DEFINE r == NoLocals(c, steps)
<1>3. /\ r \in Locals /\ r.call = c /\ r.todo = steps /\ r.back = <<>> /\ r.left = {}
  <2>1. ZeroStat \in Stat /\ c.n \in Names /\ FirstNewSlot \in Nat
    BY <1>0, LinkModAssumption, CallFields DEF ZeroStat, Stat, FirstNewSlot
  <2>2. <<>> \in Seq([inum : Nat, st : Stat])
    OBVIOUS
  <2> QED  BY <1>0, <1>2, <2>1, <2>2 DEF Locals, NoLocals
<1>4. Head(steps) # "saveback"
  BY <1>1, <1>2
<1>5. LocalsOK(r)
  BY <1>1, <1>3, <1>4 DEF LocalsOK
<1>6. th' = [th EXCEPT ![t] = r]
  BY DEF Begin, steps
<1>7. ThreadsOK'
  BY <1>3, <1>5, <1>6, SetThread DEF Good, ThreadsOK
<1> QED  BY <1>1, <1>2, <1>3, <1>6, <1>7 DEF Starts, steps
-----------------------------------------------------------------------------
(***************************************************************************)
(* What every step of a thread has in common.                              *)
(***************************************************************************)

\* The step k comes after h: by the plan; in safs_ftruncate, at the end of the
\* safs_write it called; in the loop of safs_unlink.
Leads(op, h, k) ==
  \/ <<h, k>> \in Follows(op)
  \/ op = "write" /\ k = "saveback"
  \/ op = "unlink" /\ h = "copy" /\ k \in {"copy", "load"}

Motion(t) ==
  /\ \A u \in Threads \ {t} : th'[u] = th[u]
  /\ th'[t].todo # <<>> =>
       \/ /\ th'[t].call = th[t].call
          /\ Leads(th[t].call.op, Head(th[t].todo), Head(th'[t].todo))
       \/ /\ th[t].call.op = "truncate" /\ th'[t].call.op = "write"
          /\ th'[t].call.n = th[t].call.n /\ Head(th'[t].todo) = "scan"

\* What a thread that went on, or ended, has now.
Keeps(t, inum, left, slot) ==
  th'[t].todo # <<>> =>
    \/ /\ <<Head(th[t].todo), Head(th'[t].todo)>> \in Follows(th[t].call.op)
       /\ th'[t].inum = inum /\ th'[t].left = left /\ th'[t].slot = slot
    \/ /\ th[t].call.op = "write" /\ Head(th'[t].todo) = "saveback"
       /\ th'[t].inum = th[t].inum /\ th'[t].left = th[t].left

\* What a thread has after it ended or went on with the locals r.
LEMMA OnKeeps ==
  ASSUME ThreadsOK, NEW t \in Threads, Busy(t), NEW r \in Locals,
         r.call = th[t].call, r.todo = th[t].todo, Ended(t) \/ On(t, r)
  PROVE  Motion(t) /\ Keeps(t, r.inum, r.left, r.slot)
<1>1. th[t] \in Locals /\ LocalsOK(th[t])
  BY BusyIsGood
<1>2. CASE th' = [th EXCEPT ![t] = Idle]
  BY <1>2 DEF Motion, Keeps, ThreadsOK, Idle
<1>3. CASE CallOf(t).op = "write" /\ th' = [th EXCEPT ![t].todo = <<"saveback">>]
  <2> DEFINE new == [th[t] EXCEPT !.todo = <<"saveback">>]
  <2>1. th'[t] = new /\ \A u \in Threads \ {t} : th'[u] = th[u]
    BY <1>3 DEF ThreadsOK
  <2>2. new.call = th[t].call /\ new.todo = <<"saveback">> /\ new.inum = th[t].inum
        /\ new.left = th[t].left
    BY <1>1 DEF Locals
  <2>3. Head(<<"saveback">>) = "saveback"
    OBVIOUS
  <2> HIDE DEF new
  <2> QED  BY <1>3, <2>1, <2>2, <2>3 DEF Motion, Keeps, Leads, CallOf
<1>4. CASE On(t, r)
  <2> DEFINE new == [r EXCEPT !.todo = Tail(@)]
  <2>1. th'[t] = new /\ \A u \in Threads \ {t} : th'[u] = th[u]
    BY <1>4 DEF ThreadsOK, On
  <2>2. /\ new.call = th[t].call /\ new.todo = Tail(r.todo) /\ new.inum = r.inum
        /\ new.left = r.left /\ new.slot = r.slot
    BY DEF Locals
  <2>3. <<Head(th[t].todo), Head(new.todo)>> \in Follows(th[t].call.op)
    BY <1>4, <2>2 DEF On
  <2> HIDE DEF new
  <2> QED  BY <2>1, <2>2, <2>3 DEF Motion, Keeps, Leads
<1> QED  BY <1>2, <1>3, <1>4 DEF Ended

\* A thread that went on as it was keeps number, slots left and slot.
LEMMA ProceedsKeeps ==
  ASSUME ThreadsOK, NEW t \in Threads, Busy(t), Ended(t) \/ Proceeds(t)
  PROVE  Motion(t) /\ Keeps(t, th[t].inum, th[t].left, th[t].slot)
<1>1. th[t] \in Locals
  BY BusyIsGood
<1>2. PICK st \in Stat : Ended(t) \/ On(t, [th[t] EXCEPT !.st = st])
  <2>1. ZeroStat \in Stat
    BY LinkModAssumption DEF ZeroStat, Stat
  <2> QED  BY <2>1 DEF Proceeds
<1> DEFINE r == [th[t] EXCEPT !.st = st]
<1>3. /\ r \in Locals /\ r.call = th[t].call /\ r.todo = th[t].todo
      /\ r.inum = th[t].inum /\ r.left = th[t].left /\ r.slot = th[t].slot
  BY <1>1 DEF Locals
<1> HIDE DEF r
<1>4. Motion(t) /\ Keeps(t, r.inum, r.left, r.slot)
  BY <1>2, <1>3, OnKeeps DEF r
<1> QED  BY <1>3, <1>4

\* One that went on with another number keeps the rest.
LEMMA RecallsKeeps ==
  ASSUME ThreadsOK, NEW t \in Threads, Busy(t), NEW inum \in Nat, Ended(t) \/ Recalls(t, inum)
  PROVE  Motion(t) /\ Keeps(t, inum, th[t].left, th[t].slot)
<1>1. th[t] \in Locals
  BY BusyIsGood
<1> DEFINE r == [th[t] EXCEPT !.inum = inum]
<1>3. /\ r \in Locals /\ r.call = th[t].call /\ r.todo = th[t].todo
      /\ r.inum = inum /\ r.left = th[t].left /\ r.slot = th[t].slot
  BY <1>1 DEF Locals
<1>4. Ended(t) \/ On(t, r)
  BY DEF Recalls
<1> HIDE DEF r
<1>5. Motion(t) /\ Keeps(t, r.inum, r.left, r.slot)
  BY <1>3, <1>4, OnKeeps
<1> QED  BY <1>3, <1>5

\* After a scan the number is that of the record found, or the one before.
LEMMA ScanKeeps ==
  ASSUME TypeOK, ThreadsOK, NEW t \in Threads, Busy(t), Ended(t) \/ ScanFinds(t)
  PROVE  /\ Motion(t)
         /\ \/ dirFile /\ Found(CallOf(t).n)
               /\ Keeps(t, Entry(CallOf(t).n).inum, th[t].left, th[t].slot)
            \/ Keeps(t, th[t].inum, th[t].left, th[t].slot)
<1>1. th[t] \in Locals
  BY BusyIsGood
<1>2. CASE Ended(t)
  BY <1>2, ProceedsKeeps
<1>3. CASE ScanFinds(t)
  <2> DEFINE e == Entry(CallOf(t).n)
             r == [th[t] EXCEPT !.inum = e.inum, !.file = e.storage]
  <2>1. e \in Dentry
    BY <1>3, FoundEntry DEF TypeOK, ScanFinds
  <2>2. /\ r \in Locals /\ r.call = th[t].call /\ r.todo = th[t].todo
        /\ r.inum = e.inum /\ r.left = th[t].left /\ r.slot = th[t].slot
    BY <1>1, <2>1 DEF Locals, Dentry
  <2>3. On(t, r)
    BY <1>3 DEF ScanFinds
  <2> HIDE DEF r
  <2>4. Motion(t) /\ Keeps(t, r.inum, r.left, r.slot)
    BY <2>2, <2>3, OnKeeps
  <2> QED  BY <1>3, <2>2, <2>4 DEF ScanFinds
<1> QED  BY <1>2, <1>3

\* After the open of a new Directory~ every slot of .Directory~ is left.
LEMMA FreshKeeps ==
  ASSUME ThreadsOK, IsDirectory(aside), NEW t \in Threads, Busy(t),
         Ended(t) \/ On(t, [th[t] EXCEPT !.left = DOMAIN aside])
  PROVE  Motion(t) /\ Keeps(t, th[t].inum, DOMAIN aside, th[t].slot)
<1>1. th[t] \in Locals
  BY BusyIsGood
<1> DEFINE r == [th[t] EXCEPT !.left = DOMAIN aside]
<1>3. /\ r \in Locals /\ r.call = th[t].call /\ r.todo = th[t].todo
      /\ r.inum = th[t].inum /\ r.left = DOMAIN aside /\ r.slot = th[t].slot
  BY <1>1 DEF Locals, IsDirectory
<1> HIDE DEF r
<1>4. Motion(t) /\ Keeps(t, r.inum, r.left, r.slot)
  BY <1>3, OnKeeps DEF r
<1> QED  BY <1>3, <1>4

\* A turn of the loop of safs_unlink, and the call of safs_write.
LEMMA TurnKeeps ==
  ASSUME ThreadsOK, NEW t \in Threads, At(t, "copy"), CopiesOne(t) \/ MeetsOne(t)
  PROVE  /\ Motion(t) /\ th'[t].left \subseteq th[t].left /\ CallOf(t).op = "unlink"
         /\ th'[t].call = th[t].call /\ th'[t].left = th[t].left \ {Min(th[t].left)}
<1>1. th[t] \in Locals /\ Head(th[t].todo) = "copy" /\ th[t].call.op = "unlink"
  BY StepOfThread, OpOfStep DEF CallOf
<1> DEFINE s == Min(th[t].left)
<1> HIDE DEF s
<1>2. CASE CopiesOne(t)
  <2> DEFINE new == [th[t] EXCEPT !.left = @ \ {s}, !.slot = @ + 1]
  <2>1. th'[t] = new /\ \A u \in Threads \ {t} : th'[u] = th[u]
    BY <1>2 DEF CopiesOne, ThreadsOK, s
  <2>2. /\ new.call = th[t].call /\ new.todo = th[t].todo /\ new.left = th[t].left \ {s}
    BY <1>1 DEF Locals
  <2> HIDE DEF new
  <2> QED  BY <1>1, <2>1, <2>2 DEF Motion, Leads, CallOf, s
<1>3. CASE MeetsOne(t)
  <2>0. PICK todo : /\ Head(todo) = "load"
                    /\ th' = [th EXCEPT ![t] = [th[t] EXCEPT !.left = @ \ {s},
                                             !.inum = aside[s].inum, !.todo = todo]]
    BY <1>3 DEF MeetsOne, s
  <2> DEFINE new == [th[t] EXCEPT !.left = @ \ {s}, !.inum = aside[s].inum, !.todo = todo]
  <2>1. th'[t] = new /\ \A u \in Threads \ {t} : th'[u] = th[u]
    BY <2>0 DEF ThreadsOK
  <2>2. /\ new.call = th[t].call /\ new.todo = todo /\ new.left = th[t].left \ {s}
    BY <1>1 DEF Locals
  <2> HIDE DEF new
  <2> QED  BY <1>1, <2>0, <2>1, <2>2 DEF Motion, Leads, CallOf, s
<1> QED  BY <1>2, <1>3

\* safs_write inside safs_ftruncate starts with the locals of that.
LEMMA ExtendsKeeps ==
  ASSUME ThreadsOK, NEW t \in Threads, Extends(t)
  PROVE  Motion(t) /\ th'[t].inum = th[t].inum /\ th'[t].left = th[t].left
<1>1. PICK r \in Locals :
        /\ CallOf(t).op = "truncate" /\ th' = [th EXCEPT ![t] = r]
        /\ r.call.op = "write" /\ r.call.n = CallOf(t).n /\ Head(r.todo) = "scan"
        /\ r.inum = th[t].inum /\ r.left = th[t].left
  BY DEF Extends
<1>2. th'[t] = r /\ \A u \in Threads \ {t} : th'[u] = th[u]
  BY <1>1 DEF ThreadsOK
<1> QED  BY <1>1, <1>2 DEF Motion, CallOf

\* What every step does to its thread.
Shrinks(t) ==
  th'[t].todo # <<>> => \/ th'[t].left \subseteq th[t].left
                        \/ At(t, "fresh") /\ th'[t].left = DOMAIN aside

\* All of it, for every step.
LEMMA StepMoves ==
  ASSUME TypeOK, IsDirectory(aside), ThreadsOK, LeftInAside, StillFound,
         NEW t \in Threads, Step(t)
  PROVE  ThreadsOK' /\ rc' \in Codes /\ Motion(t) /\ Shrinks(t) /\ Busy(t)
<1>0. Busy(t)
  BY DEF Step, At, Scan, Load, Save, SaveBack, Path, Cat, Data, OpenDirectory, CreateData,
         Enter, LinkRecord, Rewrite, Aside, Fresh, Copy, Remove, Finish
<1>1. ASSUME NEW inum, Keeps(t, inum, th[t].left, th[t].slot)
      PROVE  Shrinks(t)
  BY <1>1 DEF Keeps, Shrinks
<1>2. ASSUME Ended(t) \/ Proceeds(t)
      PROVE  Motion(t) /\ Shrinks(t)
  BY <1>0, <1>1, <1>2, ProceedsKeeps
<1>3. ASSUME NEW inum \in Nat, Ended(t) \/ Recalls(t, inum)
      PROVE  Motion(t) /\ Shrinks(t)
  BY <1>0, <1>1, <1>3, RecallsKeeps
<1>4. CASE Scan(t)
  BY <1>0, <1>1, <1>4, ScanMoves, ScanKeeps
<1>5. CASE Load(t)
  <2>1. ThreadsOK' /\ rc' \in Codes /\ (Ended(t) \/ Proceeds(t) \/ Extends(t))
    BY <1>5, LoadMoves
  <2>2. CASE Extends(t)
    BY <1>0, <2>1, <2>2, ExtendsKeeps DEF Shrinks
  <2> QED  BY <1>0, <1>2, <2>1, <2>2
<1>6. CASE Save(t)
  BY <1>0, <1>2, <1>6, SaveMoves
<1>7. CASE SaveBack(t)
  BY <1>0, <1>2, <1>7, SaveBackMoves
<1>8. CASE Path(t) \/ Cat(t)
  BY <1>0, <1>2, <1>8, PathMoves
<1>9. CASE Data(t)
  BY <1>0, <1>2, <1>9, DataMoves
<1>10. CASE OpenDirectory(t)
  <2>1. inode_number \in Nat  BY DEF TypeOK
  <2> QED  BY <1>0, <1>3, <1>10, <2>1, OpenDirectoryMoves
<1>11. CASE CreateData(t)
  BY <1>0, <1>2, <1>11, CreateDataMoves
<1>12. CASE Enter(t) \/ Rewrite(t) \/ Finish(t)
  BY <1>0, <1>2, <1>12, EnterMoves
<1>13. CASE LinkRecord(t)
  <2>1. InumLastRead(directory) \in Nat
    BY <1>13, InumLastReadType DEF StillFound, LinkRecord, TypeOK
  <2> QED  BY <1>0, <1>3, <1>13, <2>1, LinkRecordMoves
<1>14. CASE Aside(t)
  BY <1>0, <1>2, <1>14, AsideMoves
<1>15. CASE Fresh(t)
  <2>1. At(t, "fresh")
    BY <1>15 DEF Fresh
  <2>2. ThreadsOK' /\ rc' \in Codes /\ Motion(t) /\ Keeps(t, th[t].inum, DOMAIN aside, th[t].slot)
    BY <1>0, <1>15, FreshMoves, FreshKeeps
  <2> QED  BY <1>0, <2>1, <2>2 DEF Keeps, Shrinks
<1>16. CASE Copy(t)
  <2>1. At(t, "copy")
    BY <1>16 DEF Copy
  <2>2. ThreadsOK' /\ rc' \in Codes /\ (Ended(t) \/ Proceeds(t) \/ CopiesOne(t) \/ MeetsOne(t))
    BY <1>16, CopyMoves
  <2>3. CASE CopiesOne(t) \/ MeetsOne(t)
    BY <1>0, <2>1, <2>2, <2>3, TurnKeeps DEF Shrinks
  <2> QED  BY <1>0, <1>2, <2>2, <2>3
<1>17. CASE Remove(t)
  BY <1>0, <1>2, <1>17, RemoveMoves
<1> QED
  BY <1>4, <1>5, <1>6, <1>7, <1>8, <1>9, <1>10, <1>11, <1>12, <1>13, <1>14, <1>15, <1>16,
     <1>17 DEF Step
-----------------------------------------------------------------------------
(***************************************************************************)
(* A step keeps each part of StepsInv.                                     *)
(***************************************************************************)

\* A thread that is at a step after its own was at the one before it.
LEMMA CameFrom ==
  ASSUME ThreadsOK, NEW t \in Threads, Busy(t), Motion(t), th'[t].todo # <<>>
  PROVE  /\ Head(th'[t].todo) \notin {"open", "aside"}
         /\ Head(th'[t].todo) = "path" /\ th'[t].call.op = "mknod" => Head(th[t].todo) = "open"
         /\ Head(th'[t].todo) = "cat" => Head(th[t].todo) = "path"
         /\ Head(th'[t].todo) = "create" => Head(th[t].todo) = "cat"
         /\ Head(th'[t].todo) = "enter" => Head(th[t].todo) = "save"
         /\ Head(th'[t].todo) \in {"slot", "rewrite"} => Head(th[t].todo) = "scan"
         /\ Head(th'[t].todo) = "fresh" => Head(th[t].todo) = "aside"
         /\ Head(th'[t].todo) = "finish" => Head(th[t].todo) = "copy"
         /\ Head(th[t].todo) # "finish"
         /\ th'[t].call.op \in {"mknod", "unlink", "link", "rename", "lookup"}
              => th'[t].call = th[t].call
<1>1. th[t].call \in AllCalls /\ th[t].call.op \in
        {"mknod", "unlink", "read", "getattr", "lookup", "link", "rename",
         "write", "truncate", "chmod", "utimens", "open"}
  BY BusyIsGood, CallFields
<1>2. LocalsOK(th[t]) /\ Head(th[t].todo) \in StepsIn(th[t].call.op)
  BY BusyIsGood, RestOfPlan DEF LocalsOK
<1>3. CASE th'[t].call = th[t].call /\ <<Head(th[t].todo), Head(th'[t].todo)>>
                                          \in Follows(th[t].call.op)
  BY <1>1, <1>3 DEF Follows
<1>4. CASE /\ th'[t].call = th[t].call /\ th[t].call.op = "write"
           /\ Head(th'[t].todo) = "saveback"
  BY <1>2, <1>4 DEF StepsIn
<1>5. CASE /\ th'[t].call = th[t].call /\ Head(th[t].todo) = "copy"
           /\ Head(th'[t].todo) \in {"copy", "load"}
  BY <1>5
<1>6. CASE /\ th[t].call.op = "truncate" /\ th'[t].call.op = "write"
           /\ Head(th'[t].todo) = "scan"
  BY <1>2, <1>6 DEF StepsIn
<1> QED  BY <1>3, <1>4, <1>5, <1>6 DEF Motion, Leads

\* No step takes a lock, or starts a handler.
LEMMA StepKeepsLocks ==
  ASSUME ThreadsOK, OneLocks, NEW t \in Threads, Busy(t), Motion(t)
  PROVE  /\ OneLocks' /\ \A u \in Threads : Locks(u)' => Locks(u)
         /\ \A u \in Threads, op \in {"mknod", "unlink"} : Handles(u, op)' => Handles(u, op)
<1>1. ASSUME NEW u \in Threads, Locks(u)' PROVE Locks(u) /\ th'[u].call = th[u].call
  <2>1. CASE u = t
    BY <1>1, <2>1, CameFrom DEF Locks, Busy, CallOf, DirectoryLocked
  <2>2. CASE u # t
    BY <1>1, <2>2 DEF Locks, Busy, CallOf, Motion
  <2> QED  BY <2>1, <2>2
<1>2. ASSUME NEW u \in Threads, NEW op \in {"mknod", "unlink"}, Handles(u, op)'
      PROVE  Handles(u, op)
  <2>1. Locks(u)'
    BY <1>2 DEF Handles, Locks, DirectoryLocked, CallOf, Busy
  <2> QED  BY <1>1, <1>2, <2>1 DEF Handles, Locks, CallOf, Busy
<1>3. OneLocks'
  BY <1>1 DEF OneLocks
<1> QED  BY <1>1, <1>2, <1>3

\* Two handlers of the calls that take the directory's lock are one.
LEMMA OneHandler ==
  ASSUME OneLocks, NEW t \in Threads, NEW u \in Threads, Busy(t), Busy(u),
         CallOf(t).op \in DirectoryLocked, CallOf(u).op \in DirectoryLocked
  PROVE  t = u
BY DEF OneLocks, Locks

\* strcat never makes the path longer than one name for each thread: who is
\* about to append has cleared the path before.
LEMMA StepKeepsPath ==
  ASSUME ThreadsOK, PathBound, NEW t \in Threads, Step(t), Busy(t), Motion(t), ThreadsOK'
  PROVE  PathBound'
<1> DEFINE C == {u \in Threads : At(u, "cat")}
           D == {u \in Threads : th'[u].todo # <<>> /\ Head(th'[u].todo) = "cat"}
<1>1. D = {u \in Threads : At(u, "cat")}'
  BY DEF At, Busy
<1>2. ASSUME Head(th[t].todo) # "path"
      PROVE  D \subseteq C \ (IF Head(th[t].todo) = "cat" THEN {t} ELSE {})
  <2> SUFFICES ASSUME NEW u \in D
               PROVE  u \in C /\ (Head(th[t].todo) = "cat" => u # t)
    OBVIOUS
  <2>1. CASE u = t
    BY <1>2, <2>1, CameFrom
  <2>2. CASE u # t
    BY <2>2 DEF Motion, At, Busy
  <2> QED  BY <2>1, <2>2
<1>3. IsFiniteSet(Threads) /\ IsFiniteSet(C) /\ IsFiniteSet(D)
  BY ThreadsAssumption, FS_Subset
<1>4. /\ Cardinality(Threads) \in Nat /\ Cardinality(C) \in Nat /\ Cardinality(D) \in Nat
      /\ Cardinality(D) <= Cardinality(Threads)
  BY <1>3, FS_CardinalityType, FS_Subset
<1>5. filePath \in Seq(Names) /\ Len(filePath) + Cardinality(C) <= Cardinality(Threads)
  BY DEF PathBound
<1> HIDE DEF C, D
<1>6. CASE Path(t)
  <2>1. filePath' = <<>>
    BY <1>6 DEF Path, CopiedPrefix
  <2> QED  BY <1>1, <1>4, <2>1 DEF PathBound
<1>7. CASE Cat(t)
  <2>1. At(t, "cat") /\ filePath' = Append(filePath, th[t].file)
    BY <1>7 DEF Cat
  <2>2. th[t].file \in Names /\ t \in C
    BY <2>1, StepOfThread DEF Locals, C
  <2>3. D \subseteq C \ {t}
    BY <1>2, <2>1 DEF At
  <2>4. Cardinality(D) <= Cardinality(C \ {t}) /\ Cardinality(C \ {t}) = Cardinality(C) - 1
    BY <1>3, <2>2, <2>3, FS_Subset, FS_RemoveElement
  <2>5. filePath' \in Seq(Names) /\ Len(filePath') = Len(filePath) + 1
    BY <1>5, <2>1, <2>2
  <2>6. Len(filePath') + Cardinality(D) <= Cardinality(Threads)
    BY <1>4, <1>5, <2>4, <2>5
  <2> QED  BY <1>1, <2>5, <2>6 DEF PathBound
<1>8. CASE ~Path(t) /\ ~Cat(t)
  <2>1. filePath' = filePath
    BY <1>8 DEF Step, Scan, Load, Save, SaveBack, Data, OpenDirectory, CreateData,
                Enter, LinkRecord, Rewrite, Aside, Fresh, Copy, Remove, Finish
  <2>2. Head(th[t].todo) # "path"
    BY <1>8 DEF Step, At, Scan, Load, Save, SaveBack, Data, OpenDirectory, CreateData,
                Enter, LinkRecord, Rewrite, Aside, Fresh, Copy, Remove, Finish
  <2>3. Cardinality(D) <= Cardinality(C)
    BY <1>2, <1>3, <2>2, FS_Subset
  <2>4. Len(filePath) + Cardinality(D) <= Cardinality(Threads)
    BY <1>4, <1>5, <2>3
  <2> QED  BY <1>1, <1>5, <2>1, <2>4 DEF PathBound
<1> QED  BY <1>6, <1>7, <1>8

\* What the handlers hold of descriptors, as numbers.
LEMMA ReserveType ==
  ASSUME crashes \in Nat
  PROVE  /\ Cardinality(Threads) \in Nat /\ Reserve \in Nat
         /\ Threads # {} => Reserve >= 3 + 2 * crashes
<1>1. Cardinality(Threads) \in Nat /\ (Threads # {} => Cardinality(Threads) # 0)
  BY ThreadsAssumption, FS_CardinalityType, FS_EmptySet
<1> QED  BY <1>1 DEF Reserve

\* Descriptors last for what the handlers under way may leave open.
LEMMA StepKeepsFds ==
  ASSUME StepsInv, NEW t \in Threads, Step(t), Busy(t), Motion(t), crashes' = crashes
  PROVE  FdsLast'
<1>0. /\ ThreadsOK /\ OneLocks /\ FdsLast /\ leaked \in Nat /\ MaxFds \in Nat
      /\ crashes \in Nat /\ Reserve \in Nat /\ Reserve' = Reserve
  <2>1. crashes \in Nat
    BY CrashesAssumption DEF StepsInv
  <2> QED  BY <2>1, ReserveType, FdsAssumption DEF StepsInv, TypeOK, Reserve
<1>1. \A u \in Threads, op \in {"mknod", "unlink"} : Handles(u, op)' => Handles(u, op)
  BY <1>0, StepKeepsLocks
<1>2. ASSUME NEW u \in Threads, Handles(u, "mknod")', Creates(u)'
      PROVE  Handles(u, "mknod") /\ Creates(u) /\ (u = t => ~At(t, "create"))
  <2>1. Handles(u, "mknod")
    BY <1>1, <1>2
  <2>2. CASE u = t
    <3>1. /\ th'[t].todo # <<>> /\ th'[t].call.op = "mknod"
          /\ Head(th'[t].todo) \in {"open", "path", "cat", "create"}
      BY <1>2, <2>2 DEF Creates, At, Handles, Busy, CallOf
    <3>2. Head(th[t].todo) \in {"open", "path", "cat"}
      BY <1>0, <3>1, CameFrom
    <3> QED  BY <2>1, <2>2, <3>2 DEF Creates, At
  <2>3. CASE u # t
    BY <1>2, <2>1, <2>3 DEF Creates, At, Busy, Motion
  <2> QED  BY <2>1, <2>2, <2>3
<1>3. CASE leaked' = leaked
  BY <1>0, <1>1, <1>2, <1>3 DEF FdsLast
<1>4. CASE CreateData(t) /\ leaked' = leaked + 1
  <2>1. At(t, "create") /\ Handles(t, "mknod")
    BY <1>0, <1>4, StepOfThread, OpOfStep DEF CreateData, Handles
  <2>2. leaked + Reserve + 2 <= MaxFds
    BY <1>0, <2>1 DEF FdsLast, Creates
  <2>3. ASSUME NEW u \in Threads, Handles(u, "unlink")' \/ (Handles(u, "mknod") /\ Creates(u))'
        PROVE  FALSE
    <3>1. Handles(u, "unlink") \/ Handles(u, "mknod")
      BY <1>1, <2>3
    <3>2. u = t
      BY <1>0, <2>1, <3>1, OneHandler DEF Handles, DirectoryLocked
    <3> QED  BY <1>1, <1>2, <2>1, <2>3, <3>2 DEF Handles
  <2>4. /\ leaked' + Reserve' <= MaxFds /\ leaked' + Reserve' + 1 <= MaxFds
    BY <1>0, <1>4, <2>2
  <2> QED  BY <2>3, <2>4 DEF FdsLast
<1>5. CASE Fresh(t) /\ leaked' = leaked + 1 /\ ~CanMakeDirectory
  <2>1. Handles(t, "unlink")
    BY <1>0, <1>5, StepOfThread, OpOfStep DEF Fresh, Handles
  <2>2. leaked + Reserve + 2 <= MaxFds
    BY <1>0, <2>1 DEF FdsLast
  <2> QED  BY <1>0, <1>5, <2>2 DEF CanMakeDirectory, HasFds
<1>6. CASE Remove(t) /\ RemoveFails(t)
  <2>1. Handles(t, "unlink") /\ th[t].back = <<>>
    BY <1>0, <1>6, StepOfThread, OpOfStep DEF Remove, Handles, LocalsOK, CallOf
  <2>2. leaked + Reserve + 2 <= MaxFds
    BY <1>0, <2>1 DEF FdsLast
  <2>3. th' = [th EXCEPT ![t] = Idle] /\ leaked' = leaked + 2
    BY <1>6, <2>1 DEF RemoveFails, Returns
  <2>4. ~Busy(t)'
    BY <1>0, <2>3 DEF Busy, Idle, ThreadsOK
  <2>5. ASSUME NEW u \in Threads, Handles(u, "unlink")' \/ Handles(u, "mknod")'
        PROVE  FALSE
    <3>1. Handles(u, "unlink") \/ Handles(u, "mknod")
      BY <1>1, <2>5
    <3>2. u = t
      BY <1>0, <2>1, <3>1, OneHandler DEF Handles, DirectoryLocked
    <3> QED  BY <2>4, <2>5, <3>2 DEF Handles
  <2>6. leaked' + Reserve' <= MaxFds
    BY <1>0, <2>2, <2>3
  <2> QED  BY <2>5, <2>6 DEF FdsLast
<1>7. \/ leaked' = leaked
      \/ CreateData(t) /\ leaked' = leaked + 1
      \/ Fresh(t) /\ leaked' = leaked + 1 /\ ~CanMakeDirectory
      \/ Remove(t) /\ RemoveFails(t)
  BY DEF Step, Scan, Load, Save, SaveBack, Path, Cat, Data, OpenDirectory, CreateData,
         Enter, LinkRecord, Rewrite, Aside, Fresh, Copy, Remove, Finish
<1> QED  BY <1>3, <1>4, <1>5, <1>6, <1>7

\* What safs_unlink has still to read is in .Directory~, which no other changes.
LEMMA StepKeepsLeft ==
  ASSUME ThreadsOK, OneLocks, LeftInAside, NEW t \in Threads, Step(t), Busy(t), Motion(t),
         Shrinks(t)
  PROVE  LeftInAside'
<1>1. ASSUME NEW u \in Threads, At(u, "aside")' PROVE th'[u].left = {}
  <2>1. u # t
    BY <1>1, CameFrom DEF At, Busy
  <2> QED  BY <1>1, <2>1 DEF LeftInAside, Motion, At, Busy
<1>2. CASE UNCHANGED aside
  <2> SUFFICES ASSUME NEW u \in Threads, Busy(u)' PROVE th'[u].left \subseteq DOMAIN aside
    BY <1>1, <1>2 DEF LeftInAside
  <2>1. CASE u = t
    BY <2>1 DEF LeftInAside, Shrinks, Busy
  <2>2. CASE u # t
    BY <2>2 DEF LeftInAside, Motion, Busy
  <2> QED  BY <2>1, <2>2
<1>3. CASE ~UNCHANGED aside
  <2>1. At(t, "aside") \/ At(t, "finish")
    BY <1>3 DEF Step, Scan, Load, Save, SaveBack, Path, Cat, Data, OpenDirectory, CreateData,
         Enter, LinkRecord, Rewrite, Aside, Fresh, Copy, Remove, Finish, files
  <2>2. Handles(t, "unlink")
    BY <2>1, StepOfThread, OpOfStep DEF Handles
  <2>3. ASSUME NEW u \in Threads \ {t}, Busy(u)' PROVE th'[u].left = {}
    <3>1. Busy(u) /\ th'[u] = th[u]
      BY <2>3 DEF Busy, Motion
    <3>2. CallOf(u).op # "unlink"
      BY <2>2, <3>1, OneHandler DEF Handles, DirectoryLocked
    <3> QED  BY <3>1, <3>2, BusyIsGood DEF LocalsOK, CallOf
  <2>4. Busy(t)' => th'[t].left = {}
    <3> SUFFICES ASSUME Busy(t)' PROVE th'[t].left = {}
      OBVIOUS
    <3>1. At(t, "aside")
      BY <2>1, CameFrom DEF At, Busy
    <3> QED  BY <3>1 DEF LeftInAside, Shrinks, At, Busy
  <2> QED  BY <1>1, <2>3, <2>4 DEF LeftInAside
<1> QED  BY <1>2, <1>3

\* A record that safs_link or safs_rename found is there when they write.
LEMMA StepKeepsFound ==
  ASSUME TypeOK, ThreadsOK, OneLocks, StillFound, NEW t \in Threads, Step(t), Busy(t), Motion(t)
  PROVE  StillFound'
<1> SUFFICES ASSUME NEW u \in Threads, At(u, "slot")' \/ At(u, "rewrite")'
             PROVE  Found(CallOf(u).n)'
  BY DEF StillFound
<1>1. CASE UNCHANGED directory
  <2>1. CASE u = t
    <3>1. Scan(t)
      BY <2>1, CameFrom DEF At, Busy, Step, Load, Save, SaveBack, Path, Cat, Data,
         OpenDirectory, CreateData, Enter, LinkRecord, Rewrite, Aside, Fresh, Copy, Remove,
         Finish
    <3>2. th[t] \in Locals /\ Head(th[t].todo) = "scan"
      BY <3>1, BusyIsGood DEF Scan, At
    <3>3. ~Ended(t)
      <4> SUFFICES ASSUME Ended(t) PROVE FALSE
        OBVIOUS
      <4>1. th'[t].todo = <<>> \/ th'[t].todo = <<"saveback">>
        BY <3>2 DEF Ended, Idle, ThreadsOK, Locals
      <4>2. Head(<<"saveback">>) = "saveback"
        OBVIOUS
      <4> QED  BY <2>1, <4>1, <4>2 DEF At, Busy
    <3>4. ScanFinds(t)
      BY <3>1, <3>3, ScanMoves
    <3>5. \/ Head(th'[t].todo) = "slot" \/ Head(th'[t].todo) = "rewrite"
      BY <2>1 DEF At
    <3>6. th'[t].call = th[t].call
      BY <2>1, <3>2, <3>5 DEF At, Busy, Motion
    <3> QED  BY <1>1, <2>1, <3>4, <3>6 DEF ScanFinds, Found, CallOf
  <2>2. CASE u # t
    BY <1>1, <2>2 DEF At, Busy, Motion, StillFound, Found, CallOf
  <2> QED  BY <2>1, <2>2
<1>2. CASE ~UNCHANGED directory
  <2>1. \E step \in {"enter", "slot", "rewrite", "aside", "copy"} : At(t, step)
    BY <1>2 DEF Step, Scan, Load, Save, SaveBack, Path, Cat, Data, OpenDirectory, CreateData,
         Enter, LinkRecord, Rewrite, Aside, Fresh, Copy, Remove, Finish, files
  <2>2. CallOf(t).op \in DirectoryLocked
    BY <2>1, StepOfThread, OpOfStep DEF DirectoryLocked
  <2>3. u # t
    BY <2>1, CameFrom DEF At, Busy
  <2>4. Busy(u) /\ (At(u, "slot") \/ At(u, "rewrite"))
    BY <2>3 DEF At, Busy, Motion
  <2>5. CallOf(u).op \in DirectoryLocked
    BY <2>4, StepOfThread, OpOfStep DEF DirectoryLocked
  <2> QED  BY <2>2, <2>3, <2>4, <2>5, OneHandler
<1> QED  BY <1>1, <1>2

\* What the steps make of Directory~ and .Directory~ is laid out as before.
LEMMA StepKeepsDirectories ==
  ASSUME StepsInv, NEW t \in Threads, Step(t)
  PROVE  IsDirectory(directory)' /\ IsDirectory(aside)'
<1>0. /\ TypeOK /\ ThreadsOK /\ IsDirectory(directory) /\ IsDirectory(aside)
      /\ LeftInAside /\ StillFound
  BY DEF StepsInv, TypeOK
<1>1. CASE UNCHANGED <<directory, aside>>
  BY <1>0, <1>1 DEF IsDirectory
<1>2. CASE Enter(t)
  <2>1. /\ directory' = Put(directory, NewSlot, [NewDentry(CallOf(t).n) EXCEPT !.inum = th[t].inum])
        /\ aside' = aside /\ At(t, "enter")
    BY <1>2 DEF Enter
  <2>2. th[t].inum \in Nat /\ CallOf(t).n \in Names /\ NewSlot \in Nat
    BY <1>0, <2>1, StepOfThread, CallFields DEF Locals, NewSlot, TypeOK
  <2>3. [NewDentry(CallOf(t).n) EXCEPT !.inum = th[t].inum] \in Dentry
    BY <2>2 DEF NewDentry, Dentry
  <2>4. IsDirectory(Put(directory, NewSlot, [NewDentry(CallOf(t).n) EXCEPT !.inum = th[t].inum]))
    BY <1>0, <2>2, <2>3, PutDirectory
  <2> QED  BY <1>0, <2>1, <2>4
<1>3. CASE LinkRecord(t)
  <2> DEFINE v == [name |-> CallOf(t).to, storage |-> th[t].file, inum |-> th[t].inum]
  <2>1. /\ directory' = Put(directory, FreeSlot(directory), v)
        /\ aside' = aside /\ At(t, "slot")
    BY <1>3 DEF LinkRecord
  <2>2. CallOf(t).op = "link" /\ CallOf(t) \in AllCalls /\ th[t] \in Locals
    BY <1>0, <2>1, StepOfThread, OpOfStep
  <2>3. v \in Dentry
    BY <2>2, CallFields DEF Locals, Dentry
  <2>4. FreeSlot(directory) \in Nat
    BY <1>0, <2>1, InumLastReadType DEF StillFound
  <2> HIDE DEF v
  <2>5. IsDirectory(Put(directory, FreeSlot(directory), v))
    BY <1>0, <2>3, <2>4, PutDirectory
  <2> QED  BY <1>0, <2>1, <2>5
<1>4. CASE Rewrite(t)
  <2>1. /\ directory' = [directory EXCEPT ![FirstMatch(directory, CallOf(t).n)].name = CallOf(t).to]
        /\ aside' = aside /\ At(t, "rewrite")
    BY <1>4 DEF Rewrite
  <2>2. CallOf(t).to \in Names
    BY <1>0, <2>1, StepOfThread, OpOfStep, CallFields
  <2>3. FirstMatch(directory, CallOf(t).n) \in DOMAIN directory
    BY <1>0, <2>1, FoundEntry DEF StillFound
  <2> QED  BY <1>0, <2>1, <2>2, <2>3 DEF IsDirectory, Dentry
<1>5. IsDirectory(<<>>)
  <2>1. DOMAIN <<>> = {}  OBVIOUS
  <2> QED  BY <2>1, FS_EmptySet DEF IsDirectory
<1>6. CASE Aside(t)
  BY <1>0, <1>1, <1>5, <1>6 DEF Aside
<1>7. CASE Finish(t)
  BY <1>0, <1>5, <1>7 DEF Finish
<1>8. CASE Copy(t)
  <2>1. At(t, "copy") /\ aside' = aside
    BY <1>8 DEF Copy
  <2>2. th[t].left \in SUBSET Nat /\ th[t].slot \in Nat /\ Busy(t)
    BY <1>0, <2>1, StepOfThread DEF Locals
  <2>3. th[t].left \subseteq DOMAIN aside
    BY <1>0, <2>2 DEF LeftInAside
  <2>4. UNCHANGED directory \/ CopiesOne(t)
    BY <1>0, <1>8, CopyMoves DEF MeetsOne
  <2>5. CASE CopiesOne(t)
    <3> DEFINE k == Min(th[t].left)
    <3>1. k \in th[t].left /\ directory' = Put(directory, th[t].slot, aside[k])
      BY <2>2, <2>5, MinOfNaturals DEF CopiesOne
    <3>2. aside[k] \in Dentry
      BY <1>0, <2>3, <3>1 DEF IsDirectory
    <3> HIDE DEF k
    <3>3. IsDirectory(Put(directory, th[t].slot, aside[k]))
      BY <1>0, <2>2, <3>2, PutDirectory
    <3> QED  BY <1>0, <2>1, <3>1, <3>3
  <2> QED  BY <1>0, <2>1, <2>4, <2>5 DEF IsDirectory
<1> QED
  BY <1>1, <1>2, <1>3, <1>4, <1>6, <1>7, <1>8
  DEF Step, Scan, Load, Save, SaveBack, Path, Cat, Data, OpenDirectory, CreateData, Fresh,
      Remove, files

\* And so are the stats and the data files.
StraysOK == \A p \in DOMAIN stray : p \in Seq(Names) /\ stray[p] \in SUBSET Perms

\* Inodes~ only grows.
LEMMA StepKeepsInodes ==
  ASSUME StepsInv, NEW t \in Threads, Step(t)
  PROVE  IsInodes(inodes)' /\ DOMAIN inodes \subseteq DOMAIN inodes'
<1>0. ThreadsOK /\ IsInodes(inodes)
  BY DEF StepsInv, TypeOK
<1>1. CASE UNCHANGED inodes
  BY <1>0, <1>1 DEF IsInodes
<1>2. CASE Save(t)
  <2>1. PICK now \in Times : WriteInode(th[t].inum, Changed(CallOf(t), th[t].st, now), 1)
    BY <1>2 DEF Save
  <2>2. /\ CallOf(t) \in AllCalls /\ "save" \in StepsIn(CallOf(t).op)
        /\ th[t].st \in Stat /\ th[t].inum \in Nat
    BY <1>0, <1>2, StepOfThread DEF Save, Locals
  <2>3. Changed(CallOf(t), th[t].st, now) \in Stat
    BY <2>2, ChangedType, TimesAssumption
  <2> QED  BY <1>0, <2>1, <2>2, <2>3, WriteInodeType
<1>3. CASE SaveBack(t)
  <2>1. At(t, "saveback") /\ WriteInode(th[t].back[1].inum, th[t].back[1].st, 1)
    BY <1>3 DEF SaveBack
  <2>2. th[t].back \in Seq([inum : Nat, st : Stat]) /\ th[t].back # <<>>
    BY <1>0, <2>1, StepOfThread DEF Locals, LocalsOK
  <2>3. th[t].back[1] \in [inum : Nat, st : Stat]
    <3> DEFINE S == [inum : Nat, st : Stat]
               b == th[t].back
    <3>1. b \in Seq(S) /\ b # <<>>
      BY <2>2
    <3> HIDE DEF S, b
    <3>2. b[1] \in S
      BY <3>1, EmptySeq
    <3> QED  BY <3>2 DEF S, b
  <2> QED  BY <1>0, <2>1, <2>3, WriteInodeType
<1> QED
  BY <1>1, <1>2, <1>3
  DEF Step, Scan, Load, Path, Cat, Data, OpenDirectory, CreateData, Enter, LinkRecord,
      Rewrite, Aside, Fresh, Copy, Remove, Finish, files

\* Data files, under users' names or others, are laid out as before.
LEMMA StepKeepsStorage ==
  ASSUME StepsInv, NEW t \in Threads, Step(t)
  PROVE  IsStorage(storage)' /\ StraysOK'
<1>0. /\ TypeOK /\ ThreadsOK /\ IsStorage(storage) /\ StraysOK
      /\ filePath \in Seq(Names)
  BY DEF StepsInv, TypeOK, StraysOK, PathBound
<1>1. NamesData => DataName \in Names
  BY <1>0 DEF NamesData, DataName
<1>2. CASE UNCHANGED <<storage, stray>>
  BY <1>0, <1>2 DEF IsStorage, StraysOK
<1>3. CASE Data(t) /\ storage' # storage
  <2>1. /\ At(t, "data") /\ CallOf(t).op = "write" /\ NamesData /\ stray' = stray
        /\ storage' = [storage EXCEPT ![DataName].data =
                         Overwrite(@, CallOf(t).off, CallOf(t).len, CallOf(t).b)]
    BY <1>3 DEF Data
  <2>2. DataName \in DOMAIN storage
    <3>1. storage \in [DOMAIN storage -> DataFile]
      BY <1>0 DEF IsStorage
    <3> QED  BY <1>3, <2>1, <3>1
  <2>3. CallOf(t).off \in Nat /\ CallOf(t).len \in Nat /\ CallOf(t).b \in Nat
    BY <1>0, <2>1, StepOfThread, CallFields
  <2>4. IsStorage(storage')
    BY <1>0, <2>1, <2>2, <2>3, StorageOverwritten
  <2> QED  BY <1>0, <2>1, <2>4 DEF StraysOK
<1>4. CASE CreateData(t)
  <2> DEFINE mode == CallOf(t).mode
  <2>1. mode \in SUBSET Perms
    BY <1>0, <1>4, StepOfThread, OpOfStep, CallFields, ModesAssumption DEF CreateData
  <2>2. CASE storage' = Put(storage, DataName, EmptyData(DataName, mode)) /\ NamesData
             /\ stray' = stray
    <3>1. EmptyData(DataName, mode) \in DataFile
      BY <1>0, <2>1 DEF EmptyData, DataFile, IsStorage
    <3>2. DOMAIN storage \subseteq Names /\ storage \in [DOMAIN storage -> DataFile]
      BY <1>0 DEF IsStorage
    <3> DEFINE e == EmptyData(DataName, mode)
    <3>3. DataName \in Names
      BY <1>1, <2>2
    <3> HIDE DEF e
    <3>4. e \in DataFile
      BY <3>1 DEF e
    <3>5. /\ DOMAIN Put(storage, DataName, e) \subseteq Names
          /\ Put(storage, DataName, e) \in [DOMAIN Put(storage, DataName, e) -> DataFile]
      BY <3>2, <3>3, <3>4, PutType
    <3>6. storage' = Put(storage, DataName, e) /\ stray' = stray
      BY <2>2 DEF e
    <3> QED  BY <1>0, <3>5, <3>6 DEF StraysOK, IsStorage
  <2>3. CASE stray' = Put(stray, filePath, mode) /\ storage' = storage
    BY <1>0, <2>1, <2>3 DEF StraysOK, Put, IsStorage
  <2> QED  BY <1>2, <1>4, <2>2, <2>3 DEF CreateData
<1>5. CASE Remove(t)
  <2>1. CASE storage' = Drop(storage, DataName) /\ stray' = stray
    <3>1. DOMAIN storage \subseteq Names /\ storage \in [DOMAIN storage -> DataFile]
      BY <1>0 DEF IsStorage
    <3>2. IsStorage(Drop(storage, DataName))
      BY <3>1, DropType DEF IsStorage
    <3> QED  BY <1>0, <2>1, <3>2 DEF StraysOK
  <2>2. CASE stray' = Drop(stray, filePath) /\ storage' = storage
    BY <1>0, <2>2 DEF StraysOK, Drop, IsStorage
  <2> QED  BY <1>2, <1>5, <2>1, <2>2 DEF Remove
<1>6. Data(t) => UNCHANGED stray
  BY DEF Data
<1> QED
  BY <1>2, <1>3, <1>4, <1>5, <1>6
  DEF Step, Scan, Load, Save, SaveBack, Path, Cat, OpenDirectory, Enter, LinkRecord,
      Rewrite, Aside, Fresh, Copy, Finish, files
-----------------------------------------------------------------------------
(***************************************************************************)
(* StepsInv is inductive.                                                  *)
(***************************************************************************)
LEMMA StepKeepsInv ==
  ASSUME StepsInv, NEW t \in Threads, Step(t)
  PROVE  StepsInv'
<1>1. /\ TypeOK /\ IsDirectory(aside) /\ ThreadsOK /\ OneLocks /\ PathBound /\ FdsLast
      /\ LeftInAside /\ StillFound /\ crashes \in 0 .. MaxCrashes
  BY DEF StepsInv
<1>2. ThreadsOK' /\ rc' \in Codes /\ Motion(t) /\ Shrinks(t) /\ Busy(t)
  BY <1>1, StepMoves
<1>3. crashes' = crashes
  BY DEF Step, Scan, Load, Save, SaveBack, Path, Cat, Data, OpenDirectory, CreateData,
         Enter, LinkRecord, Rewrite, Aside, Fresh, Copy, Remove, Finish
<1>4. OneLocks' /\ PathBound' /\ FdsLast' /\ LeftInAside' /\ StillFound'
  BY <1>1, <1>2, <1>3, StepKeepsLocks, StepKeepsPath, StepKeepsFds, StepKeepsLeft,
     StepKeepsFound
<1>5. IsDirectory(directory)' /\ IsDirectory(aside)' /\ IsInodes(inodes)' /\ IsStorage(storage)'
      /\ StraysOK'
  BY StepKeepsDirectories, StepKeepsInodes, StepKeepsStorage
<1>6. leaked' \in 0 .. MaxFds
  <2>1. leaked \in Nat /\ MaxFds \in Nat /\ 1 <= MaxFds /\ crashes \in Nat
    BY <1>1, FdsAssumption, CrashesAssumption DEF TypeOK
  <2>2. leaked' \in Nat
    BY <2>1 DEF Step, Scan, Load, Save, SaveBack, Path, Cat, Data, OpenDirectory, CreateData,
         Enter, LinkRecord, Rewrite, Aside, Fresh, Copy, Remove, Finish, RemoveFails
  <2>3. Reserve' = Reserve /\ Reserve \in Nat
    BY <1>3, <2>1, ReserveType DEF Reserve
  <2>4. leaked' = 1 \/ leaked' + Reserve <= MaxFds
    BY <1>4, <2>3 DEF FdsLast
  <2>5. leaked' <= MaxFds
    <3>1. \A l, n, m \in Nat : l + n <= m => l <= m
      OBVIOUS
    <3> QED  BY <2>1, <2>2, <2>3, <2>4, <3>1
  <2> QED  BY <2>1, <2>2, <2>5
<1>7. dirFile' \in BOOLEAN
  BY <1>1 DEF TypeOK, Step, Scan, Load, Save, SaveBack, Path, Cat, Data, OpenDirectory, CreateData,
         Enter, LinkRecord, Rewrite, Aside, Fresh, Copy, Remove, Finish, files
<1>8. inode_number' \in Nat \ {0}
  BY <1>1 DEF TypeOK, Step, Scan, Load, Save, SaveBack, Path, Cat, Data, OpenDirectory, CreateData,
         Enter, NextNumber, LinkRecord, Rewrite, Aside, Fresh, Copy, Remove, Finish
<1>9. dcache' \subseteq Names
  <2>1. CallOf(t) \in AllCalls
    BY <1>1, <1>2, BusyIsGood DEF CallOf
  <2>2. CallOf(t).n \in Names /\ (CallOf(t).op \in {"link", "rename"} => CallOf(t).to \in Names)
    BY <2>1, CallFields
  <2>3. At(t, "rewrite") => CallOf(t).op = "rename"
    BY <1>1, StepOfThread, OpOfStep
  <2>4. dcache \subseteq Names
    BY <1>1 DEF TypeOK
  <2>5. CASE Scan(t)
    BY <2>2, <2>4, <2>5 DEF Scan
  <2>6. CASE Save(t)
    BY <2>2, <2>4, <2>6 DEF Save
  <2>7. CASE Enter(t) \/ Finish(t)
    BY <2>2, <2>4, <2>7 DEF Enter, Finish
  <2>8. CASE Rewrite(t)
    BY <2>2, <2>3, <2>4, <2>8 DEF Rewrite
  <2>9. CASE UNCHANGED dcache
    BY <2>4, <2>9
  <2> QED
    BY <2>5, <2>6, <2>7, <2>8, <2>9
    DEF Step, Load, SaveBack, Path, Cat, Data, OpenDirectory, CreateData, LinkRecord,
        Aside, Fresh, Copy, Remove
<1>10. TypeOK'
  BY <1>2, <1>5, <1>6, <1>7, <1>8, <1>9 DEF TypeOK
<1> QED
  BY <1>1, <1>2, <1>3, <1>4, <1>5, <1>10 DEF StepsInv, StraysOK

\* A request that comes in finds the directory's lock free if it needs it, and
\* descriptors if it may leave some open.
LEMMA BeginKeepsInv ==
  ASSUME StepsInv, NEW t \in Threads, NEW c \in Calls, Begin(t, c)
  PROVE  StepsInv'
<1>0. /\ TypeOK /\ ThreadsOK /\ OneLocks /\ PathBound /\ FdsLast /\ LeftInAside /\ StillFound
  BY DEF StepsInv
<1>1. ThreadsOK' /\ Starts(t, c)
  BY <1>0, BeginMoves
<1> DEFINE r == NoLocals(c, StepsOf(c.op))
<1>2. /\ UNCHANGED <<vars, aside, stray, filePath, crashes>>
      /\ \A u \in Threads : Busy(u) => ~Excludes(c, CallOf(u))
      /\ EnoughFds(c) /\ ~Busy(t)
  BY DEF Begin
<1>3. /\ th'[t] = r /\ \A u \in Threads \ {t} : th'[u] = th[u]
      /\ r.call = c /\ r.left = {} /\ r.todo = StepsOf(c.op)
  BY <1>0, <1>1 DEF Starts, ThreadsOK, NoLocals
<1>4. Head(r.todo) \in {"open", "aside", "scan"}
  BY <1>1, <1>3 DEF Starts
<1> HIDE DEF r
<1>5. TypeOK' /\ IsDirectory(aside)' /\ StraysOK' /\ crashes' \in 0 .. MaxCrashes
  <2>1. UNCHANGED store /\ rc' \in Codes
    BY <1>0, <1>2 DEF vars, TypeOK
  <2> QED  BY <1>0, <1>2, <2>1, UnchangedType DEF StepsInv, StraysOK, IsDirectory
<1>6. OneLocks'
  <2> SUFFICES ASSUME NEW u \in Threads, NEW v \in Threads, Locks(u)', Locks(v)'
               PROVE  u = v
    BY DEF OneLocks
  <2>1. \A w \in Threads \ {t} : Locks(w)' => Locks(w)
    BY <1>3 DEF Locks, Busy, CallOf
  <2>2. \A w \in Threads \ {t} : Locks(t)' /\ Locks(w) => FALSE
    BY <1>2, <1>3 DEF Locks, Busy, CallOf, Excludes
  <2> QED  BY <1>0, <2>1, <2>2 DEF OneLocks
<1>7. PathBound'
  <2>1. {u \in Threads : At(u, "cat")}' = {u \in Threads : At(u, "cat")}
    BY <1>2, <1>3, <1>4 DEF At, Busy
  <2>2. filePath' = filePath
    BY <1>2
  <2> QED  BY <1>0, <2>1, <2>2 DEF PathBound
<1>8. FdsLast'
  <2>1. UNCHANGED <<leaked, crashes>> /\ Reserve' = Reserve
    BY <1>2 DEF vars, store, Reserve
  <2>2. crashes \in Nat /\ leaked \in Nat /\ MaxFds \in Nat
    BY CrashesAssumption, FdsAssumption DEF StepsInv, TypeOK
  <2>3. Reserve \in Nat
    BY <2>2, ReserveType
  <2>4. c.op \in {"mknod", "unlink"} => leaked + Reserve + 2 <= MaxFds
    <3>1. Cardinality(Threads) \in Nat
      BY <2>2, ReserveType
    <3> QED  BY <1>2, <2>2, <3>1 DEF EnoughFds, HasFds, Reserve
  <2>5. \A u \in Threads \ {t} :
          /\ \A op \in {"mknod", "unlink"} : Handles(u, op)' => Handles(u, op)
          /\ Creates(u)' => Creates(u)
    BY <1>3 DEF Handles, Busy, CallOf, Creates, At
  <2>6. \A op \in {"mknod", "unlink"} : Handles(t, op)' => c.op = op
    BY <1>3 DEF Handles, Busy, CallOf
  <2>7. ASSUME NEW n \in Nat, NEW m \in Nat, n + m + 2 <= MaxFds
        PROVE  n + m + 1 <= MaxFds
    BY <2>2, <2>7
  <2>8. leaked' = 1 \/ leaked' + Reserve' <= MaxFds
    BY <1>0, <2>1 DEF FdsLast
  <2>9. ASSUME NEW u \in Threads, Handles(u, "mknod")'
        PROVE  leaked' + Reserve' + 1 <= MaxFds
    <3>1. CASE u = t
      <4>1. leaked + Reserve + 2 <= MaxFds
        BY <2>4, <2>6, <2>9, <3>1
      <4> QED  BY <2>1, <2>2, <2>3, <2>7, <4>1
    <3>2. CASE u # t
      <4>1. Handles(u, "mknod")
        BY <2>5, <2>9, <3>2
      <4>2. leaked + Reserve + 1 <= MaxFds
        BY <1>0, <4>1 DEF FdsLast
      <4> QED  BY <2>1, <4>2
    <3> QED  BY <3>1, <3>2
  <2>10. ASSUME NEW u \in Threads, Handles(u, "unlink")' \/ (Handles(u, "mknod")' /\ Creates(u)')
         PROVE  leaked' + Reserve' + 2 <= MaxFds
    <3>1. CASE u = t
      BY <2>1, <2>4, <2>6, <2>10, <3>1
    <3>2. CASE u # t
      <4>1. Handles(u, "unlink") \/ (Handles(u, "mknod") /\ Creates(u))
        BY <2>5, <2>10, <3>2
      <4>2. leaked + Reserve + 2 <= MaxFds
        BY <1>0, <4>1 DEF FdsLast
      <4> QED  BY <2>1, <4>2
    <3> QED  BY <3>1, <3>2
  <2> QED  BY <2>8, <2>9, <2>10 DEF FdsLast
<1>9. LeftInAside'
  BY <1>0, <1>2, <1>3 DEF LeftInAside, Busy, At
<1>10. StillFound'
  <2> SUFFICES ASSUME NEW u \in Threads, At(u, "slot")' \/ At(u, "rewrite")'
               PROVE  Found(CallOf(u).n)'
    BY DEF StillFound
  <2>1. u # t
    BY <1>3, <1>4 DEF At
  <2> QED  BY <1>0, <1>2, <1>3, <2>1 DEF StillFound, At, Busy, CallOf, Found, vars, store
<1> QED
  BY <1>1, <1>5, <1>6, <1>7, <1>8, <1>9, <1>10 DEF StepsInv, StraysOK

\* After a crash there are no handlers, no path, and one descriptor is in use.
LEMMA CrashKeepsInv ==
  ASSUME StepsInv, Crash
  PROVE  StepsInv'
<1>1. /\ th' = [t \in Threads |-> Idle] /\ filePath' = <<>> /\ leaked' = 1
      /\ aside' = aside /\ stray' = stray /\ crashes' \in 0 .. MaxCrashes
  BY CrashesAssumption DEF Crash, Remount, StepsInv
<1>2. \A t \in Threads : ~Busy(t)'
  BY <1>1 DEF Busy, Idle
<1>3. TypeOK'
  BY RemountType DEF Crash, StepsInv
<1>4. ThreadsOK'
  BY <1>1 DEF ThreadsOK
<1>5. PathBound'
  <2> DEFINE C == {t \in Threads : At(t, "cat")}
  <2>1. C' = {}
    BY <1>2 DEF At
  <2>2. Len(filePath') = 0 /\ filePath' \in Seq(Names)
    BY <1>1
  <2>3. Cardinality(C') = 0 /\ Cardinality(Threads) \in Nat
    BY <2>1, ThreadsAssumption, FS_EmptySet, FS_CardinalityType
  <2>4. Len(filePath') + Cardinality(C') <= Cardinality(Threads)
    BY <2>2, <2>3
  <2> QED  BY <2>2, <2>4 DEF PathBound
<1>6. OneLocks' /\ FdsLast' /\ LeftInAside' /\ StillFound'
  BY <1>1, <1>2 DEF OneLocks, Locks, FdsLast, Handles, LeftInAside, StillFound, At
<1> QED
  BY <1>1, <1>3, <1>4, <1>5, <1>6 DEF StepsInv, IsDirectory

\* The daemon starts with empty files and idle threads.
LEMMA StepsInvInit == StepsInit => StepsInv
<1> SUFFICES ASSUME StepsInit PROVE StepsInv
  OBVIOUS
<1>1. TypeOK /\ leaked = 1
  BY InitType DEF StepsInit, Init
<1>2. /\ th = [t \in Threads |-> Idle] /\ filePath = <<>> /\ aside = <<>> /\ stray = <<>>
      /\ crashes \in 0 .. MaxCrashes
  BY CrashesAssumption DEF StepsInit
<1>3. DOMAIN <<>> = {}
  OBVIOUS
<1>4. \A t \in Threads : ~Busy(t)
  BY <1>2 DEF Busy, Idle
<1>5. ThreadsOK
  BY <1>2 DEF ThreadsOK
<1>6. PathBound
  <2> DEFINE C == {t \in Threads : At(t, "cat")}
  <2>1. C = {}
    BY <1>4 DEF At
  <2>2. Len(filePath) = 0 /\ filePath \in Seq(Names)
    BY <1>2
  <2>3. Cardinality(C) = 0 /\ Cardinality(Threads) \in Nat
    BY <2>1, ThreadsAssumption, FS_EmptySet, FS_CardinalityType
  <2>4. Len(filePath) + Cardinality(C) <= Cardinality(Threads)
    BY <2>2, <2>3
  <2> QED  BY <2>2, <2>4 DEF PathBound
<1>7. OneLocks /\ FdsLast /\ LeftInAside /\ StillFound
  BY <1>1, <1>4 DEF OneLocks, Locks, FdsLast, Handles, LeftInAside, StillFound, At
<1>8. IsDirectory(aside)
  BY <1>2, <1>3, FS_EmptySet DEF IsDirectory
<1>9. \A p \in DOMAIN stray : p \in Seq(Names) /\ stray[p] \in SUBSET Perms
  BY <1>2, <1>3
<1> QED
  BY <1>1, <1>2, <1>5, <1>6, <1>7, <1>8, <1>9 DEF StepsInv

\* The invariant is inductive.
LEMMA StepsInvStep == StepsInv /\ [StepsNext]_stepVars => StepsInv'
<1> SUFFICES ASSUME StepsInv, [StepsNext]_stepVars PROVE StepsInv'
  OBVIOUS
<1>1. CASE UNCHANGED stepVars
  BY <1>1
  DEF stepVars, vars, store, StepsInv, TypeOK, IsDirectory, IsInodes, IsStorage, ThreadsOK,
      OneLocks, Locks, PathBound, FdsLast, Reserve, Handles, Creates, LeftInAside,
      StillFound, Found, Matches, LiveSlots, At, Busy, CallOf
<1> QED
  BY <1>1, StepKeepsInv, BeginKeepsInv, CrashKeepsInv DEF StepsNext

\* The inductive invariant of the daemon with overlapping requests.
LEMMA StepsInvariant == StepsSafety => []StepsInv
BY StepsInvInit, StepsInvStep, PTL DEF StepsSafety

\* The types are part of it.
LEMMA InvIsTypeCorrect == StepsInv => StepsTypeOK
<1> SUFFICES ASSUME StepsInv PROVE StepsTypeOK
  OBVIOUS
<1>1. filePath \in Seq(Names) /\ Len(filePath) <= Cardinality(Threads)
  <2>1. IsFiniteSet({t \in Threads : At(t, "cat")})
    BY ThreadsAssumption, FS_Subset
  <2>2. Cardinality({t \in Threads : At(t, "cat")}) \in Nat /\ Cardinality(Threads) \in Nat
    BY <2>1, ThreadsAssumption, FS_CardinalityType
  <2> QED  BY <2>2 DEF StepsInv, PathBound
<1>2. ASSUME NEW t \in Threads, Busy(t)
      PROVE  /\ CallOf(t) \in AllCalls
             /\ th[t].inum \in Nat /\ th[t].file \in Names /\ th[t].st \in Stat
             /\ th[t].left \subseteq DOMAIN aside
  BY <1>2, BusyIsGood DEF StepsInv, LeftInAside, Locals, CallOf
<1> QED
  BY <1>1, <1>2 DEF StepsTypeOK, StepsInv, AllCalls

\* With any number of requests under way at once, and the daemon dying between
\* any two of their system calls, the record files and the locals keep their
\* types; no more descriptors leak than the process has; and filePath, which
\* the handlers share, never holds more names than there are threads.
THEOREM StepsTypeCorrect == StepsSafety => []StepsTypeOK
BY StepsInvariant, InvIsTypeCorrect, PTL
-----------------------------------------------------------------------------
(***************************************************************************)
(* Records have a stat, and a number the counter covers.                   *)
(***************************************************************************)

\* The number a handler holds is the one it had, but for the steps that read it
\* from Directory~ or from the counter.
Numbers(t) ==
  th'[t].todo # <<>> =>
    \/ /\ th'[t].inum = th[t].inum
       /\ \/ ~At(t, "scan") /\ ~At(t, "open")
          \/ Head(th'[t].todo) = "saveback"
    \/ /\ At(t, "scan") /\ Found(CallOf(t).n) /\ UNCHANGED directory
       /\ th'[t].inum = Entry(CallOf(t).n).inum
    \/ At(t, "open") /\ th'[t].inum = inode_number
    \/ At(t, "slot")
    \/ CallOf(t).op = "unlink"

\* Where the number in a handler's locals comes from, for every step.
LEMMA StepNumbers ==
  ASSUME StepsInv, NEW t \in Threads, Step(t)
  PROVE  Numbers(t)
<1>0. /\ TypeOK /\ ThreadsOK /\ IsDirectory(aside) /\ LeftInAside /\ StillFound
      /\ Busy(t) /\ inode_number \in Nat
  BY StepMoves DEF StepsInv, TypeOK
<1>1. CASE Scan(t)
  <2>1. At(t, "scan") /\ UNCHANGED directory
    BY <1>1 DEF Scan, files
  <2>2. ThreadsOK' /\ rc' \in Codes /\ (Ended(t) \/ ScanFinds(t))
    BY <1>0, <1>1, ScanMoves
  <2>3. CASE Ended(t)
    <3>1. th[t] \in Locals
      BY <1>0, BusyIsGood
    <3>2. th'[t].todo = <<>> \/ (th'[t].todo = <<"saveback">> /\ th'[t].inum = th[t].inum)
      BY <1>0, <2>3, <3>1 DEF Ended, ThreadsOK, Idle, Locals
    <3>3. Head(<<"saveback">>) = "saveback"
      OBVIOUS
    <3> QED  BY <3>2, <3>3 DEF Numbers
  <2>4. CASE ScanFinds(t)
    <3> DEFINE e == Entry(CallOf(t).n)
               new == [[th[t] EXCEPT !.inum = e.inum, !.file = e.storage] EXCEPT !.todo = Tail(@)]
    <3>1. th'[t] = new /\ Found(CallOf(t).n)
      BY <1>0, <2>4 DEF ScanFinds, On, ThreadsOK
    <3>2. new.inum = e.inum
      BY <1>0, BusyIsGood DEF Locals
    <3> HIDE DEF new, e
    <3> QED  BY <2>1, <3>1, <3>2 DEF Numbers, e
  <2> QED  BY <2>2, <2>3, <2>4
<1>2. CASE OpenDirectory(t)
  <2>1. At(t, "open")
    BY <1>2 DEF OpenDirectory
  <2>2. Ended(t) \/ Recalls(t, inode_number)
    BY <1>0, <1>2, OpenDirectoryMoves
  <2>3. Keeps(t, inode_number, th[t].left, th[t].slot)
    BY <1>0, <2>2, RecallsKeeps
  <2> QED  BY <2>1, <2>3 DEF Keeps, Numbers
<1>3. ASSUME Ended(t) \/ Proceeds(t), ~Scan(t), ~OpenDirectory(t)
      PROVE  Numbers(t)
  <2>1. Keeps(t, th[t].inum, th[t].left, th[t].slot)
    BY <1>0, <1>3, ProceedsKeeps
  <2>2. ~At(t, "scan") /\ ~At(t, "open")
    BY <1>3 DEF At, Step, Load, Save, SaveBack, Path, Cat, Data, CreateData, Enter, LinkRecord,
                Rewrite, Aside, Fresh, Copy, Remove, Finish
  <2> QED  BY <2>1, <2>2 DEF Keeps, Numbers
<1>4. CASE Load(t) /\ ~Scan(t) /\ ~OpenDirectory(t)
  <2>1. At(t, "load")
    BY <1>4 DEF Load
  <2>2. Ended(t) \/ Proceeds(t) \/ Extends(t)
    BY <1>0, <1>4, LoadMoves
  <2>3. Extends(t) => th'[t].inum = th[t].inum
    BY <1>0, ExtendsKeeps
  <2> QED  BY <1>3, <1>4, <2>1, <2>2, <2>3 DEF Numbers, At
<1>5. CASE LinkRecord(t)
  BY <1>5 DEF LinkRecord, Numbers
<1>6. CASE Aside(t) \/ Fresh(t) \/ Copy(t) \/ Remove(t) \/ Finish(t)
  <2>1. \E step \in {"aside", "fresh", "copy", "remove", "finish"} : At(t, step)
    BY <1>6 DEF Aside, Fresh, Copy, Remove, Finish
  <2>2. CallOf(t).op = "unlink"
    BY <1>0, <2>1, StepOfThread, OpOfStep
  <2> QED  BY <2>2 DEF Numbers
<1>7. CASE /\ Save(t) \/ SaveBack(t) \/ Path(t) \/ Cat(t) \/ Data(t) \/ CreateData(t)
                \/ Enter(t) \/ Rewrite(t)
           /\ ~Scan(t) /\ ~OpenDirectory(t)
  <2>1. Ended(t) \/ Proceeds(t)
    BY <1>0, <1>7, SaveMoves, SaveBackMoves, PathMoves, DataMoves, CreateDataMoves, EnterMoves
  <2> QED  BY <1>3, <1>7, <2>1
<1> QED  BY <1>1, <1>2, <1>4, <1>5, <1>6, <1>7 DEF Step

\* Records that move, or get another name, or are joined by one that is
\* numbered too.
LEMMA PutNumbered ==
  ASSUME NEW d, NEW written, NEW counter, Numbered(d, written, counter),
         NEW x, NEW v, v.inum # 0, v.inum \in written, v.inum <= counter
  PROVE  Numbered(Put(d, x, v), written, counter)
BY DEF Numbered, Put

\* More stats and a larger counter do records no harm.
LEMMA GrownNumbered ==
  ASSUME NEW d, NEW written, NEW more, written \subseteq more,
         NEW counter \in Nat, NEW later \in Nat, counter <= later,
         \A s \in DOMAIN d : d[s].inum \in Nat, Numbered(d, written, counter)
  PROVE  Numbered(d, more, later)
BY DEF Numbered

\* The counter only grows.
LEMMA StepCounts ==
  ASSUME StepsInv, NEW t \in Threads, Step(t)
  PROVE  inode_number \in Nat /\ inode_number' \in Nat /\ inode_number <= inode_number'
<1>1. inode_number \in Nat
  BY DEF StepsInv, TypeOK
<1>2. inode_number' = inode_number \/ inode_number' = inode_number + 1
  BY DEF Step, Scan, Load, Save, SaveBack, Path, Cat, Data, OpenDirectory, CreateData,
         Enter, NextNumber, LinkRecord, Rewrite, Aside, Fresh, Copy, Remove, Finish
<1> QED  BY <1>1, <1>2

\* Directory~ and .Directory~ get records only from each other, from safs_mknod
\* and from safs_link.
LEMMA StepKeepsNumbered ==
  ASSUME StepsInv, RecordsOK, NEW t \in Threads, Step(t)
  PROVE  /\ Numbered(directory, DOMAIN inodes, inode_number)'
         /\ \A s \in DOMAIN aside' : aside'[s].inum # 0 /\ aside'[s].inum \in DOMAIN inodes'
         /\ \A u \in Threads : Aloof(u)' => Numbered(aside, DOMAIN inodes, inode_number)'
<1>0. /\ TypeOK /\ ThreadsOK /\ OneLocks /\ IsDirectory(directory) /\ IsDirectory(aside)
      /\ LeftInAside /\ StillFound /\ Motion(t) /\ Busy(t)
  BY StepMoves DEF StepsInv, TypeOK
<1>1. /\ inode_number \in Nat /\ inode_number' \in Nat /\ inode_number <= inode_number'
      /\ DOMAIN inodes \subseteq DOMAIN inodes'
  BY StepCounts, StepKeepsInodes
<1> DEFINE N(d) == Numbered(d, DOMAIN inodes, inode_number)
           M(d) == Numbered(d, DOMAIN inodes', inode_number')
<1>2. ASSUME NEW d, IsDirectory(d), N(d) PROVE M(d)
  <2>1. \A s \in DOMAIN d : d[s].inum \in Nat
    BY <1>2 DEF IsDirectory, Dentry
  <2> QED  BY <1>1, <1>2, <2>1, GrownNumbered
<1>3. N(directory) /\ M(directory)
  BY <1>0, <1>2 DEF RecordsOK
<1>4. \A s \in DOMAIN aside : aside[s].inum # 0 /\ aside[s].inum \in DOMAIN inodes'
  BY <1>1 DEF RecordsOK
<1>5. ASSUME NEW u \in Threads, Aloof(u)', ~At(t, "aside")
      PROVE  Aloof(u)
  <2>1. CASE u = t
    BY <1>0, <1>5, <2>1, CameFrom DEF Aloof, Handles, At, Busy, CallOf
  <2>2. CASE u # t
    BY <1>0, <1>5, <2>2 DEF Aloof, Handles, At, Busy, CallOf, Motion
  <2> QED  BY <2>1, <2>2
<1>6. ASSUME NEW u \in Threads, Aloof(u) PROVE M(aside)
  BY <1>0, <1>2, <1>6 DEF RecordsOK
<1> HIDE DEF N, M
<1>7. CASE At(t, "aside")
  <2>1. Aside(t)
    BY <1>7 DEF At, Step, Scan, Load, Save, SaveBack, Path, Cat, Data, OpenDirectory,
         CreateData, Enter, LinkRecord, Rewrite, Fresh, Copy, Remove, Finish
  <2>2. CallOf(t).op = "unlink"
    BY <1>0, <1>7, StepOfThread, OpOfStep
  <2>3. ASSUME NEW u \in Threads \ {t} PROVE ~Aloof(u)'
    <3> SUFFICES ASSUME Aloof(u)' PROVE FALSE
      OBVIOUS
    <3>1. Busy(u) /\ CallOf(u).op = "unlink"
      BY <1>0, <2>3 DEF Aloof, Handles, Busy, CallOf, Motion
    <3> QED  BY <1>0, <2>2, <3>1, OneHandler DEF DirectoryLocked
  <2>4. CASE UNCHANGED <<directory, aside>> /\ Returns(t, "ENOENT")
    <3>1. ~Aloof(t)'
      <4>1. th[t].back = <<>>
        BY <1>0, <1>7, <2>2, StepOfThread DEF LocalsOK, CallOf
      <4>2. th'[t] = Idle
        BY <1>0, <2>4, <4>1 DEF Returns, ThreadsOK
      <4> QED  BY <4>2 DEF Aloof, Handles, Busy, Idle
    <3> QED  BY <1>3, <1>4, <2>3, <2>4, <3>1 DEF M
  <2>5. CASE aside' = directory /\ directory' = <<>>
    <3>1. DOMAIN <<>> = {}
      OBVIOUS
    <3> QED  BY <1>3, <2>5, <3>1 DEF M, Numbered
  <2> QED  BY <2>1, <2>4, <2>5 DEF Aside
<1>8. CASE ~At(t, "aside") /\ UNCHANGED <<directory, aside>>
  BY <1>3, <1>4, <1>5, <1>6, <1>8 DEF M
<1>9. ASSUME NEW x, NEW v, ~At(t, "aside"), UNCHANGED aside, directory' = Put(directory, x, v),
             v.inum # 0, v.inum \in DOMAIN inodes, v.inum \in Nat, v.inum <= inode_number
      PROVE  M(directory')
  <2>1. v.inum \in DOMAIN inodes' /\ v.inum <= inode_number'
    BY <1>1, <1>9
  <2> QED  BY <1>3, <1>9, <2>1, PutNumbered DEF M
<1>10. CASE Enter(t)
  <2>1. /\ directory' = Put(directory, NewSlot, [NewDentry(CallOf(t).n) EXCEPT !.inum = th[t].inum])
        /\ aside' = aside /\ At(t, "enter")
    BY <1>10 DEF Enter
  <2>2. Handles(t, "mknod")
    BY <1>0, <2>1, StepOfThread, OpOfStep DEF Handles
  <2>3. th[t].inum \in 1 .. inode_number /\ th[t].inum \in DOMAIN inodes
    BY <2>1, <2>2 DEF RecordsOK, At
  <2> DEFINE v == [NewDentry(CallOf(t).n) EXCEPT !.inum = th[t].inum]
  <2>4. v.inum = th[t].inum
    BY DEF NewDentry
  <2>5. ~At(t, "aside") /\ UNCHANGED aside /\ directory' = Put(directory, NewSlot, v)
    BY <2>1 DEF At
  <2> HIDE DEF v
  <2>6. v.inum # 0 /\ v.inum \in DOMAIN inodes /\ v.inum \in Nat /\ v.inum <= inode_number
    BY <1>1, <2>3, <2>4
  <2>7. M(directory')
    BY <1>9, <2>5, <2>6
  <2> QED  BY <1>4, <1>5, <1>6, <2>1, <2>5, <2>7 DEF M
<1>11. CASE LinkRecord(t)
  <2> DEFINE v == [name |-> CallOf(t).to, storage |-> th[t].file, inum |-> th[t].inum]
  <2>1. /\ directory' = Put(directory, FreeSlot(directory), v)
        /\ aside' = aside /\ At(t, "slot")
    BY <1>11 DEF LinkRecord
  <2>2. v.inum = th[t].inum /\ th[t].inum \in Nat
    BY <1>0, <2>1, StepOfThread DEF Locals
  <2> HIDE DEF v
  <2>3. th[t].inum # 0 /\ th[t].inum \in DOMAIN inodes /\ th[t].inum <= inode_number
    BY <2>1 DEF RecordsOK
  <2>4. ~At(t, "aside")
    BY <2>1 DEF At
  <2>5. M(directory')
    BY <1>9, <2>1, <2>2, <2>3, <2>4
  <2> QED  BY <1>4, <1>5, <1>6, <2>1, <2>4, <2>5 DEF M
<1>12. CASE Rewrite(t)
  <2> DEFINE k == FirstMatch(directory, CallOf(t).n)
  <2>1. /\ directory' = [directory EXCEPT ![k].name = CallOf(t).to]
        /\ aside' = aside /\ At(t, "rewrite")
    BY <1>12 DEF Rewrite
  <2>2. k \in DOMAIN directory
    BY <1>0, <2>1, FoundEntry DEF StillFound
  <2> HIDE DEF k
  <2>3. DOMAIN directory' = DOMAIN directory
        /\ \A s \in DOMAIN directory : directory'[s].inum = directory[s].inum
    BY <1>0, <2>1, <2>2 DEF IsDirectory, Dentry
  <2>4. M(directory')
    BY <1>3, <2>3 DEF M, Numbered
  <2>5. ~At(t, "aside")
    BY <2>1 DEF At
  <2> QED  BY <1>4, <1>5, <1>6, <2>1, <2>4, <2>5 DEF M
<1>13. CASE Finish(t)
  <2>1. aside' = <<>> /\ directory' = directory
    BY <1>13 DEF Finish
  <2>2. DOMAIN <<>> = {}
    OBVIOUS
  <2> QED  BY <1>3, <2>1, <2>2 DEF M, Numbered
<1>14. CASE Copy(t)
  <2>1. At(t, "copy") /\ aside' = aside
    BY <1>14 DEF Copy
  <2>2. CASE UNCHANGED directory
    BY <1>8, <2>1, <2>2 DEF At
  <2>3. CASE CopiesOne(t)
    <3> DEFINE k == Min(th[t].left)
    <3>1. th[t].left \in SUBSET Nat /\ th[t].left \subseteq DOMAIN aside
          /\ CallOf(t).op = "unlink"
      <4>1. th[t].left \in SUBSET Nat /\ CallOf(t).op = "unlink"
        BY <1>0, <2>1, StepOfThread, OpOfStep DEF Locals
      <4>2. th[t].left \subseteq DOMAIN aside
        BY <1>0 DEF LeftInAside
      <4> QED  BY <4>1, <4>2
    <3>2. k \in th[t].left /\ directory' = Put(directory, th[t].slot, aside[k])
      BY <2>3, <3>1, MinOfNaturals DEF CopiesOne
    <3>3. Aloof(t)
      BY <2>1, <3>1 DEF Aloof, Handles, At
    <3>4. N(aside) /\ aside[k].inum \in Nat
      BY <1>0, <3>1, <3>2, <3>3 DEF RecordsOK, N, IsDirectory, Dentry
    <3>5. /\ aside[k].inum # 0 /\ aside[k].inum \in DOMAIN inodes
          /\ aside[k].inum <= inode_number
      BY <3>1, <3>2, <3>4 DEF N, Numbered
    <3>6. ~At(t, "aside")
      BY <2>1 DEF At
    <3> HIDE DEF k
    <3>7. M(directory')
      BY <1>9, <2>1, <3>2, <3>4, <3>5, <3>6
    <3> QED  BY <1>4, <1>5, <1>6, <2>1, <3>6, <3>7 DEF M
  <2> QED  BY <1>0, <1>14, <2>2, <2>3, CopyMoves DEF MeetsOne
<1> QED
  BY <1>7, <1>8, <1>10, <1>11, <1>12, <1>13, <1>14
  DEF Step, Scan, Load, Save, SaveBack, Path, Cat, Data, OpenDirectory, CreateData, Aside,
      Fresh, Remove, files

\* A handler's number is one of a record when it is about to be written to one.
LEMMA StepKeepsHeld ==
  ASSUME StepsInv, RecordsOK, NEW t \in Threads, Step(t), NEW u \in Threads
  PROVE  /\ At(u, "slot")' => /\ th'[u].inum # 0 /\ th'[u].inum \in DOMAIN inodes'
                             /\ th'[u].inum <= inode_number'
         /\ Handles(u, "mknod")' /\ ~At(u, "open")' => th'[u].inum \in 1 .. inode_number'
         /\ At(u, "enter")' => th'[u].inum \in DOMAIN inodes'
<1>0. /\ TypeOK /\ ThreadsOK /\ IsDirectory(directory) /\ FdsLast
      /\ Motion(t) /\ Busy(t) /\ ThreadsOK' /\ inode_number \in Nat \ {0}
  BY StepMoves DEF StepsInv, TypeOK
<1>1. /\ inode_number \in Nat /\ inode_number' \in Nat /\ inode_number <= inode_number'
      /\ DOMAIN inodes \subseteq DOMAIN inodes'
  BY StepCounts, StepKeepsInodes
<1>2. \A v \in Threads : Busy(v) => th[v].inum \in Nat
  BY <1>0, BusyIsGood DEF Locals
<1>3. CASE u # t
  <2>1. th'[u] = th[u]
    BY <1>0, <1>3 DEF Motion
  <2>2. /\ At(u, "slot")' => At(u, "slot")
        /\ Handles(u, "mknod")' => Handles(u, "mknod")
        /\ At(u, "open") => At(u, "open")'
        /\ At(u, "enter")' => At(u, "enter")
    BY <2>1 DEF At, Busy, Handles, CallOf
  <2>3. At(u, "slot") => Busy(u)
    BY DEF At
  <2> QED  BY <1>1, <1>2, <2>1, <2>2, <2>3 DEF RecordsOK
<1>4. CASE u = t
  <2>0. Numbers(t)
    BY StepNumbers
  <2>1. ASSUME At(t, "slot")'
        PROVE  /\ th'[t].inum # 0 /\ th'[t].inum \in DOMAIN inodes'
               /\ th'[t].inum <= inode_number'
    <3>1. Head(th[t].todo) = "scan" /\ Head(th'[t].todo) = "slot" /\ th'[t].todo # <<>>
      BY <1>0, <2>1, CameFrom DEF At, Busy
    <3>2. CallOf(t).op # "unlink"
      BY <1>0, <3>1, StepOfThread, OpOfStep DEF At
    <3>3. Found(CallOf(t).n) /\ th'[t].inum = Entry(CallOf(t).n).inum
      BY <1>0, <2>0, <3>1, <3>2 DEF Numbers, At
    <3> DEFINE k == FirstMatch(directory, CallOf(t).n)
    <3>4. k \in DOMAIN directory /\ th'[t].inum = directory[k].inum
      BY <1>0, <3>3, FoundEntry
    <3>5. directory[k].inum \in Nat
      BY <1>0, <3>4 DEF IsDirectory, Dentry
    <3> HIDE DEF k
    <3> QED  BY <1>1, <3>4, <3>5 DEF RecordsOK, Numbered
  <2>2. ASSUME Handles(t, "mknod")'
        PROVE  /\ Handles(t, "mknod")
               /\ At(t, "open") => th'[t].inum = inode_number
               /\ ~At(t, "open") => th'[t].inum = th[t].inum
    <3>1. th'[t].todo # <<>> /\ th'[t].call.op = "mknod"
      BY <2>2 DEF Handles, Busy, CallOf
    <3>2. th'[t].call = th[t].call
      BY <1>0, <3>1, CameFrom
    <3>3. Head(th'[t].todo) # "saveback"
      <4>1. th'[t] \in Good
        BY <1>0, <3>1 DEF ThreadsOK, Idle
      <4> QED  BY <3>1, <4>1 DEF Good, LocalsOK
    <3>4. ~At(t, "scan") /\ ~At(t, "slot")
      BY <1>0, <3>1, <3>2, StepOfThread, OpOfStep DEF CallOf
    <3>5. CallOf(t).op # "unlink"
      BY <3>1, <3>2 DEF CallOf
    <3> QED  BY <1>0, <2>0, <3>1, <3>2, <3>3, <3>4, <3>5 DEF Numbers, Handles, CallOf
  <2>3. Handles(t, "mknod")' => th'[t].inum \in 1 .. inode_number'
    <3> SUFFICES ASSUME Handles(t, "mknod")' PROVE th'[t].inum \in 1 .. inode_number'
      OBVIOUS
    <3>1. CASE At(t, "open")
      BY <1>0, <1>1, <2>2, <3>1
    <3>2. CASE ~At(t, "open")
      <4>1. th[t].inum \in 1 .. inode_number
        BY <2>2, <3>2 DEF RecordsOK
      <4> QED  BY <1>1, <2>2, <3>2, <4>1
    <3> QED  BY <3>1, <3>2
  <2>4. ASSUME At(t, "enter")' PROVE th'[t].inum \in DOMAIN inodes'
    <3>1. Head(th[t].todo) = "save" /\ Head(th'[t].todo) = "enter" /\ th'[t].todo # <<>>
      BY <1>0, <2>4, CameFrom DEF At, Busy
    <3>2. Save(t)
      BY <3>1 DEF At, Step, Scan, Load, SaveBack, Path, Cat, Data, OpenDirectory,
         CreateData, Enter, LinkRecord, Rewrite, Aside, Fresh, Copy, Remove, Finish
    <3>3. th'[t].call.op = "mknod"
      <4>1. th'[t] \in Good
        BY <1>0, <3>1 DEF ThreadsOK, Idle
      <4>2. th'[t].call \in AllCalls /\ Head(th'[t].todo) \in StepsIn(th'[t].call.op)
        BY <4>1, RestOfPlan DEF Good, Locals, LocalsOK
      <4> QED  BY <3>1, <4>2, OpOfStep
    <3>4. Handles(t, "mknod") /\ th'[t].inum = th[t].inum
      BY <2>2, <3>1, <3>3 DEF Handles, Busy, CallOf, At
    <3>5. HasFds(2)
      <4>1. leaked + Reserve + 1 <= MaxFds /\ Threads # {}
        BY <1>0, <3>4 DEF FdsLast
      <4>2. leaked \in Nat /\ MaxFds \in Nat /\ crashes \in Nat
        BY CrashesAssumption, FdsAssumption DEF StepsInv, TypeOK
      <4>3. Reserve \in Nat /\ Reserve >= 3 + 2 * crashes
        BY <4>1, <4>2, ReserveType
      <4>4. \A l, r, c, m \in Nat : l + r + 1 <= m /\ r >= 3 + 2 * c => l + 2 <= m
        OBVIOUS
      <4> QED  BY <4>1, <4>2, <4>3, <4>4 DEF HasFds
    <3>6. \E st : inodes' = Put(inodes, th[t].inum, st)
      BY <3>2, <3>5 DEF Save, WriteInode
    <3> QED  BY <3>4, <3>6 DEF Put
  <2> QED  BY <1>4, <2>1, <2>3, <2>4
<1> QED  BY <1>3, <1>4

\* Every step of a handler keeps each record backed.
LEMMA StepKeepsRecords ==
  ASSUME StepsInv, RecordsOK, NEW t \in Threads, Step(t)
  PROVE  RecordsOK'
BY StepKeepsNumbered, StepKeepsHeld DEF RecordsOK

\* A new request holds no number yet.
LEMMA BeginKeepsRecords ==
  ASSUME StepsInv, RecordsOK, NEW t \in Threads, NEW c \in Calls, Begin(t, c)
  PROVE  RecordsOK'
<1>0. UNCHANGED <<directory, aside, inodes, inode_number>> /\ ThreadsOK
  BY DEF Begin, vars, store, StepsInv
<1> DEFINE r == NoLocals(c, StepsOf(c.op))
<1>a. Starts(t, c)
  BY <1>0, BeginMoves
<1>b. /\ th'[t] = r /\ \A u \in Threads \ {t} : th'[u] = th[u]
      /\ r.call = c /\ r.todo = StepsOf(c.op)
  BY <1>0, <1>a DEF Starts, ThreadsOK, NoLocals
<1> HIDE DEF r
<1>1. /\ th'[t] = r /\ \A u \in Threads \ {t} : th'[u] = th[u]
      /\ r.call = c
      /\ Head(r.todo) = IF c.op = "mknod" THEN "open"
                        ELSE IF c.op = "unlink" THEN "aside" ELSE "scan"
  BY <1>a, <1>b DEF Starts
<1>2. /\ ~Aloof(t)' /\ ~At(t, "slot")' /\ ~At(t, "enter")'
      /\ Handles(t, "mknod")' => At(t, "open")'
  BY <1>1 DEF Aloof, Handles, At, Busy, CallOf
<1>3. ASSUME NEW u \in Threads \ {t}
      PROVE  /\ Aloof(u)' => Aloof(u)
             /\ At(u, "slot")' => At(u, "slot")
             /\ Handles(u, "mknod")' => Handles(u, "mknod")
             /\ At(u, "open") => At(u, "open")'
             /\ At(u, "enter")' => At(u, "enter")
             /\ th'[u].inum = th[u].inum
  BY <1>1, <1>3 DEF Aloof, Handles, At, Busy, CallOf
<1> QED  BY <1>0, <1>2, <1>3 DEF RecordsOK, Numbered

\* safs_init counts from the largest number in Directory~.
LEMMA CrashKeepsRecords ==
  ASSUME StepsInv, RecordsOK, Crash
  PROVE  RecordsOK'
<1>1. /\ UNCHANGED <<directory, aside, inodes>> /\ inode_number' = ResumeCounter(directory)
      /\ \A t \in Threads : ~Busy(t)'
  BY DEF Crash, Remount, Busy, Idle
<1>2. \A s \in DOMAIN directory : directory[s].inum <= ResumeCounter(directory)
  BY ResumeCounterBound DEF StepsInv, TypeOK
<1> QED  BY <1>1, <1>2 DEF RecordsOK, Numbered, Aloof, Handles, At

\* There are no records before the first mount.
LEMMA RecordsInit == StepsInit => RecordsOK
<1>1. DOMAIN <<>> = {}
  OBVIOUS
<1> QED  BY <1>1 DEF StepsInit, Init, RecordsOK, Numbered, Aloof, Handles, At, Busy, Idle

\* Given StepsInv, RecordsOK is inductive.
LEMMA RecordsStep == StepsInv /\ RecordsOK /\ [StepsNext]_stepVars => RecordsOK'
<1> SUFFICES ASSUME StepsInv, RecordsOK, [StepsNext]_stepVars PROVE RecordsOK'
  OBVIOUS
<1>1. CASE UNCHANGED stepVars
  BY <1>1 DEF stepVars, vars, store, RecordsOK, Numbered, Aloof, Handles, At, Busy, CallOf
<1> QED
  BY <1>1, StepKeepsRecords, BeginKeepsRecords, CrashKeepsRecords DEF StepsNext

\* Every record is backed, at every moment.
LEMMA RecordsInvariant == StepsSafety => []RecordsOK
BY RecordsInit, RecordsStep, StepsInvariant, PTL DEF StepsSafety

\* Whoever reads Directory~ or .Directory~ between any two system calls of the
\* handlers under way, or after the daemon died there, finds no record without
\* a stat in Inodes~.
THEOREM RecordsAreBacked == StepsSafety => []RecordsBacked
<1>1. RecordsOK => RecordsBacked
  BY DEF RecordsOK, RecordsBacked, Numbered
<1> QED  BY <1>1, RecordsInvariant, PTL

\* At every such moment, and after the mount that follows a crash, the counter
\* is at least the number of every record of Directory~.
THEOREM CounterIsAhead == StepsSafety => []CounterCovers
<1>1. RecordsOK => CounterCovers
  BY DEF RecordsOK, CounterCovers, Numbered, InumOf
<1> QED  BY <1>1, RecordsInvariant, PTL
-----------------------------------------------------------------------------
(***************************************************************************)
(* A handler's number stays its file's own, where names do not change.     *)
(***************************************************************************)
NeverRuns(S) == \A t \in Threads : Busy(t) => CallOf(t).op \notin S

\* What is not in the workload is not under way.
LEMMA NeverRunsStep ==
  ASSUME NEW S \in SUBSET {"link", "rename"}, S \cap Ops = {}
  PROVE  /\ StepsInit => NeverRuns(S)
         /\ StepsInv /\ NeverRuns(S) /\ [StepsNext]_stepVars => NeverRuns(S)'
<1>1. ASSUME StepsInit PROVE NeverRuns(S)
  BY <1>1 DEF StepsInit, NeverRuns, Busy, Idle
<1>2. ASSUME StepsInv, NeverRuns(S), [StepsNext]_stepVars PROVE NeverRuns(S)'
  <2>1. CASE UNCHANGED stepVars
    BY <1>2, <2>1 DEF stepVars, NeverRuns, Busy, CallOf
  <2>2. ASSUME NEW t \in Threads, Step(t) PROVE NeverRuns(S)'
    <3>1. Motion(t) /\ Busy(t)
      BY <1>2, <2>2, StepMoves DEF StepsInv
    <3> QED  BY <1>2, <3>1 DEF NeverRuns, Motion, Busy, CallOf
  <2>3. ASSUME NEW t \in Threads, NEW c \in Calls, Begin(t, c) PROVE NeverRuns(S)'
    <3> DEFINE r == NoLocals(c, StepsOf(c.op))
    <3>1. th' = [th EXCEPT ![t] = r] /\ r.call = c
      BY <2>3 DEF Begin, NoLocals
    <3>2. c.op \notin S
      BY <2>3 DEF Begin
    <3>3. th \in [Threads -> Good \cup {Idle}]
      BY <1>2 DEF StepsInv, ThreadsOK
    <3> HIDE DEF r
    <3>4. th'[t] = r /\ \A u \in Threads \ {t} : th'[u] = th[u]
      BY <3>1, <3>3
    <3> QED  BY <1>2, <3>1, <3>2, <3>4 DEF NeverRuns, Busy, CallOf
  <2>4. CASE Crash
    BY <2>4 DEF Crash, NeverRuns, Busy, Idle
  <2> QED  BY <1>2, <2>1, <2>2, <2>3, <2>4 DEF StepsNext
<1> QED  BY <1>1, <1>2

\* Where there are neither links nor renames, every record a step writes has
\* the number and the name of one there was, but for that of a safs_mknod.
LEMMA RecordsCarried ==
  ASSUME StepsInv, NeverRuns({"link", "rename"}), NEW t \in Threads, Step(t), ~Enter(t)
  PROVE  /\ UNCHANGED inode_number
         /\ \A d \in {directory', aside'} : \A s \in DOMAIN d :
              \E e \in {directory, aside} : \E k \in DOMAIN e :
                d[s].inum = e[k].inum /\ d[s].name = e[k].name
<1>0. /\ TypeOK /\ ThreadsOK /\ IsDirectory(aside) /\ LeftInAside
  BY DEF StepsInv
<1>1. UNCHANGED inode_number
  BY DEF Step, Scan, Load, Save, SaveBack, Path, Cat, Data, OpenDirectory, CreateData,
         LinkRecord, Rewrite, Aside, Fresh, Copy, Remove, Finish
<1>2. ~LinkRecord(t) /\ ~Rewrite(t)
  <2>1. ~At(t, "slot") /\ ~At(t, "rewrite")
    BY <1>0, StepOfThread, OpOfStep DEF NeverRuns
  <2> QED  BY <2>1 DEF LinkRecord, Rewrite
<1>3. DOMAIN <<>> = {}
  OBVIOUS
<1>4. CASE UNCHANGED <<directory, aside>>
  BY <1>1, <1>4
<1>5. CASE Aside(t) \/ Finish(t)
  BY <1>1, <1>3, <1>5 DEF Aside, Finish
<1>6. CASE Copy(t)
  <2>1. At(t, "copy") /\ aside' = aside
    BY <1>6 DEF Copy
  <2>2. CASE CopiesOne(t)
    <3> DEFINE k == Min(th[t].left)
    <3>1. th[t].left \in SUBSET Nat /\ th[t].left \subseteq DOMAIN aside
      <4>1. th[t].left \in SUBSET Nat /\ Busy(t)
        BY <1>0, <2>1, StepOfThread DEF Locals
      <4>2. th[t].left \subseteq DOMAIN aside
        BY <1>0, <4>1 DEF LeftInAside
      <4> QED  BY <4>1, <4>2
    <3>2. k \in DOMAIN aside /\ directory' = Put(directory, th[t].slot, aside[k])
      BY <2>2, <3>1, MinOfNaturals DEF CopiesOne
    <3> HIDE DEF k
    <3> QED  BY <1>1, <2>1, <3>2 DEF Put
  <2> QED  BY <1>0, <1>4, <1>6, <2>1, <2>2, CopyMoves DEF MeetsOne
<1> QED
  BY <1>2, <1>4, <1>5, <1>6
  DEF Step, Scan, Load, Save, SaveBack, Path, Cat, Data, OpenDirectory, CreateData, Fresh,
      Remove, files

\* The numbers the threads have, after any step.
LEMMA HandlersCarried ==
  ASSUME StepsInv, NeverRuns({"link", "rename"}), NEW t \in Threads, Step(t),
         NEW u \in Threads, Busy(u)', CallOf(u)'.op \notin {"mknod", "unlink"}, th'[u].inum # 0
  PROVE  \/ /\ Busy(u) /\ CallOf(u).op \notin {"mknod", "unlink"}
            /\ th'[u].inum = th[u].inum /\ CallOf(u)'.n = CallOf(u).n
         \/ \E s \in DOMAIN directory :
              directory[s].inum = th'[u].inum /\ directory[s].name = CallOf(u)'.n
<1>0. /\ TypeOK /\ ThreadsOK /\ IsDirectory(directory) /\ Motion(t) /\ Busy(t)
  BY StepMoves DEF StepsInv, TypeOK
<1>1. CASE u # t
  BY <1>0, <1>1 DEF Motion, Busy, CallOf
<1>2. CASE u = t
  <2>0. Numbers(t)
    BY StepNumbers
  <2>1. CallOf(t)'.n = CallOf(t).n /\ CallOf(t).op \notin {"mknod", "unlink"}
    BY <1>0, <1>2 DEF Motion, Busy, CallOf
  <2>2. ~At(t, "slot") /\ ~At(t, "open")
    BY <1>0, <2>1, StepOfThread, OpOfStep DEF NeverRuns
  <2>3. CASE th'[t].inum = th[t].inum
    BY <1>0, <1>2, <2>1, <2>3
  <2>4. CASE Found(CallOf(t).n) /\ th'[t].inum = Entry(CallOf(t).n).inum
    BY <1>0, <1>2, <2>1, <2>4, FoundEntry
  <2> QED  BY <1>2, <2>0, <2>1, <2>2, <2>3, <2>4 DEF Numbers, Busy
<1> QED  BY <1>1, <1>2

\* No step gives a number to a second name.
LEMMA StepKeepsOwned ==
  ASSUME StepsInv, NumbersOwned, NeverRuns({"link", "rename"}), NEW t \in Threads, Step(t)
  PROVE  NumbersOwned'
<1>1. crashes' = crashes
  BY DEF Step, Scan, Load, Save, SaveBack, Path, Cat, Data, OpenDirectory, CreateData,
         Enter, LinkRecord, Rewrite, Aside, Fresh, Copy, Remove, Finish
<1> SUFFICES ASSUME crashes = 0
             PROVE  /\ (\E f \in [1 .. inode_number - 1 -> Names] : NamesOf(f))'
                    /\ \A u \in Threads :
                         Handles(u, "mknod")' /\ ~At(u, "open")' => th'[u].inum = inode_number'
  BY <1>1 DEF NumbersOwned
<1>2. PICK f \in [1 .. inode_number - 1 -> Names] : NamesOf(f)
  BY DEF NumbersOwned
<1>3. /\ TypeOK /\ ThreadsOK /\ OneLocks /\ Motion(t) /\ Busy(t) /\ ThreadsOK'
      /\ inode_number \in Nat \ {0}
  BY StepMoves DEF StepsInv, TypeOK
<1>4. \A u \in Threads : Handles(u, "mknod")' => Handles(u, "mknod")
  BY <1>3, StepKeepsLocks
<1>5. CASE Enter(t)
  <2> DEFINE m == CallOf(t).n
             v == [NewDentry(m) EXCEPT !.inum = th[t].inum]
  <2>1. /\ At(t, "enter") /\ directory' = Put(directory, NewSlot, v) /\ aside' = aside
        /\ inode_number' = inode_number + 1
    BY <1>5 DEF Enter, NextNumber
  <2>2. Handles(t, "mknod") /\ m \in Names
    BY <1>3, <2>1, StepOfThread, OpOfStep, CallFields DEF Handles
  <2>3. th[t].inum = inode_number
    BY <2>1, <2>2 DEF NumbersOwned, At
  <2>4. v.inum = inode_number /\ v.name = m
    BY <2>3 DEF NewDentry
  <2> HIDE DEF v
  <2>5. PICK g : g = [i \in 1 .. inode_number |-> IF i = inode_number THEN m ELSE f[i]]
    OBVIOUS
  <2>6. \A i \in DOMAIN f : i \in DOMAIN g /\ g[i] = f[i]
    BY <1>3, <2>5
  <2>7. inode_number \in DOMAIN g /\ g[inode_number] = m
    BY <1>3, <2>5
  <2>10. g \in [1 .. inode_number' - 1 -> Names]
    BY <1>3, <2>1, <2>2, <2>5
  <2>8. NamesOf(g)'
    <3>1. ASSUME NEW d \in {directory', aside'}, NEW s \in DOMAIN d
          PROVE  d[s].inum \in DOMAIN g /\ g[d[s].inum] = d[s].name
      <4>1. (s \in DOMAIN aside /\ d[s] = aside[s]) \/ d[s] = v
              \/ (s \in DOMAIN directory /\ d[s] = directory[s])
        BY <2>1, <3>1 DEF Put
      <4> QED  BY <1>2, <2>4, <2>6, <2>7, <4>1 DEF NamesOf
    <3>2. ASSUME NEW u \in Threads, Busy(u)', CallOf(u)'.op \notin {"mknod", "unlink"},
                 th'[u].inum # 0
          PROVE  th'[u].inum \in DOMAIN g /\ g[th'[u].inum] = CallOf(u)'.n
      BY <1>2, <2>6, <3>2, HandlersCarried DEF NamesOf
    <3> QED  BY <3>1, <3>2 DEF NamesOf
  <2>9. ASSUME NEW u \in Threads, Handles(u, "mknod")' PROVE FALSE
    <3>1. u = t
      BY <1>3, <1>4, <2>2, <2>9, OneHandler DEF Handles, DirectoryLocked
    <3>2. th'[t].todo # <<>> /\ th'[t].call.op = "mknod" /\ th'[t].call = th[t].call
      BY <1>3, <2>9, <3>1, CameFrom DEF Handles, Busy, CallOf
    <3>3. Head(th[t].todo) = "enter" /\ th[t].call.op = "mknod"
      BY <2>1, <3>2 DEF At
    <3> QED  BY <1>3, <3>2, <3>3 DEF Motion, Leads, Follows
  <2> QED  BY <2>8, <2>9, <2>10
<1>6. CASE ~Enter(t)
  <2>1. inode_number' = inode_number
    BY <1>6, RecordsCarried
  <2>2. NamesOf(f)'
    <3>1. ASSUME NEW d \in {directory', aside'}, NEW s \in DOMAIN d
          PROVE  d[s].inum \in DOMAIN f /\ f[d[s].inum] = d[s].name
      <4>1. \E e \in {directory, aside} : \E k \in DOMAIN e :
              d[s].inum = e[k].inum /\ d[s].name = e[k].name
        BY <1>6, <3>1, RecordsCarried
      <4> QED  BY <1>2, <4>1 DEF NamesOf
    <3>2. ASSUME NEW u \in Threads, Busy(u)', CallOf(u)'.op \notin {"mknod", "unlink"},
                 th'[u].inum # 0
          PROVE  th'[u].inum \in DOMAIN f /\ f[th'[u].inum] = CallOf(u)'.n
      BY <1>2, <3>2, HandlersCarried DEF NamesOf
    <3> QED  BY <3>1, <3>2 DEF NamesOf
  <2>3. ASSUME NEW u \in Threads, Handles(u, "mknod")', ~At(u, "open")'
        PROVE  th'[u].inum = inode_number'
    <3>1. CASE u # t
      BY <1>3, <2>1, <2>3, <3>1 DEF NumbersOwned, Handles, At, Busy, CallOf, Motion
    <3>2. CASE u = t
      <4>0. Numbers(t) /\ Handles(t, "mknod")
        BY <1>4, <2>3, <3>2, StepNumbers
      <4>1. th'[t].todo # <<>> /\ th'[t].call.op = "mknod"
        BY <2>3, <3>2 DEF Handles, Busy, CallOf
      <4>2. Head(th'[t].todo) # "saveback"
        <5>1. th'[t] \in Good
          BY <1>3, <4>1 DEF ThreadsOK, Idle
        <5> QED  BY <4>1, <5>1 DEF Good, LocalsOK
      <4>3. ~At(t, "scan") /\ ~At(t, "slot") /\ CallOf(t).op # "unlink"
        BY <1>3, <4>0, StepOfThread, OpOfStep DEF Handles
      <4>4. CASE At(t, "open")
        BY <2>1, <3>2, <4>0, <4>1, <4>2, <4>3, <4>4 DEF Numbers
      <4>5. CASE ~At(t, "open")
        BY <2>1, <3>2, <4>0, <4>1, <4>2, <4>3, <4>5 DEF Numbers, NumbersOwned
      <4> QED  BY <4>4, <4>5
    <3> QED  BY <3>1, <3>2
  <2> QED  BY <2>1, <2>2, <2>3
<1> QED  BY <1>5, <1>6

\* A new request holds no number yet.
LEMMA BeginKeepsOwned ==
  ASSUME StepsInv, NumbersOwned, NEW t \in Threads, NEW c \in Calls, Begin(t, c)
  PROVE  NumbersOwned'
<1>1. /\ UNCHANGED <<directory, aside, inode_number, crashes>>
      /\ ThreadsOK
  BY DEF Begin, vars, store, StepsInv
<1> DEFINE r == NoLocals(c, StepsOf(c.op))
<1>2. Starts(t, c)
  BY <1>1, BeginMoves
<1>3. /\ th'[t] = r /\ \A u \in Threads \ {t} : th'[u] = th[u]
      /\ r.call = c /\ r.todo = StepsOf(c.op) /\ r.inum = 0
  BY <1>1, <1>2 DEF Starts, ThreadsOK, NoLocals
<1> HIDE DEF r
<1>4. Handles(t, "mknod")' => At(t, "open")'
  BY <1>2, <1>3 DEF Starts, Handles, At, Busy, CallOf
<1> SUFFICES ASSUME crashes = 0
             PROVE  /\ (\E f \in [1 .. inode_number - 1 -> Names] : NamesOf(f))'
                    /\ \A u \in Threads :
                         Handles(u, "mknod")' /\ ~At(u, "open")' => th'[u].inum = inode_number'
  BY <1>1 DEF NumbersOwned
<1>5. PICK f \in [1 .. inode_number - 1 -> Names] : NamesOf(f)
  BY DEF NumbersOwned
<1>6. NamesOf(f)'
  <2>1. ASSUME NEW u \in Threads, Busy(u)', CallOf(u)'.op \notin {"mknod", "unlink"},
               th'[u].inum # 0
        PROVE  th'[u].inum \in DOMAIN f /\ f[th'[u].inum] = CallOf(u)'.n
    BY <1>3, <1>5, <2>1 DEF NamesOf, Busy, CallOf
  <2> QED  BY <1>1, <1>5, <2>1 DEF NamesOf
<1>7. ASSUME NEW u \in Threads, Handles(u, "mknod")', ~At(u, "open")'
      PROVE  th'[u].inum = inode_number'
  <2>1. u # t
    BY <1>4, <1>7
  <2> QED  BY <1>1, <1>3, <1>7, <2>1 DEF NumbersOwned, Handles, At, Busy, CallOf
<1> QED  BY <1>1, <1>6, <1>7

\* No number has been given before the first mount.
LEMMA OwnedInit == StepsInit => NumbersOwned
<1> SUFFICES ASSUME StepsInit PROVE NumbersOwned
  OBVIOUS
<1>1. /\ directory = <<>> /\ aside = <<>> /\ DOMAIN <<>> = {}
      /\ \A t \in Threads : ~Busy(t)
  BY DEF StepsInit, Init, Busy, Idle
<1>2. inode_number = 1
  <2>1. inode_number = ResumeCounter(<<>>) /\ {<<>>[s].inum : s \in DOMAIN <<>>} = {}
    BY <1>1 DEF StepsInit, Init
  <2>2. inode_number = Max({1})
    BY <2>1 DEF ResumeCounter
  <2>3. IsFiniteSet({1}) /\ {1} \in SUBSET Nat /\ {1} # {}
    BY FS_Singleton
  <2> QED  BY <2>2, <2>3, MaxOfFinite
<1>3. PICK f : f = [i \in 1 .. inode_number - 1 |-> CHOOSE n \in Names : TRUE]
  OBVIOUS
<1>4. f \in [1 .. inode_number - 1 -> Names]
  BY <1>2, <1>3
<1>5. NamesOf(f)
  BY <1>1 DEF NamesOf
<1> QED  BY <1>1, <1>4, <1>5 DEF NumbersOwned, Handles

\* NumbersOwned is inductive, where names stay.
LEMMA OwnedStep ==
  StepsInv /\ NumbersOwned /\ NeverRuns({"link", "rename"}) /\ [StepsNext]_stepVars
    => NumbersOwned'
<1> SUFFICES ASSUME StepsInv, NumbersOwned, NeverRuns({"link", "rename"}),
                    [StepsNext]_stepVars
             PROVE  NumbersOwned'
  OBVIOUS
<1>1. CASE UNCHANGED stepVars
  BY <1>1 DEF stepVars, vars, store, NumbersOwned, NamesOf, Handles, At, Busy, CallOf
<1>2. CASE Crash
  <2>1. crashes' # 0
    BY <1>2, CrashesAssumption DEF Crash, StepsInv
  <2> QED  BY <2>1 DEF NumbersOwned
<1> QED
  BY <1>1, <1>2, StepKeepsOwned, BeginKeepsOwned DEF StepsNext

\* Where files get no second name and keep the one they have, the number a
\* handler holds after it has closed Directory~ is, for as long as it runs, that
\* of no record of another name: the stat it writes back is its own file's.
THEOREM NumbersAreOwn ==
  ASSUME Ops \cap {"link", "rename"} = {}
  PROVE  StepsSafety => []HandledNumberIsOwn
<1>1. /\ StepsInit => NeverRuns({"link", "rename"})
      /\ StepsInv /\ NeverRuns({"link", "rename"}) /\ [StepsNext]_stepVars
           => NeverRuns({"link", "rename"})'
  <2>1. {"link", "rename"} \cap Ops = {}
    OBVIOUS
  <2> QED  BY <2>1, NeverRunsStep
<1>2. StepsInv /\ NumbersOwned => HandledNumberIsOwn
  <2> SUFFICES ASSUME StepsInv, NumbersOwned, crashes = 0,
                      NEW t \in Threads, Busy(t), CallOf(t).op \notin {"mknod", "unlink"},
                      NEW d \in {directory, aside}, NEW s \in LiveSlots(d),
                      d[s].inum = th[t].inum
               PROVE  d[s].name = CallOf(t).n
    BY DEF HandledNumberIsOwn
  <2>1. PICK f \in [1 .. inode_number - 1 -> Names] : NamesOf(f)
    BY DEF NumbersOwned
  <2>2. s \in DOMAIN d /\ th[t].inum # 0
    BY DEF LiveSlots
  <2> QED  BY <2>1, <2>2 DEF NamesOf
<1> QED
  BY <1>1, <1>2, StepsInvariant, OwnedInit, OwnedStep, PTL DEF StepsSafety
-----------------------------------------------------------------------------
(***************************************************************************)
(* No name leaves the disk.                                                *)
(***************************************************************************)

\* While a handler holds the directory's lock no other changes Directory~.
LEMMA OthersWait ==
  ASSUME StepsInv, NEW t \in Threads, Step(t), NEW u \in Threads \ {t}
  PROVE  /\ th'[u] = th[u]
         /\ Locks(u) => UNCHANGED <<directory, aside, dirFile, inode_number>>
<1>0. ThreadsOK /\ OneLocks /\ Motion(t) /\ Busy(t)
  BY StepMoves DEF StepsInv
<1>1. th'[u] = th[u]
  BY <1>0 DEF Motion
<1>2. ASSUME Locks(u) PROVE UNCHANGED <<directory, aside, dirFile, inode_number>>
  <2>1. CallOf(t).op \notin DirectoryLocked
    BY <1>0, <1>2, OneHandler DEF Locks
  <2>2. \A step \in {"enter", "slot", "rewrite", "aside", "fresh", "copy", "finish"} :
          ~At(t, step)
    BY <1>0, <2>1, StepOfThread, OpOfStep DEF DirectoryLocked
  <2> QED
    BY <2>2 DEF Step, Scan, Load, Save, SaveBack, Path, Cat, Data, OpenDirectory, CreateData,
         Enter, LinkRecord, Rewrite, Aside, Fresh, Copy, Remove, Finish, files
<1> QED  BY <1>1, <1>2

\* The five ways in which safs_unlink gets on.
MovesAside(t) ==
  /\ At(t, "aside") /\ At(t, "fresh")'
  /\ aside' = directory /\ directory' = <<>>
  /\ th'[t].left = {} /\ th'[t].slot = th[t].slot

StartsCopy(t) ==
  /\ At(t, "fresh") /\ At(t, "copy")'
  /\ UNCHANGED <<directory, aside>>
  /\ th'[t].left = DOMAIN aside /\ th'[t].slot = th[t].slot

CopiesLeast(t, s) ==
  /\ At(t, "copy") /\ At(t, "copy")'
  /\ aside[s].name # CallOf(t).n
  /\ directory' = Put(directory, th[t].slot, aside[s]) /\ UNCHANGED aside
  /\ th'[t].left = th[t].left \ {s} /\ th'[t].slot = th[t].slot + 1

LeavesLeast(t, s) ==
  /\ At(t, "copy") /\ At(t, "load")'
  /\ aside[s].name = CallOf(t).n
  /\ UNCHANGED <<directory, aside>>
  /\ th'[t].left = th[t].left \ {s} /\ th'[t].slot = th[t].slot

GetsOn(t) ==
  /\ ~At(t, "aside") /\ ~At(t, "fresh") /\ ~At(t, "aside")' /\ ~At(t, "fresh")'
  /\ At(t, "finish")' => th[t].left = {}
  /\ UNCHANGED <<directory, aside>>
  /\ th'[t].left = th[t].left /\ th'[t].slot = th[t].slot

\* They are the only ones.
LEMMA UnlinkTurns ==
  ASSUME StepsInv, NEW t \in Threads, Step(t), Handles(t, "unlink")'
  PROVE  /\ Handles(t, "unlink") /\ CallOf(t)' = CallOf(t)
         /\ \/ MovesAside(t) \/ StartsCopy(t) \/ GetsOn(t)
            \/ \E s \in th[t].left : /\ \A x \in th[t].left : s <= x
                                     /\ CopiesLeast(t, s) \/ LeavesLeast(t, s)
<1>0. /\ TypeOK /\ ThreadsOK /\ OneLocks /\ IsDirectory(aside) /\ LeftInAside /\ StillFound
      /\ Motion(t) /\ Busy(t) /\ ThreadsOK'
  BY StepMoves DEF StepsInv
<1>1. th'[t].todo # <<>> /\ th'[t].call.op = "unlink" /\ th'[t].call = th[t].call
  BY <1>0, CameFrom DEF Handles, Busy, CallOf
<1>2. Handles(t, "unlink") /\ CallOf(t)' = CallOf(t)
  BY <1>0, <1>1 DEF Handles, CallOf
<1> DEFINE h == Head(th[t].todo)
           k == Head(th'[t].todo)
<1>3. th[t] \in Locals /\ LocalsOK(th[t]) /\ h \in StepsIn("unlink")
  BY <1>0, <1>1, BusyIsGood, RestOfPlan DEF LocalsOK
<1>4. k # "saveback"
  <2>1. th'[t] \in Good
    BY <1>0, <1>1 DEF ThreadsOK, Idle
  <2> QED  BY <1>1, <2>1 DEF Good, LocalsOK
<1>5. ASSUME NEW left, NEW slot, Keeps(t, th[t].inum, left, slot)
      PROVE  <<h, k>> \in Follows("unlink") /\ th'[t].left = left /\ th'[t].slot = slot
  BY <1>1, <1>4, <1>5 DEF Keeps
<1>6. CASE h = "aside"
  <2>1. At(t, "aside") /\ Aside(t)
    BY <1>0, <1>6 DEF At, Step, Scan, Load, Save, SaveBack, Path, Cat, Data, OpenDirectory,
         CreateData, Enter, LinkRecord, Rewrite, Fresh, Copy, Remove, Finish
  <2>2. ~Returns(t, "ENOENT")
    <3>1. th[t].back = <<>>
      BY <1>1, <1>3 DEF LocalsOK
    <3> QED  BY <1>0, <1>1, <3>1 DEF Returns, Idle, ThreadsOK
  <2>3. aside' = directory /\ directory' = <<>>
    BY <2>1, <2>2 DEF Aside
  <2>4. <<h, k>> \in Follows("unlink") /\ th'[t].left = th[t].left /\ th'[t].slot = th[t].slot
    BY <1>0, <1>5, <2>1, AsideMoves, ProceedsKeeps
  <2>5. k = "fresh" /\ th[t].left = {}
    BY <1>0, <1>6, <2>1, <2>4 DEF Follows, LeftInAside
  <2> QED  BY <1>1, <1>2, <2>1, <2>3, <2>4, <2>5 DEF MovesAside, At, Busy
<1>7. CASE h = "fresh"
  <2>1. At(t, "fresh") /\ Fresh(t)
    BY <1>0, <1>7 DEF At, Step, Scan, Load, Save, SaveBack, Path, Cat, Data, OpenDirectory,
         CreateData, Enter, LinkRecord, Rewrite, Aside, Copy, Remove, Finish
  <2>2. UNCHANGED <<directory, aside>>
    BY <2>1 DEF Fresh
  <2>3. Keeps(t, th[t].inum, DOMAIN aside, th[t].slot)
    BY <1>0, <2>1, FreshMoves, FreshKeeps
  <2>4. <<h, k>> \in Follows("unlink") /\ th'[t].left = DOMAIN aside /\ th'[t].slot = th[t].slot
    BY <1>5, <2>3
  <2>5. k = "copy"
    BY <1>7, <2>4 DEF Follows
  <2> QED  BY <1>1, <1>2, <2>1, <2>2, <2>4, <2>5 DEF StartsCopy, At, Busy
<1>8. ASSUME h \notin {"aside", "fresh"}, Ended(t) \/ Proceeds(t),
             k = "finish" => th[t].left = {}, UNCHANGED <<directory, aside>>
      PROVE  GetsOn(t)
  <2>1. <<h, k>> \in Follows("unlink") /\ th'[t].left = th[t].left /\ th'[t].slot = th[t].slot
    BY <1>0, <1>5, <1>8, ProceedsKeeps
  <2>2. k \notin {"aside", "fresh"}
    BY <1>8, <2>1 DEF Follows
  <2> QED  BY <1>8, <2>1, <2>2 DEF GetsOn, At, Busy
<1>9. CASE h = "copy"
  <2>1. At(t, "copy") /\ Copy(t) /\ UNCHANGED aside
    BY <1>0, <1>9 DEF At, Step, Scan, Load, Save, SaveBack, Path, Cat, Data, OpenDirectory,
         CreateData, Enter, LinkRecord, Rewrite, Aside, Fresh, Copy, Remove, Finish
  <2>2. \/ th[t].left = {} /\ UNCHANGED directory /\ (Ended(t) \/ Proceeds(t))
        \/ CopiesOne(t) \/ MeetsOne(t)
    BY <1>0, <2>1, CopyMoves
  <2> DEFINE s == Min(th[t].left)
  <2>3. th[t].left # {} => s \in th[t].left /\ \A x \in th[t].left : s <= x
    BY <1>3, MinOfNaturals DEF Locals
  <2> HIDE DEF s
  <2>4. CASE CopiesOne(t)
    <3> DEFINE new == [th[t] EXCEPT !.left = @ \ {s}, !.slot = @ + 1]
    <3>1. /\ th[t].left # {} /\ aside[s].name # CallOf(t).n
          /\ directory' = Put(directory, th[t].slot, aside[s]) /\ th'[t] = new
      BY <1>0, <2>4 DEF CopiesOne, ThreadsOK, s
    <3>2. new.left = th[t].left \ {s} /\ new.slot = th[t].slot + 1 /\ new.todo = th[t].todo
      BY <1>3 DEF Locals
    <3> HIDE DEF new
    <3>3. CopiesLeast(t, s)
      BY <1>1, <1>9, <2>1, <3>1, <3>2 DEF CopiesLeast, At, Busy
    <3> QED  BY <1>2, <2>3, <3>1, <3>3
  <2>5. CASE MeetsOne(t)
    <3>0. PICK todo :
            /\ Head(todo) = "load"
            /\ th' = [th EXCEPT ![t] = [th[t] EXCEPT !.left = @ \ {s},
                                          !.inum = aside[s].inum, !.todo = todo]]
      BY <2>5 DEF MeetsOne, s
    <3> DEFINE new == [th[t] EXCEPT !.left = @ \ {s}, !.inum = aside[s].inum, !.todo = todo]
    <3>1. /\ th[t].left # {} /\ aside[s].name = CallOf(t).n /\ UNCHANGED directory
          /\ th'[t] = new
      BY <1>0, <2>5, <3>0 DEF MeetsOne, ThreadsOK, s
    <3>2. new.left = th[t].left \ {s} /\ new.slot = th[t].slot /\ new.todo = todo
      BY <1>3 DEF Locals
    <3> HIDE DEF new
    <3>3. LeavesLeast(t, s)
      BY <1>1, <2>1, <3>0, <3>1, <3>2 DEF LeavesLeast, At, Busy
    <3> QED  BY <1>2, <2>3, <3>1, <3>3
  <2> QED  BY <1>2, <1>8, <1>9, <2>1, <2>2, <2>4, <2>5
<1>10. CASE h \in {"load", "save", "path", "cat", "remove"}
  <2>1. Load(t) \/ Save(t) \/ Path(t) \/ Cat(t) \/ Remove(t)
    BY <1>0, <1>10 DEF At, Step, Scan, SaveBack, Data, OpenDirectory,
         CreateData, Enter, LinkRecord, Rewrite, Aside, Fresh, Copy, Finish
  <2>2. UNCHANGED <<directory, aside>>
    BY <2>1 DEF Load, Save, Path, Cat, Remove, files
  <2>3. ~Extends(t)
    BY <1>1 DEF Extends, CallOf
  <2>4. Ended(t) \/ Proceeds(t)
    BY <1>0, <2>1, <2>3, LoadMoves, SaveMoves, PathMoves, RemoveMoves
  <2>5. k # "finish"
    BY <1>0, <1>1, <1>10, CameFrom
  <2> QED  BY <1>2, <1>8, <1>10, <2>2, <2>4, <2>5
<1>11. h # "finish"
  BY <1>0, <1>1, CameFrom
<1> QED  BY <1>3, <1>6, <1>7, <1>9, <1>10, <1>11 DEF StepsIn

\* A record written where there is none costs no name.
LEMMA PutKeepsNames ==
  ASSUME NEW d, NEW x, x \notin DOMAIN d, NEW v
  PROVE  /\ DOMAIN Put(d, x, v) = DOMAIN d \cup {x}
         /\ LiveNames(d) \subseteq LiveNames(Put(d, x, v))
         /\ v.inum # 0 => v.name \in LiveNames(Put(d, x, v))
<1>1. DOMAIN Put(d, x, v) = DOMAIN d \cup {x}
  BY DEF Put
<1>2. Put(d, x, v)[x] = v /\ \A s \in DOMAIN d : Put(d, x, v)[s] = d[s]
  BY DEF Put
<1> DEFINE e == Put(d, x, v)
<1> HIDE DEF e
<1>3. DOMAIN e = DOMAIN d \cup {x} /\ e[x] = v /\ \A s \in DOMAIN d : e[s] = d[s]
  BY <1>1, <1>2 DEF e
<1>4. LiveNames(d) \subseteq LiveNames(e) /\ (v.inum # 0 => v.name \in LiveNames(e))
  BY <1>3 DEF LiveNames, LiveSlots
<1> QED  BY <1>3, <1>4 DEF e

\* The record safs_rename writes has the other name, and is the only one that
\* changes.
LEMMA RewriteNames ==
  ASSUME IsDirectory(directory), NEW n, Found(n), NEW m \in Names,
         directory' = [directory EXCEPT ![FirstMatch(directory, n)].name = m]
  PROVE  /\ DOMAIN directory' = DOMAIN directory
         /\ LiveNames(directory) \ {n} \subseteq LiveNames(directory')
         /\ m \in LiveNames(directory')
<1> DEFINE k == FirstMatch(directory, n)
<1>1. k \in DOMAIN directory /\ directory[k].inum # 0 /\ directory[k].name = n
  BY FoundEntry
<1> HIDE DEF k
<1>2. /\ DOMAIN directory' = DOMAIN directory
      /\ directory'[k].name = m /\ directory'[k].inum = directory[k].inum
      /\ \A s \in DOMAIN directory : s # k => directory'[s] = directory[s]
  BY <1>1 DEF k, IsDirectory, Dentry
<1> QED  BY <1>1, <1>2 DEF LiveNames, LiveSlots

\* What the loop of safs_unlink has read is not lost before its end.
LEMMA StepKeepsCopy ==
  ASSUME StepsInv, CopyOK, NEW t \in Threads, Step(t)
  PROVE  CopyOK'
<1> SUFFICES ASSUME NEW u \in Threads
             PROVE  /\ Handles(u, "unlink")' => th'[u].slot >= FirstNewSlot
                    /\ At(u, "aside")' \/ At(u, "fresh")' => th'[u].slot = FirstNewSlot
                    /\ At(u, "fresh")' => directory' = <<>>
                    /\ Copies(u)' =>
                         /\ DOMAIN directory' \subseteq 2 .. th'[u].slot - 1
                         /\ \A s \in LiveSlots(aside') \ th'[u].left :
                              \/ aside'[s].name = CallOf(u)'.n
                              \/ aside'[s].name \in LiveNames(directory')
                    /\ At(u, "finish")' => th'[u].left = {}
  BY DEF CopyOK
<1>0. /\ ThreadsOK /\ OneLocks /\ Motion(t) /\ Busy(t) /\ ThreadsOK'
      /\ LeftInAside /\ TypeOK /\ StillFound /\ IsDirectory(aside)
  BY StepMoves DEF StepsInv
<1>a. ASSUME At(u, "aside")' \/ At(u, "fresh")' \/ At(u, "finish")'
      PROVE  Handles(u, "unlink")'
  <2>1. th'[u] \in Good /\ th'[u].todo # <<>>
    BY <1>0, <1>a DEF ThreadsOK, At, Busy, Idle
  <2>2. th'[u].call \in AllCalls /\ Head(th'[u].todo) \in StepsIn(th'[u].call.op)
    BY <2>1, RestOfPlan DEF Good, Locals, LocalsOK
  <2> QED  BY <1>a, <2>1, <2>2, OpOfStep DEF At, Handles, Busy, CallOf
<1>b. Copies(u)' => Handles(u, "unlink")'
  BY DEF Copies, Aloof
<1>1. CASE u # t
  <2>1. /\ th'[u] = th[u]
        /\ Locks(u) => UNCHANGED <<directory, aside, dirFile>>
    BY <1>1, OthersWait
  <2>2. Handles(u, "unlink")' => Locks(u)
    BY <2>1 DEF Handles, Locks, Busy, CallOf, DirectoryLocked
  <2>3. /\ Handles(u, "unlink")' <=> Handles(u, "unlink")
        /\ At(u, "aside")' <=> At(u, "aside")
        /\ At(u, "fresh")' <=> At(u, "fresh")
        /\ At(u, "finish")' <=> At(u, "finish")
        /\ Copies(u)' <=> Copies(u)
        /\ CallOf(u)' = CallOf(u)
    BY <2>1 DEF Busy, At, Copies, Aloof, Handles, CallOf
  <2> QED  BY <1>a, <1>b, <2>1, <2>2, <2>3 DEF CopyOK
<1>2. CASE u = t /\ ~Handles(t, "unlink")'
  BY <1>2, <1>a, <1>b
<1>3. CASE u = t /\ Handles(t, "unlink")'
  <2>0. /\ Handles(t, "unlink") /\ CallOf(t)' = CallOf(t)
        /\ \/ MovesAside(t) \/ StartsCopy(t) \/ GetsOn(t)
           \/ \E s \in th[t].left : /\ \A x \in th[t].left : s <= x
                                    /\ CopiesLeast(t, s) \/ LeavesLeast(t, s)
    BY <1>3, UnlinkTurns
  <2>1. th[t].slot \in Nat /\ th[t].slot >= 2 /\ th[t].left \in SUBSET Nat
    BY <1>0, <2>0, BusyIsGood DEF CopyOK, Locals, FirstNewSlot
  <2>2. CASE MovesAside(t)
    BY <1>3, <2>0, <2>1, <2>2 DEF MovesAside, CopyOK, Copies, At, FirstNewSlot
  <2>3. CASE StartsCopy(t)
    <3>1. DOMAIN directory = {}
      <4>1. directory = <<>> /\ DOMAIN <<>> = {}
        BY <2>3 DEF StartsCopy, CopyOK
      <4> QED  BY <4>1
    <3>2. LiveSlots(aside) \ DOMAIN aside = {}
      BY DEF LiveSlots
    <3> QED  BY <1>3, <2>0, <2>1, <2>3, <3>1, <3>2 DEF StartsCopy, At, FirstNewSlot
  <2>4. CASE GetsOn(t)
    <3>1. Copies(t)
      BY <2>0, <2>4 DEF GetsOn, Copies, Aloof
    <3>2. /\ DOMAIN directory \subseteq 2 .. th[t].slot - 1
          /\ \A s \in LiveSlots(aside) \ th[t].left :
               aside[s].name = CallOf(t).n \/ aside[s].name \in LiveNames(directory)
      BY <3>1 DEF CopyOK
    <3> QED  BY <1>3, <2>0, <2>1, <2>4, <3>2 DEF GetsOn, FirstNewSlot
  <2>5. ASSUME NEW s \in th[t].left, \A x \in th[t].left : s <= x, CopiesLeast(t, s)
        PROVE  /\ th'[t].slot >= FirstNewSlot
               /\ DOMAIN directory' \subseteq 2 .. th'[t].slot - 1
               /\ \A x \in LiveSlots(aside') \ th'[t].left :
                    \/ aside'[x].name = CallOf(t)'.n
                    \/ aside'[x].name \in LiveNames(directory')
    <3>1. Copies(t)
      BY <2>0, <2>5 DEF CopiesLeast, Copies, Aloof, At
    <3>2. /\ DOMAIN directory \subseteq 2 .. th[t].slot - 1
          /\ \A x \in LiveSlots(aside) \ th[t].left :
               aside[x].name = CallOf(t).n \/ aside[x].name \in LiveNames(directory)
      BY <3>1 DEF CopyOK
    <3>3. th[t].slot \notin DOMAIN directory
      BY <2>1, <3>2
    <3>4. /\ directory' = Put(directory, th[t].slot, aside[s]) /\ aside' = aside
          /\ th'[t].left = th[t].left \ {s} /\ th'[t].slot = th[t].slot + 1
      BY <2>5 DEF CopiesLeast
    <3>5. /\ DOMAIN directory' = DOMAIN directory \cup {th[t].slot}
          /\ LiveNames(directory) \subseteq LiveNames(directory')
          /\ aside[s].inum # 0 => aside[s].name \in LiveNames(directory')
      BY <3>3, <3>4, PutKeepsNames
    <3>6. th'[t].slot >= FirstNewSlot /\ DOMAIN directory' \subseteq 2 .. th'[t].slot - 1
      BY <2>1, <3>2, <3>4, <3>5 DEF FirstNewSlot
    <3>7. ASSUME NEW x \in LiveSlots(aside), x \notin th[t].left \/ x = s
          PROVE  aside[x].name = CallOf(t).n \/ aside[x].name \in LiveNames(directory')
      BY <3>2, <3>5, <3>7 DEF LiveSlots
    <3> QED  BY <2>0, <3>4, <3>6, <3>7
  <2>6. ASSUME NEW s \in th[t].left, LeavesLeast(t, s)
        PROVE  /\ th'[t].slot >= FirstNewSlot
               /\ DOMAIN directory' \subseteq 2 .. th'[t].slot - 1
               /\ \A x \in LiveSlots(aside') \ th'[t].left :
                    \/ aside'[x].name = CallOf(t)'.n
                    \/ aside'[x].name \in LiveNames(directory')
    <3>1. Copies(t)
      BY <2>0, <2>6 DEF LeavesLeast, Copies, Aloof, At
    <3>2. /\ DOMAIN directory \subseteq 2 .. th[t].slot - 1
          /\ \A x \in LiveSlots(aside) \ th[t].left :
               aside[x].name = CallOf(t).n \/ aside[x].name \in LiveNames(directory)
      BY <3>1 DEF CopyOK
    <3> QED  BY <2>0, <2>1, <2>6, <3>2 DEF LeavesLeast, FirstNewSlot
  <2>7. CASE \E s \in th[t].left : /\ \A x \in th[t].left : s <= x
                                   /\ CopiesLeast(t, s) \/ LeavesLeast(t, s)
    <3>1. ~At(t, "aside")' /\ ~At(t, "fresh")' /\ ~At(t, "finish")'
      BY <2>7 DEF CopiesLeast, LeavesLeast, At
    <3> QED  BY <1>3, <2>5, <2>6, <2>7, <3>1
  <2> QED  BY <2>0, <2>2, <2>3, <2>4, <2>7
<1> QED  BY <1>1, <1>2, <1>3

\* Slot 1, the one a first file is entered in: whether it is in use decides how
\* far safs_unlink moves the records up.
LEMMA StepKeepsLowSlots ==
  ASSUME StepsInv, RecordsOK, CopyOK, SlotsOK, NeverRuns({"link"}), crashes = 0,
         NEW t \in Threads, Step(t)
  PROVE  /\ Slots(directory)'
         /\ inode_number' = 1 => dcache' = {}
         /\ 1 \in DOMAIN directory' => dcache' \subseteq LiveNames(directory')
<1>0. /\ ThreadsOK /\ OneLocks /\ Busy(t) /\ StillFound /\ IsDirectory(directory)
      /\ TypeOK /\ LeftInAside /\ inode_number \in Nat \ {0} /\ IsDirectory(aside)
  BY StepMoves DEF StepsInv, TypeOK
<1>1. /\ DOMAIN directory \subseteq 1 .. inode_number - 1
      /\ inode_number = 1 => dcache = {}
      /\ 1 \in DOMAIN directory => dcache \subseteq LiveNames(directory)
  BY DEF SlotsOK, Slots
<1>a. ASSUME NEW n, Found(n) PROVE inode_number # 1 /\ n \in LiveNames(directory)
  BY <1>0, <1>1, <1>a, FoundEntry DEF Found, Matches, LiveNames, LiveSlots
<1>2. CASE UNCHANGED <<directory, inode_number>> /\ dcache' \subseteq dcache
  BY <1>1, <1>2 DEF Slots
<1>3. CASE Scan(t)
  <2>1. /\ UNCHANGED <<directory, inode_number>>
        /\ dcache' \subseteq dcache \/ (Found(CallOf(t).n) /\ dcache' = dcache \cup {CallOf(t).n})
    BY <1>3 DEF Scan, files
  <2> QED  BY <1>1, <1>2, <1>a, <2>1 DEF Slots
<1>4. CASE Save(t)
  <2>1. CallOf(t).op # "link"
    BY <1>0 DEF NeverRuns
  <2> QED  BY <1>2, <1>4, <2>1 DEF Save
<1>5. CASE Enter(t)
  <2> DEFINE v == [NewDentry(CallOf(t).n) EXCEPT !.inum = th[t].inum]
  <2>1. /\ directory' = Put(directory, NewSlot, v)
        /\ At(t, "enter") /\ inode_number' = inode_number + 1 /\ NewSlot = inode_number
        /\ dcache' = dcache \cup {CallOf(t).n}
    BY <1>5 DEF Enter, NextNumber, NewSlot
  <2>2. v.inum = th[t].inum /\ v.name = CallOf(t).n
    BY DEF NewDentry
  <2>3. th[t].inum # 0
    <3>1. Handles(t, "mknod") /\ ~At(t, "open")
      BY <1>0, <2>1, StepOfThread, OpOfStep DEF Handles, At
    <3> QED  BY <1>0, <3>1 DEF RecordsOK
  <2> HIDE DEF v
  <2>4. inode_number \notin DOMAIN directory
    BY <1>0, <1>1
  <2>5. /\ DOMAIN directory' = DOMAIN directory \cup {inode_number}
        /\ LiveNames(directory) \subseteq LiveNames(directory')
        /\ CallOf(t).n \in LiveNames(directory')
    BY <2>1, <2>2, <2>3, <2>4, PutKeepsNames
  <2>6. Slots(directory)'
    BY <1>0, <1>1, <2>1, <2>5 DEF Slots
  <2>7. inode_number' # 1
    BY <1>0, <2>1
  <2>8. 1 \in DOMAIN directory' => 1 \in DOMAIN directory \/ dcache = {}
    BY <1>1, <2>5
  <2> QED  BY <1>1, <2>1, <2>5, <2>6, <2>7, <2>8
<1>6. CASE Rewrite(t)
  <2> DEFINE n == CallOf(t).n
             m == CallOf(t).to
  <2>1. /\ directory' = [directory EXCEPT ![FirstMatch(directory, n)].name = m]
        /\ At(t, "rewrite") /\ inode_number' = inode_number
        /\ dcache' = (dcache \ {n}) \cup {m}
    BY <1>6 DEF Rewrite
  <2>2. Found(n) /\ m \in Names
    BY <1>0, <2>1, StepOfThread, OpOfStep, CallFields DEF StillFound
  <2> HIDE DEF n, m
  <2>3. /\ DOMAIN directory' = DOMAIN directory
        /\ LiveNames(directory) \ {n} \subseteq LiveNames(directory')
        /\ m \in LiveNames(directory')
    BY <1>0, <2>1, <2>2, RewriteNames
  <2> QED  BY <1>1, <1>a, <2>1, <2>2, <2>3 DEF Slots
<1>7. CASE Aside(t)
  <2>1. DOMAIN <<>> = {}
    OBVIOUS
  <2> QED  BY <1>1, <1>2, <1>7, <2>1 DEF Aside, Slots
<1>8. CASE Copy(t)
  <2>1. UNCHANGED <<inode_number, dcache, aside>> /\ At(t, "copy")
    BY <1>8 DEF Copy
  <2>2. CASE UNCHANGED directory
    BY <1>2, <2>1, <2>2
  <2>3. CASE CopiesOne(t)
    <3> DEFINE k == Min(th[t].left)
    <3>1. Handles(t, "unlink") /\ th[t].left \in SUBSET Nat /\ th[t].slot \in Nat
      BY <1>0, <2>1, StepOfThread, OpOfStep DEF Handles, Locals
    <3>2. Copies(t)
      BY <2>1, <3>1 DEF Copies, Aloof, At
    <3>3. k \in th[t].left /\ \A x \in th[t].left : k <= x
      BY <2>3, <3>1, MinOfNaturals DEF CopiesOne
    <3>4. aside[k].name # CallOf(t).n /\ directory' = Put(directory, th[t].slot, aside[k])
      BY <2>3 DEF CopiesOne
    <3> HIDE DEF k
    <3>5. DOMAIN aside \subseteq 1 .. inode_number - 1 /\ th[t].left \subseteq DOMAIN aside
      BY <1>0, <3>2 DEF SlotsOK, Copies, Slots, LeftInAside
    <3>6. \/ \A s \in th[t].left : th[t].slot <= s
          \/ /\ \A s \in th[t].left : th[t].slot <= s + 1
             /\ \E s \in th[t].left : aside[s].name = CallOf(t).n
      BY <3>2 DEF SlotsOK
    <3>7. \E s \in th[t].left : th[t].slot <= s
      <4>1. CASE \A s \in th[t].left : th[t].slot <= s
        BY <3>3, <4>1
      <4>2. CASE /\ \A s \in th[t].left : th[t].slot <= s + 1
                 /\ \E s \in th[t].left : aside[s].name = CallOf(t).n
        <5>1. PICK s \in th[t].left : aside[s].name = CallOf(t).n
          BY <4>2
        <5>2. s # k /\ k <= s /\ th[t].slot <= k + 1 /\ s \in Nat /\ k \in Nat
          BY <3>1, <3>3, <3>4, <4>2, <5>1
        <5> QED  BY <3>1, <5>1, <5>2
      <4> QED  BY <3>6, <4>1, <4>2
    <3>8. th[t].slot >= 2 /\ DOMAIN directory \subseteq 2 .. th[t].slot - 1
      BY <3>1, <3>2 DEF CopyOK, FirstNewSlot
    <3>9. DOMAIN directory' = DOMAIN directory \cup {th[t].slot}
      BY <3>4 DEF Put
    <3>10. th[t].slot \in 1 .. inode_number - 1
      <4>1. PICK s \in th[t].left : th[t].slot <= s
        BY <3>7
      <4>2. s \in 1 .. inode_number - 1
        BY <3>5, <4>1
      <4> QED  BY <1>0, <3>1, <3>8, <4>1, <4>2
    <3>11. 1 \notin DOMAIN directory'
      BY <3>1, <3>8, <3>9
    <3> QED  BY <1>1, <2>1, <3>9, <3>10, <3>11 DEF Slots
  <2> QED  BY <1>0, <1>8, <2>2, <2>3, CopyMoves DEF MeetsOne
<1>9. CASE Finish(t)
  BY <1>2, <1>9 DEF Finish
<1>10. ~LinkRecord(t)
  BY <1>0, StepOfThread, OpOfStep DEF NeverRuns, LinkRecord
<1> QED
  BY <1>2, <1>3, <1>4, <1>5, <1>6, <1>7, <1>8, <1>9, <1>10
  DEF Step, Load, SaveBack, Path, Cat, Data, OpenDirectory, CreateData, Fresh, Remove, files

\* In the first mount the records stay below the counter at every step.
LEMMA StepKeepsSlots ==
  ASSUME StepsInv, RecordsOK, CopyOK, SlotsOK, NeverRuns({"link"}), NEW t \in Threads, Step(t)
  PROVE  SlotsOK'
<1>1. crashes' = crashes
  BY DEF Step, Scan, Load, Save, SaveBack, Path, Cat, Data, OpenDirectory, CreateData,
         Enter, LinkRecord, Rewrite, Aside, Fresh, Copy, Remove, Finish
<1> SUFFICES ASSUME crashes = 0, NEW u \in Threads
             PROVE  /\ Handles(u, "unlink")' /\ At(u, "aside")' /\ 1 \in DOMAIN directory'
                         => CallOf(u)'.n \in LiveNames(directory')
                    /\ Aloof(u)' => Slots(aside)'
                    /\ At(u, "fresh")' /\ 1 \in DOMAIN aside'
                         => CallOf(u)'.n \in LiveNames(aside')
                    /\ Copies(u)' =>
                         \/ \A s \in th'[u].left : th'[u].slot <= s
                         \/ /\ \A s \in th'[u].left : th'[u].slot <= s + 1
                            /\ \E s \in th'[u].left : aside'[s].name = CallOf(u)'.n
  BY <1>1, StepKeepsLowSlots DEF SlotsOK
<1>0. /\ ThreadsOK /\ OneLocks /\ Motion(t) /\ Busy(t) /\ ThreadsOK' /\ LeftInAside
      /\ IsDirectory(aside) /\ inode_number \in Nat
  BY StepMoves DEF StepsInv, TypeOK
<1>a. At(u, "fresh")' => Handles(u, "unlink")'
  <2> SUFFICES ASSUME At(u, "fresh")' PROVE Handles(u, "unlink")'
    OBVIOUS
  <2>1. th'[u] \in Good /\ th'[u].todo # <<>>
    BY <1>0 DEF ThreadsOK, At, Busy, Idle
  <2>2. th'[u].call \in AllCalls /\ Head(th'[u].todo) \in StepsIn(th'[u].call.op)
    BY <2>1, RestOfPlan DEF Good, Locals, LocalsOK
  <2> QED  BY <2>1, <2>2, OpOfStep DEF At, Handles, Busy, CallOf
<1>b. Copies(u)' \/ Aloof(u)' => Handles(u, "unlink")'
  BY DEF Copies, Aloof
<1>2. CASE u # t
  <2>1. /\ th'[u] = th[u]
        /\ Locks(u) => UNCHANGED <<directory, aside, dirFile, inode_number>>
    BY <1>2, OthersWait
  <2>2. Handles(u, "unlink")' => Locks(u)
    BY <2>1 DEF Handles, Locks, Busy, CallOf, DirectoryLocked
  <2>3. /\ Handles(u, "unlink")' <=> Handles(u, "unlink")
        /\ At(u, "aside")' <=> At(u, "aside")
        /\ At(u, "fresh")' <=> At(u, "fresh")
        /\ Aloof(u)' <=> Aloof(u)
        /\ Copies(u)' <=> Copies(u)
        /\ CallOf(u)' = CallOf(u)
    BY <2>1 DEF Busy, At, Copies, Aloof, Handles, CallOf
  <2>4. UNCHANGED <<aside, inode_number>> /\ Slots(aside) => Slots(aside)'
    BY DEF Slots
  <2> QED  BY <1>a, <1>b, <2>1, <2>2, <2>3, <2>4 DEF SlotsOK
<1>3. CASE u = t /\ ~Handles(t, "unlink")'
  BY <1>3, <1>a, <1>b
<1>4. CASE u = t /\ Handles(t, "unlink")'
  <2>0. /\ Handles(t, "unlink") /\ CallOf(t)' = CallOf(t)
        /\ \/ MovesAside(t) \/ StartsCopy(t) \/ GetsOn(t)
           \/ \E s \in th[t].left : /\ \A x \in th[t].left : s <= x
                                    /\ CopiesLeast(t, s) \/ LeavesLeast(t, s)
    BY <1>4, UnlinkTurns
  <2>1. /\ th[t].slot \in Nat /\ th[t].left \in SUBSET Nat
        /\ th[t].left \subseteq DOMAIN aside
    BY <1>0, <2>0, BusyIsGood DEF LeftInAside, Locals
  <2>2. inode_number' = inode_number
    <3>1. ~Enter(t)
      BY <1>0, <2>0, StepOfThread, OpOfStep DEF Enter, Handles
    <3> QED  BY <3>1 DEF Step, Scan, Load, Save, SaveBack, Path, Cat, Data, OpenDirectory,
         CreateData, LinkRecord, Rewrite, Aside, Fresh, Copy, Remove, Finish
  <2>3. CASE MovesAside(t)
    <3>1. Slots(aside)' /\ ~At(t, "aside")' /\ ~Copies(t)'
      BY <2>2, <2>3 DEF MovesAside, SlotsOK, Slots, At, Copies
    <3> QED  BY <1>4, <2>0, <2>3, <3>1 DEF MovesAside, SlotsOK
  <2>4. CASE StartsCopy(t)
    <3>1. DOMAIN aside \subseteq 1 .. inode_number - 1 /\ th[t].slot = 2
      BY <2>0, <2>4 DEF StartsCopy, SlotsOK, Slots, Aloof, At, CopyOK, FirstNewSlot
    <3>2. Slots(aside)'
      BY <2>2, <2>4, <3>1 DEF StartsCopy, Slots
    <3>3. ~At(t, "aside")' /\ ~At(t, "fresh")'
      BY <2>4 DEF StartsCopy, At
    <3>4. /\ th'[t].left = DOMAIN aside /\ th'[t].slot = 2 /\ aside' = aside
      BY <2>4, <3>1 DEF StartsCopy
    <3>5. CASE 1 \notin DOMAIN aside
      BY <1>0, <1>4, <3>1, <3>2, <3>3, <3>4, <3>5
    <3>6. CASE 1 \in DOMAIN aside
      <4>1. CallOf(t).n \in LiveNames(aside)
        BY <2>4, <3>6 DEF StartsCopy, SlotsOK
      <4>2. \E s \in DOMAIN aside : aside[s].name = CallOf(t).n
        BY <4>1 DEF LiveNames, LiveSlots
      <4>3. \A s \in DOMAIN aside : 2 <= s + 1
        BY <1>0, <3>1
      <4> QED  BY <1>4, <2>0, <3>2, <3>3, <3>4, <4>2, <4>3
    <3> QED  BY <3>5, <3>6
  <2>5. CASE GetsOn(t)
    <3>1. Copies(t) /\ Aloof(t)
      BY <2>0, <2>5 DEF GetsOn, Copies, Aloof
    <3>2. Slots(aside)'
      BY <2>2, <2>5, <3>1 DEF GetsOn, SlotsOK, Slots
    <3> QED  BY <1>4, <2>0, <2>5, <3>1, <3>2 DEF GetsOn, SlotsOK
  <2>6. CASE \E s \in th[t].left : /\ \A x \in th[t].left : s <= x
                                   /\ CopiesLeast(t, s) \/ LeavesLeast(t, s)
    <3>0. PICK s \in th[t].left : /\ \A x \in th[t].left : s <= x
                                  /\ CopiesLeast(t, s) \/ LeavesLeast(t, s)
      BY <2>6
    <3>1. Copies(t) /\ Aloof(t) /\ aside' = aside /\ ~At(t, "aside")' /\ ~At(t, "fresh")'
      BY <2>0, <3>0 DEF CopiesLeast, LeavesLeast, Copies, Aloof, At
    <3>2. Slots(aside)'
      BY <2>2, <3>1 DEF SlotsOK, Slots
    <3>3. \/ \A x \in th[t].left : th[t].slot <= x
          \/ /\ \A x \in th[t].left : th[t].slot <= x + 1
             /\ \E x \in th[t].left : aside[x].name = CallOf(t).n
      BY <3>1 DEF SlotsOK
    <3>4. \A x \in th[t].left \ {s} : x \in Nat /\ s + 1 <= x
      BY <2>1, <3>0
    <3>5. s \in Nat
      BY <2>1, <3>0
    <3>6. CASE CopiesLeast(t, s)
      <4>1. /\ aside[s].name # CallOf(t).n
            /\ th'[t].left = th[t].left \ {s} /\ th'[t].slot = th[t].slot + 1
        BY <3>6 DEF CopiesLeast
      <4>2. CASE \A x \in th[t].left : th[t].slot <= x
        <5>1. \A x \in th'[t].left : th'[t].slot <= x
          <6> SUFFICES ASSUME NEW x \in th[t].left \ {s} PROVE th[t].slot + 1 <= x
            BY <4>1
          <6>1. th[t].slot <= s /\ s + 1 <= x /\ x \in Nat
            BY <3>0, <3>4, <4>2
          <6> QED  BY <2>1, <3>5, <6>1
        <5> QED  BY <1>4, <3>1, <3>2, <5>1
      <4>3. CASE /\ \A x \in th[t].left : th[t].slot <= x + 1
                 /\ \E x \in th[t].left : aside[x].name = CallOf(t).n
        <5>1. \A x \in th'[t].left : th'[t].slot <= x + 1
          <6> SUFFICES ASSUME NEW x \in th[t].left \ {s} PROVE th[t].slot + 1 <= x + 1
            BY <4>1
          <6>1. th[t].slot <= s + 1 /\ s + 1 <= x /\ x \in Nat
            BY <3>0, <3>4, <4>3
          <6> QED  BY <2>1, <3>5, <6>1
        <5>2. \E x \in th'[t].left : aside'[x].name = CallOf(t)'.n
          BY <2>0, <3>1, <4>1, <4>3
        <5> QED  BY <1>4, <3>1, <3>2, <5>1, <5>2
      <4> QED  BY <3>3, <4>2, <4>3
    <3>7. CASE LeavesLeast(t, s)
      <4>1. th'[t].left = th[t].left \ {s} /\ th'[t].slot = th[t].slot
        BY <3>7 DEF LeavesLeast
      <4>2. \A x \in th'[t].left : th'[t].slot <= x
        <5> SUFFICES ASSUME NEW x \in th[t].left \ {s} PROVE th[t].slot <= x
          BY <4>1
        <5>1. th[t].slot <= s + 1 /\ s + 1 <= x /\ x \in Nat
          BY <2>1, <3>0, <3>3, <3>4, <3>5
        <5> QED  BY <2>1, <3>5, <5>1
      <4> QED  BY <1>4, <3>1, <3>2, <4>2
    <3> QED  BY <3>0, <3>6, <3>7
  <2> QED  BY <2>0, <2>3, <2>4, <2>5, <2>6
<1> QED  BY <1>2, <1>3, <1>4

\* A request that comes in finds the copying as it was.
LEMMA BeginKeepsCopy ==
  ASSUME StepsInv, CopyOK, NEW t \in Threads, NEW c \in Calls, Begin(t, c)
  PROVE  /\ CopyOK'
         /\ NeverRuns({"link"}) /\ SlotsOK => SlotsOK'
<1>0. /\ UNCHANGED <<directory, aside, inode_number, crashes, dcache>>
      /\ ThreadsOK
  BY DEF Begin, vars, store, StepsInv
<1> DEFINE r == NoLocals(c, StepsOf(c.op))
<1>1. Starts(t, c)
  BY <1>0, BeginMoves
<1>2. /\ th'[t] = r /\ \A u \in Threads \ {t} : th'[u] = th[u]
      /\ r.call = c /\ r.todo = StepsOf(c.op) /\ r.slot = FirstNewSlot
  BY <1>0, <1>1 DEF Starts, ThreadsOK, NoLocals
<1> HIDE DEF r
<1>3. /\ ~Aloof(t)' /\ ~Copies(t)' /\ ~At(t, "fresh")' /\ ~At(t, "finish")'
      /\ CallOf(t)' = c
  BY <1>1, <1>2 DEF Starts, Aloof, Copies, Handles, At, Busy, CallOf
<1>4. ASSUME NEW u \in Threads \ {t}
      PROVE  /\ th'[u] = th[u] /\ CallOf(u)' = CallOf(u)
             /\ Handles(u, "unlink")' <=> Handles(u, "unlink")
             /\ At(u, "aside")' <=> At(u, "aside")
             /\ At(u, "fresh")' <=> At(u, "fresh")
             /\ At(u, "finish")' <=> At(u, "finish")
             /\ Aloof(u)' <=> Aloof(u)
             /\ Copies(u)' <=> Copies(u)
  BY <1>2 DEF Aloof, Copies, Handles, At, Busy, CallOf
<1>5. CopyOK'
  BY <1>0, <1>2, <1>3, <1>4 DEF CopyOK, FirstNewSlot
<1>6. ASSUME SlotsOK, crashes = 0, Handles(t, "unlink")', 1 \in DOMAIN directory
      PROVE  c.n \in LiveNames(directory)
  <2>1. c.op = "unlink"
    BY <1>6, <1>3 DEF Handles, CallOf
  <2>2. Seen(c.n)
    BY <2>1 DEF Begin, Passes
  <2> QED  BY <1>6, <2>2 DEF SlotsOK, Seen, Known
<1>7. ASSUME SlotsOK PROVE SlotsOK'
  <2> SUFFICES ASSUME crashes = 0, NEW u \in Threads
               PROVE  /\ Handles(u, "unlink")' /\ At(u, "aside")' /\ 1 \in DOMAIN directory'
                           => CallOf(u)'.n \in LiveNames(directory')
                      /\ Aloof(u)' => Slots(aside)'
                      /\ At(u, "fresh")' /\ 1 \in DOMAIN aside'
                           => CallOf(u)'.n \in LiveNames(aside')
                      /\ Copies(u)' =>
                           \/ \A s \in th'[u].left : th'[u].slot <= s
                           \/ /\ \A s \in th'[u].left : th'[u].slot <= s + 1
                              /\ \E s \in th'[u].left : aside'[s].name = CallOf(u)'.n
    BY <1>0, <1>7 DEF SlotsOK, Slots
  <2>1. CASE u = t
    BY <1>0, <1>3, <1>6, <1>7, <2>1
  <2>2. CASE u # t
    BY <1>0, <1>4, <1>7, <2>2 DEF SlotsOK, Slots
  <2> QED  BY <2>1, <2>2
<1> QED  BY <1>5, <1>7

\* Nothing is being copied before the first request.
LEMMA CopyInit == StepsInit => CopyOK /\ SlotsOK
<1> SUFFICES ASSUME StepsInit PROVE CopyOK /\ SlotsOK
  OBVIOUS
<1>1. /\ directory = <<>> /\ DOMAIN <<>> = {} /\ dcache = {} /\ inode_number \in Nat
      /\ \A t \in Threads : ~Busy(t)
  BY StepsInvInit DEF StepsInit, Init, Busy, Idle, StepsInv, TypeOK
<1> QED  BY <1>1 DEF CopyOK, SlotsOK, Slots, Aloof, Copies, Handles, At

\* Given StepsInv, CopyOK is inductive.
LEMMA CopyStep == StepsInv /\ CopyOK /\ [StepsNext]_stepVars => CopyOK'
<1> SUFFICES ASSUME StepsInv, CopyOK, [StepsNext]_stepVars PROVE CopyOK'
  OBVIOUS
<1>1. CASE UNCHANGED stepVars
  BY <1>1 DEF stepVars, vars, store, CopyOK, Aloof, Copies, Handles, At, Busy, CallOf
<1>2. CASE Crash
  BY <1>2 DEF Crash, CopyOK, Aloof, Copies, Handles, At, Busy, Idle
<1> QED  BY <1>1, <1>2, StepKeepsCopy, BeginKeepsCopy DEF StepsNext

\* Where there are no links, SlotsOK is inductive as well.
LEMMA SlotsStep ==
  StepsInv /\ RecordsOK /\ CopyOK /\ SlotsOK /\ NeverRuns({"link"}) /\ [StepsNext]_stepVars
    => SlotsOK'
<1> SUFFICES ASSUME StepsInv, RecordsOK, CopyOK, SlotsOK, NeverRuns({"link"}),
                    [StepsNext]_stepVars
             PROVE  SlotsOK'
  OBVIOUS
<1>1. CASE UNCHANGED stepVars
  BY <1>1 DEF stepVars, vars, store, SlotsOK, Slots, Aloof, Copies, Handles, At, Busy, CallOf
<1>2. CASE Crash
  <2>1. crashes' # 0
    BY <1>2, CrashesAssumption DEF Crash, StepsInv
  <2> QED  BY <2>1 DEF SlotsOK
<1> QED  BY <1>1, <1>2, StepKeepsSlots, BeginKeepsCopy DEF StepsNext

\* Every way in which a name loses its last record is one of the three.
LostNames ==
  \A n \in NamesOnDisk \ NamesOnDisk' :
    \/ \E t \in Threads : (Handles(t, "unlink") \/ Handles(t, "rename")) /\ CallOf(t).n = n
    \/ dirFile /\ ~dirFile' /\ n \notin LiveNames(directory)
    \/ crashes > 0 /\ \E t \in Threads : At(t, "enter")

\* Every step that takes a name off the disk is one of the three.
LEMMA StepKeepsNames ==
  ASSUME StepsInv, RecordsOK, CopyOK, SlotsOK, NeverRuns({"link"}), NEW t \in Threads, Step(t)
  PROVE  LostNames
<1>0. /\ ThreadsOK /\ OneLocks /\ Busy(t) /\ StillFound /\ IsDirectory(directory)
      /\ TypeOK /\ LeftInAside /\ inode_number \in Nat /\ IsDirectory(aside)
      /\ crashes \in Nat
  BY StepMoves, CrashesAssumption DEF StepsInv, TypeOK
<1>1. CASE UNCHANGED <<directory, aside>>
  BY <1>1 DEF LostNames, NamesOnDisk
<1>2. CASE Enter(t)
  <2>1. At(t, "enter")
    BY <1>2 DEF Enter
  <2>2. CASE crashes = 0
    <3>1. inode_number \notin DOMAIN directory
      BY <1>0, <2>2 DEF SlotsOK, Slots
    <3> DEFINE v == [NewDentry(CallOf(t).n) EXCEPT !.inum = th[t].inum]
    <3>2. directory' = Put(directory, inode_number, v) /\ aside' = aside
      BY <1>2 DEF Enter, NewSlot
    <3> HIDE DEF v
    <3>3. LiveNames(directory) \subseteq LiveNames(directory')
      BY <3>1, <3>2, PutKeepsNames
    <3> QED  BY <3>2, <3>3 DEF LostNames, NamesOnDisk
  <2>3. CASE crashes > 0
    BY <2>1, <2>3 DEF LostNames
  <2> QED  BY <1>0, <2>2, <2>3
<1>3. CASE Rewrite(t)
  <2> DEFINE n == CallOf(t).n
             m == CallOf(t).to
  <2>1. /\ directory' = [directory EXCEPT ![FirstMatch(directory, n)].name = m]
        /\ At(t, "rewrite") /\ aside' = aside
    BY <1>3 DEF Rewrite
  <2>2. Handles(t, "rename") /\ Found(n) /\ m \in Names
    BY <1>0, <2>1, StepOfThread, OpOfStep, CallFields DEF StillFound, Handles
  <2>3. Handles(t, "rename") /\ CallOf(t).n = n
    BY <2>2
  <2> HIDE DEF n, m
  <2>4. LiveNames(directory) \ {n} \subseteq LiveNames(directory')
    BY <1>0, <2>1, <2>2, RewriteNames
  <2> QED  BY <2>1, <2>3, <2>4 DEF LostNames, NamesOnDisk
<1>4. CASE Aside(t)
  <2>1. CASE UNCHANGED <<directory, aside>>
    BY <1>1, <2>1
  <2>2. CASE dirFile /\ aside' = directory /\ dirFile' = FALSE
    BY <2>2 DEF LostNames, NamesOnDisk
  <2> QED  BY <1>4, <2>1, <2>2 DEF Aside
<1>5. CASE Copy(t)
  <2>1. At(t, "copy") /\ UNCHANGED aside
    BY <1>5 DEF Copy
  <2>2. CASE UNCHANGED directory
    BY <1>1, <2>1, <2>2
  <2>3. CASE CopiesOne(t)
    <3>1. Copies(t) /\ th[t].slot \in Nat
      BY <1>0, <2>1, StepOfThread, OpOfStep DEF Handles, Copies, Aloof, At, Locals
    <3>2. th[t].slot \notin DOMAIN directory
      BY <3>1 DEF CopyOK
    <3>3. directory' = Put(directory, th[t].slot, aside[Min(th[t].left)])
      BY <2>3 DEF CopiesOne
    <3>4. LiveNames(directory) \subseteq LiveNames(directory')
      BY <3>2, <3>3, PutKeepsNames
    <3> QED  BY <2>1, <3>4 DEF LostNames, NamesOnDisk
  <2> QED  BY <1>0, <1>5, <2>2, <2>3, CopyMoves DEF MeetsOne
<1>6. CASE Finish(t)
  <2>1. At(t, "finish") /\ aside' = <<>> /\ UNCHANGED directory
    BY <1>6 DEF Finish
  <2>2. Copies(t) /\ th[t].left = {}
    BY <1>0, <2>1, StepOfThread, OpOfStep DEF Handles, Copies, Aloof, At, CopyOK
  <2>3. Handles(t, "unlink")
    BY <2>2 DEF Copies, Aloof
  <2>4. \A s \in LiveSlots(aside) :
          aside[s].name = CallOf(t).n \/ aside[s].name \in LiveNames(directory)
    BY <2>2 DEF CopyOK
  <2>5. LiveNames(aside) \subseteq LiveNames(directory) \cup {CallOf(t).n}
    BY <2>4 DEF LiveNames
  <2> QED  BY <2>1, <2>3, <2>5 DEF LostNames, NamesOnDisk
<1>7. ~LinkRecord(t)
  BY <1>0, StepOfThread, OpOfStep DEF NeverRuns, LinkRecord
<1> QED
  BY <1>1, <1>2, <1>3, <1>4, <1>5, <1>6, <1>7
  DEF Step, Scan, Load, Save, SaveBack, Path, Cat, Data, OpenDirectory, CreateData, Fresh,
      Remove, files

\* Where no file gets a second name, a record that goes is that of the name an
\* unlink or a rename was asked to take away: neither the handlers that run
\* beside it nor a daemon that dies between any two system calls cost a name.
\* The exceptions are the two DiskKeepsNames names, a .Directory~ that an unlink
\* left behind and a later one replaced, and a safs_mknod after a mount that
\* counts from a number already in use.
THEOREM NamesStayOnDisk ==
  ASSUME "link" \notin Ops
  PROVE  StepsSafety => DiskKeepsNames
<1>1. /\ StepsInit => NeverRuns({"link"})
      /\ StepsInv /\ NeverRuns({"link"}) /\ [StepsNext]_stepVars => NeverRuns({"link"})'
  <2>1. {"link"} \cap Ops = {} /\ {"link"} \in SUBSET {"link", "rename"}
    OBVIOUS
  <2> QED  BY <2>1, NeverRunsStep
<1>2. StepsInv /\ RecordsOK /\ CopyOK /\ SlotsOK /\ NeverRuns({"link"}) /\ [StepsNext]_stepVars
        => [LostNames]_stepVars
  <2> SUFFICES ASSUME StepsInv, RecordsOK, CopyOK, SlotsOK, NeverRuns({"link"}), StepsNext
               PROVE  LostNames
    OBVIOUS
  <2>1. CASE Crash
    BY <2>1 DEF Crash, Remount, LostNames, NamesOnDisk
  <2>2. ASSUME NEW t \in Threads, NEW c \in Calls, Begin(t, c) PROVE LostNames
    BY <2>2 DEF Begin, vars, store, LostNames, NamesOnDisk
  <2> QED  BY <2>1, <2>2, StepKeepsNames DEF StepsNext
<1>3. StepsSafety => [][LostNames]_stepVars
  BY <1>1, <1>2, StepsInvariant, RecordsInvariant, CopyInit, CopyStep, SlotsStep, PTL
  DEF StepsSafety
<1> QED  BY <1>3 DEF LostNames, DiskKeepsNames
=============================================================================
