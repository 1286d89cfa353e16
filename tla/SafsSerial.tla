----------------------------- MODULE SafsSerial -----------------------------
(***************************************************************************)
(* With one thread and no crash the handlers cut at their system calls are *)
(* the handlers of Safs: the history variable "before" is the store when   *)
(* no request was being handled, and moves as in Safs.                     *)
(***************************************************************************)
EXTENDS SafsSteps

VARIABLE before

Snapshot ==
  [directory |-> directory, dirFile |-> dirFile, inodes |-> inodes,
   storage |-> storage, inode_number |-> inode_number, leaked |-> leaked,
   dcache |-> dcache, rc |-> rc]

SerialInit == StepsInit /\ before = Snapshot

SerialNext ==
  /\ StepsNext
  /\ before' = IF \E t \in Threads : Busy(t)' THEN before ELSE Snapshot'

SerialSpec == SerialInit /\ [][SerialNext]_<<stepVars, before>>

Whole == INSTANCE Safs WITH
  directory <- before.directory, dirFile <- before.dirFile,
  inodes <- before.inodes, storage <- before.storage,
  inode_number <- before.inode_number, leaked <- before.leaked,
  dcache <- before.dcache, rc <- before.rc

\* Each request, from its first system call to its answer, does to the files,
\* the counter and the caller what the handler of Safs does in one step.
StepsMakeWhole == Whole!Spec
=============================================================================
