------------------------------- MODULE MCSteps -------------------------------
(***************************************************************************)
(* Instances of SafsSteps for TLC.  Every data file may be read and written:   *)
(* the runs are about overlap, not about permissions.                     *)
(***************************************************************************)
EXTENDS SafsOverlap, TLC

CONSTANTS a, b, t1, t2

OneMode == {{"r", "w"}}

\* Requests that run into each other over Directory~, inode_number, a stat and
\* filePath.  safs_ftruncate extends a file with the steps of safs_write in it.
OverlapOps == {"mknod", "unlink", "truncate"}

\* Every call that changes Directory~, and one that only looks at it.
AnswersOps == {"mknod", "link", "unlink", "rename", "getattr"}

\* Requests that share filePath.
WriteOps == {"mknod", "write"}

OverlapSymmetry == Permutations(Names) \cup Permutations(Threads)
=============================================================================
