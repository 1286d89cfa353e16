------------------------------- MODULE MCSafs -------------------------------
(***************************************************************************)
(* Instances of Safs for TLC: the workloads, and the values of the bounds. *)
(***************************************************************************)
EXTENDS SafsContract, TLC

CONSTANTS a, b, c, d

RW == {"r", "w"}

OneMode == {RW}
TwoModes == {RW, {"r"}}

\* Every name is treated alike, so permuting them changes nothing.
NameSymmetry == Permutations(Names)

\* No link, no rename, no second mount.
CoreOps == {"mknod", "unlink", "write", "read", "truncate", "open"}

ContentsOps == {"mknod", "unlink", "write", "truncate", "chmod"}

RenameOps == {"mknod", "rename", "chmod", "write", "truncate"}

AllOps == {"mknod", "link", "rename", "replace", "unlink", "remount", "getattr",
           "read", "chmod", "chown", "utimens", "readdir", "open", "write",
           "truncate"}

\* One mount: no link, whose entries mknod may write over, and no remount.
OneMountOps == AllOps \ {"link", "remount"}

\* The least workload that breaks the property of SafsContract.
RenameUnlinkOps == {"mknod", "rename", "unlink"}
=============================================================================
