------------------------------ MODULE MCSerial ------------------------------
(***************************************************************************)
(* Instance of SafsSerial for TLC: one thread, every operation.            *)
(***************************************************************************)
EXTENDS SafsSerial, TLC

CONSTANTS a, b, t1

OneMode == {{"r", "w"}}

AllOps == {"mknod", "link", "rename", "unlink", "getattr", "read", "write",
           "truncate", "chmod", "utimens", "open"}
=============================================================================
