---------------------------- MODULE SafsContract ----------------------------
(***************************************************************************)
(* A promise of safs.h about a single call that the handler does not keep, *)
(* in the module of Safs, where requests do not overlap.  SafsOverlap has  *)
(* one that is broken by overlap.                                          *)
(***************************************************************************)
EXTENDS SafsProperties

\* safs.h:40 "deletes a name from the file system": safs_unlink, whatever it
\* returns, takes no name but its own.
UnlinkTakesItsName ==
  [][\A n \in Names :
       Unlink(n) => LiveNames(directory) \ {n} \subseteq LiveNames(directory')]_vars
=============================================================================
