------------------------------- MODULE MCBBFS -------------------------------
(***************************************************************************)
(* An instance of BBFS for TLC.                                            *)
(***************************************************************************)
EXTENDS BBFS, TLC

CONSTANTS a, b, h1, h2

BBSymmetry == Permutations(Names) \cup Permutations(Handles)
=============================================================================
