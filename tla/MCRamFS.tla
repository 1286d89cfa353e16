------------------------------ MODULE MCRamFS ------------------------------
(***************************************************************************)
(* An instance of RamFS for TLC.  Offset 2 * KeyHalf has the key of 0.     *)
(***************************************************************************)
EXTENDS RamFS, TLC

CONSTANTS a, b

Writes == {<<1>>, <<1, 0>>}

NameSymmetry == Permutations(Names)
=============================================================================
