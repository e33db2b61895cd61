--------------------------- MODULE MCBffSession ---------------------------
(***************************************************************************)
(* Instances of BffSession for TLC.                                        *)
(***************************************************************************)
EXTENDS BffSession, TLC

RequestSymmetry == Permutations(Call)
=============================================================================
