--------------------------- MODULE MCIdempotency ---------------------------
(***************************************************************************)
(* Instances of Idempotency for TLC: the .cfg files choose the faults.     *)
(***************************************************************************)
EXTENDS Idempotency, TLC

AttemptSymmetry == Permutations(Attempt)
=============================================================================
