------------------------- MODULE MCEmailVerification -------------------------
(* Constants for checking EmailVerification with TLC. *)
EXTENDS EmailVerification, TLC

\* Requests differ only by name.
RequestSymmetry == Permutations(Calls)
=============================================================================
