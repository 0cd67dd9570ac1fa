--------------------------- MODULE MCPasswordReset ---------------------------
(* Constants for checking PasswordReset with TLC. *)
EXTENDS PasswordReset, TLC

\* Requests differ only by name.
RequestSymmetry == Permutations(Calls)
=============================================================================
