----------------------------- MODULE MCTwoFactor -----------------------------
(* Constants for checking TwoFactor with TLC. *)
EXTENDS TwoFactor, TLC

\* Requests differ only by name.
RequestSymmetry == Permutations(Requests)
=============================================================================
