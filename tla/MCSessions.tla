----------------------------- MODULE MCSessions -----------------------------
(* Constants for checking Sessions with TLC. *)
EXTENDS Sessions, TLC

\* Requests differ only by name.
RequestSymmetry == Permutations(Requests)
=============================================================================
