--------------------------- MODULE MCLocalLimiter ---------------------------
(* LocalLimiter for TLC: model values, and the symmetries that preserve it. *)
EXTENDS LocalLimiter, TLC

Symmetry == Permutations(Entries) \cup Permutations(Callers)
=============================================================================
