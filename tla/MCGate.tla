------------------------------- MODULE MCGate -------------------------------
(* Gate for TLC: model values, and the symmetries that preserve it. *)
EXTENDS Gate, TLC

Symmetry == Permutations(Servers) \cup Permutations(Callers)
                \cup Permutations(Draws) \cup Permutations(Keys)
=============================================================================
