---------------------------- MODULE MCSessions ----------------------------
(* Sessions for TLC: model values, and the symmetries that preserve it. *)
EXTENDS Sessions, TLC

Symmetry ==
    Permutations(Users) \cup Permutations(Tokens)
        \cup Permutations(ResetTokens) \cup Permutations(Passwords)
=============================================================================
