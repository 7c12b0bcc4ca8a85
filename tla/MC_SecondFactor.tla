--------------------------- MODULE MC_SecondFactor ---------------------------
(* Instances of SecondFactor for TLC. *)
EXTENDS SecondFactor, TLC

\* No action tells two of a kind apart.
Symmetry ==
  Permutations(Secrets) \cup Permutations(Codes) \cup Permutations(Sessions)
    \cup Permutations(Callers)
=============================================================================
