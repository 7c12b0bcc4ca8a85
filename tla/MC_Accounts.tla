---------------------------- MODULE MC_Accounts ----------------------------
(* Instances of Accounts for TLC. *)
EXTENDS Accounts, TLC

\* No action tells two of a kind apart, users excepted: some are admins.
Symmetry ==
  Permutations(Addresses) \cup Permutations(Players)
    \cup Permutations(Links) \cup Permutations(Invites) \cup Permutations(Sessions)
    \cup Permutations(Callers)
=============================================================================
