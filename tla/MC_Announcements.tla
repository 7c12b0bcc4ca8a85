-------------------------- MODULE MC_Announcements --------------------------
(* Instances of Announcements for TLC. *)
EXTENDS Announcements, TLC

\* Players are interchangeable.
Symmetry == Permutations(Players)
=============================================================================
