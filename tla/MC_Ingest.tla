----------------------------- MODULE MC_Ingest -----------------------------
(* Instances of Ingest for TLC. *)
EXTENDS Ingest, TLC

\* Bare scores, as the API may send them.
BarePosts == {Bare(x) : x \in Scores}

\* A post with its squares, and a later one that corrects its score without.
TwoPosts ==
  {[score |-> 3, grid |-> 3, posted |-> 1], [score |-> 4, grid |-> NoGrid, posted |-> 2]}

\* Players, senders and callers are interchangeable in every action.
Symmetry == Permutations(Players) \cup Permutations(Senders) \cup Permutations(Callers)
=============================================================================
