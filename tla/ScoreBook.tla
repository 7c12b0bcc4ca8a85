----------------------------- MODULE ScoreBook -----------------------------
(***************************************************************************)
(* What the results and the held results promise whoever keeps score by    *)
(* them: every cell of the book has one score or none, entered by hand or  *)
(* automatically.  What is posted is filed at once or waits for its sender *)
(* to be claimed, and the claim files all that waits, together.  No post,  *)
(* claim or move touches a score entered by hand, a move overwrites        *)
(* nothing, and only a claim and a move make a sender somebody's.          *)
(*                                                                         *)
(* Submissions in flight, rosters, squares, times of posting and which     *)
(* sender a score is from are the implementation's.                        *)
(***************************************************************************)
CONSTANTS Players, Senders, Puzzles, Scores, Nobody

VARIABLES
  book,     \* [Players -> [Puzzles -> ...]]: a set of one entry, or of none
  waiting,  \* [Senders -> [Puzzles -> ...]]: a set of one score, or of none
  owner     \* [Senders -> Players \cup {Nobody}]: who the sender's scores go to

vars == <<book, waiting, owner>>

Automatic(x) == [score |-> x, by |-> "token"]
ByHand(x)    == [score |-> x, by |-> "hand"]

Cells == {{}} \cup {{Automatic(x)} : x \in Scores} \cup {{ByHand(x)} : x \in Scores}

\* Whether a cell may be written without a hand.
Open(cell) == \A e \in cell : e.by # "hand"

Init ==
  /\ book    = [p \in Players |-> [z \in Puzzles |-> {}]]
  /\ waiting = [s \in Senders |-> [z \in Puzzles |-> {}]]
  /\ owner   = [s \in Senders |-> Nobody]

File(p, z, x) ==
  /\ Open(book[p][z])
  /\ book' = [book EXCEPT ![p][z] = {Automatic(x)}]
  /\ UNCHANGED <<waiting, owner>>

Wait(s, z, x) ==
  /\ waiting' = [waiting EXCEPT ![s][z] = {x}]
  /\ UNCHANGED <<book, owner>>

\* Some senders become one player's: all that waits from them is filed with that player,
\* and none of it waits on.
Claim(p, S) ==
  LET Waits(z) == UNION {waiting[s][z] : s \in S}
      Becomes(cell, z) ==
        IF Waits(z) # {} /\ Open(cell) THEN {{Automatic(x)} : x \in Waits(z)} ELSE {cell}
  IN  /\ \A s \in S : owner[s] = Nobody
      /\ owner' = [s \in Senders |-> IF s \in S THEN p ELSE owner[s]]
      /\ waiting' = [s \in Senders |-> IF s \in S THEN [z \in Puzzles |-> {}] ELSE waiting[s]]
      /\ \E column \in [Puzzles -> Cells] :
           /\ \A z \in Puzzles : column[z] \in Becomes(book[p][z], z)
           /\ book' = [book EXCEPT ![p] = column]

\* A sender becomes another player's, and with it go automatic entries of some puzzles,
\* which the other player has none of.
Move(s, p, q, Z) ==
  /\ p = owner[s] /\ p # q
  /\ owner' = [owner EXCEPT ![s] = q]
  /\ \A z \in Z : book[p][z] # {} /\ Open(book[p][z]) /\ book[q][z] = {}
  /\ book' = [book EXCEPT ![p] = [z \in Puzzles |-> IF z \in Z THEN {} ELSE book[p][z]],
                          ![q] = [z \in Puzzles |-> IF z \in Z THEN book[p][z] ELSE book[q][z]]]
  /\ UNCHANGED waiting

Release(s) ==
  /\ owner' = [owner EXCEPT ![s] = Nobody]
  /\ UNCHANGED <<book, waiting>>

\* Somebody drops what waits, or it has waited too long.
Drop(s, Z) ==
  /\ waiting' = [waiting EXCEPT ![s] = [z \in Puzzles |-> IF z \in Z THEN {} ELSE waiting[s][z]]]
  /\ UNCHANGED <<book, owner>>

Enter(p, Z, sheet) ==
  /\ book' = [book EXCEPT ![p] = [z \in Puzzles |-> IF z \in Z THEN {ByHand(sheet[z])} ELSE book[p][z]]]
  /\ UNCHANGED <<waiting, owner>>

Strike(p, z) ==
  /\ book' = [book EXCEPT ![p][z] = {}]
  /\ UNCHANGED <<waiting, owner>>

\* A demo ends: some players stay, with their columns and senders, and nothing waits.
Clear(kept) ==
  /\ book'    = [p \in Players |-> IF p \in kept THEN book[p] ELSE [z \in Puzzles |-> {}]]
  /\ owner'   = [s \in Senders |-> IF owner[s] \in kept THEN owner[s] ELSE Nobody]
  /\ waiting' = [s \in Senders |-> [z \in Puzzles |-> {}]]

Next ==
  \/ \E p \in Players :
       \/ \E z \in Puzzles : Strike(p, z) \/ \E x \in Scores : File(p, z, x)
       \/ \E Z \in SUBSET Puzzles : \E sheet \in [Z -> Scores] : Enter(p, Z, sheet)
       \/ \E S \in SUBSET Senders : Claim(p, S)
  \/ \E s \in Senders :
       \/ \E z \in Puzzles, x \in Scores : Wait(s, z, x)
       \/ \E Z \in SUBSET Puzzles : Drop(s, Z) \/ \E p, q \in Players : Move(s, p, q, Z)
       \/ Release(s)
  \/ \E kept \in SUBSET Players : Clear(kept)

Spec == Init /\ [][Next]_vars
=============================================================================
