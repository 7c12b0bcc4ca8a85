------------------------------- MODULE Boards -------------------------------
(***************************************************************************)
(* The boards that the board's page is made of (internal/web/board.go):    *)
(* of all results or of the latest puzzles only, and the same board as it  *)
(* was some days before, from what was known and with the clock of then.   *)
(*                                                                         *)
(* Each is Rankings over a history and a day of its own.                   *)
(***************************************************************************)
EXTENDS Rankings

CONSTANTS
  BoardRecent,  \* puzzles of the board's short range, 90 in the code
  MoveWindow    \* days the arrows look back, 7 in the code

ASSUME RangesAreCounts == BoardRecent \in Nat /\ MoveWindow \in Nat

DayThen == now - MoveWindow

\* The results that were known by then.
KnownThen == [p \in Players |-> RestrictDomain(history[p], LAMBDA z : z <= DayThen)]

\* The figures of the latest puzzles, those of then, and those of the latest of then.
Latest     == INSTANCE Rankings WITH history <- GridWindow(BoardRecent)
Then       == INSTANCE Rankings WITH history <- KnownThen, now <- DayThen
LatestThen == INSTANCE Rankings WITH history <- Then!GridWindow(BoardRecent), now <- DayThen

\* The board of the chosen range, from the results of that range only.
BoardOf(recent) == IF recent THEN Latest!Compute ELSE Compute

\* A bug: the board to compare with is the page's own.
BoardThenNow(recent) == BoardOf(recent)

\* The board a page compares with: the same one so many days before.
BoardThen(recent) == IF recent THEN LatestThen!Compute ELSE Then!Compute
=============================================================================
