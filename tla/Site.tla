-------------------------------- MODULE Site --------------------------------
(***************************************************************************)
(* The pages of internal/web over the boards of every range: the board's   *)
(* page, its rows and its arrows, and all that the pages promise.          *)
(***************************************************************************)
EXTENDS Pages, Boards

\* The arrows: places gained since, of those ranked then and now.
Moves(recent) ==
  LET old == RanksOn(BoardThen(recent))
      new == RanksOn(BoardOf(recent))
  IN  [p \in {q \in DOMAIN old \cap DOMAIN new : old[q] # new[q]} |-> old[p] - new[p]]

\* The rows of the board's page: a row's streak is of the whole history, that of the
\* board of all results, whatever the range.
PageRows(recent) == WholeStreaks(BoardOf(recent).ranked, Compute)

\* The two of a head-to-head are compared over the results of the range.
Compared(p, q, recent) == HeadToHead(p, q, IF recent THEN GridWindow(BoardRecent) ELSE history)

-----------------------------------------------------------------------------
(* What they promise. *)

\* A row's streak is that of the whole history in both ranges: whoever is on the board
\* of the latest puzzles is on that of all.
StreaksAgree ==
  \A recent \in BOOLEAN : \A row \in Range(PageRows(recent)) :
    row.playing = CurrentStreak(history[row.player], FALSE)

\* The page of some days from now.
Hence == INSTANCE Boards WITH now <- now + MoveWindow

\* The arrows will compare with the board that is: a page so many days from now
\* finds the ranks of today, when nobody has posted ahead and nothing is corrected.
ArrowsAgree ==
  NobodyAhead =>
    \A recent \in BOOLEAN : RanksOn(Hence!BoardThen(recent)) = RanksOn(BoardOf(recent))

\* What a page works out for itself is what the rest of the program says: the board
\* and what is around it, the arrows, a player's rivals, the months, the hardest day
\* and the days of the week, a player's records, the day and the form table.
PagesAgree ==
  LET board  == Compute
      tables == Tables
  IN  /\ StreaksAgree
      /\ ArrowsAgree
      /\ OrderingsAgree(board)
      /\ GapsAgree(board)
      /\ RivalsAgree(board)
      /\ MonthPagesAgree(tables)
      /\ HardestAgrees
      /\ WeekdaysAgree
      /\ RecordsAgree(tables)
      /\ DayPageAgrees(board)
      /\ FormsAgree(board)
=============================================================================
