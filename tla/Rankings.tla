------------------------------ MODULE Rankings ------------------------------
(***************************************************************************)
(* The board of internal/stats: its table (stats.go), what it calls out    *)
(* (callouts.go), the trait it gives a player (traits.go) and the grid     *)
(* below it (grid.go).                                                     *)
(*                                                                         *)
(* A spread is kept as its square, the variance.  The two traits that      *)
(* compare a spread with the group's middle are left out, and so are the   *)
(* sparklines' own numbers.                                                *)
(***************************************************************************)
EXTENDS Board

CONSTANTS
  Active,      \* the players who have not left the group
  AbsentDays,  \* days a regular is gone before it is called out, 7 in the code
  Enough       \* the counts that earn a trait, named as in traits.go

ASSUME ActiveArePlayers == Active \subseteq Players
ASSUME AbsentDaysIsNatural == AbsentDays \in Nat
ASSUME EnoughIsCounts == Enough \in [{"streak", "ironman", "veteran", "flawless", "lately", "clean"} -> Nat \ {0}]

-----------------------------------------------------------------------------
(* The table. *)

\* eligibility: the first reason that applies, judged on the whole history.
Reason(p) ==
  LET days == DOMAIN history[p]
  IN  IF days = {} THEN "inactive"
      ELSE IF \A z \in days : z < WindowStart THEN "no recent games"
      ELSE IF Cardinality(days) < MinGames THEN "low data"
      ELSE "ranked"

\* How many of some results came to g guesses, a failure being a seven.
HowMany(results, g) == Cardinality({z \in DOMAIN results : Value(results[z]) = g})

\* The square of the standard deviation: of n values, n times the sum of their
\* squares less the square of their sum, over n squared.
Variance(results, missed) ==
  LET average == Average(results, missed)
      squares == MapThenSumSet(LAMBDA z : Value(results[z]) * Value(results[z]),
                               {z \in DOMAIN results : Counts(results[z])})
                 + FailedAsSeven * FailedAsSeven * Cardinality(missed)
  IN  [sum   |-> average.count * squares - average.sum * average.sum,
       count |-> average.count * average.count]

\* windowValues: the mean of what counts in the window, which no missed day is in.
WindowForm(p) == Average(InWindow(p), {})

\* One row of the board.
Row(p) ==
  LET counted == Counted(p)
      missed  == IF opts.countMissed THEN MissedDays(counted, history[p]) ELSE {}
  IN  [player    |-> p,
       games     |-> Cardinality(DOMAIN counted),
       hardGames |-> Cardinality(DOMAIN FilterHardMode(history[p])),
       dist      |-> [g \in 1..FailedAsSeven |-> HowMany(counted, g)],
       average   |-> Average(counted, missed),
       variance  |-> Variance(counted, missed),
       form      |-> IF HasForm(p) THEN WindowForm(p) ELSE [sum |-> 0, count |-> 0],
       current   |-> CurrentStreak(history[p], TRUE),
       longest   |-> LongestStreak(history[p], TRUE),
       playing   |-> CurrentStreak(history[p], FALSE),
       since     |-> IF history[p] = <<>> THEN 0 ELSE now - Max(DOMAIN history[p]),
       reason    |-> Reason(p)]

\* An average over nothing is none.
Has(average) == average.count > 0

\* The order of the ranked: by average, none last, then games, then slug.
RankedAbove(a, b) ==
  IF Has(a.average) /\ Has(b.average)
  THEN \/ Lower(a.average, b.average)
       \/ /\ Level(a.average, b.average)
          /\ a.games > b.games \/ (a.games = b.games /\ a.player < b.player)
  ELSE IF Has(a.average) = Has(b.average) THEN a.player < b.player ELSE Has(a.average)

\* The order of the others: the nearest to being ranked first.
UnrankedAbove(a, b) == a.games > b.games \/ (a.games = b.games /\ a.player < b.player)

\* Compute.  Whoever has nothing in the filter is not on the board at all.
Compute ==
  LET rows == {Row(p) : p \in {q \in Players : opts.hardModeOnly => DOMAIN Counted(q) # {}}}
  IN  [ranked   |-> InOrder({a \in rows : a.reason = "ranked"}, RankedAbove),
       unranked |-> InOrder({a \in rows : a.reason # "ranked"}, UnrankedAbove),
       days     |-> UNION {DOMAIN history[p] : p \in Players},
       excluded |-> Cardinality(Players) - Cardinality(rows)]

\* Everybody on the board, the ranked first.
Everyone(board) == board.ranked \o board.unranked

-----------------------------------------------------------------------------
(* What the board calls out.  A callout is a sequence of at most one. *)

\* Form and average a quarter of a guess apart, either way.
Significant(better, worse) ==
  4 * (worse.sum * better.count - better.sum * worse.count) >= better.count * worse.count

\* Whether there is a form to compare with an average.
HasDelta(row) == Has(row.form) /\ Has(row.average)

Rising(row)  == HasDelta(row) /\ Significant(row.form, row.average)
Falling(row) == HasDelta(row) /\ Significant(row.average, row.form)

\* a's form is further under a's average than b's under b's: the two deltas, each
\* over the product of its counts.
MoreImproved(a, b) ==
  LET Delta(row) == [sum   |-> row.form.sum * row.average.count - row.average.sum * row.form.count,
                     count |-> row.form.count * row.average.count]
  IN  Lower(Delta(a), Delta(b))

\* The first of such rows that no other of them beats, if there are any.
FirstBest(rows, Such(_), Beats(_, _)) ==
  LET such == {i \in DOMAIN rows : Such(rows[i])}
      best == {i \in such : \A j \in such : ~Beats(rows[j], rows[i])}
  IN  IF such = {} THEN <<>> ELSE <<rows[Min(best)]>>

\* What is said of such a row, where it clears the threshold.
Call(kind, rows, Clears(_)) ==
  IF rows # <<>> /\ Clears(rows[1]) THEN <<[kind |-> kind, player |-> rows[1].player]>> ELSE <<>>

\* The longest streak going, among the ranked whose streak is also their best.
Unbroken(board) ==
  LET Going(a) == a.current >= MinGames /\ a.current = a.longest
  IN  Call("unbroken", FirstBest(board.ranked, Going, LAMBDA a, b : a.current > b.current), Going)

\* Who solved one on the first guess within the window: a name when it was one.
OneAndDone(board) ==
  LET Recent1(p) == {z \in DOMAIN history[p] : z \in WindowStart..now /\ history[p][z].guesses = 1}
      names == {p \in Players : Recent1(p) # {}}
      on    == {row.player : row \in Range(Everyone(board))}
  IN  IF names = {} THEN <<>>
      ELSE <<[kind |-> "oneAndDone",
              player |-> IF Cardinality(names \cap on) = 1 THEN CHOOSE p \in names \cap on : TRUE ELSE 0]>>

OnForm(board) == Call("onForm", FirstBest(board.ranked, HasDelta, MoreImproved), Rising)

OffForm(board) ==
  Call("offForm", FirstBest(board.ranked, HasDelta, LAMBDA a, b : MoreImproved(b, a)), Falling)

\* A regular who has stopped, and has not left.
Missing(board) ==
  LET Gone(a) == a.player \in Active /\ a.games > MinGames /\ a.since >= AbsentDays
  IN  Call("missing", FirstBest(board.unranked, Gone, LAMBDA a, b : a.since > b.since), Gone)

\* The group's recent results, in the places the stories leave.
RecentCallouts ==
  LET recent == {history[slot[1]][slot[2]] : slot \in
                   {s \in Players \X (WindowStart..now) : s[2] \in DOMAIN history[s[1]]}}
      Say(kind, such) == IF such = {} THEN <<>> ELSE <<[kind |-> kind, player |-> 0]>>
  IN  Say("quickSolves", {r \in recent : r.guesses \in {2, 3}})
      \o Say("closeShaves", {r \in recent : r.guesses = 6})
      \o Say("stumped",     {r \in recent : ~Solved(r)})
      \o Say("hardMode",    {r \in recent : Solved(r) /\ r.hard})

MaxCallouts == 4

Callouts(board) ==
  LET all == Unbroken(board) \o OneAndDone(board) \o OnForm(board) \o OffForm(board)
             \o Missing(board) \o RecentCallouts
  IN  SubSeq(all, 1, Earlier(Len(all), MaxCallouts))

-----------------------------------------------------------------------------
(* The trait a player is shown with. *)

\* The series of the board: what counted on each day of the window, 0 for nothing.
Series(p) ==
  [z \in WindowStart..now |->
     IF z \in DOMAIN Counted(p) /\ Counts(Counted(p)[z]) THEN Value(Counted(p)[z]) ELSE 0]

\* The latest so many scores of the series average 3.2 or better.
HotHand(series) ==
  LET played == {z \in DOMAIN series : series[z] > 0}
      latest == {z \in played : Cardinality({y \in played : y > z}) < Enough["lately"]}
  IN  /\ Cardinality(played) >= Enough["lately"]
      /\ 10 * MapThenSumSet(LAMBDA z : series[z], latest) <= 32 * Enough["lately"]

\* The days up to today without a failure or a gap.
SolvedRun(series) ==
  LET broken == {z \in DOMAIN series : series[z] \in {0, FailedAsSeven}}
  IN  now - (IF broken = {} THEN WindowStart - 1 ELSE Max(broken))

\* The traits that can be earned, in the order they are looked for.
TraitOrder ==
  <<"purist", "switcher", "climbing", "slipping", "ironman", "streaker", "sniper", "closer",
    "veteran", "flawless", "speedster", "threepeat", "fourish", "escape", "hot-hand", "clean-run">>

\* That n of a player's games are at least so many in a hundred.
Share(row, n, percent) == row.games > 0 /\ 100 * n >= percent * row.games

\* What each of them takes.
Deserves(row, t) ==
  LET purist == Share(row, row.hardGames, 90)
  IN  CASE t = "purist"    -> purist
        [] t = "switcher"  -> /\ ~purist /\ row.games >= MinGames
                              /\ Share(row, row.hardGames, 25) /\ 4 * row.hardGames <= 3 * row.games
        [] t = "climbing"  -> Rising(row)
        [] t = "slipping"  -> Falling(row)
        [] t = "ironman"   -> row.current >= Enough["ironman"]
        [] t = "streaker"  -> row.current \in Enough["streak"]..(Enough["ironman"] - 1)
        [] t = "sniper"    -> 1 \in Range(Series(row.player))
        [] t = "closer"    -> Share(row, row.dist[5] + row.dist[6] + row.dist[7], 35)
        [] t = "veteran"   -> row.games >= Enough["veteran"]
        [] t = "flawless"  -> row.games >= Enough["flawless"] /\ row.dist[7] = 0
        [] t = "speedster" -> Share(row, row.dist[2], 20)
        [] t = "threepeat" -> Share(row, row.dist[3], 40)
        [] t = "fourish"   -> Share(row, row.dist[4], 40)
        [] t = "escape"    -> Share(row, row.dist[6], 20)
        [] t = "hot-hand"  -> HotHand(Series(row.player))
        [] t = "clean-run" -> SolvedRun(Series(row.player)) >= Enough["clean"]

\* What a player has earned, by its places in that order.
Earned(row) == {i \in DOMAIN TraitOrder : Deserves(row, TraitOrder[i])}

Traits(row) == {TraitOrder[i] : i \in Earned(row)}

\* Trait: the reason a player is not ranked, or one of what was earned, in turn
\* by the puzzle and the player's number.
Trait(row) ==
  LET turn == (now + row.player) % Cardinality(Earned(row))
      Before(i) == {j \in Earned(row) : j < i}
  IN  IF row.reason # "ranked" THEN row.reason
      ELSE IF Earned(row) = {} THEN "none"
      ELSE TraitOrder[CHOOSE i \in Earned(row) : Cardinality(Before(i)) = turn]

-----------------------------------------------------------------------------
(* The grid: every day of the range by every player. *)

\* GridWindow's days: the last so many that anybody played, all of them for 0.
GridDays(span) ==
  LET played == UNION {DOMAIN Counted(p) : p \in Players}
  IN  IF span = 0 THEN played
      ELSE {z \in played : Cardinality({y \in played : y > z}) < span}

\* GridWindow: the results of those days, under the filter.
GridWindow(span) == [p \in Players |-> RestrictDomain(Counted(p), LAMBDA z : z \in GridDays(span))]

\* ComputeGrid.  A column of blanks is hidden, and so is whoever left.
ComputeGrid(board, showInactive, span) ==
  LET days    == GridDays(span)
      on      == {row.player : row \in Range(Everyone(board))}
      blank   == {p \in on : p \notin Active \/ DOMAIN Counted(p) \cap days = {}}
      columns == IF showInactive THEN on ELSE on \ blank
      cells   == [p \in columns |-> RestrictDomain(Counted(p), LAMBDA z : z \in days)]
  IN  [columns |-> columns,
       hidden  |-> Cardinality(blank),
       cells   |-> cells,
       rows    |-> UNION {DOMAIN cells[p] : p \in columns}]

-----------------------------------------------------------------------------
(* What the board promises. *)

\* The board tells one story of a player: who is on form is climbing and is not
\* off form too; who is missing is on no ranking, and has been gone for the whole
\* form window, however few days the callout asks for (callouts.go:16), for a
\* regular who came back inside it is still ranked; and the grid below has a cell
\* for every result of its days once all columns are shown.
StoriesAgree ==
  LET board == Compute
      Of(kind) == {c.player : c \in {d \in Range(Callouts(board)) : d.kind = kind}}
      Shown(p) == CHOOSE row \in Range(Everyone(board)) : row.player = p
      whole == ComputeGrid(board, TRUE, FormWindow)
  IN  /\ Of("onForm") \cap Of("offForm") = {}
      /\ \A p \in Of("onForm") : "climbing" \in Traits(Shown(p))
      /\ \A p \in Of("missing") \ {0} :
           /\ Trait(Shown(p)) = "no recent games"
           /\ now - Max(DOMAIN history[p]) >= FormWindow
      /\ whole.rows = GridDays(FormWindow)
      /\ board.excluded = Cardinality({p \in Players : opts.hardModeOnly /\ DOMAIN Counted(p) = {}})
=============================================================================
