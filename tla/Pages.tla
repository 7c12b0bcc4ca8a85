------------------------------- MODULE Pages -------------------------------
(***************************************************************************)
(* The figures the pages of internal/web work out for themselves: the      *)
(* board's gaps and orderings (board.go, sort.go), the months page's       *)
(* headline and moves (months.go), the day (today.go, puzzle.go)           *)
(* and a player's records, rivals and weekdays (player.go,                 *)
(* player_records.go).  Each has another rule for the same thing somewhere *)
(* else, most of them in the bot's answers.                                *)
(*                                                                         *)
(* Markup, links, charts' geometry and wording are left out.               *)
(***************************************************************************)
EXTENDS Records

CONSTANTS
  UsualWindow,    \* puzzles the group's usual is taken over, 90 in the code
  HardestWindow,  \* puzzles a day's difficulty is ranked among, 90 in the code
  YearWindow      \* puzzles a player's year is, 364 in the code

ASSUME WindowsAreCounts == UsualWindow \in Nat /\ HardestWindow \in Nat /\ YearWindow \in Nat

\* The months of a calendar.
ASSUME MonthsAreApart ==
  \A m, other \in Months : m # other => m.end <= other.first \/ other.end <= m.first

-----------------------------------------------------------------------------
(* The board's page. *)

\* The rank of everybody ranked on a board.
RanksOn(board) ==
  [p \in {a.player : a \in Range(board.ranked)} |->
     CHOOSE i \in DOMAIN board.ranked : board.ranked[i].player = p]

\* The streak of a row is that of the board of all results, for whoever is on it.
WholeStreaks(rows, full) ==
  [i \in DOMAIN rows |->
     IF \E whole \in Range(Everyone(full)) : whole.player = rows[i].player
     THEN [rows[i] EXCEPT !.playing =
             (CHOOSE whole \in Range(Everyone(full)) : whole.player = rows[i].player).playing]
     ELSE rows[i]]

\* gapLine: the averages as they are printed, against the row above, or the row
\* below for the first.
GapLine(rows, i) ==
  LET Shown(a) == IF Has(a.average) THEN Hundredths(a.average) ELSE 0
  IN  IF i > 1 THEN (IF Shown(rows[i]) > Shown(rows[i - 1]) THEN "behind" ELSE "level")
      ELSE IF Len(rows) = 1 THEN ""
      ELSE IF Shown(rows[2]) > Shown(rows[1]) THEN "leads" ELSE "level"

SortColumns == {"rank", "player", "average", "form", "streak", "games"}

\* compareRows: whether one row comes before another on a column, ascending.
LessOn(column, ranks, a, b) ==
  CASE column = "player"  -> a.player < b.player
    [] column = "average" -> Has(a.average) /\ Has(b.average) /\ Lower(a.average, b.average)
    [] column = "form"    -> Has(a.form) /\ Has(b.form) /\ Lower(a.form, b.form)
    [] column = "streak"  -> a.playing < b.playing
    [] column = "games"   -> a.games < b.games
    [] column = "rank"    -> ranks[a.player] < ranks[b.player]

\* optionalPair: the figures that may be absent.
Absent(column, a) ==
  (column = "average" /\ ~Has(a.average)) \/ (column = "form" /\ ~Has(a.form))

\* sortRows: an absent figure is last in both directions, and ties go by slug.
SortRows(rows, ranks, column, desc) ==
  LET Less(a, b) == LessOn(column, ranks, a, b)
      First(a, b) ==
        IF Absent(column, a) # Absent(column, b) THEN Absent(column, b)
        ELSE IF ~Less(a, b) /\ ~Less(b, a) THEN a.player < b.player
        ELSE IF desc THEN Less(b, a) ELSE Less(a, b)
  IN  InOrder(Range(rows), First)

\* headToHeadFor: two of the ranked, over some results.
HeadToHead(p, q, results) ==
  LET shared  == DOMAIN results[p] \cap DOMAIN results[q]
      Score(x, z) == Value(results[x][z])
      diff    == MapThenSumSet(LAMBDA z : Score(p, z) - Score(q, z), shared)
  IN  [days   |-> Cardinality(shared),
       wins   |-> Cardinality({z \in shared : Score(p, z) < Score(q, z)}),
       losses |-> Cardinality({z \in shared : Score(q, z) < Score(p, z)}),
       lead   |-> IF diff > 0 THEN q ELSE p]

-----------------------------------------------------------------------------
(* The months page, and the front page's line about the month. *)

\* The month a page opens on: the newest in the list.
Newest(tables) == {m \in Listed(tables) : \A c \in Listed(tables) : c.first <= m.first}

\* The headline, and the first player of the next distinct average.
Headline(m, table) ==
  LET second == {i \in DOMAIN table.ranked : ~Level(table.ranked[i], table.ranked[1])}
  IN  [says   |-> IF table.winners = {} THEN "none"
                  ELSE IF Cardinality(table.winners) > 1
                       THEN (IF Complete(m) THEN "shared" ELSE "level")
                       ELSE (IF Complete(m) THEN "won" ELSE "leads"),
       who    |-> table.winners,
       second |-> IF second = {} THEN {} ELSE {table.ranked[Min(second)].player}]

\* trendOf: the move between two averages, to the hundredth it is shown in.
Trend(new, old) ==
  LET Apart(a, b) == [sum |-> a.sum * b.count - b.sum * a.count, count |-> a.count * b.count]
  IN  IF ~Has(new) \/ ~Has(old) THEN ""
      ELSE IF Lower(new, old) /\ Hundredths(Apart(old, new)) > 0 THEN "down"
      ELSE IF Lower(old, new) /\ Hundredths(Apart(new, old)) > 0 THEN "up"
      ELSE "level"

\* playerTrend: against the player's own month before.
PlayerTrend(p, m, tables) ==
  LET before == MonthBefore(m, tables)
  IN  IF before = {} THEN ""
      ELSE LET old == tables[CHOOSE b \in before : TRUE]
           IN  IF PlaceOf(old, p) = 0 THEN "new"
               ELSE Trend(AverageOf(tables[m], p), AverageOf(old, p))

\* todayStanding: nothing unless the newest month is the running one.
Standing(tables) ==
  LET open == {m \in Newest(tables) : Running(m) /\ tables[m].ranked # <<>>}
  IN  IF open = {} THEN [says |-> "nothing", who |-> {}]
      ELSE LET table == tables[CHOOSE m \in open : TRUE]
           IN  [says |-> IF Cardinality(table.winners) > 1 THEN "tie"
                         ELSE IF RunnersUp(table) = {} THEN "alone" ELSE "margin",
                who  |-> table.winners]

-----------------------------------------------------------------------------
(* The day. *)

\* The headline of the front page.
DayHeadline(z) ==
  LET today == Today(z)
  IN  IF today.filed = <<>> THEN "empty"
      ELSE IF today.best = {} THEN "noneSolved"
      ELSE IF Cardinality(today.best) > 1 THEN "shared" ELSE "best"

\* formatDelta: which way a figure is from another, a twenty-fifth of a guess apart.
FormatDelta(new, old) ==
  LET apart == 25 * (new.sum * old.count - old.sum * new.count)
      one   == new.count * old.count
  IN  IF apart <= -one THEN "better" ELSE IF apart >= one THEN "worse" ELSE "level"

\* todayResults: the position of each result, counted over the ranked only, 0 for
\* the others, and how it stands to its player's average.
DayRows(z, board) ==
  LET filed  == Today(z).filed
      ranked == {a.player : a \in Range(board.ranked)}
      Own(p) == (CHOOSE a \in Range(board.ranked) : a.player = p).average
  IN  [i \in DOMAIN filed |->
         LET p == filed[i]
         IN  [player |-> p,
              pos    |-> IF p \notin ranked THEN 0
                         ELSE Cardinality({j \in 1..i : filed[j] \in ranked}),
              delta  |-> IF p \notin ranked THEN "level"
                         ELSE IF ~Solved(history[p][z]) THEN "worse"
                         ELSE FormatDelta([sum |-> Value(history[p][z]), count |-> 1], Own(p))]]

\* The results of some days.
ResultsOf(days) ==
  LET slots == {s \in Players \X days : s[2] \in DOMAIN history[s[1]]}
  IN  MeanOf([s \in slots |-> Value(history[s[1]][s[2]])])

\* groupAverages: the day's mean, and the mean of the results before it.
DayMean(z)   == ResultsOf({z})
UsualMean(z) == ResultsOf(Later(1, z - UsualWindow)..(z - 1))

\* puzzleSub: how many days of the window had a higher mean, and one.
Difficulty(z) ==
  LET window == (now - HardestWindow + 1)..now
  IN  1 + Cardinality({y \in window \ {z} : Has(DayMean(y)) /\ Lower(DayMean(z), DayMean(y))})

\* The form table of the front page: those who are level share a place, those who
\* have no form have none.
FormPlaces(board) ==
  LET ranked == {a.player : a \in Range(board.ranked)}
      formed == {p \in ranked : HasForm(p)}
  IN  [p \in ranked |-> IF p \notin formed THEN 0
                        ELSE 1 + Cardinality({q \in formed : Lower(Form(q), Form(p))})]

-----------------------------------------------------------------------------
(* A player's page. *)

\* A player is on it who is on the board, under the filter.
HasPage(p, board) == \E row \in Range(Everyone(board)) : row.player = p

\* recentCells: the strip of the form window, unplayed days and all.
Strip(p) ==
  [z \in WindowStart..now |-> IF z \in DOMAIN history[p] THEN Value(history[p][z]) ELSE 0]

\* playerRecords: the best of the months that are over.
BestMonth(p, tables) ==
  LowestOf({AverageOf(tables[m], p) : m \in {x \in DOMAIN tables : Complete(x) /\ PlaceOf(tables[x], p) > 0}})

\* The rivals: the others on the board who have not left, and the days of the last
\* year both played, those posted ahead included.
Rivals(p, board) ==
  LET Year(q) == {z \in DOMAIN history[q] : z > now - YearWindow}
      Won(a, b) == Cardinality({z \in Year(a) \cap Year(b) : Value(history[a][z]) < Value(history[b][z])})
      rivals == {q \in Active \ {p} : HasPage(q, board) /\ Won(p, q) + Won(q, p) > 0}
  IN  [q \in rivals |-> [won |-> Won(p, q), lost |-> Won(q, p)]]

\* The worst of them and the best, when there are two: by the share won, then slug.
Nemesis(p, board) ==
  LET rivals == Rivals(p, board)
      Worse(a, b) == \/ rivals[a].won * rivals[b].lost < rivals[b].won * rivals[a].lost
                     \/ /\ rivals[a].won * rivals[b].lost = rivals[b].won * rivals[a].lost
                        /\ a < b
      order == InOrder(DOMAIN rivals, Worse)
  IN  IF Len(order) < 2 THEN <<>> ELSE <<order[1], order[Len(order)]>>

\* The days of the week, Monday first on the page and Sunday first in the answer.
MondayFirst(z) == (z - 2) % 7
SundayFirst(z) == (z - 1) % 7

\* The hardest day of the week of some days of a player, and the easiest: the first
\* of the week on a tie, and none without enough of any.
WeekdayOf(p, days, need, Weekday(_)) ==
  LET On(d)   == {z \in days \cap DOMAIN history[p] : Weekday(z) = d}
      Mean(d) == [sum |-> Total(history[p], On(d)), count |-> Cardinality(On(d))]
      known   == {d \in 0..6 : Cardinality(On(d)) >= need}
      worst   == {d \in known : \A e \in known : ~Lower(Mean(d), Mean(e))}
      best    == {d \in known : \A e \in known : ~Lower(Mean(e), Mean(d))}
  IN  IF known = {} \/ Min(worst \cup {7}) = Min(best \cup {7}) THEN [hardest |-> None, easiest |-> None]
      ELSE [hardest |-> Mean(Min(worst)), easiest |-> Mean(Min(best))]

\* playerWeekdays, of the last year; and the bot's weekday, of everything, with
\* enough results on the day.
PageWeekday(p)      == WeekdayOf(p, (now - YearWindow + 1)..now, 1, MondayFirst)
BotWeekday(p, need) == WeekdayOf(p, 1..(now + 1), need, SundayFirst)

\* buildMonthRanks: the months of the rank chart, and those won.
MonthRanks(p, tables) ==
  LET ranked == {m \in DOMAIN tables : PlaceOf(tables[m], p) > 0}
  IN  [shown |-> IF Cardinality(ranked) < 2 THEN {} ELSE ranked,
       won   |-> Cardinality({m \in ranked : Complete(m) /\ PlaceOf(tables[m], p) = 1})]

-----------------------------------------------------------------------------
(* What the pages promise. *)

NobodyAhead == \A p \in Players : now + 1 \notin DOMAIN history[p]

\* In every ordering of a column the rows are the board's, nobody above a better
\* figure but those without one, and the default one is the ranking.
OrderingsAgree(board) ==
  LET rows  == WholeStreaks(board.ranked, board)
      ranks == RanksOn(board)
  IN  /\ SortRows(rows, ranks, "rank", FALSE) = rows
      /\ \A column \in SortColumns :
           LET up   == SortRows(rows, ranks, column, FALSE)
               down == SortRows(rows, ranks, column, TRUE)
               Gone(order) == {i \in DOMAIN order : Absent(column, order[i])}
           IN  /\ Gone(up) = Gone(down)
               /\ \A i, j \in DOMAIN up \ Gone(up) : i < j =>
                    /\ ~LessOn(column, ranks, up[j], up[i])
                    /\ ~LessOn(column, ranks, down[i], down[j])

\* The averages as printed never put a row before one above it.
GapsAgree(board) ==
  LET rows == board.ranked
  IN  \A i \in DOMAIN rows : (i > 1 /\ GapLine(rows, i) = "level" /\ Has(rows[i].average)) =>
        Hundredths(rows[i].average) = Hundredths(rows[i - 1].average)

\* The page and the bot tell one result of two players, and nobody's nemesis is one
\* they are told they own, while the favourite owns them: unless somebody has posted
\* ahead, which the page counts and the bot does not.
RivalsAgree(board) ==
  LET year == (now - YearWindow + 1)..now
  IN  NobodyAhead => \A p, q \in Players : p # q =>
        /\ \E h \in {HeadToHead(p, q, history)}, duel \in {Duel(p, q, 1..now)} :
             h.days = duel.days /\ h.wins = duel.wins /\ h.losses = duel.losses
        /\ \A won \in {Rivals(p, board)}, duel \in {Duel(p, q, year)} :
             q \in DOMAIN won => won[q] = [won |-> duel.wins, lost |-> duel.losses]
        /\ Nemesis(p, board) # <<>> /\ Nemesis(p, board)[1] = q /\ Duel(p, q, year).says = "first" =>
             Duel(p, Nemesis(p, board)[2], year).says # "second"

\* The months page names for second somebody the bot does, and the front page gives
\* the running month the standing the bot gives it.  On the eve of a month a result
\* posted ahead takes that away.
MonthPagesAgree(tables) ==
  /\ \A m \in Listed(tables) :
       /\ Headline(m, tables[m]).who = Leader(tables[m]).who
       /\ Headline(m, tables[m]).second \subseteq RunnersUp(tables[m])
  /\ \A m \in Months : (Running(m) /\ NobodyAhead /\ m \in Listed(tables)) =>
       Standing(tables) = (IF tables[m].ranked = <<>> THEN [says |-> "nothing", who |-> {}]
                           ELSE [says |-> Leader(tables[m]).says, who |-> tables[m].winners])

\* The bot's hardest puzzle is the page's too, but for today and for days too thin.
HardestAgrees ==
  LET hard == Puzzle((now - HardestWindow + 1)..now, FALSE)
  IN  (hard # 0 /\ Difficulty(hard) > 1) =>
        \E z \in 1..now : /\ Lower(DayMean(hard), DayMean(z))
                          /\ z = now \/ Cardinality(DOMAIN OnDay(z)) < DayMinFiled

\* The page and the bot have one average for a player's hardest day of the week and
\* one for the easiest, though of days that are level they may name different ones.
WeekdaysAgree ==
  (NobodyAhead /\ now <= YearWindow) => \A p \in Players :
    LET page == PageWeekday(p)
        bot  == BotWeekday(p, 1)
    IN  /\ Has(page.hardest) = Has(bot.hardest) /\ Has(page.easiest) = Has(bot.easiest)
        /\ Level(page.hardest, bot.hardest) /\ Level(page.easiest, bot.easiest)

\* A player's page has the season's titles, and no better a month.
RecordsAgree(tables) ==
  \A p \in Players :
    /\ MonthRanks(p, tables).won = SeasonRow(p, tables).wins
    /\ Has(BestMonth(p, tables)) => ~Lower(BestMonth(p, tables), SeasonRow(p, tables).best)

\* The day's headline names somebody when the bot's best solved it, and the first of
\* the ranked on a day has their best result.
DayPageAgrees(board) ==
  /\ DayHeadline(now) \in {"best", "shared"} <=> BestOver(now) # {} /\
       \A p \in BestOver(now) : Solved(history[p][now])
  /\ \A row \in Range(DayRows(now, board)) : row.pos = 1 =>
       \A p \in DOMAIN RanksOn(board) \cap DOMAIN OnDay(now) : OnDay(now)[row.player] <= OnDay(now)[p]

\* A player's form is no better than the mean of the strip drawn beside it, and while
\* nobody missed a day of it the first of the form table is on form to the bot.
FormsAgree(board) ==
  /\ \A p \in {q \in DOMAIN RanksOn(board) : HasForm(q) /\ opts.countXAsSeven /\ ~opts.hardModeOnly} :
       LET played == {z \in DOMAIN Strip(p) : Strip(p)[z] > 0}
           mean   == MeanOf([z \in played |-> Strip(p)[z]])
       IN  ~Lower(Form(p), mean) /\ (Gaps(p) = {} => Level(Form(p), mean))
  /\ (opts = DefaultOptions /\ \A p \in DOMAIN RanksOn(board) : Gaps(p) = {}) =>
       \A p \in DOMAIN FormPlaces(board) : FormPlaces(board)[p] = 1 => p \in OnFormNow(board)
=============================================================================
