------------------------------ MODULE Records ------------------------------
(***************************************************************************)
(* What is kept of the months that were: the season and its titles         *)
(* (stats/months.go), a month's awards (stats/awards.go and the months     *)
(* page that gives them), and what the bot tells of a player's and the     *)
(* group's past (reply/count.go, form.go, profile.go).                     *)
(*                                                                         *)
(* tables is every month's table by its month, as the code computes them   *)
(* once for a page or an answer.                                           *)
(***************************************************************************)
EXTENDS Answers

CONSTANTS
  AwardDays,   \* days running of a best week, 7 in the code
  SteadyDays,  \* games a month's steadiest needs, 5 in the code
  Podium,      \* the last place that is one, 3 in the code
  AwardsShown  \* how many awards a month shows, 4 in the code

ASSUME AwardDaysArePositive == AwardDays \in Nat \ {0}
ASSUME SteadyDaysIsNatural  == SteadyDays \in Nat
ASSUME PodiumIsPositive     == Podium \in Nat \ {0}
ASSUME AwardsShownIsNatural == AwardsShown \in Nat

Tables == [m \in Months |-> Month(m)]

None == [sum |-> 0, count |-> 0]

\* rankedPlayer: a player's place in a table, 0 for none, and the line.
LineOf(month, p)  == CHOOSE a \in Range(month.ranked) : a.player = p
PlaceOf(month, p) ==
  LET at == {i \in DOMAIN month.ranked : month.ranked[i].player = p}
  IN  IF at = {} THEN 0 ELSE month.places[Min(at)]

\* The lowest of some averages, none for none.
LowestOf(averages) ==
  IF averages = {} THEN None ELSE CHOOSE a \in averages : \A b \in averages : ~Lower(b, a)

AverageOf(month, p) == [sum |-> LineOf(month, p).sum, count |-> LineOf(month, p).count]

-----------------------------------------------------------------------------
(* The season. *)

\* One player's season.  Only a month that is over gives a title.
SeasonRow(p, tables) ==
  LET ranked == {m \in DOMAIN tables : PlaceOf(tables[m], p) > 0}
  IN  [player  |-> p,
       wins    |-> Cardinality({m \in ranked : Complete(m) /\ p \in tables[m].winners}),
       podiums |-> Cardinality({m \in ranked : PlaceOf(tables[m], p) <= Podium}),
       ranked  |-> Cardinality(ranked),
       best    |-> LowestOf({AverageOf(tables[m], p) : m \in ranked}),
       marks   |-> [m \in DOMAIN tables |-> PlaceOf(tables[m], p)]]

\* Wins, podiums, months ranked, best month, slug.
SeasonAbove(a, b) ==
  \/ a.wins > b.wins
  \/ a.wins = b.wins /\ a.podiums > b.podiums
  \/ a.wins = b.wins /\ a.podiums = b.podiums /\ a.ranked > b.ranked
  \/ /\ a.wins = b.wins /\ a.podiums = b.podiums /\ a.ranked = b.ranked
     /\ IF Has(a.best) /\ Has(b.best)
        THEN Lower(a.best, b.best) \/ (Level(a.best, b.best) /\ a.player < b.player)
        ELSE Has(a.best) \/ (~Has(b.best) /\ a.player < b.player)

Season(tables) ==
  LET in == {p \in Players : \E m \in DOMAIN tables :
               PlaceOf(tables[m], p) > 0 \/ p \in tables[m].thin}
  IN  InOrder({SeasonRow(p, tables) : p \in in}, SeasonAbove)

\* SeasonAverages: the mean of a player's monthly averages.
SeasonAverage(p, tables) ==
  LET Add(m, total) ==
        LET a == AverageOf(tables[m], p)
        IN  [sum   |-> total.sum * a.count + a.sum * total.count,
             count |-> total.count * a.count]
      ranked == {m \in DOMAIN tables : PlaceOf(tables[m], p) > 0}
      total  == FoldSet(Add, [sum |-> 0, count |-> 1], ranked)
  IN  [sum |-> total.sum, count |-> total.count * Cardinality(ranked)]

-----------------------------------------------------------------------------
(* The awards of a month. *)

\* The days a month has had, and what of a player counts on them.
DaysOf(m, table) == m.first..(m.first + table.days - 1)
ScoresIn(p, days) ==
  RestrictDomain(Counted(p), LAMBDA z : z \in days /\ Counts(Counted(p)[z]))

\* The lowest average over so many days running, all of them played; none for none.
BestWeek(p, m, table) ==
  LET starts == {z \in DaysOf(m, table) : z..(z + AwardDays - 1) \subseteq DaysOf(m, table) \cap DOMAIN Counted(p)}
      Week7(z) == Average(ScoresIn(p, z..(z + AwardDays - 1)), {})
  IN  LowestOf({Week7(z) : z \in starts} \ {None})

\* How far under the mean of the day a player came in on it.
Beat(p, z) ==
  LET day == [q \in {q \in Players : z \in DOMAIN ScoresIn(q, {z})} |-> Value(Counted(q)[z])]
  IN  [sum |-> MeanOf(day).sum - day[p] * MeanOf(day).count, count |-> MeanOf(day).count]

\* The furthest under it on any day of the month; none for never.
BestBeat(p, m, table) ==
  LET beats == {b \in {Beat(p, z) : z \in DOMAIN ScoresIn(p, DaysOf(m, table))} : b.sum > 0}
  IN  IF beats = {} THEN None ELSE CHOOSE b \in beats : \A c \in beats : ~Lower(b, c)

\* The square root of a fraction to the hundredth.
RootHundredths(square) ==
  CHOOSE k \in 0..300 :
    /\ k = 0 \/ (2 * k - 1) * (2 * k - 1) * square.count <= 40000 * square.sum
    /\ 40000 * square.sum < (2 * k + 1) * (2 * k + 1) * square.count

\* best: who of the ranked has the most of a figure, or the least, to the hundredth
\* it is shown in.  figure is only of those who have one.
MostOf(figure)  == {p \in DOMAIN figure : \A q \in DOMAIN figure : figure[q] <= figure[p]}
LeastOf(figure) == {p \in DOMAIN figure : \A q \in DOMAIN figure : figure[p] <= figure[q]}

RankedIn(table) == {a.player : a \in Range(table.ranked)}

\* ComputeMonths lists the months that have a result, whatever it counts for.
Listed(tables) == {m \in DOMAIN tables : RankedIn(tables[m]) \cup tables[m].thin # {}}

\* The month before it in the list, if there is one.
MonthBefore(m, tables) ==
  LET older == {b \in Listed(tables) : b.end <= m.first}
  IN  {b \in older : \A c \in older : c.first <= b.first}

\* The six candidates in their order: who holds each.
Candidates(m, tables) ==
  LET table  == tables[m]
      ranked == RankedIn(table)
      Scores(p) == ScoresIn(p, DaysOf(m, table))
      Climb(p) == UNION {IF PlaceOf(tables[b], p) > PlaceOf(table, p)
                         THEN {PlaceOf(tables[b], p) - PlaceOf(table, p)} ELSE {} : b \in MonthBefore(m, tables)}
      Twos(p)  == Cardinality({z \in DOMAIN Rows(m.first, m.end)[p] : history[p][z].guesses \in {1, 2}})
      Above100(p) == LET season == SeasonAverage(p, tables)
                         mine   == AverageOf(table, p)
                     IN  Hundredths([sum |-> season.sum * mine.count - mine.sum * season.count,
                                     count |-> season.count * mine.count])
  IN  << MostOf([p \in {q \in ranked : Climb(q) # {}} |-> Max(Climb(p))]),
         MostOf([p \in {q \in ranked : Twos(q) > 0} |-> Twos(p)]),
         LeastOf([p \in {q \in ranked : /\ LineOf(table, q).games >= SteadyDays
                                        /\ Cardinality(DOMAIN Scores(q)) >= 2}
                    |-> RootHundredths(Variance(Scores(p), {}))]),
         LeastOf([p \in {q \in ranked : /\ BestWeek(q, m, table) # None
                                        /\ LineOf(table, q).games >= AwardDays}
                    |-> Hundredths(BestWeek(p, m, table))]),
         MostOf([p \in {q \in ranked : BestBeat(q, m, table) # None} |-> Hundredths(BestBeat(p, m, table))]),
         MostOf([p \in {q \in ranked : Above100(q) > 0} |-> Above100(p)]) >>

\* pickAwards: which candidates are shown.  One without a holder, or with more than
\* two, only fills a gap.
PickAwards(holders) ==
  LET ready == {i \in DOMAIN holders : Cardinality(holders[i]) \in 1..2}
      First(set, n) == {i \in set : Cardinality({j \in set : j < i}) < n}
      taken == First(ready, AwardsShown)
  IN  taken \cup First(DOMAIN holders \ taken, AwardsShown - Cardinality(taken))

-----------------------------------------------------------------------------
(* What the bot tells of the past. *)

\* holders: who has most of a figure, nobody for nothing.
Holders(rows, Figure(_)) ==
  LET most == Max({Figure(row) : row \in rows} \cup {0})
  IN  IF most = 0 THEN {} ELSE {row.player : row \in {r \in rows : Figure(r) = most}}

\* How many results of g guesses a row has, or of g and better.
CountOf(row, g, orBetter) ==
  IF orBetter THEN MapThenSumSet(LAMBDA i : row.dist[i], 1..g) ELSE row.dist[g]

\* count: the most of them; the fewest, among the ranked; and the group's.
CountMost(board, g, orBetter) == Holders(Range(Everyone(board)), LAMBDA row : CountOf(row, g, orBetter))
CountFewest(board, g) ==
  {a.player : a \in {b \in Range(board.ranked) : \A c \in Range(board.ranked) : b.dist[g] <= c.dist[g]}}
CountGroup(board, g) == MapThenSumSet(LAMBDA row : row.dist[g], Range(Everyone(board)))

\* group: who plays and how much.
Group(board) ==
  LET rows == Range(Everyone(board))
  IN  [active |-> Cardinality({row \in rows : row.games > 0}),
       games  |-> MapThenSumSet(LAMBDA row : row.games, rows),
       mean   |-> MeanOf([s \in {s \in Players \X (1..(now + 1)) : s[2] \in DOMAIN history[s[1]]}
                            |-> Value(history[s[1]][s[2]])])]

\* form of one player, and of the group: who is named on form, and as rising.
FormOf(row) ==
  IF ~HasDelta(row) THEN "few" ELSE IF Rising(row) THEN "up"
  ELSE IF Falling(row) THEN "down" ELSE "steady"

Delta(row) ==
  [sum   |-> row.form.sum * row.average.count - row.average.sum * row.form.count,
   count |-> row.form.count * row.average.count]

OnFormNow(board) ==
  LET rows == {a \in Range(board.ranked) : Has(a.form)}
  IN  LeastOf([p \in {a.player : a \in rows} |->
                 Hundredths((CHOOSE a \in rows : a.player = p).form)])

RisingNow(board) ==
  LET rows  == {a \in Range(board.ranked) : HasDelta(a)}
      moved == [p \in {a.player : a \in rows} |-> Hundredths(Delta(CHOOSE a \in rows : a.player = p))]
  IN  IF \E a \in rows : Rising(a) /\ a.player \in LeastOf(moved) THEN LeastOf(moved) ELSE {}

\* steady: the ranked by their spread, the smallest first.
Steady(board) ==
  LET Alike(a, b) == \/ Lower(a.variance, b.variance)
                     \/ Level(a.variance, b.variance) /\ a.player < b.player
  IN  InOrder({a \in Range(board.ranked) : a.games >= 2}, Alike)

\* history: the months a player is told of, the latest six in the code and all of
\* them here, and those with a trophy.
HistoryOf(p, tables) ==
  LET told == {m \in DOMAIN tables : PlaceOf(tables[m], p) > 0}
  IN  [told |-> told, trophies |-> {m \in told : p \in tables[m].winners /\ Complete(m)}]

\* profile, as far as it is one figure next to another.
Profile(p, board, tables) ==
  LET row == CHOOSE r \in Range(Everyone(board)) : r.player = p
      at  == {i \in DOMAIN board.ranked : board.ranked[i].player = p}
      run == {m \in DOMAIN tables : Running(m)}
  IN  [trait  |-> Trait(row),
       place  |-> IF at = {} THEN 0 ELSE Min(at),
       month  |-> IF run = {} THEN 0 ELSE PlaceOf(tables[CHOOSE m \in run : TRUE], p),
       streak |-> <<row.current, row.longest>>,
       wins   |-> SeasonRow(p, tables).wins]

\* A bug: the month being played may hold the record.
RecordMonthRunning(tables) ==
  LET over  == {m \in DOMAIN tables : tables[m].winners # {}}
      Won(m) == [sum |-> tables[m].ranked[1].sum, count |-> tables[m].ranked[1].count]
  IN  LowestOf({Won(m) : m \in over})

\* records: the best month anybody has had, of those that are over.
RecordMonth(tables) ==
  LET over  == {m \in DOMAIN tables : Complete(m) /\ tables[m].winners # {}}
      Won(m) == [sum |-> tables[m].ranked[1].sum, count |-> tables[m].ranked[1].count]
  IN  LowestOf({Won(m) : m \in over})

\* The longest streak anybody has had, how many ones and twos, and the champions.
RecordStreak(rows)   == Max({row.longest : row \in rows} \cup {0})
RecordCount(rows, g) == Max({row.dist[g] : row \in rows} \cup {0})
Champions(tables)    == Holders(Range(Season(tables)), LAMBDA row : row.wins)

-----------------------------------------------------------------------------
(* What they promise. *)

\* Whoever leads the season with a title is a champion of it.
LeaderIsChampion(tables) ==
  LET season == Season(tables)
  IN  (season # <<>> /\ season[1].wins > 0) => season[1].player \in Champions(tables)

\* A history has as many trophies as the season has titles.
TrophiesAreWins(tables) ==
  \A row \in Range(Season(tables)) : Cardinality(HistoryOf(row.player, tables).trophies) = row.wins

\* The record month is the best month of somebody when no month is running.
RecordIsABest(tables) ==
  (\A m \in Months : Running(m) \/ now < m.first => Month(m).ranked = <<>>) =>
    Level(RecordMonth(tables), LowestOf({row.best : row \in Range(Season(tables))} \ {None}))

\* The distribution is of all the games.
DistributionIsOfAll(board) ==
  MapThenSumSet(LAMBDA g : CountGroup(board, g), 1..FailedAsSeven) = Group(board).games

\* Who has the fewest of a result has not the most, unless all have as many.
FewestIsNotMost(board) ==
  \A g \in 1..FailedAsSeven : CountFewest(board, g) \cap CountMost(board, g, FALSE) # {} =>
    \A a, b \in Range(board.ranked) : a.dist[g] = b.dist[g]

\* The bot names as rising whoever the board calls on form, and gives the rising the
\* trait the board gives them.
OnFormIsRising(board) ==
  /\ \A c \in Range(OnForm(board)) : c.player \in RisingNow(board)
  /\ \A row \in Range(Everyone(board)) : FormOf(row) = "up" <=> "climbing" \in Traits(row)

\* A profile without a place says why.
ProfilesAgree(board, tables) ==
  \A row \in Range(Everyone(board)) :
    LET told == Profile(row.player, board, tables)
    IN  told.place = 0 <=> told.trait \in {"inactive", "no recent games", "low data"}

\* A month that is one best week long is that week for who played all of it.
BestWeekIsMonth(m, table) ==
  \A p \in RankedIn(table) :
    (AwardDays = m.end - m.first /\ Complete(m) /\ opts = DefaultOptions
     /\ m.first..(m.end - 1) \subseteq DOMAIN history[p])
      => Level(BestWeek(p, m, table), AverageOf(table, p))

\* The steadiest of all is the steadiest of a month that is all there is.
SteadiestIsOfAll(m, table, board, holders) ==
  (/\ opts = DefaultOptions /\ RankedIn(table) = RankedIn(board) /\ RankedIn(table) # {}
   /\ \A p \in Players : DOMAIN history[p] \subseteq DaysOf(m, table))
    => \A i \in DOMAIN Steady(board) :
         (i = 1 /\ Steady(board)[i].games >= SteadyDays /\ SteadyDays >= 2)
           => Steady(board)[i].player \in holders[3]

\* No award but one that fills a gap is held by nobody or by a crowd.
AwardsAreHeld(holders) ==
  (\E i \in PickAwards(holders) : Cardinality(holders[i]) \notin 1..2) =>
    Cardinality({i \in 1..6 : Cardinality(holders[i]) \in 1..2}) < AwardsShown

\* Where two differ on a day, somebody came in under its mean.
SomebodyBeatTheDay(m, table, holders) ==
  (\E z \in DaysOf(m, table) : \E p, q \in RankedIn(table) :
     /\ z \in DOMAIN ScoresIn(p, {z}) \cap DOMAIN ScoresIn(q, {z})
     /\ Value(history[p][z]) # Value(history[q][z]))
    => holders[5] # {}

\* One past, told by many rules: the season, the histories, the records and the
\* counts of the bot; the profiles, the board and its callouts; and the months and
\* their awards.
PastAgrees ==
  LET board  == Compute
      tables == Tables
  IN  /\ LeaderIsChampion(tables)
      /\ TrophiesAreWins(tables)
      /\ RecordIsABest(tables)
      /\ DistributionIsOfAll(board)
      /\ FewestIsNotMost(board)
      /\ OnFormIsRising(board)
      /\ ProfilesAgree(board, tables)
      /\ \A m \in Months :
           LET table   == tables[m]
               holders == Candidates(m, tables)
           IN  /\ BestWeekIsMonth(m, table)
               /\ SteadiestIsOfAll(m, table, board, holders)
               /\ AwardsAreHeld(holders)
               /\ SomebodyBeatTheDay(m, table, holders)

\* What is told by two rules is told the same by both: the last days and the
\* month, the best run and the longest streak, form and its baseline, the board
\* and what it says of its players, and the past in all its tellings.
PathsAgree == RecentIsTheMonth /\ BestRunIsLongest /\ FormIsBaseline /\ StoriesAgree /\ PastAgrees

\* Playing loses nobody a record: while results are only added, under the rules the
\* bot goes by, the record month of the group never gets worse, the longest streak
\* never shorter, and nobody's count of a result smaller.
AllRecords ==
  {[month  |-> RecordMonth(tables),
    streak |-> RecordStreak(rows),
    counts |-> [g \in 1..FailedAsSeven |-> RecordCount(rows, g)]] :
     rows \in {{Row(p) : p \in Players}}, tables \in {Tables}}

RecordsStand ==
  [][(/\ opts = DefaultOptions
      /\ \A p \in Players : \A z \in DOMAIN history[p] :
           z \in DOMAIN history'[p] /\ history'[p][z] = history[p][z])
       => \A old \in AllRecords, new \in AllRecords' :
            /\ Has(old.month) => Has(new.month) /\ ~Lower(old.month, new.month)
            /\ old.streak <= new.streak
            /\ \A g \in 1..FailedAsSeven : old.counts[g] <= new.counts[g]]_vars
=============================================================================
