----------------------------- MODULE Standings -----------------------------
(***************************************************************************)
(* internal/stats/months.go and week.go: a span of days scored as one      *)
(* competition, and the season made of the months.                         *)
(*                                                                         *)
(* What is counted of a player's good days (three or better, failures, the *)
(* best run) is left out, and so is the order of a season's table.         *)
(***************************************************************************)
EXTENDS History

CONSTANT Months   \* the months of a run, each by its first day and the first day after it

ASSUME MonthsAreSpans ==
  Months \subseteq {m \in [first : Nat \ {0}, end : Nat] : m.first < m.end}

ASSUME MonthsAreFew == IsFiniteSet(Months)

\* A bug: a day is over only when the next one is.
ConcludedLate(first, end, today) == first..(Later(Earlier(today - 1, end), first) - 1)

\* The days of the span that are over: nobody can play them any more.
Concluded(first, end, today) == first..(Later(Earlier(today, end), first) - 1)

\* A bug: a day not played is nothing.
MonthPlayerPlayed(p, results, concluded) ==
  LET counted == {z \in DOMAIN results : Counts(results[z])}
  IN  [player |-> p,
       games  |-> Cardinality(DOMAIN results),
       missed |-> 0,
       sum    |-> Total(results, counted),
       count  |-> Cardinality(counted)]

\* MonthPlayer: what was played and counts, and a seven for every day that is
\* over and was not played.
MonthPlayer(p, results, concluded) ==
  LET counted == {z \in DOMAIN results : Counts(results[z])}
      missed  == Cardinality(concluded \ DOMAIN results)
  IN  [player |-> p,
       games  |-> Cardinality(DOMAIN results),
       missed |-> missed,
       sum    |-> Total(results, counted) + FailedAsSeven * missed,
       count  |-> Cardinality(counted) + missed]

\* The order of the table: by average, then games, then slug.
Above(a, b) ==
  \/ Lower(a, b)
  \/ Level(a, b) /\ (a.games > b.games \/ (a.games = b.games /\ a.player < b.player))

Table(lines) == InOrder(lines, Above)

\* A bug: the place after a tie is the next number.
PlacesDense(ranked) ==
  LET place[i \in DOMAIN ranked] ==
        IF i = 1 THEN 1
        ELSE IF Level(ranked[i], ranked[i - 1]) THEN place[i - 1] ELSE place[i - 1] + 1
  IN  place

\* The place of every line of a sorted table: players level on average share one,
\* and the next distinct average skips the places the tie used up.
Places(ranked) ==
  LET place[i \in DOMAIN ranked] ==
        IF i > 1 /\ Level(ranked[i], ranked[i - 1]) THEN place[i - 1] ELSE i
  IN  place

\* scoreSpan.  rows are the results that fall in the span, by player.  Whoever
\* has rows but no value at all is in thin, and has no place.
ScoreSpan(first, end, rows, today) ==
  LET concluded == Concluded(first, end, today)
      present   == {p \in Players : DOMAIN rows[p] # {}}
      scored    == {MonthPlayer(p, rows[p], concluded) : p \in present}
      ranked    == Table({a \in scored : a.count > 0})
      underWay  == today \in first..(end - 1) /\ \E p \in present : today \in DOMAIN rows[p]
  IN  [days    |-> Cardinality(concluded) + (IF underWay THEN 1 ELSE 0),
       ranked  |-> ranked,
       places  |-> Places(ranked),
       thin    |-> {a.player : a \in {b \in scored : b.count = 0}},
       winners |-> {a.player : a \in {b \in Range(ranked) : Level(b, ranked[1])}}]

\* The results on the days from first up to but not including end.
Rows(first, end) == [p \in Players |-> RestrictDomain(Counted(p), LAMBDA z : first <= z /\ z < end)]

\* ComputeMonths for one month, as of a day.
MonthAsOf(m, today) == ScoreSpan(m.first, m.end, Rows(m.first, m.end), today)

Month(m) == MonthAsOf(m, now)

Complete(m) == m.end <= now

\* A bug: the clock of each day stops at its start.
DayLeadersEarly(m) ==
  [d \in 1..Month(m).days |->
     ScoreSpan(m.first, m.first + d, Rows(m.first, m.first + d), Earlier(m.first + d - 1, now)).winners]

\* DayLeaders: who led at the end of each day the month has had.
DayLeaders(m) ==
  [d \in 1..Month(m).days |->
     ScoreSpan(m.first, m.first + d, Rows(m.first, m.first + d), Earlier(m.first + d, now)).winners]

\* ComputeRecent: the last days, from the group's first result at the earliest.
Recent(days) ==
  LET played == UNION {DOMAIN Counted(p) : p \in Players}
      first  == Later(now - days + 1, Min(played))
  IN  ScoreSpan(first, now + 1, Rows(first, now + 1), now)

\* A bug: the leader of the running month has its title already.
TitlesRunning(m) == Month(m).winners

\* ComputeSeason: a title comes from a month that is over.
Titles(m) == IF Complete(m) THEN Month(m).winners ELSE {}

-----------------------------------------------------------------------------
(* What the figures promise. *)

\* A place is one more than the number of players with a strictly better average,
\* and the winners are those in the first place: sorting and the pass over the
\* sorted table neither split a tie nor forget the places it used up.
RanksAreEarned ==
  \A m \in Months :
    LET month  == Month(m)
        ranked == month.ranked
    IN  /\ \A i \in DOMAIN ranked : month.places[i] =
             1 + Cardinality({j \in DOMAIN ranked : Lower(ranked[j], ranked[i])})
        /\ month.winners = {ranked[i].player : i \in {j \in DOMAIN ranked : month.places[j] = 1}}

\* The chart of a finished month ends with its winners (months.go:171), though
\* each of its days is scored on its own, with the clock stopped at its end.
LeadersEndWithWinners ==
  \A m \in Months : Complete(m) =>
    LET month   == Month(m)
        leaders == DayLeaders(m)
    IN  /\ month.days = m.end - m.first
        /\ leaders[month.days] = month.winners

\* The month is announced on its last evening once everybody is in, scored as of
\* its end (announce.go:83): the pages, which still score it as of today, have
\* the same table by then.
EarlyIsFinal ==
  \A m \in Months :
    (/\ now = m.end - 1 /\ \E p \in Players : now \in DOMAIN Counted(p)
     /\ \A p \in Players : DOMAIN Rows(m.first, m.end)[p] # {} => now \in DOMAIN Counted(p))
      => Month(m) = MonthAsOf(m, m.end)

\* "The last days" and the running month agree when they are the same days: the
\* one clips its window by the group's first result and leaves out what was
\* posted ahead, the other goes by the calendar.
RecentIsTheMonth ==
  \A m \in Months :
    (/\ now \in m.first..(m.end - 1)
     /\ \E p \in Players : m.first \in DOMAIN Counted(p)
     /\ \A p \in Players : DOMAIN Counted(p) \subseteq m.first..now)
      => \A days \in (now - m.first + 1)..(now + 1) : Recent(days) = Month(m)

\* Turning up never costs anything: a result filed for a day that is over never
\* raises a player's average, whichever toggles are set and whatever the result.
PlayingNeverHurts ==
  [][\A slot \in Slots, m \in Months :
       LET p == slot[1]
           z == slot[2]
           line == MonthPlayer(p, Rows(m.first, m.end)[p], Concluded(m.first, m.end, now))
       IN  (/\ z \notin DOMAIN history[p] /\ z \in DOMAIN history'[p]
            /\ m.first <= z /\ z < now)
             => ~Lower(line, line')]_vars

\* A title changes hands only when its month ends or a result of the finished month
\* is touched: the clock and the month being played move no title already given,
\* and give none (TestSeasonCountsClosedMonthsOnly).
TitlesStand ==
  [][\A m \in Months :
       (/\ Complete(m)' = Complete(m)
        /\ Complete(m) => Rows(m.first, m.end)' = Rows(m.first, m.end))
         => Titles(m)' = Titles(m)]_vars

=============================================================================
