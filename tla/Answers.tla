------------------------------ MODULE Answers ------------------------------
(***************************************************************************)
(* What the bot answers from (internal/reply), and what it reads of the    *)
(* day being played (stats/today.go): figures of its own, next to the      *)
(* pages' and the announcer's.                                             *)
(*                                                                         *)
(* An answer is what it says and of whom; the sentence is left out, and so *)
(* is finding the player a name stands for.  Every answer is by the        *)
(* default toggles, whatever a page is set to.                             *)
(***************************************************************************)
EXTENDS Standings, Rankings

CONSTANT DayMinFiled  \* results a day's mean needs, 3 in the code

ASSUME DayMinFiledIsPositive == DayMinFiled \in Nat \ {0}

\* A result as every average here counts it: a failure is a seven.
OnDay(z) == [p \in {q \in Players : z \in DOMAIN history[q]} |-> Value(history[p][z])]

-----------------------------------------------------------------------------
(* stats/today.go *)

\* A bug: a result in hard mode stands before a better one.
FiledHardFirst(z) ==
  LET Before(p, q) ==
        LET a == history[p][z]
            b == history[q][z]
        IN  IF a.hard # b.hard THEN a.hard
            ELSE IF Value(a) # Value(b) THEN Value(a) < Value(b)
            ELSE p < q
  IN  InOrder({p \in Players : z \in DOMAIN history[p]}, Before)

\* The results of a day, best first: hard mode orders two that are the same.
FiledOn(z) ==
  LET Before(p, q) ==
        LET a == history[p][z]
            b == history[q][z]
        IN  IF Value(a) # Value(b) THEN Value(a) < Value(b)
            ELSE IF a.hard # b.hard THEN a.hard
            ELSE p < q
  IN  InOrder({p \in Players : z \in DOMAIN history[p]}, Before)

\* ComputeToday.  It reads the whole history, whatever the filter; best are those
\* who share the first one's score, when that one was solved.
Today(z) ==
  LET filed == FiledOn(z)
      Score(p) == history[p][z]
  IN  [filed   |-> filed,
       missing |-> Active \ Range(filed),
       best    |-> IF filed = <<>> \/ ~Solved(Score(filed[1])) THEN {}
                   ELSE {p \in Range(filed) : Score(p).guesses = Score(filed[1]).guesses}]

-----------------------------------------------------------------------------
(* The spans a question names. *)

Running(m) == now \in m.first..(m.end - 1)

\* WeekOf: puzzle 2 was a Monday.
WeekOf(z) == z - ((z - 2) % 7)

\* spanPuzzles, for the month a question names and the calendar's other spans.
MonthDays(m)   == m.first..Earlier(m.end - 1, now)
WeekDays       == WeekOf(now)..now
RecentDays(n)  == (now - n + 1)..now

\* ComputeWeek.
Week(monday) == ScoreSpan(monday, monday + 7, Rows(monday, monday + 7), now)

\* boardAsStanding: the board's ranked, on career averages, with its own places.
BoardAsStanding(board) ==
  LET best == board.ranked[1].average
  IN  [ranked  |-> board.ranked,
       places  |-> [i \in DOMAIN board.ranked |-> i],
       winners |-> {a.player : a \in {b \in Range(board.ranked) : Level(b.average, best)}}]

\* The runners-up of a table: everybody on the next average after the winners'.
RunnersUp(month) ==
  LET next == Cardinality(month.winners) + 1
  IN  IF next > Len(month.ranked) THEN {}
      ELSE {a.player : a \in {b \in Range(month.ranked) : Level(b, month.ranked[next])}}

\* leader: who is said to lead, or to have won, and who is next.
Leader(month) ==
  [says |-> IF month.winners = {} THEN "none"
            ELSE IF Cardinality(month.winners) > 1 THEN "tie"
            ELSE IF RunnersUp(month) = {} THEN "alone" ELSE "margin",
   who  |-> month.winners, next |-> RunnersUp(month)]

\* last: the bottom of the table among those who played five days in seven of it.
Regulars(month) == Table({a \in Range(month.ranked) : 7 * a.games >= 5 * month.days})

Bottom(month) ==
  LET regulars == Regulars(month)
  IN  IF Len(regulars) < 2 THEN {}
      ELSE {a.player : a \in {b \in Range(regulars) : Level(b, regulars[Len(regulars)])}}

\* gapLine: what a player of the table is told next to the place.
Gap(month, i) ==
  LET mine  == month.ranked[i]
      above == {a \in Range(month.ranked) : Lower(a, mine)}
      next  == {a \in above : \A b \in above : ~Lower(a, b)}
  IN  IF mine.player \in month.winners
      THEN [says |-> IF month.winners # {mine.player} THEN "level"
                     ELSE IF RunnersUp(month) = {} THEN "nothing" ELSE "clear",
            who  |-> IF month.winners # {mine.player} THEN month.winners \ {mine.player}
                     ELSE RunnersUp(month)]
      ELSE [says |-> "behind", who |-> {a.player : a \in next}]

-----------------------------------------------------------------------------
(* Days against each other: day.go, versus.go. *)

\* A mean of some results.
MeanOf(values) == [sum |-> MapThenSumSet(LAMBDA p : values[p], DOMAIN values), count |-> Cardinality(DOMAIN values)]

\* day: a puzzle is hard or easy three quarters of a guess from the mean of all
\* that came before it, once there is enough of both.
DayCall(z) ==
  LET mean   == MeanOf(OnDay(z))
      before == {s \in Players \X (1..(z - 1)) : s[2] \in DOMAIN history[s[1]]}
      usual  == [sum   |-> MapThenSumSet(LAMBDA s : Value(history[s[1]][s[2]]), before),
                 count |-> Cardinality(before)]
      Harder(a, b) == 4 * (a.sum * b.count - b.sum * a.count) >= 3 * a.count * b.count
  IN  IF mean.count = 0 THEN "nobody"
      ELSE IF mean.count < DayMinFiled \/ usual.count < FormWindow THEN "mean"
      ELSE IF Harder(mean, usual) THEN "hard"
      ELSE IF Harder(usual, mean) THEN "easy"
      ELSE "usual"

\* puzzles: the hardest of the days that are over, or the easiest, and the latest
\* of them; 0 for none.
Puzzle(days, easiest) ==
  LET played == {z \in days : z < now /\ Cardinality(DOMAIN OnDay(z)) >= DayMinFiled}
      Beats(y, z) == IF easiest THEN Lower(MeanOf(OnDay(y)), MeanOf(OnDay(z)))
                     ELSE Lower(MeanOf(OnDay(z)), MeanOf(OnDay(y)))
      top    == {z \in played : \A y \in played : ~Beats(y, z)}
  IN  IF played = {} THEN 0 ELSE Max(top)

\* The days somebody could win: two played, and not all of them failed.
Contested(days) ==
  {z \in days : /\ Cardinality(DOMAIN OnDay(z)) >= 2
                /\ Min(Range(OnDay(z))) < FailedAsSeven}

\* dayWins.
DayWins(p, days) ==
  Cardinality({z \in Contested(days) : p \in DOMAIN OnDay(z) /\ OnDay(z)[p] = Min(Range(OnDay(z)))})

\* versus: the days both played, and who did better on them.
Duel(p, q, days) ==
  LET shared == {z \in days : {p, q} \subseteq DOMAIN OnDay(z)}
      Wins(a, b) == Cardinality({z \in shared : OnDay(z)[a] < OnDay(z)[b]})
      Owns(a, b) == 3 * Wins(a, b) >= 2 * Cardinality(shared)
  IN  [days  |-> Cardinality(shared),
       wins  |-> Wins(p, q), losses |-> Wins(q, p),
       draws |-> Cardinality(shared) - Wins(p, q) - Wins(q, p),
       says  |-> IF shared = {} THEN "never"
                 ELSE IF Owns(p, q) THEN "first"
                 ELSE IF Owns(q, p) THEN "second"
                 ELSE IF Wins(p, q) = Wins(q, p) THEN "even" ELSE "open"]

\* bestOver a day: who is told to have been best on it.
BestOver(z) ==
  LET values == OnDay(z)
  IN  {p \in DOMAIN values : values[p] = Min(Range(values))}

-----------------------------------------------------------------------------
(* The race of the running month: catchup.go, whatif.go. *)

\* Month.First: the calendar's first day - but the earliest that is posted, which is
\* tomorrow, as long as the month has had no day.
FirstDay(m) ==
  IF Month(m).days > 0 THEN m.first
  ELSE Min(UNION {DOMAIN Rows(m.first, m.end)[p] : p \in Players})

\* The days of the month in a player's average: those that are over, and today
\* once it is played.
Scored(p, m) == (now - FirstDay(m)) + (IF now \in DOMAIN history[p] THEN 1 ELSE 0)

\* The days a player still has.
Left(p, m) == m.end - now - (IF now \in DOMAIN history[p] THEN 1 ELSE 0)

\* need: the average over those days that reaches the leader's, who keeps theirs
\* to the end.
Need(line, m) ==
  LET leader == Month(m).ranked[1]
  IN  [sum   |-> (m.end - FirstDay(m)) * leader.sum * line.count
                 - Scored(line.player, m) * line.sum * leader.count,
       count |-> Left(line.player, m) * leader.count * line.count]

One == [sum |-> 1, count |-> 1]
Two == [sum |-> 2, count |-> 1]

\* catchup, of one player.
Catchup(line, m) ==
  IF line.player \in Month(m).winners THEN "leads"
  ELSE IF Left(line.player, m) = 0 THEN "over"
  ELSE IF Lower(Need(line, m), One) THEN "impossible"
  ELSE IF Lower(Need(line, m), Two) THEN "hard"
  ELSE "possible"

\* An average to the hundredth, as it is shown: a half is rounded up.
Hundredths(average) == (200 * average.sum + average.count) \div (2 * average.count)

\* A bug: a player without a result yet starts from nothing.
PredictedFromNothing(p, m, g) ==
  LET lines == {a \in Range(Month(m).ranked) : a.player = p}
      a     == IF lines = {} THEN [sum |-> 0, count |-> 1] ELSE CHOOSE x \in lines : TRUE
  IN  [sum |-> a.sum * Scored(p, m) + g * a.count, count |-> a.count * (Scored(p, m) + 1)]

\* whatIf: the average of a player whose next result comes to g.  Who has none in
\* the month has a seven for each of its days that are over.  The count is what the
\* code divides by, and may be zero (WhatIfComesTrue).
Predicted(p, m, g) ==
  LET lines == {a \in Range(Month(m).ranked) : a.player = p}
      a     == IF lines = {} THEN [sum |-> FailedAsSeven, count |-> 1] ELSE CHOOSE x \in lines : TRUE
  IN  [sum |-> a.sum * Scored(p, m) + g * a.count, count |-> a.count * (Scored(p, m) + 1)]

\* The table as it would be: who would lead it, by the averages as they are shown.
WhatIf(p, m, g) ==
  LET others  == {a \in Range(Month(m).ranked) : a.player # p}
      average == [q \in {p} \cup {a.player : a \in others} |->
                    IF q = p THEN Predicted(p, m, g) ELSE CHOOSE a \in others : a.player = q]
      best    == Min({Hundredths(average[q]) : q \in DOMAIN average})
      top     == {q \in DOMAIN average : Hundredths(average[q]) = best}
  IN  [average |-> average[p], top |-> top,
       says    |-> IF Cardinality(top) > 1 THEN "tie"
                   ELSE IF DOMAIN average = {p} THEN "alone"
                   ELSE IF top = Month(m).winners THEN "keeps" ELSE "takes"]

-----------------------------------------------------------------------------
(* What the answers promise. *)

\* The best of a day is told by three rules and is the same by all of them: the
\* head of the sorted day (today.go:111), the lowest of its results
\* (answer.go:202), and the one that wins it (day.go and versus.go).
DaysAgree ==
  \A z \in 1..now :
    LET today == Today(z)
    IN  /\ IF today.best = {} THEN \A p \in BestOver(z) : ~Solved(history[p][z])
                              ELSE today.best = BestOver(z)
        /\ \A p \in Players :
             DayWins(p, {z}) = (IF p \in today.best /\ Len(today.filed) > 1 THEN 1 ELSE 0)
        /\ today.missing \cup Range(today.filed) = Active \cup Range(today.filed)

\* Two players alone have between them the days one of them won and those they
\* shared: a duel is the competition of the days when nobody else is in it.
Spans == {1..now, WeekDays, RecentDays(2)} \cup {MonthDays(m) : m \in {x \in Months : x.first <= now}}

DuelsAreDays ==
  \A p, q \in Players, days \in Spans :
    (p < q /\ \A r \in Players \ {p, q} : history[r] = <<>>) =>
      LET duel == Duel(p, q, days)
          even == {z \in Contested(days) : {p, q} \subseteq BestOver(z)}
      IN  /\ DayWins(p, days) = duel.wins + Cardinality(even)
          /\ DayWins(q, days) = duel.losses + Cardinality(even)
          /\ duel.says = "first" => duel.wins > duel.losses

\* The hardest puzzle of a span was no easier than its easiest, and the hardest
\* ever is called easy only when the usual it is held against has a day in it too
\* thin to be asked about: the two questions weigh the days differently.
PuzzlesAgree ==
  /\ \A days \in Spans :
       LET hard == Puzzle(days, FALSE)
           easy == Puzzle(days, TRUE)
       IN  hard # 0 => ~Lower(MeanOf(OnDay(hard)), MeanOf(OnDay(easy)))
  /\ LET hard == Puzzle(1..now, FALSE)
     IN  (hard # 0 /\ DayCall(hard) = "easy") =>
           \E z \in 1..(hard - 1) : Cardinality(DOMAIN OnDay(z)) \in 1..(DayMinFiled - 1)

\* The week so far is the same by its own table and as the last days
\* (RecentIsTheMonth says so of the month), and the all-time standing has the
\* board's leaders, each at a place no better than a tied one would be.
StandingsAgree ==
  LET monday == WeekOf(now)
      board  == Compute
  IN  /\ (/\ \E p \in Players : monday \in DOMAIN history[p]
          /\ \A p \in Players : DOMAIN history[p] \subseteq WeekDays)
           => Recent(Cardinality(WeekDays)) = Week(monday)
      /\ board.ranked # <<>> =>
           LET standing == BoardAsStanding(board)
               tied == Places([i \in DOMAIN board.ranked |-> board.ranked[i].average])
           IN  /\ standing.winners = {board.ranked[i].player : i \in {j \in DOMAIN tied : tied[j] = 1}}
               /\ \A i \in DOMAIN tied : tied[i] <= standing.places[i]

\* Who is told it is impossible is: the arithmetic of the race (catchup.go:21) is
\* the month's own.  A one on every day still open leaves the player behind the
\* leader's average exactly then - unless the player has posted ahead, which the
\* race takes no account of.
BestFinish(p, m) ==
  LET open == {z \in now..(m.end - 1) : z \notin DOMAIN history[p]}
      mine == Rows(m.first, m.end)[p]
      one  == [guesses |-> 1, hard |-> FALSE]
  IN  MonthPlayer(p, [z \in DOMAIN mine \cup open |-> IF z \in open THEN one ELSE mine[z]],
                  Concluded(m.first, m.end, m.end))

RaceIsTheMonths ==
  \A m \in {x \in Months : Running(x)} :
    LET ranked == Month(m).ranked
    IN  \A i \in DOMAIN ranked :
          LET p == ranked[i].player
          IN  (p \notin Month(m).winners /\ DOMAIN history[p] \cap ((now + 1)..(m.end - 1)) = {}) =>
                (Catchup(ranked[i], m) \in {"impossible", "over"}
                   <=> Lower(ranked[1], BestFinish(p, m)))

\* Nobody who leads is named for coming last, unless everybody who could be named
\* is level; and whoever is behind somebody is told behind whom.
LastIsNotFirst ==
  \A m \in Months :
    LET month == Month(m)
    IN  /\ Bottom(month) \cap month.winners # {} =>
             {a.player : a \in Range(Regulars(month))} \subseteq Bottom(month)
        /\ \A i \in DOMAIN month.ranked :
             LET gap == Gap(month, i)
             IN  /\ gap.says = "behind" => gap.who # {} /\ month.places[i] > 1
                 /\ gap.says = "clear"  => gap.who = RunnersUp(month)
        /\ Leader(month).says = "alone" <=> Len(month.ranked) = 1

\* The bot, which answers by the default toggles, says of a day, of a duel and of
\* the month what the pages and the months say of them.
AnswersAgree ==
  opts = DefaultOptions =>
    DaysAgree /\ DuelsAreDays /\ PuzzlesAgree /\ StandingsAgree /\ RaceIsTheMonths /\ LastIsNotFirst

\* What the bot predicts comes true: when a player of a running month files the
\* result a what-if was about, the average is the one predicted, and whoever leads
\* then was named - unless the player had posted ahead of today.  On a month's first
\* day with nothing of it played but tomorrow's puzzle the code predicts nothing: it
\* takes the month to begin tomorrow and divides by zero (whatif.go:93).
WhatIfComesTrue ==
  [][\A p \in Players, m \in Months :
       (/\ now \notin DOMAIN history[p] /\ now \in DOMAIN history'[p]
        /\ opts = DefaultOptions /\ Running(m) /\ Month(m).winners # {}
        /\ DOMAIN history[p] \cap ((now + 1)..(m.end - 1)) = {})
         => LET g    == Value(history'[p][now])
                told == WhatIf(p, m, g)
            IN  IF Month(m).days = 0 THEN Predicted(p, m, g).count = 0
                ELSE /\ \E a \in Range(Month(m).ranked)' : a.player = p /\ Level(a, told.average)
                     /\ Month(m).winners' \subseteq told.top]_vars
=============================================================================
