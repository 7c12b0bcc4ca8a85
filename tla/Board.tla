------------------------------- MODULE Board -------------------------------
(***************************************************************************)
(* internal/stats/stats.go and form.go: a player's streaks, which days     *)
(* were missed, and the form and the baseline it is compared with.         *)
(*                                                                         *)
(* The missed days are told in three places by three rules, and the        *)
(* streaks in two.  The board's own table is the subject of Rankings.       *)
(***************************************************************************)
EXTENDS History

CONSTANTS
  FormWindow,  \* puzzles back that form reaches, 30 in the code
  MinGames     \* games a form needs, 10 in the code

ASSUME FormWindowIsPositive == FormWindow \in Nat \ {0}
ASSUME MinGamesIsPositive   == MinGames \in Nat \ {0}

\* The days a streak goes on: a failure breaks one of solving, not one of playing.
Good(results, solving) ==
  {z \in DOMAIN results : z <= now /\ (solving => Solved(results[z]))}

\* The run that stands at the end of each day, walked from the first result on.
RunAt(results, solving) ==
  LET run[z \in 0..now] ==
        IF z \notin Good(results, solving) THEN 0 ELSE run[z - 1] + 1
  IN  run

\* A bug: a day still in progress breaks the streak.
CurrentStreakToday(results, solving) == RunAt(results, solving)[now]

\* computeStreaks, on the whole history.  Today breaks no streak until something
\* was filed for it.
CurrentStreak(results, solving) ==
  RunAt(results, solving)[IF now \in DOMAIN results THEN now ELSE now - 1]

LongestStreak(results, solving) == Max({RunAt(results, solving)[z] : z \in 0..now})

\* A bug: a day without a result breaks no run.
BestRunGaps(results) ==
  LET days == InOrder(DOMAIN results, <)
      run[i \in 0..Len(days)] ==
        IF i = 0 \/ ~Solved(results[days[i]]) THEN 0 ELSE run[i - 1] + 1
  IN  Max({run[i] : i \in 0..Len(days)})

\* bestRunWithin: the pass over the results, which meets no day without one.
BestRun(results) ==
  LET days == InOrder(DOMAIN results, <)
      run[i \in 0..Len(days)] ==
        IF i = 0 \/ ~Solved(results[days[i]]) THEN 0
        ELSE IF i > 1 /\ days[i - 1] = days[i] - 1 THEN run[i - 1] + 1 ELSE 1
  IN  Max({run[i] : i \in 0..Len(days)})

\* missedValues: the days between a player's first and last counted result that
\* have no result, counted or not.
MissedDays(counted, results) ==
  IF Cardinality(DOMAIN counted) < 2 THEN {}
  ELSE (Min(DOMAIN counted)..Max(DOMAIN counted)) \ DOMAIN results

\* mean of countedValues: what counts among the results of some days, and a seven
\* for each missed one.
Average(results, missed) ==
  LET valued == {z \in DOMAIN results : Counts(results[z])}
  IN  [sum   |-> Total(results, valued) + FailedAsSeven * Cardinality(missed),
       count |-> Cardinality(valued) + Cardinality(missed)]

\* TodayBaseline: the missed days count whatever the board's toggle says.
Baseline(p) == Average(Counted(p), MissedDays(Counted(p), history[p]))

WindowStart == now - FormWindow + 1

\* windowValues: the counted results inside the window.
InWindow(p) == RestrictDomain(Counted(p), LAMBDA z : z \in WindowStart..now)

\* The days of the window that are over, since the player's first result, and
\* have no result.
Gaps(p) ==
  IF history[p] = <<>> THEN {}
  ELSE (Later(WindowStart, Min(DOMAIN history[p]))..(now - 1)) \ DOMAIN history[p]

\* ComputeTodayForm: the missed days make the average worse and earn no form.
HasForm(p) == Cardinality(DOMAIN InWindow(p)) >= MinGames
Form(p)    == Average(InWindow(p), Gaps(p))

-----------------------------------------------------------------------------
(* What the figures promise. *)

\* The best run of a span, told by a pass over its results (months.go:376), and
\* the longest streak, told by a walk over the days (stats.go:275), are the same
\* when they are of the same days.
BestRunIsLongest ==
  \A p \in Players : DOMAIN history[p] \subseteq 1..now =>
    BestRun(history[p]) = LongestStreak(history[p], TRUE)

\* A midnight settles the day it ends and only that one: a streak its result
\* carried on stands, one that got no result or the wrong one is over, and a day
\* that has just begun breaks nothing.
MidnightSettlesTheDay ==
  [][\A p \in Players, solving \in BOOLEAN :
       (now' = now + 1 /\ now' \notin DOMAIN history[p])
         => CurrentStreak(history[p], solving)' =
              IF now \in Good(history[p], solving) THEN CurrentStreak(history[p], solving) ELSE 0]_vars

\* Form and the baseline it is held against are one figure by two rules
\* (form.go:52): they agree while the window holds a player's whole history and
\* the last result is yesterday's or today's.
FormIsBaseline ==
  \A p \in Players :
    (/\ history[p] # <<>> /\ ~opts.hardModeOnly
     /\ DOMAIN history[p] \subseteq WindowStart..now
     /\ Max(DOMAIN history[p]) >= now - 1)
      => Form(p) = Baseline(p)

=============================================================================
