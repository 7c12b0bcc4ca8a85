---------------------------- MODULE Announcements ----------------------------
(***************************************************************************)
(* internal/announce: the posts the bot makes when a day, a week or a      *)
(* month closes.                                                           *)
(*                                                                         *)
(* Each has a check: under a mutex of its own it reads the board and the   *)
(* marks, decides whether something is due, sends it, and records it.  Two *)
(* triggers run the three checks in turn, smallest first: the bridge's     *)
(* worker after each live result, and the scheduler, on start and a minute *)
(* past each midnight.  Each reads the clock once, before it waits for the *)
(* first mutex.  A send may fail, land although it reports a failure, or   *)
(* land and not be recorded; the process may stop anywhere.                *)
(*                                                                         *)
(* Abstractions.  A day is its puzzle number, a week its first day and a   *)
(* month its last, so an announcement is a kind and a day.  The calendar   *)
(* is a parameter, so that a run can close all three in a few days.  Of    *)
(* the board only who filed which day is kept.  What the posts say is left *)
(* out, and so is who a result is for: a check reads names, not identities.*)
(***************************************************************************)
EXTENDS Integers, FiniteSets

CONSTANTS
  Players,
  FirstDay, LastDay,   \* the days a run covers; both are puzzle numbers
  FirstMonday,         \* stats.firstMonday
  WeekLength,          \* 7 in the code
  MonthEnds,           \* the days that are the last of a month
  WeekMinPlayers,      \* weekMinPlayers, 2 in the code
  Kinds,               \* which of the three are configured
  MaxFaults,           \* bound: sends, reads and records that fail, and crashes
  MaxEdits,            \* bound: changes to the board that are not live results
  Idle, NothingDue

Days == FirstDay..LastDay

ASSUME CalendarIsOrdered ==
  /\ FirstDay \in Nat \ {0} /\ LastDay \in Nat /\ FirstDay <= LastDay
  /\ FirstMonday \in Nat /\ WeekLength \in Nat \ {0}
  /\ MonthEnds \subseteq Nat /\ WeekMinPlayers \in Nat
ASSUME KindsKnown == Kinds \subseteq {"day", "week", "month"}
ASSUME BoundsAreNaturals == MaxFaults \in Nat /\ MaxEdits \in Nat

Triggers == {"live", "scheduled"}
Items    == {"day", "week", "month"} \X ((FirstDay - 2 * WeekLength)..LastDay)
Checks   == [kind : Kinds, phase : {"waiting", "sending", "recording"}, now : Days,
             at : ((FirstDay - 2 * WeekLength)..LastDay) \cup {NothingDue}]

ASSUME NullsAreNull == Idle \notin Checks /\ NothingDue \notin Int

VARIABLES
  clock,     \* today's puzzle
  filed,     \* [Players -> SUBSET Int]: whose results are on the board
  active,    \* players.active
  recorded,  \* signal_{day,week,month}_announcements, as <<kind, day>>
  up,        \* the process is running
  due,       \* the scheduler's run for today has yet to start
  check,     \* [Triggers -> a check under way, or Idle]
  faults, edits,
  starting,  \* which step of a start comes next
  said,      \* history: how many times each announcement reached the group
  firstDaily, firstWeekly,  \* history: the day of the first start to get as far
                            \* as each of the two marks, or 0
  late       \* history: closing days that gained or lost a result once over

board == <<filed, active>>
start == <<starting, firstDaily, firstWeekly>>
vars  == <<clock, board, recorded, up, due, check, faults, edits, said, start, late>>

(***************************************************************************)
(* What is due                                                             *)
(***************************************************************************)
Filed(d)     == {p \in Players : d \in filed[p]}
FullHouse(d) == Filed(d) # {} /\ active \subseteq Filed(d)

WeekOf(d)   == d - ((d - FirstMonday) % WeekLength)
Sunday(w)   == w + WeekLength - 1
Week(w)     == w..Sunday(w)
WeekStarted(w)   == \E d \in Week(w) : Filed(d) # {}
WeekContested(w) == Cardinality({p \in Players : filed[p] \cap Week(w) # {}}) >= WeekMinPlayers

\* The month that ends on day m: every day after the month before.
Month(m) == {d \in 1..m : \A e \in MonthEnds : e < m => d > e}

\* The day that has just closed first; otherwise today, once everyone is in.
DailyDue(now) ==
  IF Filed(now - 1) # {} /\ <<"day", now - 1>> \notin recorded THEN now - 1
  ELSE IF FullHouse(now) /\ <<"day", now>> \notin recorded THEN now
  ELSE NothingDue

\* The week to close: this one on its Sunday, otherwise the one before.
WeekToClose(now) == IF now = Sunday(WeekOf(now)) THEN WeekOf(now) ELSE WeekOf(now) - WeekLength

\* Day d's recap can still come, and has not.
DayOwed(d, now) ==
  "day" \in Kinds /\ now <= d + 1 /\ Filed(d) # {} /\ <<"day", d>> \notin recorded

\* A bug: the week does not wait for its Sunday.
WeeklyAtOnce(now) ==
  LET w == WeekToClose(now) IN
  IF /\ now = Sunday(w) => FullHouse(now)
     /\ WeekStarted(w)
     /\ <<"week", w>> \notin recorded
     /\ WeekContested(w)
  THEN w ELSE NothingDue

WeeklyDue(now) ==
  LET w == WeekToClose(now) IN
  IF /\ now = Sunday(w) => FullHouse(now)
     /\ WeekStarted(w)
     /\ <<"week", w>> \notin recorded
     /\ ~DayOwed(Sunday(w), now)
     /\ WeekContested(w)
  THEN w ELSE NothingDue

\* The week that ends with day d is one that will be said, and has not been.
WeekOwed(d, now) ==
  /\ "week" \in Kinds /\ now <= d + 1
  /\ d = Sunday(WeekOf(d)) /\ WeekContested(WeekOf(d))
  /\ <<"week", WeekOf(d)>> \notin recorded

\* The last month that was over before today.
PreviousMonth(now) == {m \in MonthEnds : m < now /\ \A e \in MonthEnds : e < now => e <= m}

\* On a month's last day it is that month, or none; otherwise the one before.
MonthsToClose(now) ==
  IF now \notin MonthEnds THEN PreviousMonth(now)
  ELSE IF FullHouse(now) THEN {now} ELSE {}

\* A bug: the month is due on its last day and the day after only.
MonthlyNoCatchUp(now) ==
  LET ready == {m \in MonthsToClose(now) :
                  /\ now <= m + 1
                  /\ <<"month", m>> \notin recorded
                  /\ ~DayOwed(m, now) /\ ~WeekOwed(m, now)
                  /\ \E d \in Month(m) : Filed(d) # {}}
  IN IF ready = {} THEN NothingDue ELSE CHOOSE m \in ready : TRUE

MonthlyDue(now) ==
  LET ready == {m \in MonthsToClose(now) :
                  /\ <<"month", m>> \notin recorded
                  /\ ~DayOwed(m, now) /\ ~WeekOwed(m, now)
                  /\ \E d \in Month(m) : Filed(d) # {}}
  IN IF ready = {} THEN NothingDue ELSE CHOOSE m \in ready : TRUE

DueAt(kind, now) ==
  CASE kind = "day"   -> DailyDue(now)
    [] kind = "week"  -> WeeklyDue(now)
    [] kind = "month" -> MonthlyDue(now)

(***************************************************************************)
(* A trigger's three checks                                                *)
(***************************************************************************)
Order == [day |-> 1, week |-> 2, month |-> 3]

\* joinChecks: the configured check after this one, or nothing more.
After(c) ==
  LET rest == {k \in Kinds : Order[k] > Order[c.kind]} IN
  IF rest = {} THEN Idle
  ELSE [kind |-> CHOOSE k \in rest : \A l \in rest : Order[k] <= Order[l],
        phase |-> "waiting", now |-> c.now, at |-> NothingDue]

Begin == IF Kinds = {} THEN Idle
         ELSE [kind |-> CHOOSE k \in Kinds : \A l \in Kinds : Order[k] <= Order[l],
               phase |-> "waiting", now |-> clock, at |-> NothingDue]

Running(t) == check[t] # Idle
In(t, phase) == Running(t) /\ check[t].phase = phase

\* The announcement that trigger t is about to make.
Item(t) == <<check[t].kind, check[t].at>>

\* A bug: the checks are not serialized.
NeverHeld(kind) == FALSE

\* The check's mutex is held by one that is sending or recording.
Held(kind) == \E t \in Triggers : Running(t) /\ check[t].kind = kind /\ check[t].phase # "waiting"

Goto(t, c) == check' = [check EXCEPT ![t] = c]
MoveOn(t)  == Goto(t, After(check[t]))

\* Something goes wrong.  The last day is left without, so that what must
\* happen after the last fault has a day to happen on.
Fault == faults < MaxFaults /\ clock < LastDay /\ faults' = faults + 1

\* Take the mutex, read the board and the marks, and decide.
Decide(t) ==
  /\ In(t, "waiting") /\ ~Held(check[t].kind)
  /\ LET at == DueAt(check[t].kind, check[t].now) IN
     IF at = NothingDue THEN MoveOn(t)
     ELSE Goto(t, [check[t] EXCEPT !.phase = "sending", !.at = at])
  /\ UNCHANGED <<clock, board, recorded, up, due, faults, edits, said, start, late>>

\* A read fails, or the deadline has passed.
DecideFails(t) ==
  /\ In(t, "waiting") /\ ~Held(check[t].kind)
  /\ Fault /\ MoveOn(t)
  /\ UNCHANGED <<clock, board, recorded, up, due, edits, said, start, late>>

Say(i) == said' = [said EXCEPT ![i] = @ + 1]

Send(t) ==
  /\ In(t, "sending")
  /\ Say(Item(t))
  /\ Goto(t, [check[t] EXCEPT !.phase = "recording"])
  /\ UNCHANGED <<clock, board, recorded, up, due, faults, edits, start, late>>

\* A bug: the mark is made although the send failed.
SendFailsRecorded(t) ==
  /\ In(t, "sending")
  /\ Fault /\ MoveOn(t)
  /\ recorded' = recorded \cup {Item(t)}
  /\ UNCHANGED <<clock, board, said, up, due, edits, start, late>>

\* The send reports a failure.  The message may be out all the same: the
\* answer was lost, or the deadline passed first.
SendFails(t) ==
  /\ In(t, "sending")
  /\ Fault /\ MoveOn(t)
  /\ (Say(Item(t)) \/ UNCHANGED said)
  /\ UNCHANGED <<clock, board, recorded, up, due, edits, start, late>>

Record(t) ==
  /\ In(t, "recording")
  /\ recorded' = recorded \cup {Item(t)}
  /\ MoveOn(t)
  /\ UNCHANGED <<clock, board, up, due, faults, edits, said, start, late>>

\* The message is out and its record is lost.
RecordFails(t) ==
  /\ In(t, "recording")
  /\ Fault /\ MoveOn(t)
  /\ UNCHANGED <<clock, board, recorded, up, due, edits, said, start, late>>

Step(t) == Decide(t) \/ DecideFails(t) \/ Send(t) \/ SendFails(t) \/ Record(t) \/ RecordFails(t)

(***************************************************************************)
(* What sets the checks off, and what goes on around them                  *)
(***************************************************************************)

\* A day that ended a week or a month, and is over, has its results changed.
Touch(d) ==
  late' = IF d < clock /\ (d = Sunday(WeekOf(d)) \/ d \in MonthEnds) THEN late \cup {d} ELSE late

\* A live result for yesterday, today or tomorrow: filed, its player back in
\* the group, and only then the announcer.
Live(p, d) ==
  /\ up /\ ~Running("live")
  /\ d \in ((clock - 1)..(clock + 1)) \cap Days
  /\ filed'  = [filed EXCEPT ![p] = @ \cup {d}]
  /\ active' = active \cup {p}
  /\ IF d \in filed[p] THEN UNCHANGED late ELSE Touch(d)
  /\ Goto("live", Begin)
  /\ UNCHANGED <<clock, recorded, up, due, faults, edits, said, start>>

\* A live result that puts nothing on the board: held for a sender nobody has
\* claimed, refused in favour of a hand, or not delivered at all.
LiveForNobody ==
  /\ up /\ ~Running("live")
  /\ Goto("live", Begin)
  /\ UNCHANGED <<clock, board, recorded, up, due, faults, edits, said, start, late>>

\* The scheduler's run: on start, and at 00:01.  No check begun before midnight
\* is left by then; its deadline is 20 seconds.
Scheduled ==
  /\ up /\ due /\ ~Running("scheduled")
  /\ \A t \in Triggers : Running(t) => check[t].now = clock
  /\ due' = FALSE
  /\ Goto("scheduled", Begin)
  /\ UNCHANGED <<clock, board, recorded, up, faults, edits, said, start, late>>

\* Midnight.  A check lasts seconds: none lives to see two midnights, and the
\* run for a day is over long before the day is.
Midnight ==
  /\ clock < LastDay
  /\ up => ~due
  /\ \A t \in Triggers : Running(t) => check[t].now = clock
  /\ clock' = clock + 1
  /\ due'   = up
  /\ UNCHANGED <<board, recorded, up, check, faults, edits, said, start, late>>

\* A start: the two marks, each a write of its own with the clock read anew,
\* and only then the goroutines.  It may stop, or fail, between any two of them.
Start ==
  /\ ~up /\ starting = "no"
  /\ starting' = "daily"
  /\ UNCHANGED <<clock, board, recorded, up, due, check, faults, edits, said, firstDaily, firstWeekly, late>>

\* A bug: whether this is the first start is asked once for both marks, before
\* either is made.
MarkFirstOfAll(kind, d) ==
  recorded' = IF kind \in Kinds /\ recorded \subseteq {<<"day", clock - 1>>}
              THEN recorded \cup {<<kind, d>>} ELSE recorded

\* A mark is made by a start that finds none of its kind.
MarkFirst(kind, d) ==
  recorded' = IF kind \in Kinds /\ \A i \in recorded : i[1] # kind
              THEN recorded \cup {<<kind, d>>} ELSE recorded

FirstOf(day) == IF day = 0 THEN clock ELSE day

SkipDailyBacklog ==
  /\ starting = "daily" /\ starting' = "weekly"
  /\ MarkFirst("day", clock - 1)
  /\ firstDaily' = FirstOf(firstDaily)
  /\ UNCHANGED <<clock, board, up, due, check, faults, edits, said, firstWeekly, late>>

SkipWeeklyBacklog ==
  /\ starting = "weekly" /\ starting' = "serving"
  /\ MarkFirst("week", WeekOf(clock) - WeekLength)
  /\ firstWeekly' = FirstOf(firstWeekly)
  /\ UNCHANGED <<clock, board, up, due, check, faults, edits, said, firstDaily, late>>

Serve ==
  /\ starting = "serving" /\ starting' = "no"
  /\ up' = TRUE /\ due' = TRUE
  /\ UNCHANGED <<clock, board, recorded, check, faults, edits, said, firstDaily, firstWeekly, late>>

Boot == Start \/ SkipDailyBacklog \/ SkipWeeklyBacklog \/ Serve

\* The process stops, wherever it is; a start also when a mark fails.
Crash ==
  /\ up \/ starting # "no"
  /\ Fault
  /\ up' = FALSE /\ due' = FALSE /\ starting' = "no"
  /\ check' = [t \in Triggers |-> Idle]
  /\ UNCHANGED <<clock, board, recorded, edits, said, firstDaily, firstWeekly, late>>

Edit == edits < MaxEdits /\ edits' = edits + 1

\* A result is entered, claimed or unset, which sets nothing off.
EditResult(p, d) ==
  /\ Edit
  /\ filed' = [filed EXCEPT ![p] = IF d \in @ THEN @ \ {d} ELSE @ \cup {d}]
  /\ Touch(d)
  /\ UNCHANGED <<clock, active, recorded, up, due, check, faults, said, start>>

\* A player leaves, or is made active again.
EditMembership(p) ==
  /\ Edit
  /\ active' = IF p \in active THEN active \ {p} ELSE active \cup {p}
  /\ UNCHANGED <<clock, filed, recorded, up, due, check, faults, said, start, late>>

\* The database may be full of played days before the first start.
Init ==
  /\ clock = FirstDay
  /\ filed \in [Players -> SUBSET {FirstDay - 1}]
  /\ active = Players
  /\ recorded = {}
  /\ up = FALSE /\ due = FALSE
  /\ check = [t \in Triggers |-> Idle]
  /\ faults = 0 /\ edits = 0
  /\ said = [i \in Items |-> 0]
  /\ starting = "no" /\ firstDaily = 0 /\ firstWeekly = 0
  /\ late = {}

Next ==
  \/ \E t \in Triggers : Step(t)
  \/ \E p \in Players, d \in Days : Live(p, d) \/ EditResult(p, d)
  \/ \E p \in Players : EditMembership(p)
  \/ LiveForNobody
  \/ Scheduled
  \/ Midnight
  \/ Boot
  \/ Crash

Spec == Init /\ [][Next]_vars

(***************************************************************************)
(* Invariants                                                              *)
(***************************************************************************)

StartOK ==
  /\ starting \in {"no", "daily", "weekly", "serving"}
  /\ firstDaily \in Days \cup {0} /\ firstWeekly \in Days \cup {0}

\* Every mark, check and counter is one the code can make.
TypeOK ==
  /\ clock \in Days
  /\ filed \in [Players -> SUBSET ((FirstDay - 1)..LastDay)]
  /\ active \subseteq Players
  /\ recorded \subseteq Items
  /\ up \in BOOLEAN /\ due \in BOOLEAN
  /\ check \in [Triggers -> Checks \cup {Idle}]
  /\ \A t \in Triggers : Running(t) => (check[t].phase = "waiting" <=> check[t].at = NothingDue)
  /\ faults \in 0..MaxFaults /\ edits \in 0..MaxEdits
  /\ said \in [Items -> Nat]
  /\ StartOK
  /\ late \subseteq (FirstDay - 1)..LastDay

\* Nothing is marked done that the group was not told, except the day before
\* the first start that got as far as the day's mark and the week before the
\* first that got as far as the week's, and nothing from before them is said: a
\* failed send is never recorded, so it is never lost; and a start that stops
\* between its two marks leaves the next one, on whatever day, to make the other.
MarkedWasSaid ==
  /\ \A i \in recorded :
       \/ said[i] > 0
       \/ i = <<"day", firstDaily - 1>>
       \/ i = <<"week", WeekOf(firstWeekly) - WeekLength>>
  /\ \A i \in Items : said[i] > 0 =>
       /\ i[1] = "day"  => i[2] >= firstDaily
       /\ i[1] = "week" => Sunday(i[2]) >= firstWeekly

(***************************************************************************)
(* Action properties                                                       *)
(***************************************************************************)
SaidNow(i) == said'[i] > said[i]

\* What is recorded is never said again, by either trigger and after any
\* restart; and without a fault nothing is said twice.
SaidOnce ==
  [][\A i \in Items : SaidNow(i) => /\ i \notin recorded
                                    /\ said[i] > 0 => faults > 0]_vars

\* The group reads about a day before the week or the month that closed with it,
\* unless the day was played after it was over, or the check that says it was
\* begun before midnight and says it after.
DayFirst ==
  [][\A d \in Days :
       (/\ SaidNow(<<"day", d>>)
        /\ d \notin late
        /\ \A t \in Triggers : Running(t) => check[t].now = clock) =>
       /\ d = Sunday(WeekOf(d)) => said[<<"week", WeekOf(d)>>] = 0
       /\ said[<<"month", d>>] = 0]_vars

(***************************************************************************)
(* Liveness                                                                *)
(***************************************************************************)

\* Time passes; a check under way takes its next step, or fails; the scheduler
\* runs; and a process that stopped is started again.  Nobody has to post.
Fairness ==
  /\ WF_vars(Midnight) /\ WF_vars(Scheduled) /\ WF_vars(Boot)
  /\ \A t \in Triggers : WF_vars(Step(t))

FairSpec == Spec /\ Fairness

\* A day that somebody filed while it lasted, and the process was up, is said,
\* whoever else files and whenever - unless something failed or the result was
\* taken back.  A month somebody played is said, whatever failed on the way.
ClosesAreSaid ==
  /\ \A d \in FirstDay..(LastDay - 1) :
       (up /\ clock = d /\ Filed(d) # {} /\ "day" \in Kinds)
         ~> (said[<<"day", d>>] > 0 \/ faults > 0 \/ Filed(d) = {})
  /\ \A m \in MonthEnds \cap (FirstDay..(LastDay - 1)) :
       (clock > m /\ \E d \in Month(m) : Filed(d) # {} /\ "month" \in Kinds)
         ~> (said[<<"month", m>>] > 0 \/ \A d \in Month(m) : Filed(d) = {})

=============================================================================
