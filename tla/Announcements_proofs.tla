------------------------ MODULE Announcements_proofs ------------------------
(* What is marked was said, what is marked is not said again, and the day is
   said before the week and the month it ends: for any roster, calendar and
   span of days, and any number of faults and edits.                       *)
EXTENDS Announcements, TLAPS

-----------------------------------------------------------------------------
(* The calendar.                                                           *)

LEMMA Quotient ==
  ASSUME NEW a \in Int, NEW n \in Nat \ {0}
  PROVE  a \div n \in Int /\ a % n \in 0..(n - 1) /\ a = n * (a \div n) + (a % n)
BY Z3

LEMMA OneMore ==
  ASSUME NEW n \in Nat \ {0}, NEW p \in Int, NEW q \in Int, p < q
  PROVE  n * p + n <= n * q
<1>1. PICK k \in Nat : q = p + 1 + k
  <2>1. q - p - 1 \in Nat /\ q = p + 1 + (q - p - 1)
    OBVIOUS
  <2> QED BY <2>1
<1>2. n * q = n * p + n + n * k
  BY <1>1
<1>3. n * k \in Nat
  BY <1>1
<1> QED BY <1>2, <1>3

\* A day lies in its week.
LEMMA WeekBounds ==
  ASSUME NEW d \in Int
  PROVE  WeekOf(d) \in Int /\ WeekOf(d) <= d /\ d < WeekOf(d) + WeekLength
BY CalendarIsOrdered DEF WeekOf

\* Two days are in one week, or the week of the one ends before the other's begins.
LEMMA WeekOrder ==
  ASSUME NEW d \in Int, NEW e \in Int, d <= e
  PROVE  WeekOf(d) = WeekOf(e) \/ WeekOf(d) + WeekLength <= WeekOf(e)
<1> DEFINE p == (d - FirstMonday) \div WeekLength
           q == (e - FirstMonday) \div WeekLength
<1>1. WeekLength \in Nat \ {0} /\ FirstMonday \in Int
  BY CalendarIsOrdered
<1>2. /\ p \in Int /\ q \in Int
      /\ WeekOf(d) = FirstMonday + WeekLength * p
      /\ WeekOf(e) = FirstMonday + WeekLength * q
  BY <1>1, Quotient DEF WeekOf
<1>3. CASE p = q
  BY <1>2, <1>3
<1>4. CASE p < q
  <2>1. WeekLength * p + WeekLength <= WeekLength * q
    BY <1>1, <1>2, <1>4, OneMore
  <2> QED BY <1>1, <1>2, <2>1
<1>5. CASE q < p
  <2>1. WeekLength * q + WeekLength <= WeekLength * p
    BY <1>1, <1>2, <1>5, OneMore
  <2>2. WeekOf(e) + WeekLength <= WeekOf(d)
    BY <1>1, <1>2, <2>1
  <2> QED BY <1>1, <1>2, <2>2, WeekBounds
<1> HIDE DEF p, q
<1> QED BY <1>2, <1>3, <1>4, <1>5

\* The week to close, and the days and marks there can be.
LEMMA CloseBounds ==
  ASSUME NEW d \in Days
  PROVE  /\ d \in Int /\ FirstDay <= d /\ d <= LastDay
         /\ WeekOf(d) \in Int /\ WeekOf(d) - WeekLength \in (FirstDay - 2 * WeekLength)..LastDay
         /\ WeekToClose(d) \in (FirstDay - 2 * WeekLength)..LastDay
         /\ d \in (FirstDay - 2 * WeekLength)..LastDay /\ d - 1 \in (FirstDay - 2 * WeekLength)..LastDay
<1>1. /\ d \in Int /\ FirstDay <= d /\ d <= LastDay /\ FirstDay \in Nat /\ LastDay \in Nat
      /\ WeekLength \in Nat /\ WeekLength >= 1
  BY CalendarIsOrdered DEF Days
<1>2. WeekOf(d) \in Int /\ WeekOf(d) <= d /\ d < WeekOf(d) + WeekLength
  BY <1>1, WeekBounds
<1>3. WeekToClose(d) \in {WeekOf(d), WeekOf(d) - WeekLength}
  BY DEF WeekToClose
<1> QED
  BY <1>1, <1>2, <1>3

-----------------------------------------------------------------------------
(* Checks.                                                                 *)

\* Of some kinds one comes first.
LEMMA FirstOfKinds ==
  ASSUME NEW S, S \subseteq Kinds, S # {}
  PROVE  (CHOOSE k \in S : \A l \in S : Order[k] <= Order[l]) \in S
<1>1. \E k \in S : \A l \in S : Order[k] <= Order[l]
  <2>1. S \subseteq {"day", "week", "month"}
    BY KindsKnown
  <2>2. Order["day"] = 1 /\ Order["week"] = 2 /\ Order["month"] = 3
    BY DEF Order
  <2>3. CASE "day" \in S
    BY <2>1, <2>2, <2>3
  <2>4. CASE "day" \notin S /\ "week" \in S
    BY <2>1, <2>2, <2>4
  <2>5. CASE "day" \notin S /\ "week" \notin S
    <3>1. S = {"month"}
      BY <2>1, <2>5
    <3> QED BY <2>2, <3>1
  <2> QED BY <2>3, <2>4, <2>5
<1> QED BY <1>1

\* A check that goes on to the next kind, or begins, waits.
LEMMA AfterWaits ==
  ASSUME NEW c \in Checks
  PROVE  /\ After(c) \in Checks \cup {Idle}
         /\ After(c) # Idle => After(c).phase = "waiting" /\ After(c).at = NothingDue /\ After(c).now = c.now
<1> DEFINE rest == {k \in Kinds : Order[k] > Order[c.kind]}
<1>1. CASE rest = {}
  BY <1>1 DEF After
<1>2. CASE rest # {}
  <2>1. PICK k \in Kinds : k = CHOOSE first \in rest : \A l \in rest : Order[first] <= Order[l]
    BY <1>2, FirstOfKinds
  <2>2. After(c) = [kind |-> k, phase |-> "waiting", now |-> c.now, at |-> NothingDue]
    BY <1>2, <2>1 DEF After
  <2> QED BY <2>2 DEF Checks
<1> QED BY <1>1, <1>2

LEMMA BeginWaits ==
  ASSUME clock \in Days
  PROVE  /\ Begin \in Checks \cup {Idle}
         /\ Begin # Idle => Begin.phase = "waiting" /\ Begin.at = NothingDue /\ Begin.now = clock
<1>1. CASE Kinds = {}
  BY <1>1 DEF Begin
<1>2. CASE Kinds # {}
  <2>1. PICK k \in Kinds : k = CHOOSE first \in Kinds : \A l \in Kinds : Order[first] <= Order[l]
    BY <1>2, FirstOfKinds
  <2>2. Begin = [kind |-> k, phase |-> "waiting", now |-> clock, at |-> NothingDue]
    BY <1>2, <2>1 DEF Begin
  <2> QED BY <2>2 DEF Checks
<1> QED BY <1>1, <1>2

\* What is due is not recorded.
LEMMA DueIsNew ==
  ASSUME TypeOK, NEW kind \in Kinds, NEW now \in Days, DueAt(kind, now) # NothingDue
  PROVE  /\ DueAt(kind, now) \in (FirstDay - 2 * WeekLength)..LastDay
         /\ <<kind, DueAt(kind, now)>> \notin recorded
         /\ kind = "day" => DueAt(kind, now) \in {now - 1, now}
         /\ kind = "week" => DueAt(kind, now) = WeekToClose(now)
<1>1. CASE kind = "day"
  <2>1. DueAt(kind, now) = DailyDue(now)
    BY <1>1 DEF DueAt
  <2> QED BY <1>1, <2>1, CloseBounds DEF DailyDue
<1>2. CASE kind = "week"
  <2>1. DueAt(kind, now) = WeeklyDue(now)
    BY <1>2 DEF DueAt
  <2> QED BY <1>2, <2>1, CloseBounds DEF WeeklyDue
<1>3. CASE kind = "month"
  <2>1. DueAt(kind, now) = MonthlyDue(now)
    BY <1>3 DEF DueAt
  <2> DEFINE ready == {m \in MonthsToClose(now) :
                  /\ <<"month", m>> \notin recorded
                  /\ ~DayOwed(m, now) /\ ~WeekOwed(m, now)
                  /\ \E d \in Month(m) : Filed(d) # {}}
  <2>2. ready # {} /\ MonthlyDue(now) = CHOOSE m \in ready : TRUE
    BY <2>1 DEF MonthlyDue
  <2>3. MonthlyDue(now) \in ready
    BY <2>2
  <2>4. PICK m \in ready : m = MonthlyDue(now)
    BY <2>3
  <2>5. m \in MonthEnds /\ m <= now
    BY <2>4, CalendarIsOrdered, CloseBounds DEF MonthsToClose, PreviousMonth
  <2>6. PICK d \in Month(m) : Filed(d) # {}
    BY <2>4
  <2>7. d \in Int /\ d <= m /\ FirstDay - 1 <= d
    BY <2>5, <2>6, CalendarIsOrdered DEF Month, Filed, TypeOK
  <2> QED BY <1>3, <2>1, <2>4, <2>5, <2>7, CloseBounds, CalendarIsOrdered
<1> QED
  BY <1>1, <1>2, <1>3, KindsKnown

-----------------------------------------------------------------------------
(* What is typed.                                                          *)

\* The check of one trigger changes.
LEMMA GoesTo ==
  ASSUME TypeOK, NEW t \in Triggers, NEW c \in Checks \cup {Idle}, Goto(t, c),
         c # Idle => (c.phase = "waiting" <=> c.at = NothingDue)
  PROVE  /\ check' \in [Triggers -> Checks \cup {Idle}]
         /\ \A s \in Triggers : Running(s)' => (check'[s].phase = "waiting" <=> check'[s].at = NothingDue)
         /\ check'[t] = c /\ \A s \in Triggers \ {t} : check'[s] = check[s]
BY DEF TypeOK, Goto, Running

LEMMA MovesOn ==
  ASSUME TypeOK, NEW t \in Triggers, Running(t), MoveOn(t)
  PROVE  /\ check' \in [Triggers -> Checks \cup {Idle}]
         /\ \A s \in Triggers : Running(s)' => (check'[s].phase = "waiting" <=> check'[s].at = NothingDue)
         /\ check'[t] # Idle => check'[t].phase = "waiting" /\ check'[t].now = check[t].now
         /\ \A s \in Triggers \ {t} : check'[s] = check[s]
<1>1. check[t] \in Checks
  BY DEF TypeOK, Running
<1>2. PICK c \in Checks \cup {Idle} : c = After(check[t])
  BY <1>1, AfterWaits
<1>3. c # Idle => c.phase = "waiting" /\ c.at = NothingDue /\ c.now = check[t].now
  BY <1>1, <1>2, AfterWaits
<1>4. Goto(t, c)
  BY <1>2 DEF MoveOn
<1> QED BY <1>3, <1>4, GoesTo

LEMMA Begins ==
  ASSUME TypeOK, NEW t \in Triggers, Goto(t, Begin)
  PROVE  /\ check' \in [Triggers -> Checks \cup {Idle}]
         /\ \A s \in Triggers : Running(s)' => (check'[s].phase = "waiting" <=> check'[s].at = NothingDue)
         /\ check'[t] # Idle => check'[t].phase = "waiting" /\ check'[t].now = clock
         /\ \A s \in Triggers \ {t} : check'[s] = check[s]
<1>1. clock \in Days
  BY DEF TypeOK
<1>2. PICK c \in Checks \cup {Idle} : c = Begin
  BY <1>1, BeginWaits
<1>3. c # Idle => c.phase = "waiting" /\ c.at = NothingDue /\ c.now = clock
  BY <1>1, <1>2, BeginWaits
<1>4. Goto(t, c)
  BY <1>2
<1> QED BY <1>3, <1>4, GoesTo

\* A check that found something goes through its phases.
LEMMA PhaseOn ==
  ASSUME TypeOK, NEW t \in Triggers, In(t, "sending"),
         Goto(t, [check[t] EXCEPT !.phase = "recording"])
  PROVE  /\ check' \in [Triggers -> Checks \cup {Idle}]
         /\ \A s \in Triggers : Running(s)' => (check'[s].phase = "waiting" <=> check'[s].at = NothingDue)
         /\ check'[t] = [check[t] EXCEPT !.phase = "recording"]
         /\ check'[t] # Idle /\ check'[t].kind = check[t].kind /\ check'[t].at = check[t].at
         /\ check'[t].now = check[t].now /\ check'[t].phase = "recording"
         /\ \A s \in Triggers \ {t} : check'[s] = check[s]
<1>1. check[t] \in Checks /\ check[t].at # NothingDue
  BY DEF TypeOK, Running, In
<1>2. PICK c \in Checks : c = [check[t] EXCEPT !.phase = "recording"]
  BY <1>1 DEF Checks
<1>3. c.at = check[t].at /\ c.phase = "recording" /\ c.kind = check[t].kind /\ c.now = check[t].now
  BY <1>1, <1>2 DEF Checks
<1>4. Goto(t, c) /\ c # Idle
  BY <1>2, NullsAreNull
<1> QED BY <1>1, <1>2, <1>3, <1>4, GoesTo

LEMMA Decides ==
  ASSUME TypeOK, NEW t \in Triggers, Decide(t)
  PROVE  \/ MoveOn(t)
         \/ /\ check' \in [Triggers -> Checks \cup {Idle}]
            /\ \A s \in Triggers : Running(s)' => (check'[s].phase = "waiting" <=> check'[s].at = NothingDue)
            /\ check'[t] # Idle /\ check'[t].kind = check[t].kind /\ check'[t].now = check[t].now
            /\ check'[t].at = DueAt(check[t].kind, check[t].now)
            /\ check'[t].at # NothingDue /\ check'[t].phase = "sending"
            /\ \A s \in Triggers \ {t} : check'[s] = check[s]
<1>1. check[t] \in Checks
  BY DEF TypeOK, Decide, Running, In
<1>2. PICK kind \in Kinds, now \in Days : kind = check[t].kind /\ now = check[t].now
  BY <1>1 DEF Checks
<1>3. CASE DueAt(kind, now) = NothingDue
  BY <1>2, <1>3 DEF Decide
<1>4. CASE DueAt(kind, now) # NothingDue
  <2>1. PICK at \in (FirstDay - 2 * WeekLength)..LastDay : at = DueAt(kind, now)
    BY <1>4, DueIsNew
  <2>2. Goto(t, [check[t] EXCEPT !.phase = "sending", !.at = at])
    BY <1>2, <1>4, <2>1 DEF Decide
  <2>3. PICK c \in Checks : c = [check[t] EXCEPT !.phase = "sending", !.at = at]
    BY <1>1 DEF Checks
  <2>4. c.at = at /\ c.phase = "sending" /\ c.kind = kind /\ c.now = now
    BY <1>1, <1>2, <2>3 DEF Checks
  <2>5. Goto(t, c) /\ c # Idle /\ at # NothingDue
    BY <1>4, <2>1, <2>2, <2>3, NullsAreNull
  <2> QED BY <1>2, <2>1, <2>4, <2>5, GoesTo
<1> QED BY <1>3, <1>4

\* What is said is counted.
LEMMA SaysOnce ==
  ASSUME TypeOK, NEW t \in Triggers, Running(t), check[t].phase # "waiting", Say(Item(t))
  PROVE  /\ Item(t) \in Items /\ said' \in [Items -> Nat]
         /\ said'[Item(t)] = said[Item(t)] + 1
         /\ \A i \in Items \ {Item(t)} : said'[i] = said[i]
         /\ Item(t) = <<check[t].kind, check[t].at>>
<1>1. check[t] \in Checks /\ check[t].at # NothingDue
  BY DEF TypeOK, Running
<1>2. Item(t) \in Items
  BY <1>1, KindsKnown DEF Checks, Items, Item
<1> QED BY <1>2 DEF TypeOK, Say, Item

\* A step of a check.
LEMMA StepType ==
  ASSUME TypeOK, NEW t \in Triggers, Step(t)
  PROVE  TypeOK'
<1> DEFINE Rest == /\ clock' \in Days /\ filed' \in [Players -> SUBSET ((FirstDay - 1)..LastDay)]
                   /\ active' \subseteq Players /\ up' \in BOOLEAN /\ due' \in BOOLEAN
                   /\ edits' \in 0..MaxEdits /\ StartOK'
                   /\ late' \subseteq (FirstDay - 1)..LastDay
<1>1. Rest
  BY DEF TypeOK, Step, Decide, DecideFails, Send, SendFails, Record, RecordFails, board, start, StartOK
<1>2. Fault => faults' \in 0..MaxFaults
  BY BoundsAreNaturals DEF Fault, TypeOK
<1>3. CASE Decide(t)
  <2>1. check' \in [Triggers -> Checks \cup {Idle}]
        /\ \A s \in Triggers : Running(s)' => (check'[s].phase = "waiting" <=> check'[s].at = NothingDue)
    BY <1>3, Decides, MovesOn DEF Decide, In
  <2> QED BY <1>1, <1>3, <2>1 DEF TypeOK, Decide
<1>4. CASE DecideFails(t) \/ RecordFails(t)
  <2>1. check' \in [Triggers -> Checks \cup {Idle}]
        /\ \A s \in Triggers : Running(s)' => (check'[s].phase = "waiting" <=> check'[s].at = NothingDue)
    BY <1>4, MovesOn DEF DecideFails, RecordFails, In
  <2> QED BY <1>1, <1>2, <1>4, <2>1 DEF TypeOK, DecideFails, RecordFails
<1>5. CASE Send(t)
  <2>1. check' \in [Triggers -> Checks \cup {Idle}]
        /\ \A s \in Triggers : Running(s)' => (check'[s].phase = "waiting" <=> check'[s].at = NothingDue)
    BY <1>5, PhaseOn DEF Send
  <2>2. said' \in [Items -> Nat]
    BY <1>5, SaysOnce DEF Send, In
  <2> QED BY <1>1, <1>5, <2>1, <2>2 DEF TypeOK, Send
<1>6. CASE SendFails(t)
  <2>1. check' \in [Triggers -> Checks \cup {Idle}]
        /\ \A s \in Triggers : Running(s)' => (check'[s].phase = "waiting" <=> check'[s].at = NothingDue)
    BY <1>6, MovesOn DEF SendFails, In
  <2>2. said' \in [Items -> Nat]
    BY <1>6, SaysOnce DEF SendFails, In, TypeOK
  <2> QED BY <1>1, <1>2, <1>6, <2>1, <2>2 DEF TypeOK, SendFails
<1>7. CASE Record(t)
  <2>1. check' \in [Triggers -> Checks \cup {Idle}]
        /\ \A s \in Triggers : Running(s)' => (check'[s].phase = "waiting" <=> check'[s].at = NothingDue)
    BY <1>7, MovesOn DEF Record, In
  <2>2. check[t] \in Checks /\ check[t].at # NothingDue
    BY <1>7 DEF TypeOK, Record, In, Running
  <2>3. Item(t) \in Items
    BY <2>2, KindsKnown DEF Checks, Items, Item
  <2> QED BY <1>1, <1>7, <2>1, <2>3 DEF TypeOK, Record
<1> QED BY <1>3, <1>4, <1>5, <1>6, <1>7 DEF Step

\* What a start marks.
LEMMA MarksFirst ==
  ASSUME TypeOK, NEW kind, NEW d, MarkFirst(kind, d)
  PROVE  /\ kind \in Kinds => \E i \in recorded' : i[1] = kind
         /\ recorded' = recorded \/ (/\ recorded' = recorded \cup {<<kind, d>>}
                                     /\ kind \in Kinds /\ \A i \in recorded : i[1] # kind)
<1>1. <<kind, d>>[1] = kind
  OBVIOUS
<1> QED BY <1>1 DEF MarkFirst

\* The day and the week before a start are announcements.
LEMMA MarksAreItems ==
  ASSUME TypeOK
  PROVE  <<"day", clock - 1>> \in Items /\ <<"week", WeekOf(clock) - WeekLength>> \in Items
<1>1. /\ clock - 1 \in (FirstDay - 2 * WeekLength)..LastDay
      /\ WeekOf(clock) - WeekLength \in (FirstDay - 2 * WeekLength)..LastDay
  BY CloseBounds DEF TypeOK
<1> QED BY <1>1 DEF Items

LEMMA BootType ==
  ASSUME TypeOK, Boot
  PROVE  TypeOK'
<1>1. recorded' \subseteq Items
  BY MarksFirst, MarksAreItems DEF Boot, Start, SkipDailyBacklog, SkipWeeklyBacklog, Serve, TypeOK
<1>2. StartOK'
  BY DEF Boot, Start, SkipDailyBacklog, SkipWeeklyBacklog, Serve, FirstOf, TypeOK, StartOK
<1>3. UNCHANGED <<clock, board, check, faults, edits, said, late>> /\ up' \in BOOLEAN /\ due' \in BOOLEAN
  BY DEF Boot, Start, SkipDailyBacklog, SkipWeeklyBacklog, Serve, TypeOK
<1> QED BY <1>1, <1>2, <1>3 DEF TypeOK, StartOK, board, Running

\* Everything else.
LEMMA WorldType ==
  ASSUME TypeOK,
         \/ \E p \in Players, d \in Days : Live(p, d) \/ EditResult(p, d)
         \/ \E p \in Players : EditMembership(p)
         \/ LiveForNobody \/ Scheduled \/ Midnight \/ Crash
  PROVE  TypeOK'
<1> DEFINE Typed == /\ check' \in [Triggers -> Checks \cup {Idle}]
                    /\ \A s \in Triggers : Running(s)' => (check'[s].phase = "waiting" <=> check'[s].at = NothingDue)
<1> USE CalendarIsOrdered, BoundsAreNaturals
<1>1. ASSUME NEW p \in Players, NEW d \in Days, Live(p, d) PROVE TypeOK'
  <2>1. Typed
    BY <1>1, Begins DEF Live, Triggers
  <2>2. filed' \in [Players -> SUBSET ((FirstDay - 1)..LastDay)] /\ active' \subseteq Players
    BY <1>1 DEF Live, TypeOK, Days
  <2>3. late' \subseteq (FirstDay - 1)..LastDay
    <3>1. UNCHANGED late \/ Touch(d)
      BY <1>1 DEF Live
    <3>2. late' = late \/ late' = late \cup {d}
      BY <3>1 DEF Touch
    <3>3. late \subseteq (FirstDay - 1)..LastDay /\ d \in (FirstDay - 1)..LastDay
      BY DEF TypeOK, Days
    <3> QED BY <3>2, <3>3
  <2>4. UNCHANGED <<clock, recorded, up, due, faults, edits, said, start>>
    BY <1>1 DEF Live
  <2> HIDE DEF Typed
  <2>5. /\ clock' \in Days /\ recorded' \subseteq Items /\ up' \in BOOLEAN /\ due' \in BOOLEAN
        /\ faults' \in 0..MaxFaults /\ edits' \in 0..MaxEdits /\ said' \in [Items -> Nat]
        /\ StartOK'
    BY <2>4 DEF TypeOK, start, StartOK
  <2> QED BY <2>1, <2>2, <2>3, <2>5 DEF TypeOK, Typed
<1>2. ASSUME NEW p \in Players, NEW d \in Days, EditResult(p, d) PROVE TypeOK'
  <2>1. filed' \in [Players -> SUBSET ((FirstDay - 1)..LastDay)]
    BY <1>2 DEF EditResult, TypeOK, Days
  <2>2. late' \subseteq (FirstDay - 1)..LastDay
    BY <1>2 DEF EditResult, Touch, TypeOK, Days
  <2>3. edits' \in 0..MaxEdits
    BY <1>2 DEF EditResult, Edit, TypeOK
  <2> QED BY <1>2, <2>1, <2>2, <2>3 DEF EditResult, TypeOK, Running, start, StartOK
<1>3. ASSUME NEW p \in Players, EditMembership(p) PROVE TypeOK'
  <2>1. edits' \in 0..MaxEdits /\ active' \subseteq Players
    BY <1>3 DEF EditMembership, Edit, TypeOK
  <2> QED BY <1>3, <2>1 DEF EditMembership, TypeOK, Running, start, StartOK
<1>4. CASE LiveForNobody
  <2>1. Typed
    BY <1>4, Begins DEF LiveForNobody, Triggers
  <2> QED BY <1>4, <2>1 DEF LiveForNobody, TypeOK, board, start, StartOK
<1>5. CASE Scheduled
  <2>1. Typed
    BY <1>5, Begins DEF Scheduled, Triggers
  <2> QED BY <1>5, <2>1 DEF Scheduled, TypeOK, board, start, StartOK
<1>6. CASE Midnight
  BY <1>6 DEF Midnight, TypeOK, board, Days, Running, start, StartOK
<1>7. CASE Crash
  <2>1. Typed
    BY <1>7 DEF Crash, Running
  <2>2. faults' \in 0..MaxFaults
    BY <1>7 DEF Crash, Fault, TypeOK
  <2> QED BY <1>7, <2>1, <2>2 DEF Crash, TypeOK, board, StartOK
<1> QED BY <1>1, <1>2, <1>3, <1>4, <1>5, <1>6, <1>7

LEMMA TypeInvariant == Spec => []TypeOK
<1>1. Init => TypeOK
  <2> SUFFICES ASSUME Init PROVE TypeOK
    OBVIOUS
  <2>1. filed \in [Players -> SUBSET ((FirstDay - 1)..LastDay)]
    BY CalendarIsOrdered DEF Init
  <2>2. check \in [Triggers -> Checks \cup {Idle}] /\ \A t \in Triggers : ~Running(t)
    BY DEF Init, Running
  <2>3. clock \in Days /\ StartOK /\ said \in [Items -> Nat]
        /\ faults \in 0..MaxFaults /\ edits \in 0..MaxEdits
    BY CalendarIsOrdered, BoundsAreNaturals DEF Init, Days, StartOK
  <2> QED BY <2>1, <2>2, <2>3 DEF Init, TypeOK
<1>2. TypeOK /\ [Next]_vars => TypeOK'
  <2> SUFFICES ASSUME TypeOK, [Next]_vars PROVE TypeOK'
    OBVIOUS
  <2>1. CASE UNCHANGED vars
    BY <2>1 DEF vars, board, start, TypeOK, StartOK, Running
  <2> QED BY <2>1, StepType, BootType, WorldType DEF Next
<1> QED BY <1>1, <1>2, PTL DEF Spec

-----------------------------------------------------------------------------
(* What is said.                                                           *)

\* A check has something to say, or to record.
Busy(t) == Running(t) /\ check[t].phase # "waiting"

\* An announcement is not of a day or a week before the first start.
InTime(i) ==
  /\ i[1] = "day"  => i[2] >= firstDaily
  /\ i[1] = "week" => Sunday(i[2]) >= firstWeekly

\* Some start has made both marks.
Begun == firstDaily # 0 /\ firstWeekly # 0

\* A start makes the day's mark before the week's, and serves after both.
Booting ==
  /\ starting # "no" => ~up
  /\ starting = "weekly" => firstDaily # 0
  /\ starting = "serving" => Begun

\* A check reads the clock on the day of the first marks or later.
Since(now) == firstDaily <= now /\ firstWeekly <= now

\* Nothing of a kind is recorded before a start has got to its mark, and that mark stays.
Marked ==
  /\ \A i \in recorded : /\ i[1] = "day" => firstDaily # 0
                         /\ i[1] = "week" => firstWeekly # 0
                         /\ i[1] = "month" => Begun
  /\ firstDaily # 0 /\ "day" \in Kinds => <<"day", firstDaily - 1>> \in recorded
  /\ firstWeekly # 0 /\ "week" \in Kinds => <<"week", WeekOf(firstWeekly) - WeekLength>> \in recorded

\* Checks run in a process that has made both marks or found them, and none looks back
\* beyond them.
Started ==
  /\ Booting /\ Marked /\ Since(clock)
  /\ up => Begun
  /\ \A t \in Triggers : Running(t) => up /\ Since(check[t].now)
  /\ ~Begun => \A i \in Items : said[i] = 0

\* A mutex has one holder; what it is about to say is new and in time; what it is about
\* to record was said; and while nothing fails, what was said is recorded or about to be.
Holders ==
  /\ \A s, t \in Triggers : Busy(s) /\ Busy(t) /\ check[s].kind = check[t].kind => s = t
  /\ \A t \in Triggers : In(t, "sending") => Item(t) \notin recorded
  /\ \A t \in Triggers : Busy(t) => InTime(Item(t))
  /\ \A t \in Triggers : In(t, "recording") => said[Item(t)] > 0
  /\ faults = 0 => \A i \in Items : said[i] > 0 =>
                     i \in recorded \/ \E t \in Triggers : In(t, "recording") /\ Item(t) = i

SayInv == TypeOK /\ Started /\ Holders /\ MarkedWasSaid

\* What is due is in time.
LEMMA DueInTime ==
  ASSUME TypeOK, Started, NEW kind \in Kinds, NEW now \in Days, Since(now), Begun,
         DueAt(kind, now) # NothingDue
  PROVE  InTime(<<kind, DueAt(kind, now)>>)
<1>1. firstDaily \in Int /\ firstWeekly \in Int /\ now \in Int /\ WeekLength \in Nat
  BY CalendarIsOrdered DEF TypeOK, StartOK, Days
<1>2. CASE kind = "day"
  <2>1. DueAt(kind, now) \in {now - 1, now} /\ <<"day", DueAt(kind, now)>> \notin recorded
    BY <1>2, DueIsNew
  <2>2. <<"day", firstDaily - 1>> \in recorded
    BY <1>2 DEF Started, Marked, Begun
  <2>3. DueAt(kind, now) # firstDaily - 1
    BY <2>1, <2>2
  <2> QED BY <1>1, <1>2, <2>1, <2>3 DEF InTime, Since
<1>3. CASE kind = "week"
  <2>1. DueAt(kind, now) = WeekToClose(now) /\ <<"week", DueAt(kind, now)>> \notin recorded
    BY <1>3, DueIsNew
  <2>2. <<"week", WeekOf(firstWeekly) - WeekLength>> \in recorded
    BY <1>3 DEF Started, Marked, Begun
  <2>3. WeekToClose(now) # WeekOf(firstWeekly) - WeekLength
    BY <2>1, <2>2
  <2>4. /\ WeekOf(firstWeekly) \in Int /\ firstWeekly < WeekOf(firstWeekly) + WeekLength
        /\ WeekOf(now) \in Int
        /\ WeekOf(firstWeekly) = WeekOf(now) \/ WeekOf(firstWeekly) + WeekLength <= WeekOf(now)
    BY <1>1, WeekBounds, WeekOrder DEF Since
  <2>5. Sunday(WeekToClose(now)) >= firstWeekly
    <3>1. CASE now = Sunday(WeekOf(now))
      BY <1>1, <3>1 DEF WeekToClose, Since
    <3>2. CASE now # Sunday(WeekOf(now))
      <4>1. WeekToClose(now) = WeekOf(now) - WeekLength
        BY <3>2 DEF WeekToClose
      <4> QED BY <1>1, <2>3, <2>4, <4>1 DEF Sunday
    <3> QED BY <3>1, <3>2
  <2> QED BY <1>3, <2>1, <2>5 DEF InTime
<1>4. CASE kind = "month"
  BY <1>4 DEF InTime
<1> QED BY <1>2, <1>3, <1>4, KindsKnown

\* A step after which nothing is recorded that was not, no check has got further, and what
\* was said was in time and, while nothing has failed, is not new.
LEMMA CalmStep ==
  ASSUME SayInv, TypeOK', UNCHANGED <<recorded, firstDaily, firstWeekly>>, Booting', clock <= clock', up' => Begun,
         \A t \in Triggers : Running(t)' => up' /\ Since(check'[t].now),
         \A t \in Triggers : Busy(t)' => check'[t] = check[t],
         \A i \in Items : said'[i] >= said[i] /\ (said'[i] > said[i] => InTime(i) /\ Begun),
         faults' = 0 => /\ faults = 0 /\ said' = said
                        /\ \A t \in Triggers : In(t, "recording") => check'[t] = check[t]
  PROVE  SayInv'
<1>1. \A i \in Items : said[i] \in Nat /\ said'[i] \in Nat /\ said'[i] >= said[i]
  BY DEF SayInv, TypeOK
<1>2. \A t \in Triggers : Busy(t)' => Busy(t) /\ Item(t)' = Item(t)
  BY DEF Busy, Running, Item
<1>3. \A t \in Triggers : In(t, "recording")' => In(t, "recording") /\ Busy(t)'
  BY DEF In, Busy, Running
<1>4. \A t \in Triggers : In(t, "sending")' => In(t, "sending") /\ Busy(t)'
  BY DEF In, Busy, Running
<1>5. \A t \in Triggers : Busy(t) => Item(t) \in Items
  BY KindsKnown DEF SayInv, TypeOK, Busy, Running, Checks, Items, Item
<1>6. Started'
  <2>1. clock \in Int /\ clock' \in Int /\ firstDaily \in Int /\ firstWeekly \in Int
    BY CalendarIsOrdered DEF SayInv, TypeOK, StartOK, Days
  <2>2. ~Begun => \A i \in Items : said'[i] = 0
    BY <1>1 DEF SayInv, Started
  <2>3. Marked' /\ (~Begun' => \A i \in Items : said'[i] = 0)
    BY <2>2 DEF SayInv, Started, Marked, Begun
  <2>4. Since(clock)' /\ \A t \in Triggers : Running(t)' => up' /\ Since(check[t].now)'
    BY <2>1 DEF SayInv, Started, Since
  <2> QED BY <2>3, <2>4 DEF Started, Begun
<1>7. Holders'
  <2>1. \A s, t \in Triggers : Busy(s)' /\ Busy(t)' /\ check'[s].kind = check'[t].kind => s = t
    BY <1>2 DEF SayInv, Holders
  <2>2. \A t \in Triggers : In(t, "sending")' => Item(t)' \notin recorded'
    BY <1>2, <1>4 DEF SayInv, Holders
  <2>3. \A t \in Triggers : Busy(t)' => InTime(Item(t))'
    BY <1>2 DEF SayInv, Holders, InTime
  <2>4. \A t \in Triggers : In(t, "recording")' => said'[Item(t)'] > 0
    BY <1>1, <1>2, <1>3, <1>5 DEF SayInv, Holders
  <2>5. ASSUME faults' = 0, NEW i \in Items, said'[i] > 0
        PROVE  i \in recorded' \/ \E t \in Triggers : In(t, "recording")' /\ Item(t)' = i
    <3>1. i \in recorded \/ \E t \in Triggers : In(t, "recording") /\ Item(t) = i
      BY <2>5 DEF SayInv, Holders
    <3>2. \A t \in Triggers : In(t, "recording") => In(t, "recording")' /\ Item(t)' = Item(t)
      BY <2>5 DEF In, Running, Item
    <3> QED BY <3>1, <3>2
  <2> QED BY <2>1, <2>2, <2>3, <2>4, <2>5 DEF Holders
<1>8. MarkedWasSaid'
  <2>1. \A i \in recorded : i \in Items
    BY DEF SayInv, TypeOK
  <2>2. \A i \in Items : said'[i] > 0 => InTime(i)
    BY <1>1 DEF SayInv, MarkedWasSaid, InTime
  <2>3. \A i \in recorded : said'[i] > 0 \/ i = <<"day", firstDaily - 1>>
                            \/ i = <<"week", WeekOf(firstWeekly) - WeekLength>>
    BY <1>1, <2>1 DEF SayInv, MarkedWasSaid
  <2> QED BY <2>2, <2>3 DEF MarkedWasSaid, InTime
<1> QED BY <1>6, <1>7, <1>8 DEF SayInv

\* A step that says nothing new.
LEMMA SilentStep ==
  ASSUME SayInv, TypeOK', UNCHANGED <<recorded, firstDaily, firstWeekly, said>>, Booting', clock <= clock', up' => Begun,
         \A t \in Triggers : Running(t)' => up' /\ Since(check'[t].now),
         \A t \in Triggers : Busy(t)' => check'[t] = check[t],
         faults' = 0 => faults = 0 /\ \A t \in Triggers : In(t, "recording") => check'[t] = check[t]
  PROVE  SayInv'
<1>1. \A i \in Items : said'[i] >= said[i] /\ ~(said'[i] > said[i])
  BY DEF SayInv, TypeOK
<1> QED BY <1>1, CalmStep

\* A check that goes on is no longer busy, and the others are as they were.
LEMMA OthersKeep ==
  ASSUME SayInv, NEW t \in Triggers, Running(t), MoveOn(t), UNCHANGED <<clock, up, starting, firstDaily, firstWeekly>>
  PROVE  /\ \A s \in Triggers : Running(s)' => up' /\ Since(check'[s].now)
         /\ \A s \in Triggers : Busy(s)' => s # t /\ check'[s] = check[s]
         /\ \A s \in Triggers \ {t} : check'[s] = check[s]
         /\ clock <= clock' /\ (up' => Begun)
<1>1. /\ check'[t] # Idle => check'[t].phase = "waiting" /\ check'[t].now = check[t].now
      /\ \A s \in Triggers \ {t} : check'[s] = check[s]
  BY MovesOn DEF SayInv
<1>2. clock \in Int
  BY CalendarIsOrdered DEF SayInv, TypeOK, StartOK, Days
<1> QED BY <1>1, <1>2 DEF SayInv, Started, Busy, Running, Begun, Since

\* The decision.
LEMMA DecideSays ==
  ASSUME SayInv, NEW t \in Triggers, Decide(t)
  PROVE  SayInv'
<1>1. TypeOK' /\ TypeOK /\ In(t, "waiting") /\ Running(t)
  BY StepType DEF SayInv, Step, Decide, In
<1>2. UNCHANGED <<clock, recorded, up, faults, said, starting, firstDaily, firstWeekly>>
  BY DEF Decide, start
<1>3. CASE MoveOn(t)
  <2>1. ~In(t, "recording")
    BY <1>1 DEF In
  <2>2. Booting'
    BY <1>2 DEF SayInv, Started, Booting, Begun
  <2> QED BY <1>1, <1>2, <1>3, <2>1, <2>2, OthersKeep, SilentStep
<1>4. CASE ~MoveOn(t)
  <2>1. check[t] \in Checks
    BY <1>1 DEF TypeOK, Running
  <2>2. PICK kind \in Kinds, now \in Days : kind = check[t].kind /\ now = check[t].now
    BY <2>1 DEF Checks
  <2>3. /\ check'[t] # Idle /\ check'[t].kind = kind /\ check'[t].now = now
        /\ check'[t].at = DueAt(kind, now) /\ DueAt(kind, now) # NothingDue
        /\ check'[t].phase = "sending"
        /\ \A s \in Triggers \ {t} : check'[s] = check[s]
    BY <1>1, <1>4, <2>2, Decides
  <2>4. <<kind, DueAt(kind, now)>> \notin recorded /\ InTime(<<kind, DueAt(kind, now)>>)
    <3>1. Since(now) /\ Begun /\ Started
      BY <1>1, <2>2 DEF SayInv, Started
    <3> QED BY <1>1, <2>3, <3>1, DueIsNew, DueInTime
  <2>5. \A s \in Triggers \ {t} : Busy(s) => check[s].kind # kind
    BY <2>2 DEF Decide, Held, Busy
  <2>6. Item(t)' = <<kind, DueAt(kind, now)>> /\ \A s \in Triggers \ {t} : Item(s)' = Item(s)
    BY <2>3 DEF Item
  <2>7. \A s \in Triggers \ {t} : /\ Busy(s)' <=> Busy(s)
                                  /\ In(s, "sending")' <=> In(s, "sending")
                                  /\ In(s, "recording")' <=> In(s, "recording")
                                  /\ Running(s)' <=> Running(s)
    BY <2>3 DEF Busy, In, Running
  <2>8. Busy(t)' /\ In(t, "sending")' /\ ~In(t, "recording")' /\ Running(t)' /\ ~In(t, "recording")
    BY <1>1, <2>3 DEF Busy, In, Running
  <2>9. Started'
    BY <1>1, <1>2, <2>2, <2>3, <2>7 DEF SayInv, Started, Booting, Marked, Begun, Since
  <2>10. Holders'
    <3>1. \A r, s \in Triggers : Busy(r)' /\ Busy(s)' /\ check'[r].kind = check'[s].kind => r = s
      BY <2>3, <2>5, <2>7 DEF SayInv, Holders
    <3>2. \A s \in Triggers : In(s, "sending")' => Item(s)' \notin recorded'
      BY <1>2, <2>4, <2>6, <2>7 DEF SayInv, Holders
    <3>3. \A s \in Triggers : Busy(s)' => InTime(Item(s))'
      BY <1>2, <2>4, <2>6, <2>7 DEF SayInv, Holders, InTime
    <3>4. \A s \in Triggers : In(s, "recording")' => said'[Item(s)'] > 0
      BY <1>2, <2>6, <2>7, <2>8 DEF SayInv, Holders
    <3>5. ASSUME faults' = 0, NEW i \in Items, said'[i] > 0
          PROVE  i \in recorded' \/ \E s \in Triggers : In(s, "recording")' /\ Item(s)' = i
      BY <1>2, <2>6, <2>7, <2>8, <3>5 DEF SayInv, Holders
    <3> QED BY <3>1, <3>2, <3>3, <3>4, <3>5 DEF Holders
  <2>11. MarkedWasSaid'
    BY <1>2 DEF SayInv, MarkedWasSaid
  <2> QED BY <1>1, <2>9, <2>10, <2>11 DEF SayInv
<1> QED BY <1>3, <1>4

\* The send.
LEMMA SendSays ==
  ASSUME SayInv, NEW t \in Triggers, Send(t)
  PROVE  SayInv'
<1>1. TypeOK' /\ TypeOK /\ In(t, "sending") /\ Running(t) /\ Busy(t)
  BY StepType DEF SayInv, Step, Send, In, Busy
<1>2. UNCHANGED <<clock, recorded, up, faults, starting, firstDaily, firstWeekly>> /\ Say(Item(t))
  BY DEF Send, start
<1>3. /\ check'[t] # Idle /\ check'[t].kind = check[t].kind /\ check'[t].at = check[t].at
      /\ check'[t].now = check[t].now /\ check'[t].phase = "recording"
      /\ \A s \in Triggers \ {t} : check'[s] = check[s]
  BY <1>1, PhaseOn DEF Send
<1>4. /\ Item(t) \in Items /\ said'[Item(t)] = said[Item(t)] + 1
      /\ \A i \in Items \ {Item(t)} : said'[i] = said[i]
  BY <1>1, <1>2, SaysOnce DEF Busy
<1>5. \A i \in Items : said[i] \in Nat /\ said'[i] >= said[i] /\ (said'[i] > 0 => said[i] > 0 \/ i = Item(t))
  BY <1>1, <1>4 DEF TypeOK
<1>6. \A s \in Triggers : Item(s)' = Item(s) /\ (Busy(s)' <=> Busy(s)) /\ (Running(s)' <=> Running(s))
  BY <1>1, <1>3 DEF Item, Busy, Running
<1>7. \A s \in Triggers \ {t} : /\ In(s, "sending")' <=> In(s, "sending")
                                /\ In(s, "recording")' <=> In(s, "recording")
  BY <1>3 DEF In, Running
<1>8. ~In(t, "sending")' /\ In(t, "recording")' /\ ~In(t, "recording")
  BY <1>1, <1>3 DEF In, Running
<1>9. InTime(Item(t))
  BY <1>1 DEF SayInv, Holders
<1>10. Started'
  <2>1. \A s \in Triggers : Running(s)' => up' /\ Since(check[s].now)'
    BY <1>1, <1>2, <1>3, <1>6 DEF SayInv, Started, Since
  <2>2. Begun'
    BY <1>1, <1>2 DEF SayInv, Started, Begun
  <2> QED BY <1>2, <2>1, <2>2 DEF SayInv, Started, Booting, Marked, Begun, Since
<1>11. Holders'
  <2>1. \A r, s \in Triggers : Busy(r)' /\ Busy(s)' /\ check'[r].kind = check'[s].kind => r = s
    BY <1>3, <1>6 DEF SayInv, Holders
  <2>2. \A s \in Triggers : In(s, "sending")' => Item(s)' \notin recorded'
    BY <1>2, <1>6, <1>7, <1>8 DEF SayInv, Holders
  <2>3. \A s \in Triggers : Busy(s)' => InTime(Item(s))'
    BY <1>2, <1>6 DEF SayInv, Holders, InTime
  <2>4. ASSUME NEW s \in Triggers, In(s, "recording")' PROVE said'[Item(s)'] > 0
    <3>1. CASE s = t
      BY <1>4, <1>5, <1>6, <3>1
    <3>2. CASE s # t
      <4>1. said[Item(s)] > 0 /\ Item(s) \in Items
        BY <1>1, <1>7, <2>4, <3>2, KindsKnown
           DEF SayInv, Holders, TypeOK, In, Running, Checks, Items, Item
      <4>2. PICK i \in Items : i = Item(s)
        BY <4>1
      <4>3. said'[i] > 0
        <5>1. said[i] \in Nat /\ said[i] > 0 /\ said'[i] >= said[i] /\ said'[i] \in Nat
          BY <1>1, <1>5, <4>1, <4>2 DEF TypeOK
        <5> QED BY <5>1
      <4> QED BY <1>6, <4>2, <4>3
    <3> QED BY <3>1, <3>2
  <2>5. ASSUME faults' = 0, NEW i \in Items, said'[i] > 0
        PROVE  i \in recorded' \/ \E s \in Triggers : In(s, "recording")' /\ Item(s)' = i
    <3>1. CASE i = Item(t)
      BY <1>6, <1>8, <3>1
    <3>2. CASE i # Item(t)
      <4>1. i \in recorded \/ \E s \in Triggers : In(s, "recording") /\ Item(s) = i
        BY <1>2, <1>5, <2>5, <3>2 DEF SayInv, Holders
      <4> QED BY <1>2, <1>6, <1>7, <1>8, <4>1
    <3> QED BY <3>1, <3>2
  <2> QED BY <2>1, <2>2, <2>3, <2>4, <2>5 DEF Holders
<1>12. MarkedWasSaid'
  <2>1. \A i \in recorded : i \in Items
    BY <1>1 DEF TypeOK
  <2>2. \A i \in Items : said'[i] > 0 => InTime(i)
    BY <1>5, <1>9 DEF SayInv, MarkedWasSaid, InTime
  <2>3. \A i \in recorded : said'[i] > 0 \/ i = <<"day", firstDaily - 1>>
                            \/ i = <<"week", WeekOf(firstWeekly) - WeekLength>>
    <3>1. \A i \in Items : said[i] > 0 => said'[i] > 0
      BY <1>1, <1>4 DEF TypeOK
    <3> QED BY <2>1, <3>1 DEF SayInv, MarkedWasSaid
  <2> QED BY <1>2, <2>2, <2>3 DEF MarkedWasSaid, InTime
<1> QED BY <1>1, <1>10, <1>11, <1>12 DEF SayInv

\* The record.
LEMMA RecordSays ==
  ASSUME SayInv, NEW t \in Triggers, Record(t)
  PROVE  SayInv'
<1>1. TypeOK' /\ TypeOK /\ In(t, "recording") /\ Running(t) /\ Busy(t)
  BY StepType DEF SayInv, Step, Record, In, Busy
<1>2. /\ UNCHANGED <<clock, up, faults, said, starting, firstDaily, firstWeekly>> /\ MoveOn(t)
      /\ recorded' = recorded \cup {Item(t)}
  BY DEF Record, start
<1>3. /\ \A s \in Triggers : Running(s)' => up' /\ Since(check'[s].now)
      /\ \A s \in Triggers : Busy(s)' => s # t /\ check'[s] = check[s]
      /\ \A s \in Triggers \ {t} : check'[s] = check[s]
  BY <1>1, <1>2, OthersKeep
<1>4. \A s \in Triggers : Busy(s)' => s # t /\ Busy(s) /\ Item(s)' = Item(s) /\ Item(s) # Item(t)
  <2>1. \A s \in Triggers : Busy(s)' => s # t /\ Busy(s) /\ Item(s)' = Item(s) /\ check[s].kind # check[t].kind
    BY <1>1, <1>3 DEF Busy, Running, Item, SayInv, Holders
  <2> QED BY <2>1 DEF Item
<1>5. \A s \in Triggers : /\ In(s, "sending")' => In(s, "sending") /\ Busy(s)'
                          /\ In(s, "recording")' => In(s, "recording") /\ Busy(s)'
  BY <1>3 DEF In, Busy, Running
<1>6. Started'
  <2>1. Begun /\ Begun' /\ Booting'
    BY <1>1, <1>2 DEF SayInv, Started, Begun, Booting
  <2>2. Marked'
    BY <1>2, <2>1 DEF SayInv, Started, Marked, Begun
  <2> QED BY <1>2, <1>3, <2>1, <2>2 DEF SayInv, Started, Since
<1>7. Holders'
  <2>1. \A r, s \in Triggers : Busy(r)' /\ Busy(s)' /\ check'[r].kind = check'[s].kind => r = s
    BY <1>3, <1>4 DEF SayInv, Holders
  <2>2. \A s \in Triggers : In(s, "sending")' => Item(s)' \notin recorded'
    BY <1>2, <1>4, <1>5 DEF SayInv, Holders
  <2>3. \A s \in Triggers : Busy(s)' => InTime(Item(s))'
    BY <1>2, <1>4 DEF SayInv, Holders, InTime
  <2>4. \A s \in Triggers : In(s, "recording")' => said'[Item(s)'] > 0
    BY <1>2, <1>4, <1>5 DEF SayInv, Holders
  <2>5. ASSUME faults' = 0, NEW i \in Items, said'[i] > 0
        PROVE  i \in recorded' \/ \E s \in Triggers : In(s, "recording")' /\ Item(s)' = i
    <3>1. i \in recorded \/ \E s \in Triggers : In(s, "recording") /\ Item(s) = i
      BY <1>2, <2>5 DEF SayInv, Holders
    <3>2. \A s \in Triggers \ {t} : In(s, "recording") => In(s, "recording")' /\ Item(s)' = Item(s)
      BY <1>3 DEF In, Running, Item
    <3> QED BY <1>2, <3>1, <3>2
  <2> QED BY <2>1, <2>2, <2>3, <2>4, <2>5 DEF Holders
<1>8. MarkedWasSaid'
  <2>1. said[Item(t)] > 0
    BY <1>1 DEF SayInv, Holders
  <2> QED BY <1>2, <2>1 DEF SayInv, MarkedWasSaid
<1> QED BY <1>1, <1>6, <1>7, <1>8 DEF SayInv

\* What goes wrong with a check: a send that fails may have landed.
LEMMA FailureSays ==
  ASSUME SayInv, NEW t \in Triggers, DecideFails(t) \/ SendFails(t) \/ RecordFails(t)
  PROVE  SayInv'
<1>1. TypeOK' /\ TypeOK /\ Running(t)
  BY StepType DEF SayInv, Step, DecideFails, SendFails, RecordFails, In
<1>2. UNCHANGED <<clock, recorded, up, starting, firstDaily, firstWeekly>> /\ MoveOn(t) /\ faults' # 0
  BY <1>1, BoundsAreNaturals DEF DecideFails, SendFails, RecordFails, Fault, TypeOK, start
<1>3. \A i \in Items : said'[i] >= said[i] /\ (said'[i] > said[i] => InTime(i) /\ Begun)
  <2>1. CASE UNCHANGED said
    BY <1>1, <2>1 DEF TypeOK
  <2>2. CASE Say(Item(t)) /\ In(t, "sending")
    <3>1. Busy(t) /\ InTime(Item(t)) /\ Begun
      BY <1>1, <2>2 DEF SayInv, Holders, Started, Busy, In
    <3>2. /\ Item(t) \in Items /\ said'[Item(t)] = said[Item(t)] + 1
          /\ \A i \in Items \ {Item(t)} : said'[i] = said[i]
      BY <1>1, <2>2, <3>1, SaysOnce DEF Busy
    <3> QED BY <1>1, <3>1, <3>2 DEF TypeOK
  <2> QED BY <2>1, <2>2 DEF DecideFails, SendFails, RecordFails
<1>4. Booting'
  BY <1>2 DEF SayInv, Started, Booting, Begun
<1> QED BY <1>1, <1>2, <1>3, <1>4, OthersKeep, CalmStep

\* A start, from its beginning to the goroutines.
LEMMA BootSays ==
  ASSUME SayInv, Boot
  PROVE  SayInv'
<1>1. TypeOK' /\ TypeOK
  BY BootType DEF SayInv
<1>2. ~up /\ UNCHANGED <<clock, check, faults, said>>
  BY DEF Boot, Start, SkipDailyBacklog, SkipWeeklyBacklog, Serve, SayInv, Started, Booting
<1>3. \A t \in Triggers : ~Running(t)
  BY <1>2 DEF SayInv, Started
<1>4. \A t \in Triggers : ~Running(t)' /\ ~Busy(t)' /\ ~In(t, "sending")' /\ ~In(t, "recording")'
                          /\ ~In(t, "recording")
  BY <1>2, <1>3 DEF Running, Busy, In
<1>5. clock \in Int /\ clock > 0 /\ firstDaily \in Int /\ firstWeekly \in Int
  BY <1>1, CalendarIsOrdered DEF TypeOK, StartOK, Days
<1>6. ASSUME recorded \subseteq recorded' PROVE Holders'
  <2>1. faults' = 0 => \A i \in Items : said'[i] > 0 => i \in recorded'
    BY <1>2, <1>4, <1>6 DEF SayInv, Holders
  <2> QED BY <1>4, <2>1 DEF Holders
<1>7. CASE Start \/ Serve
  <2>1. UNCHANGED <<recorded, firstDaily, firstWeekly>> /\ Booting' /\ (up' => Begun)
    BY <1>2, <1>7 DEF Start, Serve, SayInv, Started, Booting, Begun
  <2>2. Started'
    BY <1>2, <1>4, <2>1 DEF SayInv, Started, Marked, Begun, Since
  <2>3. MarkedWasSaid'
    BY <1>2, <2>1 DEF SayInv, MarkedWasSaid
  <2> QED BY <1>1, <1>6, <2>1, <2>2, <2>3 DEF SayInv
<1>8. CASE SkipDailyBacklog
  <2>1. /\ MarkFirst("day", clock - 1) /\ firstDaily' = FirstOf(firstDaily) /\ UNCHANGED firstWeekly
        /\ starting' = "weekly" /\ ~up'
    BY <1>2, <1>8 DEF SkipDailyBacklog
  <2>2. firstDaily' # 0 /\ firstDaily' <= clock /\ Booting'
    BY <1>5, <2>1 DEF FirstOf, SayInv, Started, Booting, Since
  <2>3. CASE firstDaily = 0
    <3>1. firstDaily' = clock /\ ~Begun /\ \A i \in recorded : i[1] # "day" /\ i[1] # "month"
      BY <2>1, <2>3 DEF FirstOf, Begun, SayInv, Started, Marked
    <3>2. \A i \in Items : said[i] = 0
      BY <3>1 DEF SayInv, Started
    <3>3. "day" \in Kinds => <<"day", clock - 1>> \in recorded'
      BY <2>1, <3>1 DEF MarkFirst
    <3>4. recorded' \subseteq recorded \cup {<<"day", clock - 1>>} /\ recorded \subseteq recorded'
      BY <2>1 DEF MarkFirst
    <3>5. Marked'
      <4>1. \A i \in recorded' : i \in recorded \/ i = <<"day", clock - 1>>
        BY <3>4
      <4>2. \A i \in recorded' : i[1] = "week" => firstWeekly' # 0
        BY <2>1, <4>1 DEF SayInv, Started, Marked
      <4>3. \A i \in recorded' : i[1] # "month"
        BY <3>1, <4>1
      <4> QED BY <2>1, <2>2, <3>1, <3>3, <3>4, <4>2, <4>3 DEF SayInv, Started, Marked
    <3>6. Started'
      BY <1>2, <1>4, <1>5, <2>1, <2>2, <3>2, <3>5 DEF SayInv, Started, Since
    <3>7. MarkedWasSaid'
      BY <1>2, <2>1, <3>1, <3>2, <3>4 DEF SayInv, MarkedWasSaid
    <3> QED BY <1>1, <1>6, <3>4, <3>6, <3>7 DEF SayInv
  <2>4. CASE firstDaily # 0
    <3>1. UNCHANGED firstDaily
      BY <2>1, <2>4 DEF FirstOf
    <3>2. UNCHANGED recorded
      <4>1. "day" \in Kinds => <<"day", firstDaily - 1>> \in recorded
        BY <2>4 DEF SayInv, Started, Marked
      <4> QED BY <2>1, <4>1 DEF MarkFirst
    <3>3. Started'
      BY <1>2, <1>4, <2>1, <2>2, <3>1, <3>2 DEF SayInv, Started, Marked, Begun, Since
    <3>4. MarkedWasSaid'
      BY <1>2, <2>1, <3>1, <3>2 DEF SayInv, MarkedWasSaid
    <3> QED BY <1>1, <1>6, <3>2, <3>3, <3>4 DEF SayInv
  <2> QED BY <2>3, <2>4
<1>9. CASE SkipWeeklyBacklog
  <2>1. /\ MarkFirst("week", WeekOf(clock) - WeekLength) /\ firstWeekly' = FirstOf(firstWeekly)
        /\ UNCHANGED firstDaily /\ starting' = "serving" /\ ~up' /\ firstDaily # 0
    BY <1>2, <1>9 DEF SkipWeeklyBacklog, SayInv, Started, Booting
  <2>2. firstWeekly' # 0 /\ firstWeekly' <= clock /\ Booting'
    BY <1>5, <2>1 DEF FirstOf, SayInv, Started, Booting, Since, Begun
  <2>3. CASE firstWeekly = 0
    <3>1. firstWeekly' = clock /\ ~Begun /\ \A i \in recorded : i[1] # "week" /\ i[1] # "month"
      BY <2>1, <2>3 DEF FirstOf, Begun, SayInv, Started, Marked
    <3>2. \A i \in Items : said[i] = 0
      BY <3>1 DEF SayInv, Started
    <3>3. "week" \in Kinds => <<"week", WeekOf(clock) - WeekLength>> \in recorded'
      BY <2>1, <3>1 DEF MarkFirst
    <3>4. /\ recorded' \subseteq recorded \cup {<<"week", WeekOf(clock) - WeekLength>>}
          /\ recorded \subseteq recorded'
      BY <2>1 DEF MarkFirst
    <3>5. Marked'
      <4>1. \A i \in recorded' : i \in recorded \/ i = <<"week", WeekOf(clock) - WeekLength>>
        BY <3>4
      <4>2. \A i \in recorded' : i[1] = "day" => firstDaily' # 0
        BY <2>1
      <4>3. \A i \in recorded' : i[1] # "month"
        BY <3>1, <4>1
      <4> QED BY <2>1, <2>2, <3>1, <3>3, <3>4, <4>2, <4>3 DEF SayInv, Started, Marked
    <3>6. Started'
      BY <1>2, <1>4, <1>5, <2>1, <2>2, <3>2, <3>5 DEF SayInv, Started, Since
    <3>7. MarkedWasSaid'
      BY <1>2, <2>1, <3>1, <3>2, <3>4 DEF SayInv, MarkedWasSaid
    <3> QED BY <1>1, <1>6, <3>4, <3>6, <3>7 DEF SayInv
  <2>4. CASE firstWeekly # 0
    <3>1. UNCHANGED firstWeekly
      BY <2>1, <2>4 DEF FirstOf
    <3>2. UNCHANGED recorded
      <4>1. "week" \in Kinds => <<"week", WeekOf(firstWeekly) - WeekLength>> \in recorded
        BY <2>4 DEF SayInv, Started, Marked
      <4> QED BY <2>1, <4>1 DEF MarkFirst
    <3>3. Started'
      BY <1>2, <1>4, <2>1, <2>2, <3>1, <3>2 DEF SayInv, Started, Marked, Begun, Since
    <3>4. MarkedWasSaid'
      BY <1>2, <2>1, <3>1, <3>2 DEF SayInv, MarkedWasSaid
    <3> QED BY <1>1, <1>6, <3>2, <3>3, <3>4 DEF SayInv
  <2> QED BY <2>3, <2>4
<1> QED BY <1>7, <1>8, <1>9 DEF Boot

\* A check that begins, and whatever touches no check.
LEMMA WorldSays ==
  ASSUME SayInv,
         \/ \E p \in Players, d \in Days : Live(p, d) \/ EditResult(p, d)
         \/ \E p \in Players : EditMembership(p)
         \/ LiveForNobody \/ Scheduled \/ Midnight \/ Crash
  PROVE  SayInv'
<1>1. TypeOK' /\ TypeOK
  BY WorldType DEF SayInv
<1>2. clock \in Int
  BY <1>1, CalendarIsOrdered DEF TypeOK, Days
<1>3. ASSUME NEW t \in Triggers, ~Running(t), up, Goto(t, Begin),
             UNCHANGED <<clock, recorded, up, faults, said, starting, firstDaily, firstWeekly>>
      PROVE  SayInv'
  <2>1. /\ check'[t] # Idle => check'[t].phase = "waiting" /\ check'[t].now = clock
        /\ \A s \in Triggers \ {t} : check'[s] = check[s]
    BY <1>1, <1>3, Begins
  <2>2. \A s \in Triggers : Running(s)' => up' /\ Since(check'[s].now)
    BY <1>3, <2>1 DEF SayInv, Started, Running
  <2>3. \A s \in Triggers : Busy(s)' => check'[s] = check[s]
    BY <2>1 DEF Busy, Running
  <2>4. \A s \in Triggers : In(s, "recording") => check'[s] = check[s]
    BY <1>3, <2>1 DEF In
  <2>5. up' => Begun
    BY <1>3 DEF SayInv, Started
  <2>6. Booting'
    BY <1>3 DEF SayInv, Started, Booting, Begun
  <2> QED BY <1>1, <1>2, <1>3, <2>2, <2>3, <2>4, <2>5, <2>6, SilentStep
<1>4. ASSUME UNCHANGED <<recorded, up, check, faults, said, starting, firstDaily, firstWeekly>>, clock <= clock' PROVE SayInv'
  <2>1. Booting' /\ (up' => Begun)
    BY <1>4 DEF SayInv, Started, Booting, Begun
  <2> QED BY <1>1, <1>4, <2>1, SilentStep DEF SayInv, Started, Running, Since, Busy
<1>5. CASE Crash
  <2>1. /\ UNCHANGED <<clock, recorded, said, firstDaily, firstWeekly>> /\ ~up' /\ starting' = "no" /\ faults' # 0
        /\ \A t \in Triggers : ~Running(t)' /\ ~Busy(t)'
    BY <1>1, <1>5, BoundsAreNaturals DEF Crash, Fault, TypeOK, board, Running, Busy
  <2>2. Booting'
    BY <2>1 DEF Booting
  <2> QED BY <1>1, <1>2, <2>1, <2>2, SilentStep
<1>6. CASE Midnight
  BY <1>2, <1>4, <1>6 DEF Midnight, start
<1>7. ASSUME NEW p \in Players, NEW d \in Days, Live(p, d) PROVE SayInv'
  <2>1. /\ ~Running("live") /\ up /\ Goto("live", Begin)
        /\ UNCHANGED <<clock, recorded, up, faults, said, starting, firstDaily, firstWeekly>>
    BY <1>7 DEF Live, start
  <2> QED BY <1>3, <2>1 DEF Triggers
<1>8. ASSUME NEW p \in Players, NEW d \in Days, EditResult(p, d) \/ EditMembership(p) PROVE SayInv'
  BY <1>2, <1>4, <1>8 DEF EditResult, EditMembership, start
<1>9. ASSUME NEW p \in Players, EditMembership(p) PROVE SayInv'
  BY <1>2, <1>4, <1>9 DEF EditMembership, start
<1>10. CASE LiveForNobody
  BY <1>3, <1>10 DEF LiveForNobody, Triggers, start
<1>11. CASE Scheduled
  BY <1>3, <1>11 DEF Scheduled, Triggers, start
<1> QED BY <1>5, <1>6, <1>7, <1>8, <1>9, <1>10, <1>11

LEMMA SayInvariant == Spec => []SayInv
<1>1. Init /\ TypeOK => Started /\ Holders /\ MarkedWasSaid
  <2> SUFFICES ASSUME Init, TypeOK PROVE Started /\ Holders /\ MarkedWasSaid
    OBVIOUS
  <2>1. \A t \in Triggers : ~Running(t) /\ ~Busy(t) /\ ~In(t, "sending") /\ ~In(t, "recording")
    BY DEF Init, Running, Busy, In
  <2>2. recorded = {} /\ firstDaily = 0 /\ firstWeekly = 0 /\ starting = "no" /\ ~up /\ clock \in Nat /\ \A i \in Items : said[i] = 0
    BY CalendarIsOrdered DEF Init
  <2> QED BY <2>1, <2>2 DEF Started, Holders, MarkedWasSaid, Booting, Marked, Begun, Since
<1>2. SayInv /\ [Next]_vars => SayInv'
  <2> SUFFICES ASSUME SayInv, [Next]_vars PROVE SayInv'
    OBVIOUS
  <2>1. CASE UNCHANGED vars
    <3>1. TypeOK' /\ clock <= clock'
      BY <2>1, CalendarIsOrdered DEF vars, board, start, SayInv, TypeOK, StartOK, Running, Days
    <3>2. Booting' /\ (up' => Begun)
      BY <2>1 DEF vars, start, SayInv, Started, Booting, Begun
    <3> QED BY <2>1, <3>1, <3>2, SilentStep DEF vars, start, SayInv, Started, Running, Since, Busy
  <2>2. ASSUME NEW t \in Triggers, Step(t) PROVE SayInv'
    BY <2>2, DecideSays, SendSays, RecordSays, FailureSays DEF Step
  <2> QED BY <2>1, <2>2, BootSays, WorldSays DEF Next
<1> QED BY <1>1, <1>2, TypeInvariant, PTL DEF Spec, SayInv

\* Nothing is marked that was not said, but for what the first start passes over, and nothing
\* from before it is said (announce/daily.go, weekly.go: the marks and SkipBacklog).
THEOREM MarkedWasSaidHolds == Spec => []MarkedWasSaid
<1>1. SayInv => MarkedWasSaid
  BY DEF SayInv
<1> QED BY <1>1, SayInvariant, PTL

\* What is recorded is never said again, and without a fault nothing is said twice
\* (announce/daily.go, weekly.go, monthly.go: the mutex held from the read to the record).
THEOREM SaidOnceHolds == Spec => SaidOnce
<1>1. ASSUME SayInv, [Next]_vars, NEW i \in Items, SaidNow(i)
      PROVE  i \notin recorded /\ (said[i] > 0 => faults > 0)
  <2>1. said'[i] # said[i]
    BY <1>1 DEF SaidNow, SayInv, TypeOK
  <2>2. PICK t \in Triggers : In(t, "sending") /\ Say(Item(t))
    BY <1>1, <2>1 DEF Next, vars, Step, Decide, DecideFails, Send, SendFails, Record, RecordFails,
       Live, EditResult, EditMembership, LiveForNobody, Scheduled, Midnight, Boot, Start,
       SkipDailyBacklog, SkipWeeklyBacklog, Serve, Crash
  <2>3. i = Item(t)
    BY <2>1, <2>2 DEF Say
  <2>4. Busy(t) /\ Item(t) \notin recorded
    BY <1>1, <2>2 DEF SayInv, Holders, Busy, In
  <2>5. ASSUME NEW s \in Triggers, In(s, "recording"), Item(s) = Item(t) PROVE FALSE
    <3>1. Busy(s) /\ check[s].kind = check[t].kind
      BY <2>5 DEF Busy, In, Item
    <3>2. s = t
      BY <1>1, <2>4, <3>1 DEF SayInv, Holders
    <3> QED BY <2>2, <2>5, <3>2 DEF In
  <2>6. said[i] > 0 => faults # 0
    BY <1>1, <2>3, <2>4, <2>5 DEF SayInv, Holders
  <2>7. faults \in Nat
    BY <1>1 DEF SayInv, TypeOK
  <2> QED BY <2>3, <2>4, <2>6, <2>7
<1>2. SayInv /\ [Next]_vars
      => [\A i \in Items : SaidNow(i) => /\ i \notin recorded
                                         /\ said[i] > 0 => faults > 0]_vars
  BY <1>1
<1> QED BY <1>2, SayInvariant, PTL DEF Spec, SaidOnce

-----------------------------------------------------------------------------
(* The day before the week and the month.  A week or a month is decided    *)
(* only when the recap of its last day has been recorded, or has nothing   *)
(* to tell of a day that is over; and it stays so, or the day is late.     *)

Closing(d) == d = Sunday(WeekOf(d)) \/ d \in MonthEnds

\* Nothing is left to say first of the day.
Settled(d) ==
  \/ <<"day", d>> \in recorded
  \/ d \in late
  \/ clock > d + 1
  \/ clock > d /\ Filed(d) = {}

\* What a check may be about to say.
Fits(t) ==
  /\ check[t].kind = "day" =>
       /\ check[t].at \in {check[t].now - 1, check[t].now}
       /\ check[t].at < check[t].now /\ Closing(check[t].at)
            => check[t].at \in late \/ Filed(check[t].at) # {}
  /\ check[t].kind = "week" =>
       \A d \in Days : d = Sunday(WeekOf(d)) /\ check[t].at = WeekOf(d) => Settled(d)
  /\ check[t].kind = "month" =>
       check[t].at \in MonthEnds /\ Settled(check[t].at)

\* What has been said.
Told ==
  \A d \in Days :
    /\ d = Sunday(WeekOf(d)) /\ said[<<"week", WeekOf(d)>>] > 0 => Settled(d)
    /\ said[<<"month", d>>] > 0 => d \in MonthEnds /\ Settled(d)

OrderInv ==
  /\ SayInv
  /\ \A t \in Triggers : Running(t) => check[t].now <= clock
  /\ "day" \in Kinds => Told /\ \A t \in Triggers : Busy(t) => Fits(t)

\* What every step does to what is settled.
Onward ==
  /\ clock <= clock' /\ recorded \subseteq recorded' /\ late \subseteq late'
  /\ \A d \in Int : Closing(d) /\ d < clock => d \in late' \/ Filed(d)' = Filed(d)

LEMMA StepsOnward == TypeOK /\ [Next]_vars => Onward
<1> SUFFICES ASSUME TypeOK, [Next]_vars PROVE Onward
    OBVIOUS
<1>1. clock \in Int
  BY CalendarIsOrdered DEF TypeOK, Days
<1>2. ASSUME UNCHANGED filed PROVE \A d \in Int : Filed(d)' = Filed(d)
  BY <1>2 DEF Filed
<1>3. ASSUME NEW p \in Players, NEW d \in Days,
             \/ filed' = [filed EXCEPT ![p] = @ \cup {d}]
             \/ filed' = [filed EXCEPT ![p] = IF d \in @ THEN @ \ {d} ELSE @ \cup {d}]
      PROVE  /\ \A e \in Int \ {d} : Filed(e)' = Filed(e)
             /\ filed' = [filed EXCEPT ![p] = @ \cup {d}] /\ d \in filed[p] => Filed(d)' = Filed(d)
  BY <1>3 DEF Filed, TypeOK
<1>4. ASSUME NEW d \in Days, Touch(d)
      PROVE  late \subseteq late' /\ (Closing(d) /\ d < clock => d \in late')
  BY <1>4 DEF Touch, Closing
<1>5. ASSUME NEW p \in Players, NEW d \in Days, Live(p, d) PROVE Onward
  <2>1. filed' = [filed EXCEPT ![p] = @ \cup {d}] /\ UNCHANGED <<clock, recorded>>
        /\ ((UNCHANGED late /\ d \in filed[p]) \/ Touch(d))
    BY <1>5 DEF Live
  <2>2. \A e \in Int \ {d} : Filed(e)' = Filed(e)
    BY <1>3, <2>1
  <2>3. d \in filed[p] => Filed(d)' = Filed(d)
    BY <1>3, <2>1
  <2>4. late \subseteq late' /\ (Closing(d) /\ d < clock => d \in late' \/ Filed(d)' = Filed(d))
    BY <1>4, <2>1, <2>3
  <2>5. clock <= clock' /\ recorded \subseteq recorded'
    BY <1>1, <2>1
  <2> QED BY <2>2, <2>4, <2>5 DEF Onward
<1>6. ASSUME NEW p \in Players, NEW d \in Days, EditResult(p, d) PROVE Onward
  <2>1. filed' = [filed EXCEPT ![p] = IF d \in @ THEN @ \ {d} ELSE @ \cup {d}]
        /\ UNCHANGED <<clock, recorded>> /\ Touch(d)
    BY <1>6 DEF EditResult
  <2>2. \A e \in Int \ {d} : Filed(e)' = Filed(e)
    BY <1>3, <2>1
  <2>3. late \subseteq late' /\ (Closing(d) /\ d < clock => d \in late')
    BY <1>4, <2>1
  <2>4. clock <= clock' /\ recorded \subseteq recorded'
    BY <1>1, <2>1
  <2> QED BY <2>2, <2>3, <2>4 DEF Onward
<1>7. ASSUME UNCHANGED <<filed, late>>, clock <= clock', recorded \subseteq recorded' PROVE Onward
  BY <1>2, <1>7 DEF Onward
<1>8. ASSUME NEW t \in Triggers, Step(t) PROVE Onward
  BY <1>1, <1>7, <1>8 DEF Step, Decide, DecideFails, Send, SendFails, Record, RecordFails, board
<1>9. ASSUME NEW p \in Players, EditMembership(p) PROVE Onward
  BY <1>1, <1>7, <1>9 DEF EditMembership
<1>10. CASE Boot
  <2>1. recorded \subseteq recorded'
    BY <1>10 DEF Boot, Start, SkipDailyBacklog, SkipWeeklyBacklog, Serve, MarkFirst
  <2> QED BY <1>1, <1>7, <1>10, <2>1 DEF Boot, Start, SkipDailyBacklog, SkipWeeklyBacklog, Serve, board
<1>11. CASE LiveForNobody \/ Scheduled \/ Midnight \/ Crash \/ UNCHANGED vars
  BY <1>1, <1>7, <1>11 DEF LiveForNobody, Scheduled, Midnight, Crash, vars, board
<1> QED BY <1>5, <1>6, <1>8, <1>9, <1>10, <1>11 DEF Next

LEMMA SettledStays ==
  ASSUME TypeOK, TypeOK', Onward, NEW d \in Int, Closing(d), Settled(d)
  PROVE  Settled(d)'
<1>1. clock \in Int /\ clock' \in Int
  BY CalendarIsOrdered DEF TypeOK, Days
<1> QED BY <1>1 DEF Onward, Settled

\* A busy check has a day or a week to say.
LEMMA BusyAt ==
  ASSUME TypeOK, NEW t \in Triggers, Busy(t)
  PROVE  /\ check[t].kind \in Kinds /\ check[t].at \in Int /\ check[t].now \in Days /\ check[t].now \in Int
         /\ check[t].at \in (FirstDay - 2 * WeekLength)..LastDay /\ Item(t) \in Items
         /\ Item(t) = <<check[t].kind, check[t].at>>
<1>1. check[t] \in Checks /\ check[t].at # NothingDue
  BY DEF TypeOK, Busy, Running
<1>2. /\ check[t].kind \in Kinds /\ check[t].now \in Days
      /\ check[t].at \in (FirstDay - 2 * WeekLength)..LastDay
  BY <1>1 DEF Checks
<1>3. check[t].at \in Int /\ check[t].now \in Int
  BY <1>2, CalendarIsOrdered DEF Days
<1>4. Item(t) \in Items
  BY <1>2, KindsKnown DEF Items, Item
<1> QED BY <1>2, <1>3, <1>4 DEF Item

\* What was busy still fits, and what is said was about to be.
LEMMA OrderKept ==
  ASSUME OrderInv, SayInv', Onward,
         \A t \in Triggers : Running(t)' => check'[t].now <= clock',
         "day" \in Kinds => \A t \in Triggers : Busy(t)' =>
           \/ /\ Busy(t) /\ check'[t].kind = check[t].kind
              /\ check'[t].at = check[t].at /\ check'[t].now = check[t].now
           \/ Fits(t)',
         \A i \in Items : said'[i] > 0 => said[i] > 0 \/ \E t \in Triggers : Busy(t) /\ Item(t) = i
  PROVE  OrderInv'
<1>1. TypeOK /\ TypeOK'
  BY DEF OrderInv, SayInv
<1> SUFFICES ASSUME "day" \in Kinds PROVE Told' /\ \A t \in Triggers : Busy(t)' => Fits(t)'
    BY DEF OrderInv
<1>2. clock \in Int /\ clock' \in Int
  BY <1>1, CalendarIsOrdered DEF TypeOK, Days
<1>3. \A d \in Int : Closing(d) /\ Settled(d) => Settled(d)'
  BY <1>1, SettledStays
<1>4. Days \subseteq Int
  BY CalendarIsOrdered DEF Days
<1>5. ASSUME NEW t \in Triggers, Busy(t)', Busy(t), check'[t].kind = check[t].kind,
             check'[t].at = check[t].at, check'[t].now = check[t].now
      PROVE  Fits(t)'
  <2>1. Fits(t) /\ check[t].now <= clock
    BY <1>5 DEF OrderInv, Busy
  <2>2. check[t].at \in Int /\ check[t].now \in Int
    BY <1>1, <1>5, BusyAt
  <2>3. ASSUME check[t].kind = "day", check[t].at < check[t].now, Closing(check[t].at)
        PROVE  check[t].at \in late' \/ Filed(check[t].at)' # {}
    <3>1. PICK d \in Int : d = check[t].at
      BY <2>2
    <3>2. d \in late \/ Filed(d) # {}
      BY <2>1, <2>3, <3>1 DEF Fits
    <3>3. d < clock
      BY <1>2, <2>1, <2>2, <2>3, <3>1
    <3>4. d \in late' \/ Filed(d)' # {}
      BY <2>3, <3>1, <3>2, <3>3 DEF Onward
    <3> QED BY <1>5, <3>1, <3>4 DEF Filed
  <2>4. ASSUME check[t].kind = "week", NEW d \in Days, d = Sunday(WeekOf(d)), check[t].at = WeekOf(d)
        PROVE  Settled(d)'
    BY <1>3, <1>4, <2>1, <2>4 DEF Fits, Closing
  <2>5. ASSUME check[t].kind = "month"
        PROVE  check[t].at \in MonthEnds /\ Settled(check[t].at)'
    <3>1. PICK d \in Int : d = check[t].at
      BY <2>2
    <3>2. d \in MonthEnds /\ Settled(d)
      BY <2>1, <2>5, <3>1 DEF Fits, Settled, Filed
    <3>3. Settled(d)'
      BY <1>3, <3>2 DEF Closing
    <3> QED BY <1>5, <3>1, <3>2, <3>3 DEF Settled, Filed
  <2>6. check[t].kind = "day" => check[t].at \in {check[t].now - 1, check[t].now}
    BY <2>1 DEF Fits
  <2>7. Closing(check[t].at)' <=> Closing(check[t].at)
    BY <1>5 DEF Closing, Sunday, WeekOf
  <2> QED BY <1>5, <2>3, <2>4, <2>5, <2>6, <2>7 DEF Fits
<1>6. ASSUME NEW d \in Days, d = Sunday(WeekOf(d)), said'[<<"week", WeekOf(d)>>] > 0 PROVE Settled(d)'
  <2>1. <<"week", WeekOf(d)>> \in Items
    BY CloseBounds, WeekBounds, CalendarIsOrdered DEF Items
  <2>2. Settled(d)
    <3>1. CASE said[<<"week", WeekOf(d)>>] > 0
      BY <1>6, <3>1 DEF OrderInv, Told
    <3>2. ASSUME NEW t \in Triggers, Busy(t), Item(t) = <<"week", WeekOf(d)>> PROVE Settled(d)
      <4>1. check[t].kind = "week" /\ check[t].at = WeekOf(d)
        BY <3>2 DEF Item
      <4> QED BY <1>6, <3>2, <4>1 DEF OrderInv, Fits
    <3> QED BY <1>6, <2>1, <3>1, <3>2
  <2> QED BY <1>3, <1>4, <1>6, <2>2 DEF Closing
<1>7. ASSUME NEW d \in Days, said'[<<"month", d>>] > 0 PROVE d \in MonthEnds /\ Settled(d)'
  <2>1. <<"month", d>> \in Items
    BY CloseBounds DEF Items
  <2>2. d \in MonthEnds /\ Settled(d)
    <3>1. CASE said[<<"month", d>>] > 0
      BY <1>7, <3>1 DEF OrderInv, Told
    <3>2. ASSUME NEW t \in Triggers, Busy(t), Item(t) = <<"month", d>> PROVE d \in MonthEnds /\ Settled(d)
      <4>1. check[t].kind = "month" /\ check[t].at = d
        BY <3>2 DEF Item
      <4> QED BY <3>2, <4>1 DEF OrderInv, Fits, Settled, Filed
    <3> QED BY <1>7, <2>1, <3>1, <3>2
  <2> QED BY <1>3, <1>4, <2>2 DEF Closing
<1> QED BY <1>5, <1>6, <1>7 DEF Told

\* The last day of the week to close is over, or it is today and somebody played.
LEMMA SundayToClose ==
  ASSUME NEW now \in Days, NEW d \in Days, d = Sunday(WeekOf(d)), WeekToClose(now) = WeekOf(d)
  PROVE  (now = d /\ now = Sunday(WeekOf(d))) \/ d < now
<1>1. now \in Int /\ d \in Int /\ WeekLength \in Nat \ {0}
  BY CalendarIsOrdered DEF Days
<1>2. WeekOf(now) \in Int /\ WeekOf(now) <= now /\ WeekOf(d) \in Int /\ d = WeekOf(d) + WeekLength - 1
  BY <1>1, WeekBounds DEF Sunday
<1> QED BY <1>1, <1>2 DEF WeekToClose, Sunday

\* What is due fits.
LEMMA DueFits ==
  ASSUME TypeOK, "day" \in Kinds, NEW now \in Days, now <= clock,
         NEW kind \in Kinds, NEW at, at = DueAt(kind, now), at # NothingDue
  PROVE  /\ kind = "day" => at \in {now - 1, now} /\ (at < now => Filed(at) # {})
         /\ kind = "week" => \A d \in Days : d = Sunday(WeekOf(d)) /\ at = WeekOf(d) => Settled(d)
         /\ kind = "month" => at \in MonthEnds /\ Settled(at)
<1>1. now \in Int /\ clock \in Int
  BY CalendarIsOrdered DEF TypeOK, Days
<1>2. ASSUME NEW d \in Int, ~DayOwed(d, now), Filed(d) = {} => d < now PROVE Settled(d)
  BY <1>1, <1>2 DEF DayOwed, Settled
<1>3. ASSUME kind = "day" PROVE at \in {now - 1, now} /\ (at < now => Filed(at) # {})
  <2>1. at = DailyDue(now)
    BY <1>3 DEF DueAt
  <2> QED BY <1>1, <2>1 DEF DailyDue
<1>4. ASSUME kind = "week", NEW d \in Days, d = Sunday(WeekOf(d)), at = WeekOf(d) PROVE Settled(d)
  <2>1. at = WeeklyDue(now)
    BY <1>4 DEF DueAt
  <2>2. at = WeekToClose(now) /\ (now = Sunday(at) => FullHouse(now)) /\ ~DayOwed(Sunday(at), now)
    BY <2>1 DEF WeeklyDue
  <2>3. (now = d /\ now = Sunday(at)) \/ d < now
    BY <1>4, <2>2, SundayToClose
  <2>4. Filed(d) = {} => d < now
    BY <2>2, <2>3 DEF FullHouse
  <2>5. d \in Int /\ ~DayOwed(d, now)
    BY <1>4, <2>2, CloseBounds
  <2> QED BY <1>2, <2>4, <2>5
<1>5. ASSUME kind = "month" PROVE at \in MonthEnds /\ Settled(at)
  <2>1. at = MonthlyDue(now)
    BY <1>5 DEF DueAt
  <2> DEFINE ready == {m \in MonthsToClose(now) :
                  /\ <<"month", m>> \notin recorded
                  /\ ~DayOwed(m, now) /\ ~WeekOwed(m, now)
                  /\ \E d \in Month(m) : Filed(d) # {}}
  <2>2. at \in ready
    BY <2>1 DEF MonthlyDue
  <2>3. at \in MonthsToClose(now) /\ ~DayOwed(at, now)
    BY <2>2
  <2>4. at \in MonthEnds /\ at \in Int /\ (at < now \/ (at = now /\ FullHouse(now)))
    <3>1. CASE now \notin MonthEnds
      <4>1. at \in PreviousMonth(now)
        BY <2>3, <3>1 DEF MonthsToClose
      <4>2. at \in MonthEnds /\ at < now
        BY <4>1 DEF PreviousMonth
      <4> QED BY <4>2, CalendarIsOrdered
    <3>2. CASE now \in MonthEnds
      <4>1. at = now /\ FullHouse(now)
        BY <2>3, <3>2 DEF MonthsToClose
      <4> QED BY <1>1, <3>2, <4>1
    <3> QED BY <3>1, <3>2
  <2>5. Filed(at) = {} => at < now
    BY <2>4 DEF FullHouse
  <2> QED BY <1>2, <2>3, <2>4, <2>5
<1> QED BY <1>3, <1>4, <1>5

LEMMA DecideInOrder ==
  ASSUME OrderInv, SayInv', Onward, NEW t \in Triggers, Decide(t)
  PROVE  OrderInv'
<1>1. TypeOK /\ Running(t) /\ check[t] \in Checks /\ ~Busy(t)
  BY DEF OrderInv, SayInv, TypeOK, Decide, In, Running, Busy
<1>2. UNCHANGED <<clock, filed, recorded, said, late>> /\ clock \in Int
  BY <1>1, CalendarIsOrdered DEF Decide, board, TypeOK, Days
<1>3. \A i \in Items : said'[i] > 0 => said[i] > 0 \/ \E s \in Triggers : Busy(s) /\ Item(s) = i
  BY <1>2
<1>4. CASE MoveOn(t)
  <2>1. /\ check'[t] # Idle => check'[t].phase = "waiting" /\ check'[t].now = check[t].now
        /\ \A s \in Triggers \ {t} : check'[s] = check[s]
    BY <1>1, <1>4, MovesOn
  <2>2. \A s \in Triggers : Running(s)' => check'[s].now <= clock'
    BY <1>1, <1>2, <2>1 DEF OrderInv, Running
  <2>3. \A s \in Triggers : Busy(s)' => Busy(s) /\ check'[s] = check[s]
    BY <2>1 DEF Busy, Running
  <2> QED BY <1>3, <2>2, <2>3, OrderKept
<1>5. CASE ~MoveOn(t)
  <2>1. /\ check'[t] # Idle /\ check'[t].kind = check[t].kind /\ check'[t].now = check[t].now
        /\ check'[t].at = DueAt(check[t].kind, check[t].now)
        /\ check'[t].at # NothingDue
        /\ \A s \in Triggers \ {t} : check'[s] = check[s]
    BY <1>1, <1>5, Decides
  <2>2. \A s \in Triggers : Running(s)' => check'[s].now <= clock'
    BY <1>1, <1>2, <2>1 DEF OrderInv, Running
  <2>3. \A s \in Triggers \ {t} : Busy(s)' => Busy(s) /\ check'[s] = check[s]
    BY <2>1 DEF Busy, Running
  <2>4. ASSUME "day" \in Kinds PROVE Fits(t)'
    <3>1. PICK kind \in Kinds, now \in Days : kind = check[t].kind /\ now = check[t].now
      BY <1>1 DEF Checks
    <3>2. PICK at : at = check'[t].at
      OBVIOUS
    <3>3. now <= clock
      BY <1>1, <3>1 DEF OrderInv
    <3>4. /\ kind = "day" => at \in {now - 1, now} /\ (at < now => Filed(at) # {})
          /\ kind = "week" => \A d \in Days : d = Sunday(WeekOf(d)) /\ at = WeekOf(d) => Settled(d)
          /\ kind = "month" => at \in MonthEnds /\ Settled(at)
      BY <1>1, <2>1, <2>4, <3>1, <3>2, <3>3, DueFits
    <3>5. check'[t].kind = kind /\ check'[t].now = now /\ check'[t].at = at
      BY <2>1, <3>1, <3>2
    <3>6. \A d : Settled(d)' <=> Settled(d)
      BY <1>2 DEF Filed, Settled
    <3>7. kind = "day" => at \in {now - 1, now} /\ (at < now => Filed(check[t].at)' # {})
      BY <1>2, <3>4, <3>5 DEF Filed
    <3>8. kind = "week" => \A d \in Days : d = Sunday(WeekOf(d)) /\ at = WeekOf(d) => Settled(d)'
      BY <3>4, <3>6
    <3>9. kind = "month" => at \in MonthEnds /\ Settled(check[t].at)'
      BY <1>2, <3>4, <3>5 DEF Settled, Filed
    <3> QED BY <3>5, <3>7, <3>8, <3>9 DEF Fits
  <2> QED BY <1>3, <2>2, <2>3, <2>4, OrderKept
<1> QED BY <1>4, <1>5

\* The rest of a check: it goes on saying what it was about to say, or goes on to the next.
LEMMA StepInOrder ==
  ASSUME OrderInv, SayInv', Onward, NEW t \in Triggers, Step(t), ~Decide(t)
  PROVE  OrderInv'
<1>1. TypeOK /\ Running(t) /\ clock \in Int /\ clock' = clock
  BY CalendarIsOrdered DEF OrderInv, SayInv, TypeOK, Days, Step, DecideFails, Send, SendFails, Record, RecordFails, In
<1>2. /\ \A s \in Triggers : Running(s)' => Running(s) /\ check'[s].now = check[s].now
      /\ \A s \in Triggers : Busy(s)' => /\ Busy(s) /\ check'[s].kind = check[s].kind
                                         /\ check'[s].at = check[s].at
  <2>1. CASE Send(t)
    <3>1. /\ In(t, "sending") /\ check'[t].kind = check[t].kind /\ check'[t].at = check[t].at
          /\ check'[t].now = check[t].now /\ \A s \in Triggers \ {t} : check'[s] = check[s]
      BY <1>1, <2>1, PhaseOn DEF Send
    <3> QED BY <1>1, <3>1 DEF Busy, Running, In
  <2>2. CASE MoveOn(t)
    <3>1. /\ check'[t] # Idle => check'[t].phase = "waiting" /\ check'[t].now = check[t].now
          /\ \A s \in Triggers \ {t} : check'[s] = check[s]
      BY <1>1, <2>2, MovesOn
    <3> QED BY <1>1, <3>1 DEF Busy, Running
  <2> QED BY <2>1, <2>2 DEF Step, DecideFails, SendFails, Record, RecordFails
<1>3. \A i \in Items : said'[i] > 0 => said[i] > 0 \/ \E s \in Triggers : Busy(s) /\ Item(s) = i
  <2>1. CASE UNCHANGED said
    BY <2>1
  <2>2. CASE Say(Item(t)) /\ In(t, "sending")
    <3>1. Busy(t) /\ check[t].phase # "waiting"
      BY <1>1, <2>2 DEF Busy, In
    <3>2. \A i \in Items \ {Item(t)} : said'[i] = said[i]
      BY <1>1, <2>2, <3>1, SaysOnce
    <3> QED BY <3>1, <3>2
  <2> QED BY <2>1, <2>2 DEF Step, DecideFails, Send, SendFails, Record, RecordFails
<1>4. \A s \in Triggers : Running(s)' => check'[s].now <= clock'
  BY <1>1, <1>2 DEF OrderInv
<1>5. \A s \in Triggers : Busy(s)' => Running(s)'
  BY DEF Busy
<1> QED BY <1>2, <1>3, <1>4, <1>5, OrderKept

\* What goes on around the checks: one may begin, or all may be gone.
LEMMA WorldInOrder ==
  ASSUME OrderInv, SayInv', [Next]_vars, \A t \in Triggers : ~Step(t)
  PROVE  OrderInv'
<1>1. TypeOK /\ Onward /\ clock \in Int /\ clock' \in Int /\ clock <= clock'
  BY StepsOnward, CalendarIsOrdered DEF OrderInv, SayInv, TypeOK, Days, Onward
<1>2. UNCHANGED said
  BY DEF Next, vars, Live, EditResult, EditMembership, LiveForNobody, Scheduled, Midnight, Boot, Start,
       SkipDailyBacklog, SkipWeeklyBacklog, Serve, Crash
<1>3. \A i \in Items : said'[i] > 0 => said[i] > 0 \/ \E s \in Triggers : Busy(s) /\ Item(s) = i
  BY <1>2
<1>4. ASSUME NEW t \in Triggers, Goto(t, Begin), clock' = clock PROVE OrderInv'
  <2>1. /\ check'[t] # Idle => check'[t].phase = "waiting" /\ check'[t].now = clock
        /\ \A s \in Triggers \ {t} : check'[s] = check[s]
    BY <1>1, <1>4, Begins
  <2>2. \A s \in Triggers : Running(s)' => check'[s].now <= clock'
    BY <1>1, <1>4, <2>1 DEF OrderInv, Running
  <2>3. \A s \in Triggers : Busy(s)' => Busy(s) /\ check'[s] = check[s]
    BY <2>1 DEF Busy, Running
  <2> QED BY <1>1, <1>3, <2>2, <2>3, OrderKept
<1>5. ASSUME \/ check' = check
             \/ check' = [t \in Triggers |-> Idle]
      PROVE  OrderInv'
  <2>1. \A s \in Triggers : Running(s)' => Running(s) /\ check'[s] = check[s]
    BY <1>5 DEF Running
  <2>2. \A s \in Triggers : Busy(s)' => Busy(s) /\ check'[s] = check[s]
    BY <2>1 DEF Busy
  <2>3. \A s \in Triggers : Running(s)' => check'[s].now <= clock'
    <3>1. \A s \in Triggers : Running(s) => check[s].now \in Int /\ check[s].now <= clock
      BY <1>1, CalendarIsOrdered DEF OrderInv, TypeOK, Running, Checks, Days
    <3> QED BY <1>1, <2>1, <3>1
  <2> QED BY <1>1, <1>3, <2>2, <2>3, OrderKept
<1>6. \/ \E t \in Triggers : Goto(t, Begin) /\ clock' = clock
      \/ check' = check
      \/ check' = [t \in Triggers |-> Idle]
  BY DEF Next, vars, Live, EditResult, EditMembership, LiveForNobody, Scheduled, Midnight, Boot, Start,
       SkipDailyBacklog, SkipWeeklyBacklog, Serve, Crash, Triggers
<1> QED BY <1>4, <1>5, <1>6

LEMMA OrderInvariant == Spec => []OrderInv
<1>1. Init /\ SayInv => OrderInv
  <2> SUFFICES ASSUME Init, SayInv PROVE OrderInv
    OBVIOUS
  <2>1. \A t \in Triggers : ~Running(t) /\ ~Busy(t)
    BY DEF Init, Running, Busy
  <2>2. \A d \in Days : <<"week", WeekOf(d)>> \in Items /\ <<"month", d>> \in Items
    BY CloseBounds, WeekBounds, CalendarIsOrdered DEF Items
  <2>3. \A d \in Days : ~(said[<<"week", WeekOf(d)>>] > 0) /\ ~(said[<<"month", d>>] > 0)
    <3>1. \A i \in Items : said[i] = 0
      BY DEF Init
    <3>2. \A i \in Items : ~(said[i] > 0)
      BY <3>1
    <3> QED BY <2>2, <3>2
  <2>4. Told
    BY <2>3 DEF Told
  <2> QED BY <2>1, <2>4 DEF OrderInv
<1>2. OrderInv /\ SayInv' /\ [Next]_vars => OrderInv'
  <2> SUFFICES ASSUME OrderInv, SayInv', [Next]_vars PROVE OrderInv'
    OBVIOUS
  <2>1. Onward
    BY StepsOnward DEF OrderInv, SayInv
  <2> QED BY <2>1, DecideInOrder, StepInOrder, WorldInOrder
<1> QED BY <1>1, <1>2, SayInvariant, PTL DEF Spec

\* The group reads about a day before the week or the month that closed with it, unless the
\* day was played after it was over (announce/weekly.go and monthly.go wait for the day's mark).
THEOREM DayFirstHolds == Spec => DayFirst
<1>1. ASSUME OrderInv, [Next]_vars, NEW d \in Days, SaidNow(<<"day", d>>), d \notin late,
             \A t \in Triggers : Running(t) => check[t].now = clock
      PROVE  /\ d = Sunday(WeekOf(d)) => said[<<"week", WeekOf(d)>>] = 0
             /\ said[<<"month", d>>] = 0
  <2>1. TypeOK /\ d \in Int /\ clock \in Int /\ <<"day", d>> \in Items
    BY <1>1, CloseBounds, CalendarIsOrdered DEF OrderInv, SayInv, TypeOK, Days, Items
  <2>2. said'[<<"day", d>>] # said[<<"day", d>>]
    BY <1>1, <2>1 DEF SaidNow, TypeOK
  <2>3. PICK t \in Triggers : In(t, "sending") /\ Say(Item(t))
    BY <1>1, <2>2 DEF Next, vars, Step, Decide, DecideFails, Send, SendFails, Record, RecordFails,
       Live, EditResult, EditMembership, LiveForNobody, Scheduled, Midnight, Boot, Start,
       SkipDailyBacklog, SkipWeeklyBacklog, Serve, Crash
  <2>4. Item(t) = <<"day", d>> /\ Busy(t) /\ Running(t)
    BY <2>2, <2>3 DEF Say, Busy, In
  <2>5. check[t].kind = "day" /\ check[t].at = d /\ check[t].now = clock /\ "day" \in Kinds
    BY <1>1, <2>1, <2>4, BusyAt DEF Item
  <2>6. <<"day", d>> \notin recorded
    BY <1>1, <2>3, <2>4 DEF OrderInv, SayInv, Holders
  <2>7. d \in {clock - 1, clock} /\ (d < clock /\ Closing(d) => Filed(d) # {})
    BY <1>1, <2>4, <2>5 DEF OrderInv, Fits
  <2>8. Closing(d) => ~Settled(d)
    BY <1>1, <2>1, <2>6, <2>7 DEF Settled
  <2>9. d = Sunday(WeekOf(d)) => ~(said[<<"week", WeekOf(d)>>] > 0)
    BY <1>1, <2>5, <2>8 DEF OrderInv, Told, Closing
  <2>10. ~(said[<<"month", d>>] > 0)
    BY <1>1, <2>5, <2>8 DEF OrderInv, Told, Closing
  <2>11. said[<<"week", WeekOf(d)>>] \in Nat /\ said[<<"month", d>>] \in Nat
    BY <2>1, CloseBounds, WeekBounds, CalendarIsOrdered DEF TypeOK, Items
  <2> QED BY <2>9, <2>10, <2>11
<1>2. OrderInv /\ [Next]_vars =>
  [\A d \in Days :
       (/\ SaidNow(<<"day", d>>)
        /\ d \notin late
        /\ \A t \in Triggers : Running(t) => check[t].now = clock) =>
       /\ d = Sunday(WeekOf(d)) => said[<<"week", WeekOf(d)>>] = 0
       /\ said[<<"month", d>>] = 0]_vars
  BY <1>1
<1> QED BY <1>2, OrderInvariant, PTL DEF Spec, DayFirst
=============================================================================
