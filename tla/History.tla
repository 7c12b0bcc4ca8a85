------------------------------ MODULE History ------------------------------
(***************************************************************************)
(* What internal/stats computes from: the results of the players, the      *)
(* puzzle that today is, and the toggles of the page being read.           *)
(*                                                                         *)
(* Every figure is a function of these three and is computed afresh, so    *)
(* what can go wrong is between two of them: the same month before and     *)
(* after midnight, before and after a late result, or read by two rules.   *)
(*                                                                         *)
(* A day is its puzzle number (internal/wordle), which is all the code     *)
(* compares.  How results are filed is the subject of Ingest; here a       *)
(* result appears, changes or goes in one step.                            *)
(***************************************************************************)
EXTENDS Integers, FiniteSetsExt, SequencesExt

CONSTANTS
  Players,   \* numbers, in the order of the players' slugs
  Posted,    \* the results a run tries
  Toggles,   \* the settings of the page a run tries
  Slots,     \* bound: the <<player, puzzle>> pairs that may have a result
  LastDay    \* bound: the puzzle at which the clock stops

\* A result: 1 to 6 guesses, or 0 for a failure.  Nothing is stored as a seven.
Result  == [guesses : 0..6, hard : BOOLEAN]
Options == [countXAsSeven : BOOLEAN, countMissed : BOOLEAN, hardModeOnly : BOOLEAN]

\* What the bot answers by, and the page as it comes.
DefaultOptions == [countXAsSeven |-> TRUE, countMissed |-> FALSE, hardModeOnly |-> FALSE]

ASSUME PlayersAreNumbered == Players \subseteq Int /\ IsFiniteSet(Players)
ASSUME PostedAreResults   == Posted \subseteq Result
ASSUME TogglesAreOptions  == Toggles \subseteq Options
ASSUME SlotsArePlayerDays == Slots \subseteq Players \X (Nat \ {0})
ASSUME LastDayIsADay      == LastDay \in Nat

VARIABLES
  history,   \* [Players -> the player's results, by puzzle]
  now,       \* today's puzzle
  opts       \* the toggles of stats.Options

vars == <<history, now, opts>>

Init ==
  /\ history = [p \in Players |-> <<>>]
  /\ now = 1
  /\ opts \in Toggles

\* A post may be one puzzle ahead: somewhere it is tomorrow already.
WithinWindow(z) == z <= now + 1

\* A player's results with one more, or with that one corrected.
With(results, z, r) == [y \in DOMAIN results \cup {z} |-> IF y = z THEN r ELSE results[y]]

\* A result is filed, or the one that was there is corrected.
File(p, z, r) ==
  /\ WithinWindow(z)
  /\ history' = [history EXCEPT ![p] = With(@, z, r)]
  /\ UNCHANGED <<now, opts>>

Delete(p, z) ==
  /\ z \in DOMAIN history[p]
  /\ history' = [history EXCEPT ![p] = Restrict(@, DOMAIN @ \ {z})]
  /\ UNCHANGED <<now, opts>>

Midnight ==
  /\ now < LastDay
  /\ now' = now + 1
  /\ UNCHANGED <<history, opts>>

Next ==
  \/ \E slot \in Slots, r \in Posted : File(slot[1], slot[2], r)
  \/ \E slot \in Slots : Delete(slot[1], slot[2])
  \/ Midnight

Spec == Init /\ [][Next]_vars

\* The store holds results of the puzzles up to tomorrow's, and no seven.
TypeOK ==
  /\ now \in 1..(LastDay + 1) /\ opts \in Options
  /\ DOMAIN history = Players
  /\ \A p \in Players : \A z \in DOMAIN history[p] :
       /\ <<p, z>> \in Slots /\ WithinWindow(z)
       /\ history[p][z] \in Result

-----------------------------------------------------------------------------
(* internal/stats/stats.go: what a result is worth. *)

FailedAsSeven == 7

Solved(r) == r.guesses # 0

\* value: whether a result counts in an average, and as what.
Counts(r) == Solved(r) \/ opts.countXAsSeven
Value(r)  == IF Solved(r) THEN r.guesses ELSE FailedAsSeven

FilterHardMode(results) == RestrictValues(results, LAMBDA r : r.hard)

\* The results an average is taken over, under the hard-mode toggle.
Counted(p) == IF opts.hardModeOnly THEN FilterHardMode(history[p]) ELSE history[p]

\* An average is kept as the sum and the count it is the quotient of.  Two are
\* compared by their products: a quotient of the code is correctly rounded, and
\* with numbers this small two are equal exactly when the fractions are.
Total(results, days) == MapThenSumSet(LAMBDA z : Value(results[z]), days)

Lower(a, b) == a.sum * b.count < b.sum * a.count
Level(a, b) == ~Lower(a, b) /\ ~Lower(b, a)

\* sort.Slice, by an order that no two of the things share a place in (a slug is one's own).
InOrder(S, Before(_, _)) ==
  CHOOSE s \in [1..Cardinality(S) -> S] : \A i, j \in DOMAIN s : i < j => Before(s[i], s[j])

Later(a, b)   == IF a > b THEN a ELSE b
Earlier(a, b) == IF a < b THEN a ELSE b
=============================================================================
