# Wordleland: models, checks and proofs

Wordleland keeps a Wordle scoreboard for a Signal group. One Go binary serves
the web pages, runs the Signal bridge, files results in SQLite and posts recaps
back to the group; the same binary is the administrators' CLI. This directory
holds TLA+ models of it, the TLC runs that check them on small instances, and
proofs that the TLA+ proof system checks for every instance.

## 1. The system

| Part | State it keeps | What it does | Talks to |
|---|---|---|---|
| Results and identities (`internal/store/results.go`, `identities.go`, `players.go`, `demo.go`) | tables `players`, `player_identities`, `results`, `pending_results` | one transaction per operation: file, hold, claim, reassign, unlink, discard, set, unset, backfill, clear a demo | called by everything that writes |
| Ingest (`internal/ingest`, `internal/web/ingest.go`) | nothing between calls | looks a submission's sender up, then holds the result or files it | bridge worker, API handler; store |
| Bridge (`internal/bridge`) | websocket, a queue of 256, one worker, questions in hand, health counters | receives messages, files results with retries, starts the announcements, hands questions to the responder, is restarted when it fails | signal-cli-rest-api; ingest; announce; reply |
| Announcements (`internal/announce`) | tables `signal_{day,week,month}_announcements`, three mutexes | decides what has closed, posts it, records it | bridge worker and a midnight scheduler; store; signal-cli-rest-api |
| Live pages (`internal/web/live.go`) | the hub: subscribers and the last mark | polls the activity log and wakes open pages | store; browsers |
| Accounts (`internal/store/users.go`, `sessions.go`, `reset.go`, `invitations.go`, `totp.go`, `recovery.go`, `internal/auth`) | users, sessions, link tokens, invitations, second factors, an in-memory limiter | sign-in, invitation, reset, two-factor enrolment and use | web handlers, CLI |
| Statistics (`internal/stats`) | none: everything is computed afresh from the results, the clock and the page's toggles | boards, weeks, months, streaks, form, traits | web pages, announce, reply |
| Parsing and the calendar (`internal/wordle`) | none | a message to a result, squares to a grid, a date to a puzzle | bridge, ingest |
| Replies (`internal/reply`) | a short memory per asker | answers questions with the help of a language model | bridge; store; Ollama |
| Health (`internal/bridge/health.go`, `verify.go`, `internal/health`) | connection and delivery counters | says whether the bridge works, and why not | bridge; `/healthz` |
| Database opening, start and stop (`internal/store/db.go`, `migrate.go`, `cmd/wordleland/serve.go`) | `schema_migrations`, the first account, the share link, goroutines in hand | applies what is pending, serves, drains and closes | `serve`, CLI |
| Web pages, CLI output, i18n, configuration | none that matters here | render and parse | |

What is hard in it:

* **Two processes and many goroutines write one database.** Every store operation is
  one transaction, but a submission's look-up is outside the transaction that
  uses it, and the CLI is another process.
* **Held results.** A sender nobody has claimed has results held; a claim replays
  them. A submission may be in flight on either side of that.
* **Hands against automation.** A correction by hand must survive reposts, replays,
  claims and moves.
* **Sends that may fail, land unreported, or land and not be recorded**, from two
  triggers that run the same checks at midnight, with restarts in between.
* **Time**: a closing day is said once, within a day; a check reads the clock before
  it waits for a mutex.
* **Figures told more than once, by different rules**: a month as it runs, as it ends, and as "the last
  days"; missed days in three places; streaks in two. Midnight and late results move them.
* **Queues and retries** in the bridge; a live page's subscription racing a poll.
* **Handlers that check, hash a password for a while, and then write**: two of them with one link, one
  invitation or one code, beside a reset and an admin.
* **Starts and stops**: two processes migrating one file, a crash between migrations, a database closed
  under a goroutine; a connection that looks healthy and brings nothing.

What makes each part correct is stated beside the properties, below; the whole list
of hazards, each at its line, is `hazards` in `PROJECT.json`.

## 2. Modules

| Module | Models |
|---|---|
| `ResultStore` | the tables results live in and every transaction that writes them, one action each |
| `ScoreBook` | what results and held results promise whoever keeps score by them: the abstract specification |
| `Ingest` | extends `ResultStore` with callers inside `ingest.Apply` (look up, then hold or write), crashes, and the properties of the whole; implements `ScoreBook` |
| `Announcements` | the three checks, their mutexes, marks, two triggers, faults, restarts |
| `Delivery` | what the bridge promises about each result it reads: the abstract specification |
| `Bridge` | reader, supervisor, one worker per attempt, questions beside them; implements `Delivery` |
| `LivePages` | the hub, its poller, the streams and the pages that follow them |
| `Accounts` | logins, sessions, links by mail, invitations and the logins of players, with handlers in flight |
| `SecondFactor` | the second factor of one account: enrolment, codes, recovery codes, and the budget of guesses |
| `Health` | the bridge's record of its connection, its frames and its deliveries, the verdict on it, and the verification |
| `Service` | extends it with processes that start, migrate, serve and stop over one database |
| `History` | what the statistics read: results, the clock, the toggles; what a result is worth |
| `Standings` | a span of days scored as a competition: months, day leaders, the last days, titles |
| `Board` | streaks, missed days, form and its baseline |
| `Rankings` | extends `Board`: eligibility, the table, callouts, traits, the grid |
| `Answers` | extends both: the day being played, and what the bot answers from all of it |
| `Records` | extends `Answers`: the season, a month's awards, a player's and the group's past |
| `Pages` | extends `Records`: the figures the pages of the site work out for themselves |
| `Boards` | the boards of the board's page: of all results, of the latest puzzles, and both as they were some days before |
| `Site` | extends `Pages` and `Boards`: the board's page over its ranges, its arrows, and what all pages promise |
| `MC_Ingest`, `MC_Announcements`, `MC_Accounts`, `MC_SecondFactor`, `MC_Scoring` | payloads, rosters and symmetry for TLC |
| `Ingest_proofs`, `Announcements_proofs`, `Bridge_proofs`, `Standings_proofs`, `Accounts_proofs`, `SecondFactor_proofs`, `Service_proofs`, `Site_proofs` | what is proved of each; `Standings_proofs` is about `Standings`, `Board`, `Rankings`, `Answers` and `Records` and the facts they rest on, `Site_proofs` extends it to `Pages`, `Boards` and `Site` |

### ResultStore and Ingest

`member` is `players.active` or no row; `identityOf` is `player_identities`,
`results` and `pending` the two tables of the same names. A score stands for
(guesses, solved). A grid is the score it draws, because agreement with the score is
all the store asks of it. An identity row is named by its sender: there is at most one row
per sender, and deleting it clears every reference to it.

A caller in `Ingest` is a goroutine inside `ingest.Apply`. Its `stage` is what the
look-up outside any transaction decided: to hold, or to write. `Write` resolves
the sender again, as the code does; `WriteFails` is its rolled-back transaction. `Crash`
drops every call in flight. The bridge's retry of a delivery is another call with
the same payload.

`ScoreBook` knows no calls, rosters, squares or times: a cell has a score or none, entered by hand or automatically, a sender
has an owner or none, and a score may wait for its sender to be claimed. Nine things happen to it. `Ingest` implements it
with `Book` (of a row, its score and `entered_by`), `Held` (of a held row, its score) and `identityOf`: a write is
`File`, or nothing where a hand's entry stands; a claim, and the making of a player for senders, is `Claim`, which files all that
waits in the step that clears it and makes the senders somebody's; a reassignment, with its results or without, is `Move`.

### Announcements

A day is its puzzle number, a week its Monday, a month its last day; the calendar is
a parameter so that three days of model time can close a day, a week and a month.
`check[t]` is where trigger `t` (the bridge's worker, the scheduler) is in the three
checks: waiting for a mutex, sending or recording. A mutex is held from the read of
the board to the record, so `Held` is derived. `now` is the clock as the trigger read it.
The two marks of a first start are writes of their own (`SkipDailyBacklog`, `SkipWeeklyBacklog`): `starting` is the one that comes next, and a crash may
come between them, so that the start that marks the weeks may be days after the one that marked the days. `said`, `firstDaily` and `firstWeekly` (the first day a
start got as far as that mark) and `late` are history variables that only properties read.

### Delivery and Bridge

`Delivery` has a result wait, be filed or be given up, and never wait for ever. `Bridge`
maps to it by `up <- phase # "exited"` and `waiting <- Waiting` (what is read, queued or in a
worker's hand), and `Delivers` is the implementation, fairness included. `work[n]`
is what the worker of attempt `n` of `Run` is at and `queue[n]` its channel; a panic of the
reader leaves both where they are, and the next attempt gets its own. `line` holds the questions with
a ticket (the channel `asking`), `answering` the one with the mutex, `presence` the
goroutines that show it. The wait of `Run` for the answers is `phase = "waiting"`. What a worker does after filing is
`Announcements`: here it only takes time. There, the worker is one trigger; an orphaned
worker of an earlier attempt would be another, and the mutexes serve it the same way.

### LivePages

The number of a change is the id of its row in the activity log, so that the mark and the board's
version compare. `poll` is the poller goroutine (`"off"` is `polling = false`), `stream[p]` where the handler of
`p`'s stream is, `sent[p]` its local variable, and `page`, `shown`, `since`, `lastId`, `wanted` the browser's side:
what it shows, the mark in its stream address and the last event it heard.

### Accounts

Every operation of the store is one transaction and one action. What makes it hard is between them: a handler
reads an account, a link or an invitation, hashes a password for a while, and writes. `calls[c]` is what the
goroutine `c` has read and decided by then, and its next action is the transaction that may find the world
changed. A link is the live row of an emailed token: what is used, spent with others or too old is gone. The id of
a token is given again only once no row and no request holds it.

Of passwords only their order matters, and `ages`, a history variable, keeps it: whether what a request has checked (`checked`, set where the
handler compares the hash), what a session was opened under (`opened`) and what an address was asked for under (`asked`) is the password in force
(`"current"`), is of one before it (`"old"`), or was written under the one in force by a request that had checked one before it (`"late"`). A new password makes
old whatever it leaves behind (`NewPassword`) and every check in flight.

### SecondFactor

One account, whose handlers interleave statement by statement, since enrolment proves a code, promotes a secret and
replaces the sheet in separate statements. A secret and a recovery code are random, and an id nobody holds stands
for a new one. Time is counted in steps of an authenticator, with the skew of one step the code allows. `buckets` is
the limiter's two keys, the account's and the client address's. `tried` and `accepted` are history variables.

### Health and Service

The code keeps times and compares the clock with them; the model keeps ages that stop growing past every limit.
`Service` is `serve`: a process opens, finds what is pending, applies one file a transaction, creates the first
administrator and the share link, serves, and stops in the order of `serve.go`. `todo[p]` is the list of files that
`Migrate` read before it applied any, which another process may have overtaken; `running[p]` the wait group; `requests[p]` that a request is
still being handled. A bridge whose reader has stopped waits first for its worker and then for the answers, under one deadline; `draining[p]` is
which of them is still at it, also once the bridge has given up and left it behind (`GiveUpDraining`). The health record starts empty with the process that
serves; `attempts` counts the verifier's quick questions, which hand over to the hourly one when they are used up or answered.

### History, Standings, Board, Rankings, Answers, Records, Pages, Boards and Site

`history[p]` is a player's results by puzzle number, `now` is today's puzzle, `opts` the toggles. A result is
filed, corrected or deleted in one step (how is the subject of `Ingest`), up to one puzzle ahead, as
the bridge lets through; `Midnight` is the only clock. Everything above these three is computed, as in the code, so that
the other eight modules are operators over them: `ScoreSpan` is `scoreSpan`, its `rows` the results of the span;
`MonthPlayer`, `Places` and `DayLeaders` carry the code's names. An average is a sum and a count, compared by
cross products, as the correctly rounded quotients of the code compare; a spread is kept as its square. `InOrder` is a
sort: some sequence of the things in which each comes before the later ones, which is the only one, since slugs are no two alike.
`ComputeWeek` is the same `scoreSpan` on other bounds. `opts` never changes: it is the page somebody reads. The bot answers by the default
toggles whatever the page is set to. `Boards` has an instance of `Rankings` for each board a page computes afresh: `Latest` over the results of the short range,
`Then` and `LatestThen` over what was known some days before, with the clock of that day. `Hence` of `Site` is `Boards` with the clock so many days on, which
is how the arrows of a later page look back at today.

An answer of the bot is what it says and of whom; the sentence is left out. What the modules are checked
for is that the many tellings of one thing - a place, a lead, a streak, a best day - agree where the code's rules
make them the same, and that what is predicted of a month comes about.

## 3. Runs

| Run | Instance | Shows |
|---|---|---|
| `ingest` | 2 players, 1 sender, 2 callers, 1 puzzle, 2 scores, 2 times, with and without squares, held rows expire, a demo is cleared | a result entered by hand is changed by a hand only; what is held is filed by the claim; a row written for a sender is its player's, whoever that was at look-up; squares never sit beside another score; the first time of posting stays; results only move; nothing outlives its player; every step is one of the score book's (`KeepsBook`) |
| `ingest_claim_race` (violation) | as `ingest`, posts without squares | a claim between look-up and hold leaves a result held for a claimed sender |
| `announce_faults` | 2 players, 3 days that close a week and a month, 1 fault, 1 edit | nothing recorded is said again, nothing is marked that was not said, the day comes before the week and the month |
| `announce_closes` | 2 players, 3 days, 1 fault, fair | every day and month that was played is said in the end |
| `bridge` | 3 messages, 2 attempts, a queue of 1, 2 tries, 2 tickets, fair | results are filed in order, retries included; each is settled though no question is ever answered; tickets come back |
| `live` | 2 pages, 1 place for a stream, 2 changes, fair | a page that listens comes to show what landed after it was rendered; the poller stops with its readers and with the hub |
| `live_stale_page` (violation) | 1 page, fair | a page rendered while a result lands never shows it |
| `accounts` | 2 accounts of which 1 admin's, 2 addresses, 1 player, 1 link, 2 invitations, 1 session, 2 requests at once | addresses stay distinct; a reset link acts once and an invitation claims a free player only; no session and no waiting address from before a new password outlives it, but for what a request that had checked the old one writes late |
| `accounts_confirmation` (violation) | 1 account, 3 addresses, 2 links | a link mailed to an earlier address confirms a later one |
| `second_factor` | 2 secrets, 2 recovery codes, sheets of 1, 2 sessions, 2 requests, 2 guesses in 2 steps, a clock of 3 steps | a code counts once; a live recovery code belongs to the secret in force; guesses keep to the budget of two windows |
| `service` | 2 processes, 2 migrations, 2 starts, limits of 1, fair | each migration is applied once and in order; one administrator, one share link; a stop ends though a request, a filing and an answer hang; silence, outage and a wrong configuration come to show, though the quick questions go unanswered |
| `scoring` | 3 players, 5 days, months [2,4) and [4,6), 2 results, 3 settings | ties share places and the next place is skipped; a finished month's last leaders are its winners; a month announced early is final; no late result makes an average worse; the clock moves no title and settles one day of a streak; records stand; a what-if comes true; and board, months, pages and bot tell one story |

Bounds. Two players are what a move, a swap and a contested week need; two callers
are what a race of two submissions needs, and the admin and CLI transactions race
with both. One sender is moved, unlinked and claimed anew; rows of different puzzles never meet but in replays and moves,
which treat a column at once. Two scores tell a repost
from a correction; two times of posting tell first from last. Whatever several senders and puzzles could add is
in the proofs, which take any number of both. Three model days are a closing day, the day after
it, when it is still looked for, and the day after that, when it is not. `MaxFaults`
and `MaxEdits` bound the only counters. Faults stop before the last day so that
the liveness properties have a fault-free day. In `Bridge` a queue of one fills, three messages put one behind a
retry and one behind that, and two attempts leave one orphan; its limits are
the code's constants scaled down. In `LivePages` one place for two pages makes a refusal, and
a poller kept alive by one page for the next; two changes are one before a page is rendered and one
after.

In `accounts` two requests hold one link, or one invitation, at once while a third party resets or invites again; two
addresses are one to have and one to move to; the one player cannot show two players with one account, which is proved instead.
In `second_factor` two secrets are one in force and one waiting, and the sheet of one code is replaced once; two guesses
and a window of two steps let a window end and the next begin under the clock, which `GuessesBounded` counts over
both. In `service` a start may end and begin again while the other migrates (`MaxStarts`), and every age is under its limit or past it. One quick attempt
of the verifier (`MaxVerifyAttempts`) is one that may go unanswered before the hourly question takes over.

In `scoring` three players make a tie and a place after it; one may post on any of four days, one in the first
month, one on a single day of it (`Turnout`), and each may post for tomorrow. A failure and a three in hard mode differ in every rule. The windows of the
code are scaled below the five days: form 3, games before a place 2 (`MinGames`), the board's short range 2, moves 1,
a puzzle's usual 3, its difficulty 3, a year 5, an award's days 2, the steadiest's games 2, the podium 1, awards shown 3, a day's
results before its mean 2, a regular's absence 1; `FewDays` are the traits' counts. So each window is shorter than the history,
and its edge is crossed.

Fairness. `announce_closes`: midnight comes; the scheduler's goroutine runs
when due; a check under way finishes, since every read and send has a deadline of
20 seconds or less; a stopped process is started again by its supervisor. Nobody
is assumed to post anything. `bridge`: the workers and a reader with room take their steps, since every write and every
announcement has a deadline; of the model nothing is assumed, and `TicketsComeBack` has the fairness of
answers, which `respondTimeout` gives, as its hypothesis. `live`: the poller and the handlers
run; the network delivers what it does not drop; a select that finds the hub closed and a tick due
does not for ever pick the tick (strong fairness of `PollEnds`). `service`: time passes (`TimePasses`); one of the questions the verifier asks every hour
is answered in the end (`Verified`), though every quick one may fail; and a stop takes its steps (`Stop`): a loop sees that its context is over, and a
deadline passes. That a request, a filing or an answer ends is not assumed, nor anything of the connection.

Symmetry is used over players, senders, callers, sessions, links and the like in safety runs only; no action
tells them apart. `bridge` and `service` stop deliberately: a process that has exited, and one whose starts are used up, has no step,
so those two runs do not check deadlock.

## 4. Proofs

`Ingest_proofs` proves, for any finite or infinite sets of players, senders, callers,
puzzles, scores and times, with the null values outside them (`NullsAreDistinct`,
`NoCallIsNoCall`) and submissions that pass validation (`PostsValidated`), all nine properties of the run `ingest` and `TypeOK`:

* `Invariance`: `Spec => []IInv`, where `IInv` is `TypeOK`, `IdentityOnRows`,
  `GridsAgree`, `RowsHavePlayers` and `CallsSound` (a call in flight holds a post that
  agrees, names a sender or a player, and is live only for a sender). There is one lemma for
  each action, and one (`ColumnInv`) for a step that changes one player's column, which most
  of them cite.
* `TypeCorrect`, `IdentityOnRowsHolds`, `GridsAgreeHolds`, `RowsHavePlayersHolds`, from it.
* `HandEntryStandsHolds`: the action property, from the same invariant. A move of results goes by
  identity alone, so it needs `IdentityOnRows`: no hand-entered row names one.
* `ResultsOnlyMoveHolds`, `RowsFollowSenderHolds`, `FirstPostingKeptHolds`, `HeldUntilReplayedHolds`: which actions
  write results at all (`Writers`), and what each of the three that replay or move does to one cell
  (`LinkEffect`, `CreateForEffect`, `ReassignEffect`).
* `KeepsBookHolds`: `Ingest` implements `ScoreBook`. `StepKeeps` maps every step that `IInv` allows to a step of the book or a stutter, with a lemma for
  each kind of step. `IInv` is needed three times: a move takes automatic entries only because of `IdentityOnRows`, a player who is made for two
  senders has an empty column because of `RowsHavePlayers`, and what is written is a score because of `CallsSound`. That a claim for two senders files
  one score per puzzle, the second's where both have one, is covered here for any number of senders; the run has one.

`IInv` is needed because none of its parts but `TypeOK` is inductive alone: a write keeps
`GridsAgree` only if the post in flight agrees, and `IdentityOnRows` only if the sender it names resolves.

`Accounts_proofs` proves the three properties of `accounts`, for any users, players, tokens and requests at once, provided the null values are none of them:

* `LoginsAreDistinctHolds`: inductive with `TypeOK` and `CallsLive` (a request in flight is about an account that is
  there, since accounts are never deleted). `AccountStep` is the general step that writes one account under a free address.
* `LinksActOnceHolds` and `NothingOutlivesThePasswordHolds`, from `HeldInv`: a request that holds a live link holds one of the account it
  was begun for (`HeldLinks`), and the same of invitations and players (`HeldInvites`); one invitation to a player is live (`OneInvite`); an address
  that waits and a session that is open is not of an old password (`NoneOld`). `HeldLinks` rests on tokens that are never given twice.
  What a step can do to one account is `Effect`: keep, renew, ask or move; to one session, `SessionEffect`; and to the ages, `AgeSteps`. `NoneOld` is inductive because
  whatever sets a password empties the two tables of what it would make old, in its own transaction, and because what is written afterwards is current or late.

`SecondFactor_proofs`: `CodesAreTheSecretsHolds`, inductive with the part of the typing it needs (`Typed`), and `CodeCountsOnceHolds`, from
`AcceptedBefore`: whatever counted came at or before the step that is stored. `GuessesBoundedHolds`, for any window and budget: the bound on a
window's guesses is not inductive, since two windows of the limiter overlap any stretch of that length. `Budget` says what makes it so: the bucket of the
address has counted every guess since it started, the one that started it among them, none came after it ran out, and what came less than a window before it
is less than a budget. The guesses of a stretch are counted as a set of pairs of a step and a number, so that adding one guess adds one element.

`Service_proofs`: `StartsActOnceHolds`, for any number of processes, migrations and starts. Besides the property it takes that a process
that migrates still has in hand every file that is not recorded (`StartsInv`); the file it applies is the least of them, which exists because the natural
numbers are well founded (`PendingIsLeast`).

`Announcements_proofs` proves `MarkedWasSaidHolds` and `SaidOnceHolds`, for any roster, triggers, span of days and calendar
(`CalendarIsOrdered`) and any number of faults and edits, from `SayInv`:

* `Started`: a start makes its marks in order and serves only with both (`Booting`, `Begun`); a mark, once made, stays recorded, whatever crashes come
  between the two (`Marked`); a check runs in a started process and reads the clock no earlier than either (`Since`).
* `Holders`: the mutex of a kind has one holder; what it is about to say is not recorded yet and not of a day or week before the first
  start; what it is about to record was said; and while no fault has happened, whatever was said is recorded or is
  about to be by the one that holds the mutex. The last part is what keeps a second trigger from saying it again.
* A week said is not one before the first start because `WeekOf` is ordered (`WeekOrder`), which follows from two facts of quotients.

`DayFirstHolds`, from `OrderInv`, which adds to `SayInv` when a day is out of the way of its week and month: it is recorded, it was filed
late, it is too old to be said, or it is over and nobody filed it (`Settled`). The last day of a week or month is settled by the time
a check has that week or month in hand (`Fits`) and once it is said (`Told`); a settled day stays so, whatever faults, corrections and restarts come between (`SettledStays`).

`Bridge_proofs` proves, for any number of messages, attempts, tries, panics and tickets and any queue size, from `BInv`:

* `TypeCorrect`: `Spec => []TypeOK`, with `Sound` (a worker that is not at rest has a message; before the bridge gives up there is
  room for one panic more).
* `NoOvertakingHolds`: what an attempt holds is in the order it was read (`InOrder`), and all that a later attempt
  holds, and what the reader has in hand, comes after it (`Ahead`). The numbers of messages being strictly ordered, no message is in two places.
* `StepsDeliver`: `Spec => D!Init /\ [][D!Next]_(D!vars)`, the safety part of `Delivers`, one lemma per kind of step; that a result settles
  leaves the others waiting rests on a message being in one place (`Unique`, `ReadIsNew`), that a read one is new on `Ahead`.

`Standings_proofs` proves, for any players, results, toggles and months of at least one day (`MonthsAreSpans`):

* `TypeCorrect`: `Spec => []TypeOK`, which is inductive: what is stored is as posted, of puzzles up to tomorrow's.
* `EarlyIsFinalHolds`: on the last evening, with everybody in, the days missed by then are those missed in the
  end (`LastEvening`), so that every line of the table is the same, and so is the table (`SameTable`).
* `LeadersEndWithWinnersHolds`: the last of `DayLeaders` is the same table with the clock stopped at the month's end.
* `TitlesStandHolds`: a finished month's days are over on every later day (`FinishedAlike`), and a step that leaves its rows
  alone leaves its table alone (`FinishedStep`).

These hold whatever the sum and the sorting are. The rest needs to know what a fold and a sort give, which the library leaves open. `Standings_proofs` begins by
proving it once: a predicate of 0 and of the next number holds of every number (`EveryNumber`, by the least counterexample), so that a fold's recursive
function exists and is the only one; so a sum over a finite set is what its elements come to, in any order (`SumTakesOut`, `SumOfBoth`, `SumPlus`, `SumAlong`), and
a strict total order sorts a finite set in one way that has all of it (`SortedExists`, `OrderedHasAll`). On these rest, for any finite roster and months:

* `RanksAreEarnedHolds`: the table is sorted, so the pass that gives the places counts those strictly above (`PlacesOfLevels`).
* `PlayingNeverHurtsHolds`: a filed result takes a seven out of the sum and puts its own score in, or takes one from the count.
* `MidnightSettlesTheDayHolds`, `BestRunIsLongestHolds`: the walk over days is unfolded a day at a time (`WalkExists`, `RunWalks`), and the pass over the results
  is that walk on the days that have one.
* `WhatIfComesTrueHolds`: a month somebody has played is counted from its first day (`DaysSoFar`, `PlayedIsADay`), and the count the code divides by is zero
  exactly where nothing but tomorrow's puzzle is there (`NothingPredicted`); what a result of today does to one line and to no other (`FiledToday`, `OthersKeepTheirs`), and that rounding to the
  hundredth shown keeps order (`HundredthsGrow`).
* `RecordsStandHolds`: results that are only added lower no count and no streak, and change no finished month but by what is added (`LineStands`).
* `AnswersAgreeHolds`: one lemma for each of the six agreements (`DaysAgreeState` to `LastIsNotFirstState`).
* `StoriesAgreeHolds` and `PathsAgreeHolds`: the rows of the board, each in the part its reason says (`BoardIs`); the callouts are best of those rows
  (`OnFormIs`, `OffFormIs`, `MissingIs`); the season's rows in their order (`SeasonIs`); the record month and a player's best as the least of finitely
  many averages (`LowestIs`); the group's counts as sums by player and by result (`CountGroupIs`, `GamesAre`); the awards' figures. `SpreadOfScores` is why
  the root in the steadiest's award is at most 3.00, which the model's search for it takes: of scores from one to seven no variance is more than nine.

They need `TypeOK` and, where a history is compared whole, that it stays a function of its days (`HistoriesAreFunctions`, inductive on its own). The assumptions are
that rosters and months are finite (`PlayersAreNumbered`, `MonthsAreFew`: rows of a table, and months since the first result) and windows and counts positive where the code's
constants are. What is proved of `PathsAgree` is proved of the whole conjunction that `scoring` checks, for every toggle, hard mode included.

`Site_proofs` proves `PagesAgreeHolds`, the eleven agreements of the site with the rest of the program, with one more assumption, which every calendar
satisfies: two months share no day (`MonthsAreApart`). It has one section for each:

* Nine of them hold in any state that is well typed, from what `Standings_proofs` has of the board and the tables, above all where everybody stands (`RankedIsBoard`).
  `OrderingsAgree`: on every column the page's comparison is a strict total order of the rows, so that the sort has them all and in order, up and down alike; a tie
  goes by slug and an absent figure last, which is what makes it total. `GapsAgree`: rounding to the hundredth keeps order. `RivalsAgree`: won days are counted
  alike over the same year, and the order by the share won, a cross product, is transitive because nobody without a game is in it. `MonthPagesAgree`: a running
  month is the newest that anybody is in, the months being apart. `HardestAgrees`: a rank above the hardest day is a day with a higher mean, which the bot
  left out. `WeekdaysAgree`: counting from Sunday or from Monday renames the days of the week and changes no mean. `RecordsAgree`, `DayPageAgrees` and `FormsAgree`
  compare minima, counts and sums over the same days.
* `StreaksAgree`: whoever is on the board of the latest puzzles is on that of all, so that the row's streak is found there.
* `ArrowsAgree`: a page some days from now compares with the board of today. The instances of `Rankings` that `Boards` makes are each one function, `RankedOf`, of a
  history and a day (`WholeBoardIs`, `LatestIs`, `HenceThenIs`, `HenceLatestIs`), and when nobody has posted ahead what was known then is what is known now, and so is
  its short range (`HenceIsNow`). It needs that a history is a function of its days.

So every safety invariant that a passing run checks is a theorem, and so is every property of steps outside `LivePages`. Model-checked only: that announcements are said at all (`ClosesAreSaid`), that results
settle and tickets come back, everything about live pages, that a stop ends and trouble shows, and all liveness
(fairness and ENABLED are out of the prover's reach; `StepsDeliver` is the safety part of `Delivers`). `TypeOK` of `Accounts`, `Announcements`, `Bridge`, `Ingest` and `History` is proved;
that of the other modules is written for the reader, and no run spends a property on it. A module with instances is proved about where its
names have no parameters of their own: a page's boards are therefore named (`Latest`, `Then`) and not `Past(recent)!Compute`.

The proofs of `Standings_proofs` and `Site_proofs` take the prover some minutes each, the others less.

## 5. Findings

* A claim that commits between a submission's look-up and its hold strands the result
  (`ingest_claim_race`). Nothing files it later: the sender is claimed already, and the
  next post of the same puzzle is written without looking at it.
* A page reads its results first and the mark last, so that a result that lands in between is in the
  mark and not on the page, and nothing catches it up (`live_stale_page`).
* A link mailed to an address asked for earlier confirms the address asked for since, so that a mistyped second
  address becomes the account's without anybody having read mail there (`accounts_confirmation`).

### Seen while modelling, and not given a run

Announcements and bridge

* The week does not wait for a Sunday that nobody has filed yet, so that a Sunday first played on Monday is said after its week (`announce/weekly.go:129`);
  the month and its last week part in the same way.
* Days and weeks have a first-run rule and months do not, so that a fresh deployment opens with last month's result.
* A check begun seconds before midnight by a starting process can say a day after
  the week a fault delayed; `DayFirst` leaves out that one case, in which the clock was read on
  the day before.
* A worker orphaned by a panic may start an answer while shutdown waits for the answers (`bridge/run.go:137`), and what it holds is not drained.
* What was dropped is not shown while the bridge is reconnecting, though `health.go:81-84` says it outlives a success; `Status.OK` is read by no page; and a
  connection that is made again and again never reports that no frame came.
* The bot remembers its last answer before the send that may fail (`reply.go`).

Results, accounts and the service

* A request that checked the old password and writes after a new one was set is not looked at again: a change of address (`settings.go:373`, then `:377` and
  `users.go:224`) leaves an address waiting that its link later makes the account's, a sign-in (`auth_handlers.go:138`, `:168`) leaves a session, and a change of
  password (`settings.go:423`, `:442`) replaces the new password by its own. `email_handlers.go:304-311` calls a new password "the whole of what it takes to undo" an
  address somebody else asked for. `NothingOutlivesThePassword` leaves out what is written late in this way, and nothing else: without the exception TLC finds the race.
  A sign-in overtaken by the account's disabling leaves a session that lives again once it is enabled.
* A guess is counted against the limiter's budget also when no secret is enrolled (`totp_handlers.go:318-329`); the model's guesses are against a secret.
* `UnlinkIdentity` between a look-up and a write reaches the branch of `ingest.write`
  that says nothing does, and the submission fails instead of being held.
* A stop closes the database over whatever its deadlines left: the bridge's worker or an answer after `drainTimeout` (`run.go:130-136`, `:148`), every goroutine
  after a `Shutdown` that failed (`serve.go:368`), and the hub's poller, since `Shutdown` runs the hub's `Close` in a goroutine that it does not wait for, though
  `live.go:160-161` says the database can be closed after it. In `Service` that work is `draining` or `running` in a process that is closed; no property promises that there is none.
* A page over an empty board carries mark 0, which `handleEvents` takes for none: it is not caught up with the first result if
  another page's poller has seen it. A deletion or a move of results does not move the mark.
* `PromotePendingTOTPSecret` promotes the secret that waits, which another visit to the page may have replaced since the code was
  checked (`totp.go:22-24`).
* `OpenMigrated`, which every CLI command but the migrating ones opens with, checks that the tracking table is there and not what is in it.

Figures

* On the first day of a month, with nothing of it posted but tomorrow's puzzle, the month has no day and its first is tomorrow (`months.go:238-257`), so
  that `newRace` counts minus one day as over (`catchup.go:211-213`) and what-if divides by zero (`whatif.go:93`): the average of a player who has nothing yet
  comes out infinite or not a number, where the comment (`whatif.go:86`) has every concluded day a seven. `FirstDay` and `Scored` count as the code does, and
  `WhatIfComesTrue` says of that day that the divisor is zero.
* `ComputeMonths` and `ComputeWeek` filter by hard mode before they count missed days, so that a day played in
  ordinary mode is scored as missed (`months.go:80`), which the board takes care not to do (`docs/decisions.md:230`). The board's short range with
  hard mode judges eligibility on hard games only, unlike `stats.go:243`.
* `countMissed` counts today as missed once tomorrow's was posted before today's (`stats.go:343-360`); the arithmetic of catching up and of what-if ignores a result posted ahead.
  Players who have posted ahead are outside what `FormIsBaseline` and `RaceIsTheMonths` promise.
* Once somebody posts tomorrow's puzzle on the eve of a month, the first of the months is one nobody is in yet: the front page's standing
  disappears and the months page opens on it.
* `ComputeSeason` sorts more ranked months first (`months.go:441-446`), which its comment on titles does not say.
* The board's rank is a position and the month's shares ties (`answer.go:440`); pages' weekdays go Monday first among equals and the bot's Sunday first;
  the pages' rivals count days posted ahead and the bot's duel does not; a player's best month is a finished one on the page and may be the
  running one in an answer; Today's form counts missed days as sevens and the board's does not.
* A regular is called missing only past the whole form window, though `AbsentDays` is a week (`callouts.go:16`); the "unbroken" callout is not
  always the longest run held (`callouts.go:121-126`); the hardest puzzle may be one that is called easy.
* Sorting by average orders the unranked by the figure that is withheld from them, though `sort.go` says it sorts last; the line "level with" is said of a row that has no average (`board.go:599-611`).

## 6. Not modelled

* Rendering, templates, CSS, charts' geometry, i18n, configuration parsing, CLI output, the text of recaps
  and answers: formatting without state. The language model, the names in a question, tones, and the one question remembered for a
  follow-up are what an answer is worded from; which figures it tells is in `Answers` and `Records`.
* Parsing a share (`internal/wordle`): string matching. A day is its puzzle number in every module.
* The demo generator: random sample data. Its clearing is in `ResultStore`.
* Sweeps of rows that are dead already, a reader's language, API tokens and the rotation of the share link: rows written whole by one statement,
  which no other actor's decision reads.
* The habits (`habits.go`), which need hours of posting; two traits that compare a spread with the group's middle; the forecast's
  share of the race.
* Recoveries a model could add and no property asks for: the memory of sent posts in the bridge, and the order of frames inside an envelope.
