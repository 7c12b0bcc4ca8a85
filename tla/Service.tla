------------------------------ MODULE Service ------------------------------
(***************************************************************************)
(* cmd/wordleland/serve.go: a process from its start to its exit, over the *)
(* database that the CLI uses beside it.                                   *)
(*                                                                         *)
(* A start migrates, creates the first administrator and the share link,   *)
(* each in a transaction that looks before it writes; then it starts its   *)
(* goroutines and listens.  Only one process is meant to migrate, and      *)
(* nothing but that intention keeps a second out: the model starts two.    *)
(* A stop waits for the requests, then for the goroutines of the wait      *)
(* group, and closes the database; each wait has a deadline, past which    *)
(* the work it was for goes on over a database that may be closed.         *)
(*                                                                         *)
(* Abstractions.  Migrations are numbered in filename order.  The marks of *)
(* a first start are in Announcements, what the goroutines do in Bridge.   *)
(* The bridge's health is that of the process that listens.  The hub,      *)
(* whose poller a stop does not wait for, is LivePages's.  Which share     *)
(* link there is, and its rotation, are left out.                          *)
(***************************************************************************)
EXTENDS Health

CONSTANTS
  Processes,  \* numbers of the processes that may run serve at once
  LastFile,   \* how many migrations there are
  MaxStarts,  \* bound: starts of a process
  Workers     \* what runs beside the listener: "bridge", "model", "scheduler", "janitor"

Files == 1..LastFile

ASSUME ProcessesAreNumbered == Processes \subseteq Nat
ASSUME FilesAreNumbered == LastFile \in Nat \ {0}
ASSUME MaxStartsIsNatural == MaxStarts \in Nat
ASSUME BridgeIsConfigured == {"bridge", "janitor"} \subseteq Workers

VARIABLES
  tracked,   \* schema_migrations exists
  recorded,  \* the migrations in it
  applied,   \* history: [Files -> how often the file's changes were committed]
  users,     \* there is an account
  slug,      \* there is a row of settings, with settings.share_slug
  minted,    \* history: links generated by a start
  bootstrapped,  \* history: administrators created by a start
  stage,     \* [Processes -> Stages]
  todo,      \* [Processes -> the migrations it found pending]
  running,   \* [Processes -> the goroutines of its wait group]
  requests,  \* [Processes -> BOOLEAN]: a request is still being handled in a stop
  draining,  \* [Processes -> what is left of a bridge whose reader has stopped]
  starts

diskVars == <<tracked, recorded, applied, users, slug, minted, bootstrapped>>
lifeVars   == <<stage, todo, running, requests, draining, starts>>
vars       == <<diskVars, lifeVars, healthVars>>

Stages == {"down", "opened", "migrating", "migrated", "administered", "ready",
           "serving", "stopping", "waiting", "closed"}

Init ==
  /\ HealthInit
  /\ tracked = FALSE /\ recorded = {} /\ applied = [f \in Files |-> 0]
  /\ users = FALSE /\ slug = FALSE /\ minted = 0 /\ bootstrapped = 0
  /\ stage = [p \in Processes |-> "down"] /\ todo = [p \in Processes |-> {}]
  /\ running = [p \in Processes |-> {}] /\ requests = [p \in Processes |-> FALSE]
  /\ draining = [p \in Processes |-> "nothing"]
  /\ starts = 0

At(p, s)    == stage[p] = s
Goto(p, s)  == stage' = [stage EXCEPT ![p] = s]
Serving     == \E p \in Processes : At(p, "serving")
Stopping(p) == stage[p] \in {"stopping", "waiting"}
ForgetHealth ==
  /\ connectedNow' = FALSE /\ since' = 0 /\ lastMessage' = Never
  /\ deliveryFailingSince' = Never /\ dropped' = 0 /\ verification' = "none" /\ attempts' = 0
  /\ UNCHANGED right

(***************************************************************************)
(* The start                                                               *)
(***************************************************************************)

\* A second process comes while the first is starting, or not at all.  A process
\* takes the lowest number that is free.
Start(p) ==
  /\ At(p, "down") /\ \A q \in Processes : q < p => ~At(q, "down")
  /\ ~(\E q \in Processes : At(q, "serving") \/ Stopping(q)) /\ starts < MaxStarts
  /\ Goto(p, "opened") /\ starts' = starts + 1
  /\ UNCHANGED <<diskVars, todo, running, requests, draining, healthVars>>

\* Migrate, up to the reading of what is pending.
FindPending(p) ==
  /\ At(p, "opened")
  /\ tracked' = TRUE
  /\ todo' = [todo EXCEPT ![p] = Files \ recorded]
  /\ Goto(p, "migrating")
  /\ UNCHANGED <<recorded, applied, users, slug, minted, bootstrapped, running, requests, draining, starts, healthVars>>

\* The next of those in filename order.
Pending(p) == CHOOSE f \in todo[p] : \A g \in todo[p] : f <= g

\* A bug: the record is not in the transaction of the change, and may be lost.
ApplyThenRecord(p) ==
  /\ At(p, "migrating") /\ todo[p] # {} /\ Pending(p) \notin recorded
  /\ applied' = [applied EXCEPT ![Pending(p)] = @ + 1]
  /\ (recorded' = recorded \cup {Pending(p)} \/ UNCHANGED recorded)
  /\ todo' = [todo EXCEPT ![p] = @ \ {Pending(p)}]
  /\ UNCHANGED <<tracked, users, slug, minted, bootstrapped, stage, running, requests, draining, starts, healthVars>>

\* One file, with its record, in a transaction.
Apply(p) ==
  /\ At(p, "migrating") /\ todo[p] # {} /\ Pending(p) \notin recorded
  /\ applied'  = [applied EXCEPT ![Pending(p)] = @ + 1]
  /\ recorded' = recorded \cup {Pending(p)}
  /\ todo' = [todo EXCEPT ![p] = @ \ {Pending(p)}]
  /\ UNCHANGED <<tracked, users, slug, minted, bootstrapped, stage, running, requests, draining, starts, healthVars>>

\* Somebody else applied it since: the record collides and the file is undone.
ApplyCollides(p) ==
  /\ At(p, "migrating") /\ todo[p] # {} /\ Pending(p) \in recorded
  /\ Goto(p, "closed")
  /\ UNCHANGED <<diskVars, todo, running, requests, draining, starts, healthVars>>

Migrated(p) ==
  /\ At(p, "migrating") /\ todo[p] = {}
  /\ Goto(p, "migrated")
  /\ UNCHANGED <<diskVars, todo, running, requests, draining, starts, healthVars>>

\* BootstrapAdmin, when the deployment asks for one.
Bootstrap(p) ==
  /\ At(p, "migrated")
  /\ users' = TRUE
  /\ bootstrapped' = bootstrapped + (IF users THEN 0 ELSE 1)
  /\ Goto(p, "administered")
  /\ UNCHANGED <<tracked, recorded, applied, slug, minted, todo, running, requests, draining, starts, healthVars>>

EnsureShareSlug(p) ==
  /\ At(p, "administered")
  /\ slug' = TRUE
  /\ minted' = minted + (IF slug THEN 0 ELSE 1)
  /\ Goto(p, "ready")
  /\ UNCHANGED <<tracked, recorded, applied, users, bootstrapped, todo, running, requests, draining, starts, healthVars>>

\* The goroutines are started, and then the port is taken.
Listen(p) ==
  /\ At(p, "ready") /\ ~Serving
  /\ Goto(p, "serving")
  /\ running' = [running EXCEPT ![p] = Workers]
  /\ ForgetHealth
  /\ UNCHANGED <<diskVars, todo, requests, draining, starts>>

\* The port is taken already: serve returns the error at once.
ListenFails(p) ==
  /\ At(p, "ready") /\ Serving
  /\ Goto(p, "closed")
  /\ running' = [running EXCEPT ![p] = Workers]
  /\ UNCHANGED <<diskVars, todo, requests, draining, starts, healthVars>>

(***************************************************************************)
(* While it serves                                                         *)
(***************************************************************************)

\* The Supervisor gives the bridge up, or the model is ready.
WorkerDone(p, w) ==
  /\ At(p, "serving") /\ w \in running[p] \ {"scheduler", "janitor"}
  /\ running' = [running EXCEPT ![p] = @ \ {w}]
  /\ IF w = "bridge" THEN connectedNow' = FALSE /\ since' = 0 ELSE UNCHANGED <<connectedNow, since>>
  /\ UNCHANGED <<diskVars, stage, todo, requests, draining, starts, lastMessage, fileVars, checkVars>>

BridgeRuns == \E p \in Processes : At(p, "serving") /\ "bridge" \in running[p]

HealthStep == BridgeRuns /\ (ReaderStep \/ WorkerStep) /\ UNCHANGED <<diskVars, lifeVars>>
\* The verifier runs until the stop, whatever becomes of the attempt that began it.
Verified   == Serving /\ Answered /\ UNCHANGED <<diskVars, lifeVars>>
Unverified == Serving /\ Unreachable /\ UNCHANGED <<diskVars, lifeVars>>
TimePasses == Serving /\ Tick /\ UNCHANGED <<diskVars, lifeVars>>
Configured == ConfigurationChanges /\ UNCHANGED <<diskVars, lifeVars>>

(***************************************************************************)
(* The stop                                                                *)
(***************************************************************************)

\* SIGTERM: the context of every goroutine is over, and no request is taken any more.
\* One that is being handled - a page, a post to the API - goes on; the live streams end.
Terminate(p) ==
  /\ At(p, "serving")
  /\ Goto(p, "stopping")
  /\ \E handling \in BOOLEAN : requests' = [requests EXCEPT ![p] = handling]
  /\ ForgetHealth
  /\ UNCHANGED <<diskVars, todo, running, draining, starts>>

Respond(p) ==
  /\ requests[p]
  /\ requests' = [requests EXCEPT ![p] = FALSE]
  /\ UNCHANGED <<diskVars, stage, todo, running, draining, starts, healthVars>>

\* A loop sees that its context is over; so does a Supervisor between two attempts.
WorkerReturns(p, w) ==
  /\ Stopping(p) /\ w \in running[p]
  /\ w = "bridge" => draining[p] = "nothing"
  /\ running' = [running EXCEPT ![p] = @ \ {w}]
  /\ UNCHANGED <<diskVars, stage, todo, requests, draining, starts, healthVars>>

\* The bridge's reader has stopped, and Run waits for its worker to empty the queue.
ReaderStops(p) ==
  /\ Stopping(p) /\ "bridge" \in running[p] /\ draining[p] = "nothing"
  /\ draining' = [draining EXCEPT ![p] = "worker"]
  /\ UNCHANGED <<diskVars, stage, todo, running, requests, starts, healthVars>>

\* The queue is empty.  The answers that are being worked out go on.
WorkerEnds(p) ==
  /\ draining[p] = "worker"
  /\ draining' = [draining EXCEPT ![p] = "answers"]
  /\ UNCHANGED <<diskVars, stage, todo, running, requests, starts, healthVars>>

\* The last answer is out, and Run returns if it has not.
AnswersEnd(p) ==
  /\ draining[p] = "answers"
  /\ draining' = [draining EXCEPT ![p] = "nothing"]
  /\ running' = [running EXCEPT ![p] = @ \ {"bridge"}]
  /\ UNCHANGED <<diskVars, stage, todo, requests, starts, healthVars>>

\* A bug: the deadline ends the first wait, and the second has none.
GiveUpOnce(p) ==
  /\ Stopping(p) /\ "bridge" \in running[p] /\ draining[p] = "worker"
  /\ draining' = [draining EXCEPT ![p] = "answers"]
  /\ UNCHANGED <<diskVars, stage, todo, running, requests, starts, healthVars>>

\* drainTimeout, one deadline for both waits: Run returns, and a worker or an answer
\* that it leaves goes on beside the rest of the stop.
GiveUpDraining(p) ==
  /\ Stopping(p) /\ "bridge" \in running[p] /\ draining[p] # "nothing"
  /\ running' = [running EXCEPT ![p] = @ \ {"bridge"}]
  /\ UNCHANGED <<diskVars, stage, todo, requests, draining, starts, healthVars>>

\* Shutdown returns once no request is left.
ShutdownReturns(p) ==
  /\ At(p, "stopping") /\ ~requests[p]
  /\ Goto(p, "waiting")
  /\ UNCHANGED <<diskVars, todo, running, requests, draining, starts, healthVars>>

\* Or when its ten seconds are over; serve returns the error.
ShutdownFails(p) ==
  /\ At(p, "stopping") /\ requests[p]
  /\ Goto(p, "closed")
  /\ UNCHANGED <<diskVars, todo, running, requests, draining, starts, healthVars>>

\* The wait group is empty; the deferred Close comes last.
Close(p) ==
  /\ At(p, "waiting") /\ running[p] = {}
  /\ Goto(p, "closed")
  /\ UNCHANGED <<diskVars, todo, running, requests, draining, starts, healthVars>>

\* The process is gone, after its exit or in a crash; what is committed stays.
Gone(p) ==
  /\ stage[p] # "down"
  /\ Goto(p, "down")
  /\ todo' = [todo EXCEPT ![p] = {}] /\ running' = [running EXCEPT ![p] = {}]
  /\ requests' = [requests EXCEPT ![p] = FALSE]
  /\ draining' = [draining EXCEPT ![p] = "nothing"]
  /\ IF At(p, "serving") THEN ForgetHealth ELSE UNCHANGED healthVars
  /\ UNCHANGED <<diskVars, starts>>

(***************************************************************************)
(* The CLI                                                                 *)
(***************************************************************************)

\* `user create'.  OpenMigrated asks whether the table of migrations is there and
\* no more, but the table of users comes with the first migration.
UserCreate ==
  /\ tracked /\ recorded # {}
  /\ users' = TRUE
  /\ UNCHANGED <<lifeVars, tracked, recorded, applied, slug, minted, bootstrapped, healthVars>>

Boot(p) ==
  \/ Start(p) \/ FindPending(p) \/ Apply(p) \/ ApplyCollides(p) \/ Migrated(p)
  \/ Bootstrap(p) \/ EnsureShareSlug(p) \/ Listen(p) \/ ListenFails(p)

\* What a stop goes on with by itself.
Stop(p) ==
  \/ ReaderStops(p) \/ GiveUpDraining(p) \/ \E w \in Workers : WorkerReturns(p, w)
  \/ ShutdownReturns(p) \/ ShutdownFails(p) \/ Close(p)

Next ==
  \/ \E p \in Processes :
       \/ Boot(p)
       \/ \E w \in Workers : WorkerDone(p, w)
       \/ Terminate(p) \/ Stop(p) \/ Respond(p) \/ WorkerEnds(p) \/ AnswersEnd(p) \/ Gone(p)
  \/ HealthStep \/ Verified \/ Unverified \/ TimePasses \/ Configured
  \/ UserCreate

Spec == Init /\ [][Next]_vars

\* Time passes, signal-cli answers one of the hourly questions now and then, and a stop
\* goes on: loops see that their context is over, and deadlines pass.  Nothing promises
\* that a request, a filing or an answer ends.
Fairness ==
  /\ WF_vars(TimePasses)
  /\ WF_vars(Verified)
  /\ WF_vars(\E p \in Processes : Stop(p))

FairSpec == Spec /\ Fairness

-----------------------------------------------------------------------------
(* Properties.                                                             *)

\* However starts crash, fail or meet, every migration's changes are committed
\* exactly when it is recorded, once, in order and with all of them before anything
\* else is done; and one administrator and one share link come of it.
StartsActOnce ==
  /\ \A f \in Files :
       /\ applied[f] = IF f \in recorded THEN 1 ELSE 0
       /\ f \in recorded => 1..f \subseteq recorded
  /\ \A p \in Processes :
       stage[p] \notin {"down", "opened", "migrating", "closed"} => recorded = Files
  /\ bootstrapped <= 1 /\ minted <= 1 /\ (slug <=> minted = 1)

\* A stop ends, whatever hangs in it - a request, a filing, an answer - since every wait
\* has a deadline, and the bridge's two waits one that is left for the second (run.go:123:
\* "a channel from time.After is consumed by the first select that takes it, and the
\* second would then wait for ever").  What was given up on may still be at work then.
StopEnds == \A p \in Processes : At(p, "stopping") ~> stage[p] \in {"closed", "down"}

\* What costs scores in silence comes to show: a connection that lasts and brings
\* nothing, an outage that lasts, and a configuration that is and stays wrong, however
\* late signal-cli can first be asked and however long it was right before (health.go:
\* "a bridge which connects and never receives anything reported healthy for ever").  A
\* connection that is made again and again restarts the clock of the silence before the
\* first frame, and is not promised anything.
TroubleShows ==
  /\ <>[](Serving /\ since # 0 /\ lastMessage # 0) => <>[]~OK
  /\ <>[](Serving /\ ~right) => <>[](verification = "bad")
=============================================================================
