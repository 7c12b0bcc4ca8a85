------------------------------- MODULE Bridge -------------------------------
(***************************************************************************)
(* internal/bridge: one reader, one worker per attempt, and the questions  *)
(* answered beside them.                                                   *)
(*                                                                         *)
(* The Supervisor runs the bridge, and runs it again after a panic of the  *)
(* reader.  Each attempt has a queue and a worker of its own; the worker   *)
(* of an attempt that panicked is not stopped, since only a Run that       *)
(* returns closes its queue.  The worker files results, retrying in place, *)
(* lets the announcer run after each, and hands questions to goroutines    *)
(* that answer one at a time.  Shutdown drains the queue and then waits    *)
(* for the answers, against one deadline.                                  *)
(*                                                                         *)
(* Abstractions.  Messages are numbered in the order signal-cli has them;  *)
(* one that arrives when nobody reads is dropped upstream, that is, passed *)
(* over.  What a message says is its kind: a live result, a question to    *)
(* the bot, or anything else, a back-dated result included.  Delays are    *)
(* steps that may come at any time.  The health counters and the           *)
(* verification are left out.                                              *)
(***************************************************************************)
EXTENDS Integers, Sequences, FiniteSets

CONSTANTS
  Count,        \* bound: how many messages there are
  MaxRuns,      \* bound: how many attempts the Supervisor makes
  QueueSize,    \* queueSize, 256 in the code
  MaxAttempts,  \* maxAttempts, 6
  MaxPanics,    \* maxPanics, 5
  MaxInHand,    \* maxQuestionsInHand, 3
  None          \* no message

Messages == 1..Count
Runs     == 1..MaxRuns
Kinds    == {"result", "question", "other"}

ASSUME LimitsArePositive ==
  {Count, MaxRuns, QueueSize, MaxAttempts, MaxPanics, MaxInHand} \subseteq Nat \ {0}
ASSUME NoneIsNoMessage == None \notin Messages

VARIABLES
  kind,       \* [Messages -> Kinds]
  phase,      \* where the Supervisor and Run are, see Phases
  run,        \* the attempt under way, or the last
  panics,     \* panics inside the window
  connected,  \* a websocket is open
  read,       \* the frame read and not handed over yet, or None
  seen,       \* the last message that was read
  queue,      \* [Runs -> Seq(Messages)]
  closed,     \* [Runs -> BOOLEAN]: Run has closed the attempt's queue
  work,       \* [Runs -> what the attempt's worker is at, or Idle]
  line,       \* questions that hold a ticket: asking
  answering,  \* the question that holds the mutex, or None
  presence,   \* questions whose presence is shown
  filed,      \* results that reached the store
  lost        \* results given up on, or cut off by the exit

readerVars == <<phase, run, panics, connected, read, seen>>
askVars    == <<line, answering, presence>>
vars == <<kind, readerVars, queue, closed, work, askVars, filed, lost>>

Phases == {"reading", "restarting", "draining", "waiting", "gaveUp", "exited"}
Idle   == [message |-> None, stage |-> "idle", tries |-> 0]

InHand(n)    == work[n].message
Filing(n)    == work[n].stage = "filing"
Queued(n)    == {queue[n][i] : i \in DOMAIN queue[n]}
IsResult(m)  == m # None /\ kind[m] = "result"

\* The results that attempt n has read and not settled, and those of them all.
Unsettled(n) ==
  {m \in Queued(n) : IsResult(m)}
    \cup {m \in {InHand(n)} : Filing(n)}
    \cup {m \in {read} : n = run /\ IsResult(m)}
Waiting == UNION {Unsettled(n) : n \in Runs}

Init ==
  /\ kind \in [Messages -> Kinds]
  /\ phase = "reading" /\ run = 1 /\ panics = 0
  /\ connected = FALSE /\ read = None /\ seen = 0
  /\ queue = [n \in Runs |-> <<>>] /\ closed = [n \in Runs |-> FALSE]
  /\ work = [n \in Runs |-> Idle]
  /\ line = {} /\ answering = None /\ presence = {}
  /\ filed = {} /\ lost = {}

(***************************************************************************)
(* The reader                                                              *)
(***************************************************************************)
Connect ==
  /\ phase = "reading" /\ ~connected
  /\ connected' = TRUE
  /\ UNCHANGED <<kind, phase, run, panics, read, seen, queue, closed, work, askVars, filed, lost>>

\* ReadMessage fails, which it can only do while it is reading.
Disconnect ==
  /\ phase = "reading" /\ connected /\ read = None
  /\ connected' = FALSE
  /\ UNCHANGED <<kind, phase, run, panics, read, seen, queue, closed, work, askVars, filed, lost>>

\* A group message; the ones passed over came when nobody was reading.
Receive(m) ==
  /\ phase = "reading" /\ connected /\ read = None
  /\ m > seen
  /\ read' = m /\ seen' = m
  /\ UNCHANGED <<kind, phase, run, panics, connected, queue, closed, work, askVars, filed, lost>>

\* out <- msg, which waits for room and holds up the reading meanwhile.
Enqueue ==
  /\ phase = "reading" /\ read # None
  /\ Len(queue[run]) < QueueSize
  /\ queue' = [queue EXCEPT ![run] = Append(@, read)]
  /\ read' = None
  /\ UNCHANGED <<kind, phase, run, panics, connected, seen, closed, work, askVars, filed, lost>>

\* What the reader had in hand goes with it.
LoseRead ==
  /\ read' = None /\ connected' = FALSE
  /\ lost' = lost \cup {m \in {read} : IsResult(m)}

(***************************************************************************)
(* The Supervisor                                                          *)
(***************************************************************************)

\* The reader panics.  Panics that have left the window are forgotten; the last
\* of too many inside it stops the bridge for good.
Panic ==
  /\ phase = "reading"
  /\ \E recent \in 0..panics : panics' = recent + 1
  /\ phase' = IF panics' >= MaxPanics THEN "gaveUp" ELSE "restarting"
  /\ LoseRead
  /\ UNCHANGED <<kind, run, seen, queue, closed, work, askVars, filed>>

\* A new attempt: a new queue and a new worker, beside the old ones.
Restart ==
  /\ phase = "restarting" /\ run < MaxRuns
  /\ phase' = "reading" /\ run' = run + 1
  /\ UNCHANGED <<kind, panics, connected, read, seen, queue, closed, work, askVars, filed, lost>>

\* The process ends: every goroutine with it.
Exit ==
  /\ phase' = "exited"
  /\ lost' = lost \cup Waiting
  /\ queue' = [n \in Runs |-> <<>>] /\ work' = [n \in Runs |-> Idle]
  /\ line' = {} /\ answering' = None /\ presence' = {}
  /\ read' = None /\ connected' = FALSE
  /\ UNCHANGED <<kind, run, panics, seen, closed, filed>>

\* SIGTERM: the reader returns and Run closes its queue.  Without a Run under
\* way the Supervisor returns at once.
Shutdown ==
  \/ /\ phase = "reading"
     /\ phase' = "draining"
     /\ closed' = [closed EXCEPT ![run] = TRUE]
     /\ LoseRead
     /\ UNCHANGED <<kind, run, panics, seen, queue, work, askVars, filed>>
  \/ phase \in {"restarting", "gaveUp"} /\ Exit

\* The attempt's worker has ended, and Run waits for the answers.
Drained ==
  /\ phase = "draining" /\ closed[run] /\ queue[run] = <<>> /\ work[run] = Idle
  /\ phase' = "waiting"
  /\ UNCHANGED <<kind, run, panics, connected, read, seen, queue, closed, work, askVars, filed, lost>>

\* filer.wait returns: no answer and no presence is left.
Answered == phase = "waiting" /\ line = {} /\ presence = {} /\ Exit

\* drainTimeout passes first, the web server's own shutdown fails, or the process
\* dies: nothing more is waited for.
CutOff == phase \in {"reading", "draining", "waiting"} /\ Exit

(***************************************************************************)
(* The workers                                                             *)
(***************************************************************************)
Rest(n) == work' = [work EXCEPT ![n] = Idle]

\* Anything but a result or a question is dropped as it is taken.
Take(n) ==
  /\ work[n] = Idle /\ queue[n] # <<>>
  /\ LET m == Head(queue[n]) IN
     work' = [work EXCEPT ![n] =
       CASE kind[m] = "result"   -> [message |-> m, stage |-> "filing", tries |-> 0]
         [] kind[m] = "question" -> [message |-> m, stage |-> "asking", tries |-> 0]
         [] kind[m] = "other"    -> Idle]
  /\ queue' = [queue EXCEPT ![n] = Tail(@)]
  /\ UNCHANGED <<kind, readerVars, closed, askVars, filed, lost>>

\* file is over, and the announcer has its turn.
Announce(n) == work' = [work EXCEPT ![n].stage = "announcing"]

\* Created, updated, held or ignored: the store has dealt with it.
File(n) ==
  /\ Filing(n)
  /\ filed' = filed \cup {InHand(n)}
  /\ Announce(n)
  /\ UNCHANGED <<kind, readerVars, queue, closed, askVars, lost>>

\* A bug: a result that failed goes to the back of the queue.
RetryBehind(n) ==
  /\ Filing(n) /\ work[n].tries + 1 < MaxAttempts
  /\ queue' = [queue EXCEPT ![n] = Append(@, InHand(n))]
  /\ Rest(n)
  /\ UNCHANGED <<kind, readerVars, closed, askVars, filed, lost>>

\* The write failed and is tried again, with everything behind it waiting.
Retry(n) ==
  /\ Filing(n) /\ work[n].tries + 1 < MaxAttempts
  /\ work' = [work EXCEPT ![n].tries = @ + 1]
  /\ UNCHANGED <<kind, readerVars, queue, closed, askVars, filed, lost>>

\* The last attempt failed, or ingest will never accept it.
Drop(n) ==
  /\ Filing(n)
  /\ lost' = lost \cup {InHand(n)}
  /\ Announce(n)
  /\ UNCHANGED <<kind, readerVars, queue, closed, askVars, filed>>

\* The announcer is done, within announceTimeout.
AnnounceEnds(n) ==
  /\ work[n].stage = "announcing"
  /\ Rest(n)
  /\ UNCHANGED <<kind, readerVars, queue, closed, askVars, filed, lost>>

\* A panic costs the message and not the worker.
HandlePanics(n) ==
  /\ work[n] # Idle
  /\ lost' = lost \cup {m \in {InHand(n)} : Filing(n)}
  /\ Rest(n)
  /\ UNCHANGED <<kind, readerVars, queue, closed, askVars, filed>>

\* A bug: the worker waits for its turn to answer.
AskWaits(n) ==
  /\ work[n].stage = "asking"
  /\ line = {}
  /\ line' = {InHand(n)}
  /\ Rest(n)
  /\ UNCHANGED <<kind, readerVars, queue, closed, answering, presence, filed, lost>>

\* A bug: there is always a ticket.
AskAlways(n) ==
  /\ work[n].stage = "asking"
  /\ line' = line \cup {InHand(n)}
  /\ Rest(n)
  /\ UNCHANGED <<kind, readerVars, queue, closed, answering, presence, filed, lost>>

\* A ticket if one is left; otherwise the question is dropped.
Ask(n) ==
  /\ work[n].stage = "asking"
  /\ line' = IF Cardinality(line) < MaxInHand THEN line \cup {InHand(n)} ELSE line
  /\ Rest(n)
  /\ UNCHANGED <<kind, readerVars, queue, closed, answering, presence, filed, lost>>

Deliver(n) == File(n) \/ Retry(n) \/ Drop(n)
Handle(n)  == Take(n) \/ Deliver(n) \/ AnnounceEnds(n) \/ Ask(n)

(***************************************************************************)
(* The answers                                                             *)
(***************************************************************************)

\* The question's turn, and its presence shown.
Begin(q) ==
  /\ q \in line /\ answering = None
  /\ answering' = q /\ presence' = presence \cup {q}
  /\ UNCHANGED <<kind, readerVars, queue, closed, work, line, filed, lost>>

\* It has waited longer than maxQuestionWait for its turn.
TooLate(q) ==
  /\ q \in line /\ answering = None
  /\ line' = line \ {q}
  /\ UNCHANGED <<kind, readerVars, queue, closed, work, answering, presence, filed, lost>>

\* A bug: an answer that fails keeps its ticket.
AnswerKeepsTicket(q) ==
  /\ answering = q
  /\ answering' = None
  /\ (line' = line \/ line' = line \ {q})
  /\ UNCHANGED <<kind, readerVars, queue, closed, work, presence, filed, lost>>

\* The answer is out, or failed, or timed out, or panicked: in every case the
\* mutex and the ticket come back.
Answer(q) ==
  /\ answering = q
  /\ answering' = None
  /\ line' = line \ {q}
  /\ UNCHANGED <<kind, readerVars, queue, closed, work, presence, filed, lost>>

\* The indicator is taken down, after the answer or at its own deadline.
PresenceEnds(q) ==
  /\ q \in presence
  /\ presence' = presence \ {q}
  /\ UNCHANGED <<kind, readerVars, queue, closed, work, line, answering, filed, lost>>

AnswerStep(q) == Begin(q) \/ TooLate(q) \/ Answer(q) \/ PresenceEnds(q)

(***************************************************************************)
(* The specification                                                       *)
(***************************************************************************)
Next ==
  \/ Connect \/ Disconnect \/ Enqueue \/ \E m \in Messages : Receive(m)
  \/ Panic \/ Restart \/ Shutdown \/ Drained \/ Answered \/ CutOff
  \/ \E n \in Runs : Handle(n) \/ HandlePanics(n)
  \/ \E q \in Messages : AnswerStep(q)

Spec == Init /\ [][Next]_vars

\* The workers run, and a reader with room to hand over does.  A write returns,
\* since the store's busy timeout bounds it, and so does the announcer.  Nothing
\* is assumed of the model that answers.
Fairness == WF_vars(Enqueue) /\ \A n \in Runs : WF_vars(Handle(n))

FairSpec == Spec /\ Fairness

(***************************************************************************)
(* Properties                                                              *)
(***************************************************************************)

\* Every part is one the code can be in: no more tickets than there are, no
\* longer a queue than it has room, no more tries than are made.
TypeOK ==
  /\ kind \in [Messages -> Kinds]
  /\ phase \in Phases /\ run \in Runs /\ panics \in 0..MaxPanics
  /\ connected \in BOOLEAN /\ read \in Messages \cup {None} /\ seen \in 0..Count
  /\ queue \in [Runs -> Seq(Messages)] /\ \A n \in Runs : Len(queue[n]) <= QueueSize
  /\ closed \in [Runs -> BOOLEAN]
  /\ work \in [Runs -> [message : Messages \cup {None}, tries : 0..(MaxAttempts - 1),
                        stage : {"idle", "filing", "announcing", "asking"}]]
  /\ line \subseteq Messages /\ Cardinality(line) <= MaxInHand
  /\ answering \in line \cup {None} /\ presence \subseteq Messages
  /\ filed \subseteq Messages /\ lost \subseteq Messages

\* Results are filed in the order they were posted, retries included, so that a
\* correction is not overwritten by what it corrects.  One that an attempt left
\* behind when it panicked may be overtaken by a later attempt's.
NoOvertaking ==
  [][\A n \in Runs : (Filing(n) /\ InHand(n) \in filed' \ filed) =>
       \A k \in Runs : \A m \in Unsettled(k) : m < InHand(n) => k < n]_vars

\* The bridge keeps the promise of Delivery, however long the model takes to
\* answer a question: a result waits behind no answer.
D == INSTANCE Delivery WITH up <- phase # "exited", waiting <- Waiting
Delivers == D!Spec

\* If answers end, a ticket comes back, whether the question was answered, failed,
\* panicked or waited too long.
TicketsComeBack ==
  (\A q \in Messages : WF_vars(AnswerStep(q))) => \A q \in Messages : (q \in line) ~> (q \notin line)

=============================================================================
