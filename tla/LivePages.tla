----------------------------- MODULE LivePages -----------------------------
(***************************************************************************)
(* internal/web/live.go: open pages that hear of a new result and fetch    *)
(* themselves again.                                                       *)
(*                                                                         *)
(* The hub keeps the open streams and one poller, which runs while there   *)
(* are streams, reads the mark of the store and nudges every stream when   *)
(* it has moved.  A stream compares the hub's mark with the last one it    *)
(* sent.  A page carries the mark it was rendered at, and a stream opened  *)
(* late is caught up from it, or from the last event the page heard.       *)
(*                                                                         *)
(* Abstractions.  The id of a row of the activity log is the number of the *)
(* change it records; the mark is the number of the last change that filed *)
(* or changed a result.  Ticks and delays are steps that may come at any   *)
(* time.  A dropped connection is noticed at both ends at once, and the    *)
(* fetch an event brings on succeeds.  A read of the mark that fails       *)
(* changes nothing in the poller, and ends a stream as a drop does.        *)
(***************************************************************************)
EXTENDS Integers, FiniteSets

CONSTANTS
  Pages,       \* pages in browsers
  Limit,       \* liveHub.limit, 64 in the code
  MaxChanges   \* bound: how many changes the board sees

ASSUME LimitIsPositive == Limit \in Nat \ {0}
ASSUME ChangesAreCounted == MaxChanges \in Nat

Marks == 0..MaxChanges

VARIABLES
  board,     \* the number of the last change to the board
  mark,      \* LatestResultMark, 0 before the first result
  phase,     \* "up", "stopping" (http.Server.Shutdown runs) or "down" (the database is closed)
  subs,      \* liveHub.subs
  hubMark,   \* liveHub.mark
  poll,      \* the poller: "off", "waiting" for a tick, or "reading"
  pollMark,  \* what it has read, while it is reading
  closed,    \* liveHub.closed
  stream,    \* [Pages -> where the handler of the page's stream is]
  sent,      \* [Pages -> the last mark its stream sent]
  nudged,    \* pages whose stream has a nudge in its channel
  wire,      \* [Pages -> the event written and not delivered, or 0]
  page,      \* [Pages -> "unloaded", "rendering" or "open"]
  shown,     \* [Pages -> the change the page shows the board after]
  since,     \* [Pages -> the mark in the page's stream address]
  lastId,    \* [Pages -> the last event its stream brought, or 0]
  wanted     \* pages that have heard an event and will fetch

storeVars  == <<board, mark>>
hubVars    == <<subs, hubMark, poll, pollMark, closed>>
streamVars == <<stream, sent, nudged, wire>>
pageVars   == <<page, shown, since, lastId, wanted>>
vars == <<storeVars, phase, hubVars, streamVars, pageVars>>

Init ==
  /\ board = 0 /\ mark = 0 /\ phase = "up"
  /\ subs = {} /\ hubMark = 0 /\ poll = "off" /\ pollMark = 0 /\ closed = FALSE
  /\ stream = [p \in Pages |-> "none"] /\ sent = [p \in Pages |-> 0]
  /\ nudged = {} /\ wire = [p \in Pages |-> 0]
  /\ page = [p \in Pages |-> "unloaded"] /\ shown = [p \in Pages |-> 0]
  /\ since = [p \in Pages |-> 0] /\ lastId = [p \in Pages |-> 0]
  /\ wanted = {}

(***************************************************************************)
(* The board                                                               *)
(***************************************************************************)

\* A result is filed or changed.
File ==
  /\ board < MaxChanges
  /\ board' = board + 1 /\ mark' = board + 1
  /\ UNCHANGED <<phase, hubVars, streamVars, pageVars>>

\* A result is deleted, or moved with the identity that posted it.
Remove ==
  /\ mark > 0 /\ board < MaxChanges
  /\ board' = board + 1
  /\ UNCHANGED <<mark, phase, hubVars, streamVars, pageVars>>

(***************************************************************************)
(* The page                                                                *)
(***************************************************************************)

\* The page is asked for, and its results are read.
Load(p) ==
  /\ phase = "up" /\ page[p] # "rendering" /\ stream[p] = "none"
  /\ page' = [page EXCEPT ![p] = "rendering"]
  /\ shown' = [shown EXCEPT ![p] = board]
  /\ since' = [since EXCEPT ![p] = 0] /\ lastId' = [lastId EXCEPT ![p] = 0]
  /\ wanted' = wanted \ {p}
  /\ UNCHANGED <<storeVars, phase, hubVars, streamVars>>

\* liveViewFor, the last thing before the page is rendered.
Open(p) ==
  /\ page[p] = "rendering"
  /\ page' = [page EXCEPT ![p] = "open"]
  /\ since' = [since EXCEPT ![p] = mark]
  /\ UNCHANGED <<storeVars, phase, hubVars, streamVars, shown, lastId, wanted>>

\* An event arrives.
Hear(p) ==
  /\ wire[p] # 0
  /\ wire' = [wire EXCEPT ![p] = 0]
  /\ lastId' = [lastId EXCEPT ![p] = wire[p]]
  /\ wanted' = wanted \cup {p}
  /\ UNCHANGED <<storeVars, phase, hubVars, stream, sent, nudged, page, shown, since>>

\* The page is fetched again and its content swapped in; the address of its stream
\* stays.  An event heard while it is under way waits for the next fetch.
Fetch(p) ==
  /\ p \in wanted /\ phase = "up"
  /\ wanted' = wanted \ {p}
  /\ shown' = [shown EXCEPT ![p] = board]
  /\ UNCHANGED <<storeVars, phase, hubVars, streamVars, page, since, lastId>>

(***************************************************************************)
(* The stream                                                              *)
(***************************************************************************)

\* The browser asks for the stream: from the page's mark, or, when it connects
\* again by itself, from the last event it heard.
Connect(p) ==
  /\ phase = "up" /\ page[p] = "open" /\ stream[p] = "none"
  /\ \E from \in {since[p]} \cup ({lastId[p]} \ {0}) : sent' = [sent EXCEPT ![p] = from]
  /\ stream' = [stream EXCEPT ![p] = "requested"]
  /\ UNCHANGED <<storeVars, phase, hubVars, nudged, wire, pageVars>>

\* The stream is registered, and the poller started if it is not running.
Subscribe(p) ==
  /\ stream[p] = "requested"
  /\ ~closed /\ Cardinality(subs) < Limit
  /\ subs' = subs \cup {p}
  /\ poll' = IF poll = "off" THEN "waiting" ELSE poll
  /\ stream' = [stream EXCEPT ![p] = "subscribed"]
  /\ UNCHANGED <<storeVars, phase, hubMark, pollMark, closed, sent, nudged, wire, pageVars>>

Refuse(p) ==
  /\ stream[p] = "requested"
  /\ closed \/ Cardinality(subs) >= Limit
  /\ stream' = [stream EXCEPT ![p] = "none"] /\ sent' = [sent EXCEPT ![p] = 0]
  /\ UNCHANGED <<storeVars, phase, hubVars, nudged, wire, pageVars>>

\* An event, if it says something new.
Event(p, m) ==
  IF m > sent[p]
  THEN wire' = [wire EXCEPT ![p] = m] /\ sent' = [sent EXCEPT ![p] = m]
  ELSE UNCHANGED <<wire, sent>>

\* A bug: a stream only hears of what lands after it opened.
CatchUpNever(p) ==
  /\ stream[p] = "subscribed"
  /\ stream' = [stream EXCEPT ![p] = "streaming"]
  /\ UNCHANGED <<storeVars, phase, hubVars, sent, nudged, wire, pageVars>>

\* What landed before the stream opened is one event, now, unless the page was
\* rendered over an empty board.
CatchUp(p) ==
  /\ stream[p] = "subscribed"
  /\ stream' = [stream EXCEPT ![p] = "streaming"]
  /\ IF sent[p] > 0 THEN Event(p, mark) ELSE UNCHANGED <<wire, sent>>
  /\ UNCHANGED <<storeVars, phase, hubVars, nudged, pageVars>>

Nudge(p) ==
  /\ stream[p] = "streaming" /\ p \in nudged
  /\ nudged' = nudged \ {p}
  /\ Event(p, hubMark)
  /\ UNCHANGED <<storeVars, phase, hubVars, stream, pageVars>>

\* The handlers of the streams of P return, and what they wrote is lost.
End(P) ==
  /\ subs' = subs \ P /\ nudged' = nudged \ P
  /\ stream' = [p \in Pages |-> IF p \in P THEN "none" ELSE stream[p]]
  /\ sent' = [p \in Pages |-> IF p \in P THEN 0 ELSE sent[p]]
  /\ wire' = [p \in Pages |-> IF p \in P THEN 0 ELSE wire[p]]

\* The connection drops, a read of the mark fails, or the hub has closed.
Drop(p) ==
  /\ stream[p] # "none"
  /\ End({p})
  /\ UNCHANGED <<storeVars, phase, hubMark, poll, pollMark, closed, pageVars>>

(***************************************************************************)
(* The poller                                                              *)
(***************************************************************************)
Poll ==
  /\ poll = "waiting" /\ phase # "down"
  /\ poll' = "reading" /\ pollMark' = mark
  /\ UNCHANGED <<storeVars, phase, subs, hubMark, closed, streamVars, pageVars>>

\* A bug: the poller never stops.
ToldForEver ==
  /\ poll = "reading"
  /\ poll' = "waiting" /\ pollMark' = 0
  /\ hubMark' = pollMark
  /\ nudged' = IF pollMark # hubMark THEN nudged \cup subs ELSE nudged
  /\ UNCHANGED <<storeVars, phase, subs, closed, stream, sent, wire, pageVars>>

\* Nobody listens and it stops, or every stream is nudged if the mark has moved.
Told ==
  /\ poll = "reading" /\ pollMark' = 0
  /\ IF subs = {}
     THEN poll' = "off" /\ UNCHANGED <<hubMark, nudged>>
     ELSE /\ poll' = "waiting"
          /\ hubMark' = pollMark
          /\ nudged' = IF pollMark # hubMark THEN nudged \cup subs ELSE nudged
  /\ UNCHANGED <<storeVars, phase, subs, closed, stream, sent, wire, pageVars>>

\* A bug: a closed hub is looked at only when nobody listens.
PollEndsIdle ==
  /\ poll = "waiting" /\ closed /\ subs = {}
  /\ poll' = "off"
  /\ UNCHANGED <<storeVars, phase, subs, hubMark, pollMark, closed, streamVars, pageVars>>

\* It sees that the hub is closed, though a tick may be seen first.
PollEnds ==
  /\ poll = "waiting" /\ closed
  /\ poll' = "off"
  /\ UNCHANGED <<storeVars, phase, subs, hubMark, pollMark, closed, streamVars, pageVars>>

(***************************************************************************)
(* The server                                                              *)
(***************************************************************************)

\* SIGTERM: no new request is taken.
Shutdown ==
  /\ phase = "up" /\ phase' = "stopping"
  /\ UNCHANGED <<storeVars, hubVars, streamVars, pageVars>>

\* What RegisterOnShutdown registered, in a goroutine of its own.
Close ==
  /\ phase = "stopping" /\ ~closed
  /\ closed' = TRUE
  /\ UNCHANGED <<storeVars, phase, subs, hubMark, poll, pollMark, streamVars, pageVars>>

\* The last request is over: Shutdown returns, serve ends, the database is closed.
Down ==
  /\ phase = "stopping" /\ \A p \in Pages : stream[p] = "none" /\ page[p] # "rendering"
  /\ phase' = "down"
  /\ UNCHANGED <<storeVars, hubVars, streamVars, pageVars>>

\* A new process, after that one or after a crash.
Restart ==
  /\ phase' = "up" /\ hubMark' = 0 /\ poll' = "off" /\ pollMark' = 0 /\ closed' = FALSE
  /\ End(Pages) /\ \A p \in Pages : page[p] # "rendering"
  /\ UNCHANGED <<storeVars, pageVars>>

(***************************************************************************)
(* The specification                                                       *)
(***************************************************************************)
PageStep(p) == Load(p) \/ Open(p) \/ Hear(p) \/ Fetch(p)
StreamStep(p) == Connect(p) \/ Subscribe(p) \/ Refuse(p) \/ CatchUp(p) \/ Nudge(p) \/ Drop(p)
ServerStep == Poll \/ Told \/ PollEnds \/ Shutdown \/ Close \/ Down \/ Restart

Next ==
  \/ File \/ Remove \/ ServerStep
  \/ \E p \in Pages : PageStep(p) \/ StreamStep(p)

Spec == Init /\ [][Next]_vars

\* The poller runs, and of a closed hub and a tick the select sees each in the
\* end; the handlers run; the network delivers and answers what it does not drop.
Fairness ==
  /\ WF_vars(Poll) /\ WF_vars(Told) /\ SF_vars(PollEnds)
  /\ \A p \in Pages :
       /\ WF_vars(CatchUp(p)) /\ WF_vars(Nudge(p))
       /\ WF_vars(Hear(p)) /\ WF_vars(Fetch(p))

FairSpec == Spec /\ Fairness

(***************************************************************************)
(* Properties                                                              *)
(***************************************************************************)

\* Every part is one the code can be in: no more streams than the limit, and a
\* poller whenever somebody listens.
TypeOK ==
  /\ board \in Marks /\ mark \in 0..board
  /\ phase \in {"up", "stopping", "down"}
  /\ subs = {p \in Pages : stream[p] \in {"subscribed", "streaming"}}
  /\ Cardinality(subs) <= Limit
  /\ hubMark \in Marks /\ pollMark \in Marks /\ closed \in BOOLEAN
  /\ poll \in {"off", "waiting", "reading"} /\ (subs # {} /\ ~closed => poll # "off")
  /\ stream \in [Pages -> {"none", "requested", "subscribed", "streaming"}]
  /\ sent \in [Pages -> Marks] /\ wire \in [Pages -> Marks] /\ nudged \subseteq subs
  /\ page \in [Pages -> {"unloaded", "rendering", "open"}]
  /\ shown \in [Pages -> Marks] /\ since \in [Pages -> Marks] /\ lastId \in [Pages -> Marks]
  /\ wanted \subseteq Pages

\* The page listens, until its stream ends or the server stops.
Listening(p) == p \in subs /\ phase = "up"

\* A page that listens and was rendered before a result landed, or last heard of
\* one before it, comes to show it.
LateResultShown ==
  \A p \in Pages : \A m \in Marks :
    (Listening(p) /\ 0 < since[p] /\ since[p] < m /\ lastId[p] < m /\ mark = m)
      ~> (shown[p] >= m \/ ~Listening(p))

\* An idle server runs no query at all.
IdleStopsPolling == (subs = {} /\ phase = "up") ~> (poll = "off" \/ subs # {} \/ phase # "up")

\* Close returns, whoever still streams, and then no poller starts again in that
\* process.
CloseReturns ==
  /\ closed ~> (poll = "off" \/ phase = "down")
  /\ [][closed /\ closed' /\ poll = "off" => poll' = "off"]_vars

\* live.go: with the mark a page was rendered at, a stream "is caught up at once
\* when anything has landed in between", so that a page that listens comes to show
\* every result.
ResultShown ==
  \A p \in Pages : \A m \in Marks :
    (Listening(p) /\ 0 < since[p] /\ shown[p] < m /\ mark = m)
      ~> (shown[p] >= m \/ ~Listening(p))
=============================================================================
