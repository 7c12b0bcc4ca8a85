------------------------------- MODULE Health -------------------------------
(***************************************************************************)
(* internal/bridge/health.go, the verification of run.go and verify.go,    *)
(* and what the admin's diagnostics make of them.                          *)
(*                                                                         *)
(* The record lives in memory, under a lock of its own: the reader tells   *)
(* it of connections and frames, the worker of what it filed, and the      *)
(* verifier what signal-cli confirms.  It starts empty with the process.   *)
(*                                                                         *)
(* Abstractions.  The code keeps times and compares now with them, so a    *)
(* time is kept as how long ago it is, and stops growing past every limit. *)
(* What is lost is counted up to one.  How a result is retried is Bridge's. *)
(***************************************************************************)
EXTENDS Naturals

CONSTANTS
  MaxDisconnected,        \* 5 minutes in the code
  MaxSilence,             \* 36 hours
  MaxSilenceBeforeFirst,  \* 6 hours
  MaxDeliveryFailure,     \* 2 minutes
  MaxVerifyAttempts,      \* 8
  Never                   \* a zero time

Limits == {MaxDisconnected, MaxSilence, MaxSilenceBeforeFirst, MaxDeliveryFailure}

ASSUME LimitsArePositive == Limits \subseteq Nat \ {0}
ASSUME NeverIsNoTime     == Never \notin Nat
ASSUME AttemptsAreMade   == MaxVerifyAttempts \in Nat \ {0}

Longest == CHOOSE n \in {l + 1 : l \in Limits} : \A l \in Limits : l < n
Ages    == 0..Longest

VARIABLES
  connectedNow,          \* a websocket is open
  since,                 \* age of the current connected or disconnected state
  lastMessage,           \* age of the last frame, or Never
  deliveryFailingSince,  \* age of the run of failures, or Never
  dropped,               \* results given up on since the last that landed
  verification,          \* what signal-cli confirmed: "none", "good" or "bad"
  attempts,              \* quick attempts of the verifier, which are over at the maximum
  right                  \* what signal-cli would say of the configuration

healthVars ==
  <<connectedNow, since, lastMessage, deliveryFailingSince, dropped, verification, attempts, right>>
linkVars  == <<connectedNow, since, lastMessage>>
fileVars  == <<deliveryFailingSince, dropped>>
checkVars == <<verification, attempts, right>>

\* newHealth, and the bridge that has done nothing yet.
Empty ==
  /\ connectedNow = FALSE /\ since = 0 /\ lastMessage = Never
  /\ deliveryFailingSince = Never /\ dropped = 0
  /\ verification = "none" /\ attempts = 0

HealthInit == Empty /\ right \in BOOLEAN

(***************************************************************************)
(* The reader                                                              *)
(***************************************************************************)
Connected ==
  /\ ~connectedNow
  /\ connectedNow' = TRUE /\ since' = 0
  /\ UNCHANGED <<lastMessage, fileVars, checkVars>>

Disconnected ==
  /\ connectedNow
  /\ connectedNow' = FALSE /\ since' = 0
  /\ UNCHANGED <<lastMessage, fileVars, checkVars>>

\* A frame of any kind.
Received ==
  /\ connectedNow
  /\ lastMessage' = 0
  /\ UNCHANGED <<connectedNow, since, fileVars, checkVars>>

(***************************************************************************)
(* The worker                                                              *)
(***************************************************************************)
\* Filed, held or ignored.
DeliverySucceeded ==
  /\ deliveryFailingSince' = Never /\ dropped' = 0
  /\ UNCHANGED <<linkVars, checkVars>>

\* Only the first failure of a run sets the clock.
DeliveryFailed ==
  /\ deliveryFailingSince' = IF deliveryFailingSince = Never THEN 0 ELSE deliveryFailingSince
  /\ UNCHANGED <<linkVars, dropped, checkVars>>

\* The last attempt has failed, or ingest will never accept it.
DeliveryDropped ==
  /\ dropped' = 1
  /\ UNCHANGED <<linkVars, deliveryFailingSince, checkVars>>

(***************************************************************************)
(* The verifier                                                            *)
(***************************************************************************)

\* A quick attempt that signal-cli does not answer; the last hands over to the hourly
\* question, of which one without an answer changes nothing.
Unreachable ==
  /\ attempts < MaxVerifyAttempts
  /\ attempts' = attempts + 1
  /\ UNCHANGED <<linkVars, fileVars, verification, right>>

\* A bug: once the quick attempts are over nothing is asked any more.
AnsweredQuickly ==
  /\ attempts < MaxVerifyAttempts
  /\ verification' = IF right THEN "good" ELSE "bad"
  /\ attempts' = MaxVerifyAttempts
  /\ UNCHANGED <<linkVars, fileVars, right>>

\* An answer ends the quick attempts; the hourly question never ends.
Answered ==
  /\ verification' = IF right THEN "good" ELSE "bad"
  /\ attempts' = MaxVerifyAttempts
  /\ UNCHANGED <<linkVars, fileVars, right>>

\* The account is unregistered, or removed from the group, or put back.
ConfigurationChanges ==
  /\ right' = ~right
  /\ UNCHANGED <<linkVars, fileVars, verification, attempts>>

(***************************************************************************)
(* Time                                                                    *)
(***************************************************************************)
Older(age) == IF age = Never \/ age = Longest THEN age ELSE age + 1

Tick ==
  /\ since' = Older(since)
  /\ lastMessage' = Older(lastMessage)
  /\ deliveryFailingSince' = Older(deliveryFailingSince)
  /\ UNCHANGED <<connectedNow, dropped, checkVars>>

ReaderStep == Connected \/ Disconnected \/ Received
WorkerStep == DeliverySucceeded \/ DeliveryFailed \/ DeliveryDropped

(***************************************************************************)
(* What a reader is told                                                   *)
(***************************************************************************)

\* A bug, once the code's: before the first message silence is not asked about.
QuietAfterFirst == lastMessage # Never /\ lastMessage > MaxSilence

\* Silence is measured from the last frame, or from the connection before one.
Quiet ==
  IF lastMessage = Never THEN since > MaxSilenceBeforeFirst ELSE lastMessage > MaxSilence

CannotFile ==
  \/ dropped > 0
  \/ deliveryFailingSince # Never /\ deliveryFailingSince > MaxDeliveryFailure

\* status: nothing but the outage is asked about while there is no connection.
OK == IF connectedNow THEN ~CannotFile /\ ~Quiet ELSE since <= MaxDisconnected

=============================================================================
