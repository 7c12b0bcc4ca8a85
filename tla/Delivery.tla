------------------------------ MODULE Delivery ------------------------------
(***************************************************************************)
(* What the bridge promises about the results it reads: each is filed, or  *)
(* is given up on, and not both; none disappears while the process is up;  *)
(* and none waits for ever.  signal-cli has acknowledged a message before  *)
(* the bridge reads it, so nobody sends it again.                          *)
(***************************************************************************)
EXTENDS Integers

CONSTANT Messages

VARIABLES
  up,       \* the process has not exited
  waiting,  \* results read and not settled
  filed,    \* results that reached the store
  lost      \* results given up on, or cut off by the exit

vars == <<up, waiting, filed, lost>>

Init == up = TRUE /\ waiting = {} /\ filed = {} /\ lost = {}

Read(m) ==
  /\ up /\ m \notin waiting \cup filed \cup lost
  /\ waiting' = waiting \cup {m}
  /\ UNCHANGED <<up, filed, lost>>

File(m) ==
  /\ m \in waiting
  /\ waiting' = waiting \ {m} /\ filed' = filed \cup {m}
  /\ UNCHANGED <<up, lost>>

GiveUp(m) ==
  /\ m \in waiting
  /\ waiting' = waiting \ {m} /\ lost' = lost \cup {m}
  /\ UNCHANGED <<up, filed>>

Settle(m) == File(m) \/ GiveUp(m)

\* The process exits, and what waits is lost with it.
Exit ==
  /\ up /\ up' = FALSE
  /\ waiting' = {} /\ lost' = lost \cup waiting
  /\ UNCHANGED filed

Next == Exit \/ \E m \in Messages : Read(m) \/ Settle(m)

Spec == Init /\ [][Next]_vars /\ \A m \in Messages : WF_vars(Settle(m))

=============================================================================
