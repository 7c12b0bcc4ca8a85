---------------------------- MODULE Bridge_proofs ----------------------------
(* The bridge keeps the promise of Delivery, and files in the order things
   were posted: for any messages, limits and attempts.                      *)
EXTENDS Bridge, FiniteSetTheorems, TLAPS

-----------------------------------------------------------------------------
(* The inductive invariant.                                                *)

\* What attempt n has read and not got to the end of.
Held(n) == Queued(n) \cup {m \in {InHand(n)} : Filing(n)}

\* A worker at rest holds nothing, and one at work a message; too many panics
\* and the bridge has given up.
Sound ==
  /\ \A n \in Runs : work[n] = Idle \/ (work[n].stage # "idle" /\ InHand(n) \in Messages)
  /\ phase \notin {"gaveUp", "exited"} => panics < MaxPanics

\* An attempt goes through what it read in the order it was read.
InOrder ==
  /\ \A n \in Runs : \A i, j \in DOMAIN queue[n] : i < j => queue[n][i] < queue[n][j]
  /\ \A n \in Runs : Filing(n) => \A m \in Queued(n) : InHand(n) < m

\* What is read comes after all that was, and a later attempt reads what
\* comes later.
Ahead ==
  /\ \A n \in Runs : \A m \in Held(n) : m <= seen /\ (read # None => m < read)
  /\ read # None => read = seen
  /\ \A n, k \in Runs : n < k => \A m \in Held(n) : \A l \in Held(k) : m < l
  /\ \A n \in Runs : n > run => queue[n] = <<>> /\ work[n] = Idle
  /\ \A m \in filed \cup lost : m <= seen

\* What a worker can be at.
Works == [message : Messages \cup {None}, tries : 0..(MaxAttempts - 1),
          stage : {"idle", "filing", "announcing", "asking"}]

BInv == TypeOK /\ Sound /\ InOrder /\ Ahead

-----------------------------------------------------------------------------
(* Queues.                                                                 *)

LEMMA LimitsAre ==
  /\ Count \in Nat /\ MaxRuns \in Nat /\ QueueSize \in Nat /\ MaxAttempts \in Nat
  /\ MaxPanics \in Nat /\ MaxInHand \in Nat
  /\ Count >= 1 /\ MaxRuns >= 1 /\ QueueSize >= 1 /\ MaxAttempts >= 1 /\ MaxPanics >= 1 /\ MaxInHand >= 1
BY LimitsArePositive

LEMMA SomeAreFinite ==
  ASSUME NEW S, S \subseteq Messages
  PROVE  IsFiniteSet(S) /\ Cardinality(S) \in Nat
<1>1. IsFiniteSet(Messages)
  BY FS_Interval, LimitsAre DEF Messages
<1> QED BY <1>1, FS_Subset, FS_CardinalityType

\* One more at the back.
LEMMA Behind ==
  ASSUME NEW s \in Seq(Messages), NEW m \in Messages
  PROVE  /\ Append(s, m) \in Seq(Messages) /\ Len(Append(s, m)) = Len(s) + 1
         /\ DOMAIN Append(s, m) = 1..(Len(s) + 1) /\ DOMAIN s = 1..Len(s)
         /\ Append(s, m)[Len(s) + 1] = m
         /\ \A i \in 1..Len(s) : Append(s, m)[i] = s[i]
OBVIOUS

\* One less at the front.
LEMMA Front ==
  ASSUME NEW s \in Seq(Messages), s # <<>>
  PROVE  /\ Head(s) \in Messages /\ Tail(s) \in Seq(Messages) /\ Len(s) \in Nat /\ Len(s) >= 1
         /\ Len(Tail(s)) = Len(s) - 1
         /\ DOMAIN s = 1..Len(s) /\ DOMAIN Tail(s) = 1..(Len(s) - 1)
         /\ Head(s) = s[1]
         /\ \A i \in 1..(Len(s) - 1) : Tail(s)[i] = s[i + 1]
OBVIOUS

-----------------------------------------------------------------------------
(* What is typed.                                                          *)

LEMMA InitTyped == Init => BInv
<1> SUFFICES ASSUME Init PROVE BInv
  OBVIOUS
<1>1. Cardinality({}) = 0
  BY FS_EmptySet
<1>2. TypeOK
  <2>1. Idle \in Works
    BY LimitsAre DEF Works, Idle
  <2>2. run \in Runs /\ panics \in 0..MaxPanics /\ seen \in 0..Count
    BY LimitsAre DEF Init, Runs
  <2>3. queue \in [Runs -> Seq(Messages)] /\ \A n \in Runs : Len(queue[n]) <= QueueSize
    BY LimitsAre DEF Init
  <2>4. work \in [Runs -> Works]
    BY <2>1 DEF Init
  <2>5. Cardinality(line) <= MaxInHand
    BY <1>1, LimitsAre DEF Init
  <2>6. phase \in Phases
    BY DEF Init, Phases
  <2>7. closed \in [Runs -> BOOLEAN]
    BY DEF Init
  <2> QED BY <2>2, <2>3, <2>4, <2>5, <2>6, <2>7 DEF Init, TypeOK, Works
<1>3. Sound
  BY LimitsAre DEF Init, Sound
<1>4. \A n \in Runs : Queued(n) = {} /\ ~Filing(n)
  BY DEF Init, Queued, Filing, Idle
<1>5. InOrder
  BY <1>4 DEF Init, InOrder
<1>6. Ahead
  BY <1>4 DEF Init, Ahead, Held
<1> QED BY <1>2, <1>3, <1>5, <1>6 DEF BInv

LEMMA ReaderTyped ==
  ASSUME BInv, Connect \/ Disconnect \/ (\E m \in Messages : Receive(m)) \/ Restart \/ Drained
  PROVE  TypeOK' /\ Sound'
<1>1. CASE Connect \/ Disconnect
  BY <1>1 DEF BInv, TypeOK, Sound, Connect, Disconnect, readerVars, askVars, InHand
<1>2. CASE \E m \in Messages : Receive(m)
  BY <1>2, LimitsAre DEF BInv, TypeOK, Sound, Receive, askVars, InHand, Messages
<1>3. CASE Restart
  BY <1>3, LimitsAre DEF BInv, TypeOK, Sound, Restart, askVars, InHand, Phases, Runs
<1>4. CASE Drained
  BY <1>4 DEF BInv, TypeOK, Sound, Drained, askVars, InHand, Phases
<1> QED BY <1>1, <1>2, <1>3, <1>4

LEMMA EnqueueTyped ==
  ASSUME BInv, Enqueue
  PROVE  TypeOK' /\ Sound'
<1>1. read \in Messages /\ run \in Runs /\ queue[run] \in Seq(Messages) /\ Len(queue[run]) \in Nat
  BY DEF BInv, TypeOK, Enqueue
<1>2. /\ Append(queue[run], read) \in Seq(Messages)
      /\ Len(Append(queue[run], read)) <= QueueSize
  BY <1>1, Behind, LimitsAre DEF Enqueue
<1>3. queue' \in [Runs -> Seq(Messages)] /\ \A n \in Runs : Len(queue'[n]) <= QueueSize
  BY <1>1, <1>2 DEF BInv, TypeOK, Enqueue
<1> QED
  BY <1>3 DEF BInv, TypeOK, Sound, Enqueue, askVars, InHand

LEMMA SupervisorTyped ==
  ASSUME BInv, Panic \/ Shutdown \/ Answered \/ CutOff
  PROVE  TypeOK' /\ Sound'
<1>1. Waiting \subseteq Messages
  BY DEF BInv, TypeOK, Sound, Waiting, Unsettled, Queued, Filing, InHand, IsResult, Idle
<1>2. CASE Panic
  <2>1. panics < MaxPanics /\ panics \in Nat
    BY <1>2 DEF BInv, TypeOK, Sound, Panic
  <2>2. panics' \in 0..MaxPanics /\ (phase' \notin {"gaveUp", "exited"} => panics' < MaxPanics)
    BY <1>2, <2>1, LimitsAre DEF Panic
  <2>3. phase' \in Phases
    BY <1>2 DEF Panic, Phases
  <2> QED
    BY <1>2, <2>2, <2>3 DEF BInv, TypeOK, Sound, Panic, LoseRead, askVars, InHand, IsResult
<1>3. CASE phase = "reading" /\ phase' = "draining" /\ closed' = [closed EXCEPT ![run] = TRUE] /\ LoseRead
           /\ UNCHANGED <<kind, run, panics, seen, queue, work, askVars, filed>>
  BY <1>3 DEF BInv, TypeOK, Sound, LoseRead, askVars, InHand, IsResult, Phases
<1>4. CASE Exit
  <2>1. Idle \in Works /\ Cardinality({}) = 0
    BY LimitsAre, FS_EmptySet DEF Works, Idle
  <2>2. \A n \in Runs : Len(queue'[n]) <= QueueSize
    BY <1>4, LimitsAre DEF Exit
  <2>3. work' \in [Runs -> Works] /\ \A n \in Runs : work'[n] = Idle
    BY <1>4, <2>1 DEF Exit
  <2>4. queue' \in [Runs -> Seq(Messages)]
    BY <1>4 DEF Exit
  <2>5. Cardinality(line') <= MaxInHand /\ phase' \in Phases /\ phase' = "exited"
    BY <1>4, <2>1, LimitsAre DEF Exit, Phases
  <2>6. lost' \subseteq Messages
    BY <1>1, <1>4 DEF Exit, BInv, TypeOK
  <2>7. TypeOK'
    BY <1>4, <2>2, <2>3, <2>4, <2>5, <2>6 DEF BInv, TypeOK, Exit, Works
  <2> QED
    BY <2>3, <2>5, <2>7 DEF Sound
<1> QED
  BY <1>2, <1>3, <1>4 DEF Shutdown, Answered, CutOff

LEMMA TakeTyped ==
  ASSUME BInv, NEW n \in Runs, Take(n)
  PROVE  TypeOK' /\ Sound'
<1> DEFINE m == Head(queue[n])
<1>1. queue[n] \in Seq(Messages) /\ queue[n] # <<>> /\ Len(queue[n]) <= QueueSize
  BY DEF BInv, TypeOK, Take
<1>2. m \in Messages /\ Tail(queue[n]) \in Seq(Messages) /\ Len(Tail(queue[n])) <= QueueSize
  BY <1>1, Front, LimitsAre
<1>3. PICK w \in Works : work' = [work EXCEPT ![n] = w] /\ (w = Idle \/ (w.stage # "idle" /\ w.message = m))
  <2>1. kind[m] \in Kinds
    BY <1>2 DEF BInv, TypeOK
  <2>2. 0 \in 0..(MaxAttempts - 1)
    BY LimitsAre
  <2> DEFINE at(s) == [message |-> m, stage |-> s, tries |-> 0]
  <2>3. at("filing") \in Works /\ at("asking") \in Works /\ Idle \in Works
    BY <1>2, <2>2 DEF Works, Idle
  <2>4. CASE kind[m] = "result"
    BY <2>3, <2>4 DEF Take
  <2>5. CASE kind[m] = "question"
    BY <2>3, <2>5 DEF Take
  <2>6. CASE kind[m] = "other"
    BY <2>3, <2>6 DEF Take
  <2> QED BY <2>1, <2>4, <2>5, <2>6 DEF Kinds
<1>4. queue' \in [Runs -> Seq(Messages)] /\ \A k \in Runs : Len(queue'[k]) <= QueueSize
  BY <1>2 DEF BInv, TypeOK, Take
<1>5. work' \in [Runs -> Works]
  BY <1>3 DEF BInv, TypeOK, Works
<1> HIDE DEF m
<1>6. TypeOK'
  BY <1>2, <1>4, <1>5 DEF BInv, TypeOK, Take, Works, askVars, readerVars
<1>7. Sound'
  BY <1>2, <1>3 DEF BInv, TypeOK, Sound, Take, Works, readerVars, InHand
<1> QED BY <1>6, <1>7

LEMMA WorkerTyped ==
  ASSUME BInv, NEW n \in Runs, Deliver(n) \/ AnnounceEnds(n) \/ HandlePanics(n) \/ Ask(n)
  PROVE  TypeOK' /\ Sound'
<1>1. work \in [Runs -> Works] /\ Idle \in Works
  BY LimitsAre DEF BInv, TypeOK, Works, Idle
<1>2. CASE File(n) \/ Drop(n)
  <2>1. work[n].stage # "idle" /\ InHand(n) \in Messages
    BY <1>2 DEF BInv, Sound, File, Drop, Filing, Idle
  <2>2. work' \in [Runs -> Works] /\ work'[n].stage = "announcing" /\ work'[n].message = work[n].message
    BY <1>1, <1>2 DEF File, Drop, Announce, Works
  <2> QED
    BY <1>1, <1>2, <2>1, <2>2 DEF BInv, TypeOK, Sound, File, Drop, Announce, Works, askVars, readerVars, InHand
<1>3. CASE Retry(n)
  <2>1. work[n].stage # "idle" /\ InHand(n) \in Messages /\ work[n].tries \in Nat
    BY <1>1, <1>3 DEF BInv, Sound, Retry, Filing, Idle, Works
  <2>2. work[n].tries + 1 \in 0..(MaxAttempts - 1)
    BY <1>3, <2>1, LimitsAre DEF Retry
  <2>3. work' \in [Runs -> Works] /\ work'[n].stage = work[n].stage /\ work'[n].message = work[n].message
    BY <1>1, <1>3, <2>2 DEF Retry, Works
  <2> QED
    BY <1>1, <1>3, <2>1, <2>3 DEF BInv, TypeOK, Sound, Retry, Works, askVars, readerVars, InHand
<1>4. CASE Rest(n) /\ UNCHANGED <<kind, readerVars, queue, closed, answering, presence, filed>>
           /\ lost' \subseteq Messages /\ line' \subseteq Messages /\ Cardinality(line') <= MaxInHand
           /\ answering \in line' \cup {None}
  BY <1>1, <1>4 DEF BInv, TypeOK, Sound, Rest, Works, readerVars, InHand
<1>5. CASE AnnounceEnds(n) \/ HandlePanics(n)
  <2>1. {m \in {InHand(n)} : Filing(n)} \subseteq Messages
    BY DEF BInv, Sound, Filing, Idle
  <2> QED BY <1>4, <1>5, <2>1 DEF BInv, TypeOK, AnnounceEnds, HandlePanics, askVars
<1>6. CASE Ask(n)
  <2>1. InHand(n) \in Messages
    BY <1>6 DEF BInv, Sound, Ask, Idle
  <2>2. IsFiniteSet(line) /\ Cardinality(line) \in Nat
    BY SomeAreFinite DEF BInv, TypeOK
  <2>3. Cardinality(line) < MaxInHand => Cardinality(line \cup {InHand(n)}) <= MaxInHand
    BY <2>2, FS_AddElement, LimitsAre
  <2> QED BY <1>4, <1>6, <2>1, <2>3 DEF BInv, TypeOK, Ask
<1> QED
  BY <1>2, <1>3, <1>5, <1>6 DEF Deliver

LEMMA AnswerTyped ==
  ASSUME BInv, NEW q \in Messages, AnswerStep(q)
  PROVE  TypeOK' /\ Sound'
<1>1. Cardinality(line) \in Nat /\ Cardinality(line \ {q}) <= Cardinality(line) /\ Cardinality(line \ {q}) \in Nat
  <2>1. line \subseteq Messages /\ line \ {q} \subseteq line /\ line \ {q} \subseteq Messages
    BY DEF BInv, TypeOK
  <2>2. IsFiniteSet(line) /\ Cardinality(line) \in Nat /\ Cardinality(line \ {q}) \in Nat
    BY <2>1, SomeAreFinite
  <2> QED BY <2>1, <2>2, FS_Subset
<1>2. Cardinality(line \ {q}) <= MaxInHand
  BY <1>1, LimitsAre DEF BInv, TypeOK
<1> QED
  BY <1>2 DEF BInv, TypeOK, Sound, AnswerStep, Begin, TooLate, Answer, PresenceEnds, readerVars, InHand

-----------------------------------------------------------------------------
(* What is in order.                                                       *)

\* A message has a number, and is in one place.
LEMMA Numbers ==
  ASSUME BInv
  PROVE  /\ Messages \subseteq Int /\ seen \in Int /\ run \in Int /\ Runs \subseteq Int
         /\ \A n \in Runs : Queued(n) \subseteq Messages /\ Held(n) \subseteq Messages
         /\ \A n \in Runs : Filing(n) => InHand(n) \in Held(n) /\ InHand(n) # None
<1>1. \A n \in Runs : Queued(n) \subseteq Messages
  BY DEF BInv, TypeOK, Queued
<1>2. \A n \in Runs : Filing(n) => InHand(n) \in Messages
  BY DEF BInv, Sound, Filing, Idle
<1>3. Messages \subseteq Int /\ seen \in Int /\ run \in Int /\ Runs \subseteq Int
  BY LimitsAre DEF BInv, TypeOK, Messages, Runs
<1> QED BY <1>1, <1>2, <1>3, NoneIsNoMessage DEF Held

LEMMA Unique ==
  ASSUME BInv, NEW n \in Runs, Filing(n)
  PROVE  /\ \A k \in Runs : InHand(n) \notin Queued(k)
         /\ \A k \in Runs \ {n} : Filing(k) => InHand(k) # InHand(n)
         /\ InHand(n) # read
<1>1. \A k \in Runs \ {n} : \A m \in Held(k) : m # InHand(n)
  <2>1. SUFFICES ASSUME NEW k \in Runs \ {n}, NEW m \in Held(k) PROVE m # InHand(n)
    OBVIOUS
  <2>2. m \in Int /\ InHand(n) \in Int /\ k \in Int /\ n \in Int /\ InHand(n) \in Held(n)
    BY Numbers
  <2>3. n < k \/ k < n
    BY <2>2
  <2>4. InHand(n) < m \/ m < InHand(n)
    BY <2>2, <2>3 DEF BInv, Ahead
  <2> QED BY <2>2, <2>4
<1>2. \A m \in Queued(n) : m # InHand(n)
  BY Numbers DEF BInv, InOrder
<1>3. InHand(n) # read
  BY Numbers DEF BInv, Ahead
<1> QED BY <1>1, <1>2, <1>3 DEF Held

LEMMA ReadIsNew ==
  ASSUME BInv, read # None
  PROVE  \A k \in Runs : read \notin Queued(k) /\ (Filing(k) => InHand(k) # read)
BY Numbers DEF BInv, Ahead, Held

\* Nothing is read and nothing handed over.
LEMMA LessHeld ==
  ASSUME BInv, queue' = queue, seen' = seen, run' \in Runs, run <= run', read' \in {read, None},
         \A n \in Runs : Filing(n)' => Filing(n) /\ InHand(n)' = InHand(n),
         \A n \in Runs : n > run => work'[n] = Idle,
         \A m \in filed' \cup lost' : m \in filed \cup lost \/ m <= seen
  PROVE  InOrder' /\ Ahead'
<1>1. \A n \in Runs : Queued(n)' = Queued(n) /\ Held(n)' \subseteq Held(n)
  BY DEF Queued, Held
<1>2. InOrder'
  BY <1>1 DEF BInv, InOrder
<1>3. \A n \in Runs : n > run' => n > run
  BY Numbers
<1>4. \A m \in filed' \cup lost' : m <= seen
  BY DEF BInv, Ahead
<1> QED
  BY <1>1, <1>2, <1>3, <1>4 DEF BInv, Ahead

LEMMA WorkedOn ==
  ASSUME BInv, NEW n \in Runs, work[n] # Idle, NEW w, work' = [work EXCEPT ![n] = w]
  PROVE  \A k \in Runs : k > run => work'[k] = Idle
<1>1. \A k \in Runs : k > run => work[k] = Idle /\ k # n
  BY DEF BInv, Ahead
<1> QED BY <1>1 DEF BInv, TypeOK

LEMMA ReaderOrder ==
  ASSUME BInv, Connect \/ Disconnect \/ Restart \/ Drained \/ Panic
                 \/ (LoseRead /\ UNCHANGED <<run, seen, queue, work, filed>>)
  PROVE  InOrder' /\ Ahead'
<1>1. /\ queue' = queue /\ seen' = seen /\ work' = work /\ filed' = filed
      /\ read' \in {read, None} /\ lost' \subseteq lost \cup ({read} \ {None})
  BY DEF Connect, Disconnect, Restart, Drained, Panic, LoseRead, IsResult
<1>2. run' \in Runs /\ run <= run'
  <2>1. run \in Int /\ 1 <= run /\ run \in Runs
    BY LimitsAre DEF BInv, TypeOK, Runs
  <2>2. CASE Restart
    BY <2>1, <2>2, LimitsAre DEF Restart, Runs
  <2>3. CASE run' = run
    BY <2>1, <2>3
  <2> QED BY <2>2, <2>3 DEF Connect, Disconnect, Drained, Panic
<1>3. \A m \in filed' \cup lost' : m \in filed \cup lost \/ m <= seen
  <2>1. read # None => read = seen /\ seen \in Int
    BY Numbers DEF BInv, Ahead
  <2> QED BY <1>1, <2>1
<1>4. \A n \in Runs : (Filing(n)' => Filing(n) /\ InHand(n)' = InHand(n)) /\ (n > run => work'[n] = Idle)
  BY <1>1 DEF Filing, InHand, BInv, Ahead
<1> QED BY <1>1, <1>2, <1>3, <1>4, LessHeld

LEMMA WorkerOrder ==
  ASSUME BInv, NEW n \in Runs, Deliver(n) \/ AnnounceEnds(n) \/ HandlePanics(n) \/ Ask(n)
  PROVE  InOrder' /\ Ahead'
<1>1. queue' = queue /\ seen' = seen /\ run' = run /\ read' = read
  BY DEF Deliver, File, Retry, Drop, AnnounceEnds, HandlePanics, Ask, readerVars
<1>2. run' \in Runs /\ run <= run'
  BY <1>1, Numbers DEF BInv, TypeOK
<1>3. work[n] # Idle
  BY DEF Deliver, File, Retry, Drop, AnnounceEnds, HandlePanics, Ask, Filing, Idle
<1>4. PICK w : /\ work' = [work EXCEPT ![n] = w]
               /\ w.stage = "filing" => Filing(n) /\ w.message = InHand(n)
  <2>1. work[n] \in Works /\ work \in [Runs -> Works]
    BY DEF BInv, TypeOK, Works
  <2>2. CASE File(n) \/ Drop(n)
    <3> DEFINE w == [work[n] EXCEPT !.stage = "announcing"]
    <3>1. work' = [work EXCEPT ![n] = w]
      BY <2>2 DEF File, Drop, Announce
    <3>2. w.stage # "filing"
      BY <2>1 DEF Works
    <3> QED BY <3>1, <3>2
  <2>3. CASE Retry(n)
    <3> DEFINE w == [work[n] EXCEPT !.tries = @ + 1]
    <3>1. work' = [work EXCEPT ![n] = w] /\ Filing(n)
      BY <2>3 DEF Retry
    <3>2. w.message = InHand(n)
      BY <2>1 DEF Works, InHand
    <3> QED BY <3>1, <3>2
  <2>4. CASE Rest(n)
    <3>1. work' = [work EXCEPT ![n] = Idle] /\ Idle.stage # "filing"
      BY <2>4 DEF Rest, Idle
    <3> QED BY <3>1
  <2> QED BY <2>2, <2>3, <2>4 DEF Deliver, AnnounceEnds, HandlePanics, Ask
<1>5. \A k \in Runs : Filing(k)' => Filing(k) /\ InHand(k)' = InHand(k)
  BY <1>4 DEF BInv, TypeOK, Filing, InHand
<1>6. \A m \in filed' \cup lost' : m \in filed \cup lost \/ (Filing(n) /\ m = InHand(n))
  BY DEF Deliver, File, Retry, Drop, AnnounceEnds, HandlePanics, Ask
<1>7. \A m \in filed' \cup lost' : m \in filed \cup lost \/ m <= seen
  BY <1>6, Numbers DEF BInv, Ahead
<1>8. \A k \in Runs : k > run => work'[k] = Idle
  BY <1>3, <1>4, WorkedOn
<1> QED BY <1>1, <1>2, <1>5, <1>7, <1>8, LessHeld

LEMMA AnswerOrder ==
  ASSUME BInv, NEW q \in Messages, AnswerStep(q)
  PROVE  InOrder' /\ Ahead'
<1>1. UNCHANGED <<readerVars, queue, work, filed, lost>>
  BY DEF AnswerStep, Begin, TooLate, Answer, PresenceEnds
<1> QED
  BY <1>1 DEF BInv, InOrder, Ahead, readerVars, Held, Queued, Filing, InHand

\* One more is read.
LEMMA ReceiveOrder ==
  ASSUME BInv, NEW m \in Messages, Receive(m)
  PROVE  InOrder' /\ Ahead'
<1>1. \A n \in Runs : Queued(n)' = Queued(n) /\ Held(n)' = Held(n)
  BY DEF Receive, Queued, Held, Filing, InHand
<1>2. \A k \in Messages : k <= seen => k <= m /\ k < m
  BY Numbers DEF Receive
<1>3. \A k \in filed \cup lost : k <= seen /\ k \in Messages
  BY DEF BInv, TypeOK, Ahead
<1>4. InOrder'
  BY <1>1 DEF BInv, InOrder, Receive, Filing, InHand
<1>5. \A n \in Runs : \A k \in Held(n) : k <= m /\ k < m
  BY <1>2, Numbers DEF BInv, Ahead
<1> QED
  BY <1>1, <1>2, <1>3, <1>4, <1>5 DEF BInv, Ahead, Receive

\* What was read goes to the back of the attempt's queue.
LEMMA EnqueueHolds ==
  ASSUME BInv, Enqueue
  PROVE  /\ run \in Runs /\ read \in Messages
         /\ \A n \in Runs : n = run => Queued(n)' = Queued(n) \cup {read}
         /\ \A n \in Runs \ {run} : queue'[n] = queue[n] /\ Queued(n)' = Queued(n)
         /\ \A n \in Runs : (Filing(n)' <=> Filing(n)) /\ InHand(n)' = InHand(n)
<1>1. run \in Runs /\ read \in Messages /\ queue[run] \in Seq(Messages)
  BY DEF BInv, TypeOK, Enqueue
<1>2. queue'[run] = Append(queue[run], read) /\ \A n \in Runs \ {run} : queue'[n] = queue[n]
  BY <1>1 DEF BInv, TypeOK, Enqueue
<1>3. ASSUME NEW n \in Runs, n = run PROVE Queued(n)' = Queued(n) \cup {read}
  <2>1. Queued(n)' = {Append(queue[n], read)[i] : i \in 1..(Len(queue[n]) + 1)}
    <3>1. queue'[n] = Append(queue[n], read)
      BY <1>2, <1>3
    <3>2. DOMAIN queue'[n] = 1..(Len(queue[n]) + 1)
      BY <1>1, <1>3, <3>1, Behind
    <3> QED BY <3>1, <3>2 DEF Queued
  <2>2. Queued(n) = {queue[n][i] : i \in 1..Len(queue[n])} /\ Len(queue[n]) \in Nat
    BY <1>1, <1>3, Behind DEF Queued
  <2> QED BY <1>1, <1>3, <2>1, <2>2, Behind
<1> QED
  BY <1>1, <1>2, <1>3 DEF Queued, Filing, InHand, Enqueue

LEMMA EnqueueOrder ==
  ASSUME BInv, Enqueue
  PROVE  InOrder' /\ Ahead'
<1>1. ASSUME NEW n \in Runs
      PROVE  Held(n)' = IF n = run THEN Held(n) \cup {read} ELSE Held(n)
  BY EnqueueHolds DEF Held
<1>2. /\ read \in Int /\ read = seen /\ seen \in Int
      /\ \A n \in Runs : \A m \in Held(n) : m \in Int /\ m < read /\ m <= seen
  BY EnqueueHolds, Numbers DEF BInv, Ahead, Enqueue
<1>3. \A n \in Runs : \A i, j \in DOMAIN queue'[n] : i < j => queue'[n][i] < queue'[n][j]
  <2>1. \A i, j \in DOMAIN queue'[run] : i < j => queue'[run][i] < queue'[run][j]
    <3> DEFINE s == queue[run]
    <3>1. s \in Seq(Messages) /\ read \in Messages /\ queue'[run] = Append(s, read) /\ Len(s) \in Nat
      BY EnqueueHolds DEF BInv, TypeOK, Enqueue
    <3>2. \A i \in 1..Len(s) : s[i] < read
      BY <1>2, <3>1, Behind, EnqueueHolds DEF Held, Queued
    <3>3. \A i, j \in 1..Len(s) : i < j => s[i] < s[j]
      BY <3>1, Behind, EnqueueHolds DEF BInv, InOrder
    <3> HIDE DEF s
    <3> QED BY <3>1, <3>2, <3>3, Behind
  <2>2. \A n \in Runs \ {run} : queue'[n] = queue[n]
    BY EnqueueHolds
  <2> QED BY <2>1, <2>2 DEF BInv, InOrder
<1>4. InOrder'
  <2>1. ASSUME NEW n \in Runs, Filing(n)', NEW m \in Queued(n)' PROVE InHand(n)' < m
    <3>1. Filing(n) /\ InHand(n)' = InHand(n) /\ InHand(n) \in Held(n)
      BY <2>1, EnqueueHolds, Numbers
    <3>2. m \in Queued(n) \/ m = read
      BY <2>1, EnqueueHolds
    <3> QED BY <1>2, <3>1, <3>2 DEF BInv, InOrder
  <2> QED BY <1>3, <2>1 DEF InOrder
<1>5. \A n \in Runs : \A m \in Held(n)' : m <= seen
  BY <1>1, <1>2
<1>6. ASSUME NEW n \in Runs, NEW k \in Runs, n < k, NEW m \in Held(n)', NEW l \in Held(k)' PROVE m < l
  <2>1. n # run
    <3>1. SUFFICES ASSUME n = run PROVE FALSE
      OBVIOUS
    <3>2. k > run /\ k # run
      BY <1>6, <3>1, Numbers
    <3>3. queue[k] = <<>> /\ work[k] = Idle
      BY <3>2 DEF BInv, Ahead
    <3>4. Held(k) = {}
      BY <3>3 DEF Held, Queued, Filing, Idle
    <3> QED BY <1>1, <1>6, <3>2, <3>4
  <2>2. m \in Held(n)
    BY <1>1, <1>6, <2>1
  <2>3. l \in Held(k) \/ l = read
    BY <1>1, <1>6
  <2> QED BY <1>2, <1>6, <2>2, <2>3 DEF BInv, Ahead
<1>7. \A n \in Runs : n > run => queue'[n] = <<>> /\ work'[n] = Idle
  BY EnqueueHolds, Numbers DEF BInv, Ahead, Enqueue
<1> QED
  BY <1>4, <1>5, <1>6, <1>7 DEF BInv, Ahead, Enqueue, readerVars

\* A worker takes what is at the front.
LEMMA TakeHolds ==
  ASSUME BInv, NEW n \in Runs, Take(n)
  PROVE  /\ Head(queue[n]) \in Queued(n) /\ Head(queue[n]) \in Messages
         /\ Queued(n) = {Head(queue[n])} \cup Queued(n)'
         /\ \A m \in Queued(n)' : Head(queue[n]) < m
         /\ \A i, j \in DOMAIN queue'[n] : i < j => queue'[n][i] < queue'[n][j]
         /\ Filing(n)' <=> kind[Head(queue[n])] = "result"
         /\ Filing(n)' => InHand(n)' = Head(queue[n])
         /\ ~Filing(n)
         /\ \A k \in Runs \ {n} : /\ queue'[k] = queue[k] /\ work'[k] = work[k] /\ Queued(k)' = Queued(k)
                                  /\ (Filing(k)' <=> Filing(k)) /\ InHand(k)' = InHand(k)
<1> DEFINE s == queue[n]
           m == Head(s)
<1>1. s \in Seq(Messages) /\ s # <<>> /\ queue'[n] = Tail(s)
  BY DEF BInv, TypeOK, Take
<1>2. Queued(n) = {s[i] : i \in 1..Len(s)} /\ Queued(n)' = {s[i + 1] : i \in 1..(Len(s) - 1)}
  <2>1. Queued(n) = {s[i] : i \in 1..Len(s)}
    BY <1>1, Front DEF Queued
  <2>2. Queued(n)' = {Tail(s)[i] : i \in 1..(Len(s) - 1)}
    BY <1>1, Front DEF Queued
  <2> QED BY <1>1, <2>1, <2>2, Front
<1>3. \A i, j \in 1..Len(s) : i < j => s[i] < s[j]
  BY <1>1, Front DEF BInv, InOrder
<1>4. m = s[1] /\ m \in Messages /\ Len(s) \in Nat /\ Len(s) >= 1
  BY <1>1, Front
<1>5. m \in Queued(n) /\ Queued(n) = {m} \cup Queued(n)' /\ \A l \in Queued(n)' : m < l
  <2> HIDE DEF s, m
  <2> QED BY <1>2, <1>3, <1>4
<1>6. \A i, j \in DOMAIN queue'[n] : i < j => queue'[n][i] < queue'[n][j]
  <2>1. DOMAIN queue'[n] = 1..(Len(s) - 1) /\ \A i \in 1..(Len(s) - 1) : queue'[n][i] = s[i + 1]
    BY <1>1, Front
  <2> HIDE DEF s, m
  <2> QED BY <1>3, <1>4, <2>1
<1>7. kind[m] \in {"result", "question", "other"}
  BY <1>4 DEF BInv, TypeOK, Kinds
<1>8. (Filing(n)' <=> kind[m] = "result") /\ (Filing(n)' => InHand(n)' = m) /\ ~Filing(n)
  <2>1. CASE kind[m] = "result"
    <3>1. work' = [work EXCEPT ![n] = [message |-> m, stage |-> "filing", tries |-> 0]]
      BY <2>1 DEF Take
    <3> QED BY <2>1, <3>1 DEF BInv, TypeOK, Filing, InHand, Take, Idle
  <2>2. CASE kind[m] = "question"
    <3>1. work' = [work EXCEPT ![n] = [message |-> m, stage |-> "asking", tries |-> 0]]
      BY <2>2 DEF Take
    <3> QED BY <2>2, <3>1 DEF BInv, TypeOK, Filing, InHand, Take, Idle
  <2>3. CASE kind[m] = "other"
    <3>1. work' = [work EXCEPT ![n] = Idle]
      BY <2>3 DEF Take
    <3> QED BY <2>3, <3>1 DEF BInv, TypeOK, Filing, InHand, Take, Idle
  <2> QED BY <1>7, <2>1, <2>2, <2>3
<1>9. \A k \in Runs \ {n} : queue'[k] = queue[k] /\ work'[k] = work[k]
  BY DEF BInv, TypeOK, Take
<1>10. \A k \in Runs \ {n} : Queued(k)' = Queued(k) /\ (Filing(k)' <=> Filing(k)) /\ InHand(k)' = InHand(k)
  BY <1>9 DEF Queued, Filing, InHand
<1> QED
  BY <1>4, <1>5, <1>6, <1>8, <1>9, <1>10

LEMMA TakeOrder ==
  ASSUME BInv, NEW n \in Runs, Take(n)
  PROVE  InOrder' /\ Ahead'
<1>1. \A k \in Runs : Held(k)' \subseteq Held(k)
  BY TakeHolds DEF Held
<1>2. InOrder'
  BY TakeHolds DEF BInv, InOrder
<1>3. \A k \in Runs : k > run => queue'[k] = <<>> /\ work'[k] = Idle
  BY TakeHolds DEF BInv, Ahead, Take
<1> QED
  BY <1>1, <1>2, <1>3 DEF BInv, Ahead, Take, readerVars

LEMMA ExitOrder ==
  ASSUME BInv, Exit
  PROVE  InOrder' /\ Ahead'
<1>1. \A n \in Runs : queue'[n] = <<>> /\ work'[n] = Idle /\ Queued(n)' = {} /\ ~Filing(n)'
  BY DEF Exit, Queued, Filing, Idle
<1>2. \A m \in Waiting : m <= seen
  <2>1. \A n \in Runs : \A m \in Unsettled(n) : m \in Held(n) \/ (m = read /\ read # None)
    BY DEF Unsettled, Held, IsResult
  <2>2. read # None => read = seen /\ seen \in Int
    BY Numbers DEF BInv, Ahead
  <2> QED BY <2>1, <2>2, Numbers DEF Waiting, BInv, Ahead
<1> QED
  BY <1>1, <1>2 DEF BInv, InOrder, Ahead, Held, Exit

-----------------------------------------------------------------------------
(* What is inductive.                                                      *)

LEMMA StutterKeeps ==
  ASSUME BInv, UNCHANGED vars
  PROVE  BInv'
<1>1. TypeOK' /\ Sound'
  BY DEF BInv, TypeOK, Sound, vars, readerVars, askVars, InHand
<1>2. InOrder' /\ Ahead'
  BY DEF BInv, InOrder, Ahead, Held, Queued, Filing, InHand, vars, readerVars
<1> QED BY <1>1, <1>2 DEF BInv

LEMMA StepKeeps ==
  ASSUME BInv, Next
  PROVE  BInv'
<1>1. CASE Connect \/ Disconnect \/ Restart \/ Drained
  BY <1>1, ReaderTyped, ReaderOrder DEF BInv
<1>2. CASE \E m \in Messages : Receive(m)
  BY <1>2, ReaderTyped, ReceiveOrder DEF BInv
<1>3. CASE Enqueue
  BY <1>3, EnqueueTyped, EnqueueOrder DEF BInv
<1>4. CASE Panic
  BY <1>4, SupervisorTyped, ReaderOrder DEF BInv
<1>5. CASE Shutdown \/ Answered \/ CutOff
  <2>1. TypeOK' /\ Sound'
    BY <1>5, SupervisorTyped
  <2>2. Exit \/ (LoseRead /\ UNCHANGED <<run, seen, queue, work, filed>>)
    BY <1>5 DEF Shutdown, Answered, CutOff
  <2> QED BY <2>1, <2>2, ExitOrder, ReaderOrder DEF BInv
<1>6. ASSUME NEW n \in Runs, Handle(n) \/ HandlePanics(n) PROVE BInv'
  <2>1. CASE Take(n)
    BY <2>1, TakeTyped, TakeOrder DEF BInv
  <2>2. CASE Deliver(n) \/ AnnounceEnds(n) \/ HandlePanics(n) \/ Ask(n)
    BY <2>2, WorkerTyped, WorkerOrder DEF BInv
  <2> QED BY <1>6, <2>1, <2>2 DEF Handle
<1>7. ASSUME NEW q \in Messages, AnswerStep(q) PROVE BInv'
  BY <1>7, AnswerTyped, AnswerOrder DEF BInv
<1> QED
  BY <1>1, <1>2, <1>3, <1>4, <1>5, <1>6, <1>7 DEF Next

LEMMA Invariant == Spec => []BInv
<1>1. Init => BInv
  BY InitTyped
<1>2. BInv /\ [Next]_vars => BInv'
  BY StepKeeps, StutterKeeps
<1> QED BY <1>1, <1>2, PTL DEF Spec

\* Every queue has room for what is in it, no more tickets are out than there are,
\* and no result is tried more often than it may be: for any limits.
THEOREM TypeCorrect == Spec => []TypeOK
<1>1. BInv => TypeOK
  BY DEF BInv
<1> QED BY <1>1, Invariant, PTL

-----------------------------------------------------------------------------
(* The order of filing.                                                    *)

LEMMA NothingIsOvertaken ==
  ASSUME BInv, NEW n \in Runs, Filing(n), NEW k \in Runs, NEW m \in Unsettled(k), m < InHand(n)
  PROVE  k < n
<1>1. InHand(n) \in Held(n) /\ InHand(n) \in Int /\ n \in Int /\ k \in Int
  BY Numbers
<1>2. CASE m = read /\ read # None
  BY <1>1, <1>2, Numbers DEF BInv, Ahead
<1>3. CASE m \in Held(k)
  <2>1. m \in Int
    BY <1>3, Numbers
  <2>2. CASE k = n
    <3>1. m \in Queued(n) \/ m = InHand(n)
      BY <1>3, <2>2 DEF Held
    <3> QED BY <1>1, <2>1, <3>1 DEF BInv, InOrder
  <2>3. CASE n < k
    BY <1>1, <1>3, <2>1, <2>3 DEF BInv, Ahead
  <2> QED BY <1>1, <2>2, <2>3
<1> QED
  BY <1>2, <1>3 DEF Unsettled, Held, IsResult

\* Results are filed in the order they were posted, retries included, unless a panic
\* left the earlier one behind: for any number of messages, attempts and tries.
THEOREM NoOvertakingHolds == Spec => NoOvertaking
<1>1. BInv => \A n \in Runs : (Filing(n) /\ InHand(n) \in filed' \ filed) =>
                \A k \in Runs : \A m \in Unsettled(k) : m < InHand(n) => k < n
  BY NothingIsOvertaken
<1>2. [][\A n \in Runs : (Filing(n) /\ InHand(n) \in filed' \ filed) =>
           \A k \in Runs : \A m \in Unsettled(k) : m < InHand(n) => k < n]_vars
      <=> NoOvertaking
  BY DEF NoOvertaking
<1> QED BY <1>1, <1>2, Invariant, PTL

-----------------------------------------------------------------------------
(* The steps of Delivery.                                                  *)

\* The same results wait where each attempt's are the same.
LEMMA SameWait ==
  ASSUME \A n \in Runs : Unsettled(n)' = Unsettled(n)
  PROVE  Waiting' = Waiting
BY DEF Waiting

LEMMA LosesRead ==
  ASSUME BInv, LoseRead, phase # "exited", phase' # "exited",
         UNCHANGED <<kind, run, queue, work, filed>>
  PROVE  D!Next \/ UNCHANGED D!vars
<1>1. \A n \in Runs : Queued(n)' = Queued(n) /\ Filing(n)' = Filing(n) /\ InHand(n)' = InHand(n)
  BY DEF Queued, Filing, InHand
<1>2. \A m : IsResult(m)' = IsResult(m)
  BY DEF IsResult
<1>3. CASE ~IsResult(read)
  <2>1. lost' = lost
    BY <1>3 DEF LoseRead
  <2>2. \A n \in Runs : Unsettled(n)' = Unsettled(n)
    BY <1>1, <1>2, <1>3 DEF Unsettled, LoseRead, IsResult
  <2> QED BY <2>1, <2>2, SameWait DEF D!vars
<1>4. CASE IsResult(read)
  <2>1. read \in Messages /\ run \in Runs /\ read # None
    BY <1>4 DEF BInv, TypeOK, IsResult
  <2>2. \A n \in Runs : Unsettled(n)' = Unsettled(n) \ {read}
    BY <1>1, <1>2, <2>1, ReadIsNew DEF Unsettled, LoseRead, IsResult
  <2>3. read \in Unsettled(run)
    BY <1>4 DEF Unsettled
  <2>4. read \in Waiting /\ Waiting' = Waiting \ {read}
    BY <2>1, <2>2, <2>3 DEF Waiting
  <2>5. lost' = lost \cup {read}
    BY <1>4 DEF LoseRead
  <2>6. D!GiveUp(read)
    BY <2>4, <2>5 DEF D!GiveUp
  <2> QED BY <2>1, <2>6 DEF D!Next, D!Settle
<1> QED BY <1>3, <1>4

\* What the worker has in hand is settled.
LEMMA Settles ==
  ASSUME BInv, NEW n \in Runs, Filing(n), UNCHANGED <<kind, run, read, queue>>,
         ~Filing(n)', \A k \in Runs \ {n} : work'[k] = work[k]
  PROVE  InHand(n) \in Messages /\ InHand(n) \in Waiting /\ Waiting' = Waiting \ {InHand(n)}
<1>1. InHand(n) \in Messages
  BY DEF BInv, Sound, Filing, Idle
<1>2. InHand(n) \in Unsettled(n)
  BY DEF Unsettled
<1>3. \A k \in Runs : Queued(k)' = Queued(k) /\ \A m : IsResult(m)' = IsResult(m)
  BY DEF Queued, IsResult
<1>4. \A k \in Runs \ {n} : Filing(k)' = Filing(k) /\ InHand(k)' = InHand(k)
  BY DEF Filing, InHand
<1>5. \A k \in Runs \ {n} : Unsettled(k)' = Unsettled(k) \ {InHand(n)}
  BY <1>3, <1>4, Unique DEF Unsettled
<1>6. Unsettled(n)' = Unsettled(n) \ {InHand(n)}
  BY <1>3, Unique DEF Unsettled
<1> QED
  BY <1>1, <1>2, <1>5, <1>6 DEF Waiting

LEMMA ExitIsExit ==
  ASSUME BInv, Exit, phase # "exited"
  PROVE  D!Next
<1>1. \A n \in Runs : queue'[n] = <<>> /\ work'[n] = Idle
  BY DEF Exit
<1>2. \A n \in Runs : Unsettled(n)' = {}
  BY <1>1 DEF Exit, Unsettled, Queued, Filing, Idle, IsResult
<1>3. Waiting' = {}
  BY <1>2 DEF Waiting
<1>4. D!Exit
  BY <1>3 DEF Exit, D!Exit
<1> QED BY <1>4 DEF D!Next

LEMMA ReceiveReads ==
  ASSUME BInv, NEW m \in Messages, Receive(m)
  PROVE  D!Next \/ UNCHANGED D!vars
<1>1. \A n \in Runs : Queued(n)' = Queued(n) /\ Filing(n)' = Filing(n) /\ InHand(n)' = InHand(n)
  BY DEF Receive, Queued, Filing, InHand
<1>2. \A l : IsResult(l)' = IsResult(l)
  BY DEF Receive, IsResult
<1>3. CASE ~IsResult(m)
  <2>1. \A n \in Runs : Unsettled(n)' = Unsettled(n)
    BY <1>1, <1>2, <1>3 DEF Unsettled, Receive, IsResult
  <2> QED BY <2>1, SameWait DEF D!vars, Receive
<1>4. CASE IsResult(m)
  <2>1. \A n \in Runs : Unsettled(n)' = Unsettled(n) \cup {l \in {m} : n = run}
    BY <1>1, <1>2, <1>4 DEF Unsettled, Receive, IsResult
  <2>2. Waiting' = Waiting \cup {m}
    BY <2>1 DEF Waiting, BInv, TypeOK
  <2>3. m \notin Waiting \cup filed \cup lost
    <3>1. \A l \in filed \cup lost : l <= seen
      BY DEF BInv, Ahead
    <3>2. \A n \in Runs : \A l \in Unsettled(n) : l \in Held(n)
      BY DEF Unsettled, Held, Receive, IsResult
    <3>3. \A l \in Waiting : l <= seen
      BY <3>2 DEF Waiting, BInv, Ahead
    <3>4. m > seen /\ m \in Int /\ seen \in Int
      BY Numbers DEF Receive
    <3> QED BY <3>1, <3>3, <3>4
  <2>4. D!Read(m)
    BY <2>2, <2>3 DEF D!Read, Receive
  <2> QED BY <2>4 DEF D!Next
<1> QED BY <1>3, <1>4

LEMMA EnqueueStutters ==
  ASSUME BInv, Enqueue
  PROVE  UNCHANGED D!vars
<1>1. \A l : IsResult(l)' = IsResult(l)
  BY DEF Enqueue, IsResult
<1>2. read' = None /\ run' = run /\ ~IsResult(None)
  BY DEF Enqueue, IsResult
<1>3. \A n \in Runs : Unsettled(n)' = Unsettled(n)
  BY <1>1, <1>2, EnqueueHolds DEF Unsettled
<1> QED
  BY <1>3, SameWait DEF D!vars, Enqueue

LEMMA TakeStutters ==
  ASSUME BInv, NEW n \in Runs, Take(n)
  PROVE  UNCHANGED D!vars
<1>1. \A l : IsResult(l)' = IsResult(l)
  BY DEF Take, IsResult
<1>2. read' = read /\ run' = run
  BY DEF Take, readerVars
<1>3. \A k \in Runs \ {n} : Unsettled(k)' = Unsettled(k)
  BY <1>1, <1>2, TakeHolds DEF Unsettled
<1>4. IsResult(Head(queue[n])) <=> Filing(n)'
  BY TakeHolds, NoneIsNoMessage DEF IsResult
<1>5. Unsettled(n)' = Unsettled(n)
  <2> DEFINE m == Head(queue[n])
  <2>1. /\ Queued(n) = {m} \cup Queued(n)' /\ ~Filing(n)
        /\ Filing(n)' => InHand(n)' = m
    BY TakeHolds
  <2> HIDE DEF m
  <2>2. IsResult(m) <=> Filing(n)'
    BY <1>4 DEF m
  <2> QED BY <1>1, <1>2, <2>1, <2>2 DEF Unsettled
<1>6. \A k \in Runs : Unsettled(k)' = Unsettled(k)
  BY <1>3, <1>5
<1> QED
  BY <1>6, SameWait DEF D!vars, Take, readerVars

\* A worker that holds on to what it has, or has no result in hand.
LEMMA HoldsOn ==
  ASSUME BInv, NEW n \in Runs, UNCHANGED <<kind, readerVars, queue, filed, lost>>,
         \A k \in Runs \ {n} : work'[k] = work[k],
         Filing(n)' = Filing(n), Filing(n) => InHand(n)' = InHand(n)
  PROVE  UNCHANGED D!vars
<1>1. \A k \in Runs : Queued(k)' = Queued(k) /\ \A m : IsResult(m)' = IsResult(m)
  BY DEF Queued, IsResult
<1>2. \A k \in Runs : Filing(k)' = Filing(k) /\ (Filing(k) => InHand(k)' = InHand(k))
  BY DEF Filing, InHand
<1>3. \A k \in Runs : Unsettled(k)' = Unsettled(k)
  BY <1>1, <1>2 DEF Unsettled, readerVars
<1> QED
  BY <1>3, SameWait DEF D!vars, readerVars

LEMMA WorkerSettles ==
  ASSUME BInv, NEW n \in Runs, Deliver(n) \/ AnnounceEnds(n) \/ HandlePanics(n) \/ Ask(n)
  PROVE  D!Next \/ UNCHANGED D!vars
<1>1. work \in [Runs -> Works] /\ Idle.stage # "filing"
  BY DEF BInv, TypeOK, Works, Idle
<1>2. CASE File(n)
  <2>1. ~Filing(n)' /\ \A k \in Runs \ {n} : work'[k] = work[k]
    BY <1>1, <1>2 DEF File, Announce, Filing, Works
  <2>2. InHand(n) \in Messages /\ InHand(n) \in Waiting /\ Waiting' = Waiting \ {InHand(n)}
    BY <1>2, <2>1, Settles DEF File, readerVars
  <2>3. D!File(InHand(n))
    BY <1>2, <2>2 DEF D!File, File, readerVars
  <2> QED BY <2>2, <2>3 DEF D!Next, D!Settle
<1>3. CASE Drop(n) \/ (HandlePanics(n) /\ Filing(n))
  <2>1. ~Filing(n)' /\ \A k \in Runs \ {n} : work'[k] = work[k]
    BY <1>1, <1>3 DEF Drop, HandlePanics, Announce, Rest, Filing, Works
  <2>2. Filing(n) /\ UNCHANGED <<kind, readerVars, queue, filed>> /\ lost' = lost \cup {InHand(n)}
    BY <1>3 DEF Drop, HandlePanics
  <2>3. InHand(n) \in Messages /\ InHand(n) \in Waiting /\ Waiting' = Waiting \ {InHand(n)}
    BY <2>1, <2>2, Settles DEF readerVars
  <2>4. D!GiveUp(InHand(n))
    BY <2>2, <2>3 DEF D!GiveUp, readerVars
  <2> QED BY <2>3, <2>4 DEF D!Next, D!Settle
<1>4. CASE Retry(n)
  <2>1. /\ \A k \in Runs \ {n} : work'[k] = work[k]
        /\ Filing(n)' = Filing(n) /\ InHand(n)' = InHand(n)
    BY <1>1, <1>4 DEF Retry, Filing, InHand, Works
  <2> QED BY <1>4, <2>1, HoldsOn DEF Retry
<1>5. CASE ~Filing(n) /\ (AnnounceEnds(n) \/ HandlePanics(n) \/ Ask(n))
  <2>1. ~Filing(n)' /\ \A k \in Runs \ {n} : work'[k] = work[k]
    BY <1>1, <1>5 DEF AnnounceEnds, HandlePanics, Ask, Rest, Filing
  <2>2. UNCHANGED <<kind, readerVars, queue, filed, lost>>
    BY <1>5 DEF AnnounceEnds, HandlePanics, Ask
  <2>3. Filing(n)' = Filing(n)
    BY <1>5, <2>1 DEF Filing
  <2> QED BY <1>5, <2>1, <2>2, <2>3, HoldsOn
<1> QED
  BY <1>2, <1>3, <1>4, <1>5 DEF Deliver, AnnounceEnds, Ask, Filing

LEMMA NothingMoves ==
  ASSUME BInv, UNCHANGED <<kind, read, queue, work, filed, lost>>, phase # "exited", phase' # "exited",
         run' = run \/ (run' \in Runs /\ run' = run + 1)
  PROVE  UNCHANGED D!vars
<1>1. \A n \in Runs : /\ Queued(n)' = Queued(n) /\ Filing(n)' = Filing(n) /\ InHand(n)' = InHand(n)
                      /\ \A m : IsResult(m)' = IsResult(m)
  BY DEF Queued, Filing, InHand, IsResult
<1>2. run \in Runs /\ run' \in Runs
  BY DEF BInv, TypeOK
<1> DEFINE kept(n) == {m \in Queued(n) : IsResult(m)} \cup {m \in {InHand(n)} : Filing(n)}
           next == {m \in {read} : IsResult(m)}
<1>3. \A n \in Runs : /\ Unsettled(n) = kept(n) \cup {m \in next : n = run}
                      /\ Unsettled(n)' = kept(n) \cup {m \in next : n = run'}
  BY <1>1 DEF Unsettled
<1> HIDE DEF kept, next
<1>4. Waiting' = Waiting
  <2>1. Waiting = next \cup UNION {kept(n) : n \in Runs}
    BY <1>2, <1>3 DEF Waiting
  <2>2. Waiting' = next \cup UNION {kept(n) : n \in Runs}
    BY <1>2, <1>3 DEF Waiting
  <2> QED BY <2>1, <2>2
<1> QED BY <1>4 DEF D!vars

LEMMA StepDelivers ==
  ASSUME BInv, Next
  PROVE  D!Next \/ UNCHANGED D!vars
<1>1. CASE Connect \/ Disconnect \/ Restart \/ Drained
  <2>1. run' = run \/ (run' \in Runs /\ run' = run + 1)
    <3>1. CASE Restart
      BY <3>1, LimitsAre DEF Restart, Runs, BInv, TypeOK
    <3> QED BY <1>1, <3>1 DEF Connect, Disconnect, Drained
  <2> QED
    BY <1>1, <2>1, NothingMoves DEF Connect, Disconnect, Restart, Drained
<1>2. CASE \E m \in Messages : Receive(m)
  BY <1>2, ReceiveReads
<1>3. CASE Enqueue
  BY <1>3, EnqueueStutters
<1>4. CASE Panic \/ Shutdown \/ Answered \/ CutOff
  <2>1. \/ Exit /\ phase # "exited"
        \/ LoseRead /\ phase # "exited" /\ phase' # "exited" /\ UNCHANGED <<kind, run, queue, work, filed>>
    BY <1>4 DEF Panic, Shutdown, Answered, CutOff
  <2> QED BY <2>1, ExitIsExit, LosesRead
<1>5. ASSUME NEW n \in Runs, Handle(n) \/ HandlePanics(n) PROVE D!Next \/ UNCHANGED D!vars
  BY <1>5, TakeStutters, WorkerSettles DEF Handle
<1>6. ASSUME NEW q \in Messages, AnswerStep(q) PROVE D!Next \/ UNCHANGED D!vars
  <2>1. UNCHANGED <<kind, readerVars, queue, work, filed, lost>>
    BY <1>6 DEF AnswerStep, Begin, TooLate, Answer, PresenceEnds
  <2>2. UNCHANGED D!vars
    BY <2>1 DEF D!vars, Waiting, Unsettled, Queued, Filing, InHand, IsResult, readerVars
  <2> QED BY <2>2
<1> QED
  BY <1>1, <1>2, <1>3, <1>4, <1>5, <1>6 DEF Next

\* A result that was read is filed, or given up on, or lost with the process, and
\* never two of them: every step of the bridge is one of Delivery or moves no result.
THEOREM StepsDeliver == Spec => D!Init /\ [][D!Next]_(D!vars)
<1>1. Init => D!Init
  <2>1. SUFFICES ASSUME Init PROVE D!Init
    OBVIOUS
  <2>2. \A n \in Runs : Unsettled(n) = {}
    BY <2>1 DEF Init, Unsettled, Queued, Filing, Idle, IsResult
  <2>3. Waiting = {}
    BY <2>2 DEF Waiting
  <2> QED BY <2>1, <2>3 DEF Init, D!Init
<1>2. BInv /\ [Next]_vars => [D!Next]_(D!vars)
  <2>1. SUFFICES ASSUME BInv, UNCHANGED vars PROVE UNCHANGED D!vars
    BY StepDelivers
  <2> QED
    BY <2>1 DEF vars, readerVars, D!vars, Waiting, Unsettled, Queued, Filing, InHand, IsResult
<1> QED BY <1>1, <1>2, Invariant, PTL DEF Spec

=============================================================================
