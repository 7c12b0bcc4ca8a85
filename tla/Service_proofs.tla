--------------------------- MODULE Service_proofs ---------------------------
(* That starts act once, for any number of processes, migrations and       *)
(* starts.                                                                 *)
EXTENDS Service, WellFoundedInduction, TLAPS

\* What has to be known of the state besides StartsActOnce: a process that migrates still
\* has every migration before it that is not recorded, and an administrator is an account.
StartsInv ==
  /\ recorded \subseteq Files /\ applied \in [Files -> Nat]
  /\ users \in BOOLEAN /\ slug \in BOOLEAN /\ bootstrapped \in Nat /\ minted \in Nat
  /\ stage \in [Processes -> Stages] /\ todo \in [Processes -> SUBSET Files]
  /\ bootstrapped = 1 => users
  /\ \A p \in Processes : stage[p] = "migrating" => Files \ recorded \subseteq todo[p]
  /\ StartsActOnce

Early == {"down", "opened", "migrating", "closed"}

\* The least of some migrations: what Pending chooses is there.
LEMMA PendingIsLeast ==
  ASSUME NEW S \in SUBSET Files, S # {}
  PROVE  \E f \in S : \A g \in S : f <= g
<1> DEFINE R == OpToRel(<, Nat)
<1>1. IsWellFoundedOn(R, Nat)
  BY NatLessThanWellFounded
<1>2. \A x, y \in Nat : y < x => <<y, x>> \in R
  BY DEF OpToRel
<1>3. S \subseteq Nat
  BY FilesAreNumbered DEF Files
<1> HIDE DEF R
<1>4. PICK f \in S : \A g \in S : ~ (<<g, f>> \in R)
  BY <1>1, <1>3, WFMin
<1>5. \A g \in S : ~ (g < f)
  BY <1>2, <1>3, <1>4
<1> QED BY <1>3, <1>4, <1>5

\* A step that writes nothing, lets no process past its migrations and no other begin them.
LEMMA IdleStep ==
  ASSUME StartsInv, UNCHANGED diskVars,
         stage' \in [Processes -> Stages], todo' \in [Processes -> SUBSET Files],
         \A p \in Processes :
           /\ stage'[p] \notin Early => stage[p] \notin Early
           /\ stage'[p] = "migrating" => stage[p] = "migrating" /\ todo'[p] = todo[p]
  PROVE  StartsInv'
BY DEF StartsInv, StartsActOnce, diskVars, Early

\* A step that leaves disk, stages and lists alone.
LEMMA StillStep ==
  ASSUME StartsInv, UNCHANGED <<diskVars, stage, todo>>
  PROVE  StartsInv'
<1> QED BY DEF StartsInv, StartsActOnce, diskVars

\* The start.
LEMMA BootStep ==
  ASSUME StartsInv, NEW p \in Processes, Boot(p)
  PROVE  StartsInv'
<1> USE DEF At, Goto
<1>1. CASE Start(p)
  BY <1>1, IdleStep DEF Start, StartsInv, Stages, Early
<1>2. CASE FindPending(p)
  BY <1>2 DEF FindPending, StartsInv, StartsActOnce, Stages
<1>3. CASE Apply(p)
  <2> DEFINE f == Pending(p)
  <2>1. todo[p] \in SUBSET Files /\ todo[p] # {} /\ stage[p] = "migrating"
    BY <1>3 DEF Apply, StartsInv
  <2>2. f \in todo[p] /\ \A g \in todo[p] : f <= g
    BY <2>1, PendingIsLeast DEF Pending
  <2>3. f \in Files /\ f \in Nat /\ f \notin recorded
    BY <1>3, <2>1, <2>2, FilesAreNumbered DEF Apply, Files
  <2>4. 1..f \subseteq recorded \cup {f}
    <3> SUFFICES ASSUME NEW g \in 1..f, g # f PROVE g \in recorded
      OBVIOUS
    <3>1. g \in Files /\ ~(f <= g)
      BY <2>3, FilesAreNumbered DEF Files
    <3> QED BY <2>1, <2>2, <3>1 DEF StartsInv
  <2>5. /\ applied' = [applied EXCEPT ![f] = @ + 1] /\ recorded' = recorded \cup {f}
        /\ todo' = [todo EXCEPT ![p] = @ \ {f}]
        /\ UNCHANGED <<users, slug, minted, bootstrapped, stage>>
    BY <1>3 DEF Apply
  <2> HIDE DEF f
  <2>6. \A g \in Files : applied'[g] = IF g \in recorded' THEN 1 ELSE 0
    BY <2>3, <2>5 DEF StartsInv, StartsActOnce
  <2>7. \A g \in Files : g \in recorded' => 1..g \subseteq recorded'
    BY <2>4, <2>5 DEF StartsInv, StartsActOnce
  <2>8. \A q \in Processes : stage[q] \notin Early => recorded' = Files
    BY <2>3, <2>5 DEF StartsInv, StartsActOnce, Early
  <2>9. StartsActOnce'
    BY <2>5, <2>6, <2>7, <2>8 DEF StartsInv, StartsActOnce, Early
  <2> QED
    BY <2>3, <2>5, <2>9 DEF StartsInv
<1>4. CASE ApplyCollides(p)
  BY <1>4, IdleStep DEF ApplyCollides, StartsInv, Stages, Early
<1>5. CASE Migrated(p)
  <2>1. recorded = Files
    BY <1>5 DEF Migrated, StartsInv
  <2> QED BY <1>5, <2>1 DEF Migrated, StartsInv, StartsActOnce, Stages, diskVars
<1>6. CASE Bootstrap(p)
  BY <1>6 DEF Bootstrap, StartsInv, StartsActOnce, Stages
<1>7. CASE EnsureShareSlug(p)
  BY <1>7 DEF EnsureShareSlug, StartsInv, StartsActOnce, Stages
<1>8. CASE Listen(p)
  BY <1>8, IdleStep DEF Listen, StartsInv, Stages, Early
<1>9. CASE ListenFails(p)
  BY <1>9, IdleStep DEF ListenFails, StartsInv, Stages, Early
<1> QED
  BY <1>1, <1>2, <1>3, <1>4, <1>5, <1>6, <1>7, <1>8, <1>9 DEF Boot

\* The stop.
LEMMA StopStep ==
  ASSUME StartsInv, NEW p \in Processes, Terminate(p) \/ Stop(p)
  PROVE  StartsInv'
<1> USE DEF At, Goto
<1>1. CASE Terminate(p) \/ ShutdownReturns(p) \/ ShutdownFails(p) \/ Close(p)
  BY <1>1, IdleStep DEF Terminate, ShutdownReturns, ShutdownFails, Close, StartsInv, Stages, Early
<1>2. CASE ReaderStops(p) \/ GiveUpDraining(p) \/ \E w \in Workers : WorkerReturns(p, w)
  BY <1>2, StillStep DEF ReaderStops, GiveUpDraining, WorkerReturns
<1> QED BY <1>1, <1>2 DEF Stop

\* Every migration's changes are committed exactly when it is recorded, once, in order and
\* before anything else is done, and one administrator and one share link come of any number
\* of starts that crash, fail or meet (store/migrate.go, users.go, settings.go).
THEOREM StartsActOnceHolds == Spec => []StartsActOnce
<1>1. Init => StartsInv
  <2> SUFFICES ASSUME Init PROVE StartsInv
    OBVIOUS
  <2>1. /\ recorded = {} /\ applied = [f \in Files |-> 0] /\ bootstrapped = 0 /\ minted = 0
        /\ ~users /\ users \in BOOLEAN /\ ~slug /\ slug \in BOOLEAN
        /\ stage = [p \in Processes |-> "down"] /\ todo = [p \in Processes |-> {}]
    BY DEF Init
  <2>2. StartsActOnce
    BY <2>1 DEF StartsActOnce
  <2> QED BY <2>1, <2>2 DEF StartsInv, Stages
<1>2. StartsInv /\ [Next]_vars => StartsInv'
  <2> SUFFICES ASSUME StartsInv, [Next]_vars PROVE StartsInv'
    OBVIOUS
  <2>1. CASE UNCHANGED vars
    BY <2>1, StillStep DEF vars, lifeVars
  <2>2. ASSUME NEW p \in Processes, Boot(p) PROVE StartsInv'
    BY <2>2, BootStep
  <2>3. ASSUME NEW p \in Processes, Terminate(p) \/ Stop(p) PROVE StartsInv'
    BY <2>3, StopStep
  <2>4. ASSUME NEW p \in Processes, NEW w \in Workers, WorkerDone(p, w) PROVE StartsInv'
    BY <2>4, StillStep DEF WorkerDone
  <2>5. ASSUME NEW p \in Processes, Respond(p) \/ WorkerEnds(p) \/ AnswersEnd(p) PROVE StartsInv'
    BY <2>5, StillStep DEF Respond, WorkerEnds, AnswersEnd
  <2>6. ASSUME NEW p \in Processes, Gone(p) PROVE StartsInv'
    BY <2>6, IdleStep DEF Gone, Goto, StartsInv, Stages, Early
  <2>7. CASE HealthStep \/ Verified \/ Unverified \/ TimePasses \/ Configured
    BY <2>7, StillStep DEF HealthStep, Verified, Unverified, TimePasses, Configured, lifeVars
  <2>8. CASE UserCreate
    BY <2>8 DEF UserCreate, lifeVars, StartsInv, StartsActOnce
  <2> QED
    BY <2>1, <2>2, <2>3, <2>4, <2>5, <2>6, <2>7, <2>8 DEF Next
<1>3. StartsInv => StartsActOnce
  BY DEF StartsInv
<1> QED BY <1>1, <1>2, <1>3, PTL DEF Spec

=============================================================================
