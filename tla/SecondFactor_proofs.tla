------------------------ MODULE SecondFactor_proofs ------------------------
(* Proofs about SecondFactor, for any secrets, sheets, sessions, requests
   and budgets.                                                            *)
EXTENDS SecondFactor, FiniteSetTheorems, TLAPS

\* The part of TypeOK that the arguments need: nothing of the limiter's counts.
Typed ==
  /\ secret \in Secrets \cup {NoSecret}
  /\ lastStep \in Steps \cup {NoStep}
  /\ codes \in [Codes -> Secrets \cup {NoSecret, NoCode}]
  /\ calls \in [Callers -> Call \cup {NoCall}]
  /\ pending \in Secrets \cup {NoSecret}
  /\ now \in 0 .. MaxStep

\* Steps are natural numbers.
LEMMA StepsAreNatural == Steps \subseteq Nat /\ 0 .. MaxStep \subseteq Steps
BY BudgetIsPositive, SMT DEF Steps, Skew

\* A call that has got as far as a stage has what the stage needs.
LEMMA CallHas ==
  ASSUME NEW call \in Call
  PROVE  /\ call.at \in {"proving", "checked"} => call.secret \in Secrets /\ call.step \in Steps
         /\ call.at # "entering" => call.session \in Sessions
BY DEF Call

\* What is stored stays what it is for.
LEMMA TypedInvariant == Spec => []Typed
<1>1. Init => Typed
  BY BudgetIsPositive DEF Init, Typed, NoSheet
<1>2. Typed /\ [Next]_vars => Typed'
  <2> SUFFICES ASSUME Typed, [Next]_vars PROVE Typed'
    OBVIOUS
  <2> USE DEF Typed
  <2>0. CASE UNCHANGED vars
    BY <2>0 DEF vars
  <2>1. ASSUME NEW c \in Callers, Login(c) PROVE Typed'
    BY <2>1 DEF Login, Begin, factor, Call
  <2>2. ASSUME NEW c \in Callers, NEW s \in Sessions, CreateSession(c, s) PROVE Typed'
    BY <2>2 DEF CreateSession, Finish, factor
  <2>3. ASSUME NEW s \in Sessions, EndSession(s) PROVE Typed'
    BY <2>3 DEF EndSession, factor
  <2>4. ASSUME NEW s \in Sessions, NEW fresh \in Secrets, EnrolForm(s, fresh) PROVE Typed'
    BY <2>4 DEF EnrolForm
  <2>5. ASSUME NEW c \in Callers, NEW s \in Sessions, EnrolSubmit(c, s) PROVE Typed'
    BY <2>5 DEF EnrolSubmit, Begin, factor, Call
  <2>6. ASSUME NEW c \in Callers, NEW t \in Steps, ProveCode(c, t) PROVE Typed'
    <3>1. calls[c] \in Call /\ calls[c].at = "gated" /\ pending \in Secrets
      BY <2>6 DEF ProveCode, At
    <3>2. calls[c].session \in Sessions
      BY <3>1, CallHas
    <3>3. [at |-> "proving", session |-> calls[c].session, secret |-> pending, step |-> t] \in Call
      BY <3>1, <3>2 DEF Call
    <3> QED BY <2>6, <3>3 DEF ProveCode, Continue, factor
  <2>7. ASSUME NEW c \in Callers, ProveWrong(c) \/ ProveNothing(c) PROVE Typed'
    BY <2>7 DEF ProveWrong, ProveNothing, Finish, factor
  <2>8. ASSUME NEW c \in Callers, Promote(c) PROVE Typed'
    <3>1. calls[c] \in Call /\ calls[c].at = "proving"
      BY <2>8 DEF Promote, At
    <3>2. calls[c].session \in Sessions /\ calls[c].step \in Steps
      BY <3>1, CallHas
    <3>3. [at |-> "rotating", session |-> calls[c].session, enrolled |-> TRUE] \in Call
      BY <3>2 DEF Call
    <3> QED BY <2>8, <3>2, <3>3 DEF Promote, Promotion, Continue, NoSheet
  <2>9. ASSUME NEW c \in Callers, PromoteFails(c) PROVE Typed'
    BY <2>9 DEF PromoteFails, Finish, factor
  <2>10. ASSUME NEW c \in Callers, NEW sheet \in SUBSET Codes, IssueCodes(c, sheet) PROVE Typed'
    BY <2>10 DEF IssueCodes, Finish
  <2>11. ASSUME NEW c \in Callers, NEW s \in Sessions, NEW t \in Steps, CheckCode(c, s, t) PROVE Typed'
    <3>1. [at |-> "checked", session |-> s, secret |-> secret, step |-> t] \in Call
      BY <2>11 DEF CheckCode, HasTOTP, Call
    <3> QED BY <2>11, <3>1 DEF CheckCode, Begin, factor
  <2>12. ASSUME NEW s \in Sessions, WrongCode(s) PROVE Typed'
    BY <2>12 DEF WrongCode, factor
  <2>13. ASSUME NEW c \in Callers, RecordTOTPStep(c) PROVE Typed'
    <3>1. calls[c] \in Call /\ calls[c].at = "checked"
      BY <2>13 DEF RecordTOTPStep, At
    <3>2. calls[c].session \in Sessions /\ calls[c].step \in Steps
      BY <3>1, CallHas
    <3>3. [at |-> "rotating", session |-> calls[c].session, enrolled |-> FALSE] \in Call
      BY <3>2 DEF Call
    <3> QED BY <2>13, <3>2, <3>3 DEF RecordTOTPStep, Continue
  <2>14. ASSUME NEW c \in Callers, CodeReplayed(c) PROVE Typed'
    BY <2>14 DEF CodeReplayed, Finish, factor
  <2>15. ASSUME NEW c \in Callers, NEW s \in Sessions, NEW k \in Codes, ConsumeRecoveryCode(c, s, k)
         PROVE Typed'
    BY <2>15 DEF ConsumeRecoveryCode, Begin, Call
  <2>16. ASSUME NEW c \in Callers, NEW recorded \in BOOLEAN, RecordRecovery(c, recorded) PROVE Typed'
    <3>1. calls[c] \in Call /\ calls[c].at = "recovered"
      BY <2>16 DEF RecordRecovery, At
    <3>2. [at |-> "rotating", session |-> calls[c].session, enrolled |-> FALSE] \in Call
      BY <3>1, CallHas DEF Call
    <3>3. now \in Steps
      BY StepsAreNatural
    <3> QED BY <2>16, <3>2, <3>3 DEF RecordRecovery, Continue
  <2>17. ASSUME NEW c \in Callers, NEW s \in Sessions, RotateSession(c, s) PROVE Typed'
    <3>1. calls[c] \in Call /\ calls[c].at = "rotating"
      BY <2>17 DEF RotateSession, At
    <3>2. [calls[c] EXCEPT !.at = "dropping"] \in Call
      BY <3>1 DEF Call
    <3> QED BY <2>17, <3>2 DEF RotateSession, Continue, factor
  <2>18. ASSUME NEW c \in Callers, DropRotated(c) PROVE Typed'
    <3>1. calls[c] \in Call /\ calls[c].at = "dropping"
      BY <2>18 DEF DropRotated, At
    <3>2. [at |-> "issuing", session |-> calls[c].session] \in Call
      BY <3>1, CallHas DEF Call
    <3> QED BY <2>18, <3>2 DEF DropRotated, Continue, Finish, factor
  <2>19. ASSUME NEW c \in Callers, NEW s \in Sessions, NEW what \in {"issuing", "disabling"},
                SettingsSubmit(c, s, what)
         PROVE Typed'
    BY <2>19 DEF SettingsSubmit, Begin, factor, Call
  <2>20. ASSUME NEW c \in Callers, DisableTOTP(c) PROVE Typed'
    BY <2>20 DEF DisableTOTP, Cleared, Finish, NoSheet
  <2>21. CASE ResetUserTOTP
    BY <2>21 DEF ResetUserTOTP, Cleared, NoSheet
  <2>22. CASE Restart
    BY <2>22 DEF Restart, factor
  <2>23. CASE Tick
    BY <2>23, BudgetIsPositive DEF Tick, factor
  <2>24. CASE Cleanup
    BY <2>24 DEF Cleanup, factor
  <2> QED
    BY <2>0, <2>1, <2>2, <2>3, <2>4, <2>5, <2>6, <2>7, <2>8, <2>9, <2>10, <2>11, <2>12, <2>13, <2>14,
       <2>15, <2>16, <2>17, <2>18, <2>19, <2>20, <2>21, <2>22, <2>23, <2>24 DEF Next, Request
<1> QED BY <1>1, <1>2, PTL DEF Spec

-----------------------------------------------------------------------------
(* Recovery codes.  The invariant is inductive with Typed: the secret changes *)
(* only together with an empty sheet, and a sheet is issued under the secret  *)
(* in force.                                                                  *)

\* What leaves the columns of the codes alone keeps it.
LEMMA SameSheet ==
  ASSUME CodesAreTheSecrets, UNCHANGED <<secret, codes>>
  PROVE  CodesAreTheSecrets'
BY DEF CodesAreTheSecrets

\* A step that empties the sheet keeps it.
LEMMA EmptySheet ==
  ASSUME codes' = NoSheet
  PROVE  CodesAreTheSecrets'
BY DEF CodesAreTheSecrets, NoSheet

\* Every request keeps it.
LEMMA RequestKeepsCodes ==
  ASSUME Typed, CodesAreTheSecrets, NEW c \in Callers, Request(c)
  PROVE  CodesAreTheSecrets'
<1>1. CASE Promote(c)
  BY <1>1, EmptySheet DEF Promote
<1>2. CASE DisableTOTP(c)
  BY <1>2, EmptySheet DEF DisableTOTP, Cleared
<1>3. ASSUME NEW sheet \in SUBSET Codes, IssueCodes(c, sheet) PROVE CodesAreTheSecrets'
  BY <1>3 DEF IssueCodes, CodesAreTheSecrets
<1>4. ASSUME NEW s \in Sessions, NEW k \in Codes, ConsumeRecoveryCode(c, s, k)
      PROVE  CodesAreTheSecrets'
  BY <1>4 DEF ConsumeRecoveryCode, CodesAreTheSecrets, Typed
<1>5. CASE \/ Login(c) \/ ProveWrong(c) \/ ProveNothing(c) \/ PromoteFails(c)
           \/ RecordTOTPStep(c) \/ CodeReplayed(c) \/ DropRotated(c)
  BY <1>5, SameSheet DEF Login, ProveWrong, ProveNothing, PromoteFails, RecordTOTPStep,
     CodeReplayed, DropRotated, factor
<1>6. ASSUME NEW t \in Steps, ProveCode(c, t) PROVE CodesAreTheSecrets'
  BY <1>6, SameSheet DEF ProveCode, factor
<1>7. ASSUME NEW recorded \in BOOLEAN, RecordRecovery(c, recorded) PROVE CodesAreTheSecrets'
  BY <1>7, SameSheet DEF RecordRecovery
<1>8. ASSUME NEW s \in Sessions, CreateSession(c, s) \/ EnrolSubmit(c, s) \/ RotateSession(c, s)
      PROVE  CodesAreTheSecrets'
  BY <1>8, SameSheet DEF CreateSession, EnrolSubmit, RotateSession, factor
<1>9. ASSUME NEW s \in Sessions, NEW t \in Steps, CheckCode(c, s, t) PROVE CodesAreTheSecrets'
  BY <1>9, SameSheet DEF CheckCode, factor
<1>10. ASSUME NEW s \in Sessions, NEW what \in {"issuing", "disabling"}, SettingsSubmit(c, s, what)
       PROVE  CodesAreTheSecrets'
  BY <1>10, SameSheet DEF SettingsSubmit, factor
<1> QED
  BY <1>1, <1>2, <1>3, <1>4, <1>5, <1>6, <1>7, <1>8, <1>9, <1>10 DEF Request

\* A recovery code that still works was issued under the secret in force, for any
\* number of visits, replacements, disablings and resets (store/totp.go, recovery.go).
THEOREM CodesAreTheSecretsHolds == Spec => []CodesAreTheSecrets
<1>1. Init => CodesAreTheSecrets
  BY DEF Init, CodesAreTheSecrets, NoSheet
<1>2. Typed /\ CodesAreTheSecrets /\ [Next]_vars => CodesAreTheSecrets'
  <2> SUFFICES ASSUME Typed, CodesAreTheSecrets, [Next]_vars PROVE CodesAreTheSecrets'
    OBVIOUS
  <2>1. CASE UNCHANGED vars
    BY <2>1, SameSheet DEF vars
  <2>2. ASSUME NEW c \in Callers, Request(c) PROVE CodesAreTheSecrets'
    BY <2>2, RequestKeepsCodes
  <2>3. ASSUME NEW s \in Sessions, EndSession(s) \/ WrongCode(s) PROVE CodesAreTheSecrets'
    BY <2>3, SameSheet DEF EndSession, WrongCode, factor
  <2>4. ASSUME NEW s \in Sessions, NEW fresh \in Secrets, EnrolForm(s, fresh)
        PROVE  CodesAreTheSecrets'
    BY <2>4, SameSheet DEF EnrolForm
  <2>5. CASE ResetUserTOTP
    BY <2>5, EmptySheet DEF ResetUserTOTP, Cleared
  <2>6. CASE Restart \/ Tick \/ Cleanup
    BY <2>6, SameSheet DEF Restart, Tick, Cleanup, factor
  <2> QED BY <2>1, <2>2, <2>3, <2>4, <2>5, <2>6 DEF Next
<1> QED BY <1>1, <1>2, TypedInvariant, PTL DEF Spec

-----------------------------------------------------------------------------
(* One use of a code.                                                      *)

\* The newest step that was accepted is the one that is stored, or an earlier one:
\* what CodeCountsOnce rests on.
AcceptedBefore ==
  /\ accepted \subseteq Nat
  /\ \A t \in accepted : lastStep # NoStep /\ t <= lastStep

\* A step that leaves both alone keeps it.
LEMMA SameSteps ==
  ASSUME AcceptedBefore, UNCHANGED <<lastStep, accepted>>
  PROVE  AcceptedBefore'
BY DEF AcceptedBefore

\* A step that is recorded is not before the last, so that the accepted ones stay behind it.
LEMMA RecordedSteps ==
  ASSUME Typed, AcceptedBefore
  PROVE  \A step \in Nat :
           /\ lastStep' = IF lastStep = NoStep \/ lastStep < step THEN step ELSE lastStep
           /\ accepted' \subseteq Nat /\ \A t \in accepted' : t \in accepted \/ t <= step
           => AcceptedBefore'
<1> SUFFICES ASSUME NEW step \in Nat,
                    lastStep' = IF lastStep = NoStep \/ lastStep < step THEN step ELSE lastStep,
                    accepted' \subseteq Nat, \A t \in accepted' : t \in accepted \/ t <= step
             PROVE  AcceptedBefore'
  OBVIOUS
<1>1. NoStep \notin Nat /\ step # NoStep /\ (lastStep # NoStep => lastStep \in Nat)
  BY StepsAreNatural DEF Typed, NoStep
<1>2. lastStep' # NoStep /\ step <= lastStep' /\ lastStep' \in Nat
  BY <1>1
<1>3. lastStep # NoStep => lastStep <= lastStep'
  BY <1>1
<1> QED
  <2>1. ASSUME NEW t \in accepted' PROVE t <= lastStep'
    <3>1. CASE t \in accepted
      BY <1>1, <1>2, <1>3, <3>1 DEF AcceptedBefore
    <3>2. CASE t <= step
      BY <1>2, <3>2
    <3> QED BY <3>1, <3>2
  <2> QED BY <1>2, <2>1 DEF AcceptedBefore

\* Every request keeps it.
LEMMA RequestKeepsSteps ==
  ASSUME Typed, AcceptedBefore, NEW c \in Callers, Request(c)
  PROVE  AcceptedBefore'
<1>1. CASE Promote(c)
  <2>1. calls[c] \in Call /\ calls[c].at = "proving"
    BY <1>1 DEF Promote, At, Typed
  <2>2. calls[c].step \in Nat
    BY <2>1, CallHas, StepsAreNatural
  <2> QED BY <1>1, <2>2 DEF Promote, Promotion, AcceptedBefore, NoStep
<1>2. CASE RecordTOTPStep(c)
  <2>1. calls[c] \in Call /\ calls[c].at = "checked"
    BY <1>2 DEF RecordTOTPStep, At, Typed
  <2>2. calls[c].step \in Nat
    BY <2>1, CallHas, StepsAreNatural
  <2>3. PICK step \in Nat : step = calls[c].step
    BY <2>2
  <2>4. accepted' \subseteq accepted \cup {step}
    BY <1>2, <2>3 DEF RecordTOTPStep
  <2>5. accepted' \subseteq Nat /\ \A t \in accepted' : t \in accepted \/ t <= step
    BY <2>4 DEF AcceptedBefore
  <2>6. lastStep' = IF lastStep = NoStep \/ lastStep < step THEN step ELSE lastStep
    BY <1>2, <2>3 DEF RecordTOTPStep, Newer
  <2> QED BY <2>3, <2>5, <2>6, RecordedSteps
<1>3. ASSUME NEW recorded \in BOOLEAN, RecordRecovery(c, recorded) PROVE AcceptedBefore'
  <2>1. now \in Nat
    BY DEF Typed
  <2>2. CASE recorded
    <3>1. lastStep' = IF lastStep = NoStep \/ lastStep < now THEN now ELSE lastStep
      BY <1>3, <2>2 DEF RecordRecovery, Newer
    <3>2. accepted' \subseteq Nat /\ \A t \in accepted' : t \in accepted \/ t <= now
      BY <1>3, <2>1, <2>2 DEF RecordRecovery, AcceptedBefore
    <3> QED BY <2>1, <3>1, <3>2, RecordedSteps
  <2>3. CASE ~recorded
    BY <1>3, <2>3, SameSteps DEF RecordRecovery
  <2> QED BY <2>2, <2>3
<1>4. CASE DisableTOTP(c)
  BY <1>4 DEF DisableTOTP, Cleared, AcceptedBefore
<1>5. CASE \/ Login(c) \/ ProveWrong(c) \/ ProveNothing(c) \/ PromoteFails(c)
           \/ CodeReplayed(c) \/ DropRotated(c)
  BY <1>5, SameSteps DEF Login, ProveWrong, ProveNothing, PromoteFails, CodeReplayed, DropRotated,
     factor
<1>6. ASSUME NEW t \in Steps, ProveCode(c, t) PROVE AcceptedBefore'
  BY <1>6, SameSteps DEF ProveCode, factor
<1>7. ASSUME NEW sheet \in SUBSET Codes, IssueCodes(c, sheet) PROVE AcceptedBefore'
  BY <1>7, SameSteps DEF IssueCodes
<1>8. ASSUME NEW s \in Sessions, CreateSession(c, s) \/ EnrolSubmit(c, s) \/ RotateSession(c, s)
      PROVE  AcceptedBefore'
  BY <1>8, SameSteps DEF CreateSession, EnrolSubmit, RotateSession, factor
<1>9. ASSUME NEW s \in Sessions, NEW t \in Steps, CheckCode(c, s, t) PROVE AcceptedBefore'
  BY <1>9, SameSteps DEF CheckCode, factor
<1>10. ASSUME NEW s \in Sessions, NEW k \in Codes, ConsumeRecoveryCode(c, s, k)
       PROVE  AcceptedBefore'
  BY <1>10, SameSteps DEF ConsumeRecoveryCode
<1>11. ASSUME NEW s \in Sessions, NEW what \in {"issuing", "disabling"}, SettingsSubmit(c, s, what)
       PROVE  AcceptedBefore'
  BY <1>11, SameSteps DEF SettingsSubmit, factor
<1> QED
  BY <1>1, <1>2, <1>3, <1>4, <1>5, <1>6, <1>7, <1>8, <1>9, <1>10, <1>11 DEF Request

\* No accepted step is after the last one stored.
LEMMA AcceptedInvariant == Spec => []AcceptedBefore
<1>1. Init => AcceptedBefore
  BY DEF Init, AcceptedBefore
<1>2. Typed /\ AcceptedBefore /\ [Next]_vars => AcceptedBefore'
  <2> SUFFICES ASSUME Typed, AcceptedBefore, [Next]_vars PROVE AcceptedBefore'
    OBVIOUS
  <2>1. CASE UNCHANGED vars
    BY <2>1, SameSteps DEF vars
  <2>2. ASSUME NEW c \in Callers, Request(c) PROVE AcceptedBefore'
    BY <2>2, RequestKeepsSteps
  <2>3. ASSUME NEW s \in Sessions, EndSession(s) \/ WrongCode(s) PROVE AcceptedBefore'
    BY <2>3, SameSteps DEF EndSession, WrongCode, factor
  <2>4. ASSUME NEW s \in Sessions, NEW fresh \in Secrets, EnrolForm(s, fresh) PROVE AcceptedBefore'
    BY <2>4, SameSteps DEF EnrolForm
  <2>5. CASE ResetUserTOTP
    BY <2>5 DEF ResetUserTOTP, Cleared, AcceptedBefore
  <2>6. CASE Restart \/ Tick \/ Cleanup
    BY <2>6, SameSteps DEF Restart, Tick, Cleanup, factor
  <2> QED BY <2>1, <2>2, <2>3, <2>4, <2>5, <2>6 DEF Next
<1> QED BY <1>1, <1>2, TypedInvariant, PTL DEF Spec

\* A code of the secret in force counts once, at enrolment or at sign-in, whatever requests
\* come between its check and its record (RecordTOTPStep compares and stores in one statement).
THEOREM CodeCountsOnceHolds == Spec => CodeCountsOnce
<1> DEFINE Counts(c) ==
      At(c, "checked") /\ calls[c].secret = secret /\ calls'[c] # calls[c] /\ calls'[c] # NoCall
<1>1. ASSUME Typed, AcceptedBefore, [Next]_vars, NEW c \in Callers, Counts(c)
      PROVE  calls[c].step \notin accepted
  <2>1. calls[c] \in Call /\ calls[c].at = "checked" /\ calls'[c] # calls[c] /\ calls'[c] # NoCall
    BY <1>1 DEF At, Typed
  <2>2. calls[c].step \in Nat
    BY <2>1, CallHas, StepsAreNatural
  \* Only the call itself moves on, and only by recording its step.
  <2>3. CASE RecordTOTPStep(c)
    <3>1. lastStep = NoStep \/ lastStep < calls[c].step
      BY <2>3 DEF RecordTOTPStep, Newer
    <3>2. lastStep # NoStep => lastStep \in Nat
      BY <1>1, StepsAreNatural DEF Typed
    <3> QED BY <1>1, <2>2, <3>1, <3>2 DEF AcceptedBefore
  <2>4. ASSUME NEW d \in Callers, Request(d), ~ RecordTOTPStep(c) PROVE FALSE
    <3>1. CASE d # c
      BY <1>1, <2>1, <2>4, <3>1 DEF Typed, Request, Login, CreateSession, EnrolSubmit, ProveCode, ProveWrong,
         ProveNothing, Promote, Promotion, PromoteFails, IssueCodes, CheckCode, RecordTOTPStep,
         CodeReplayed, ConsumeRecoveryCode, RecordRecovery, RotateSession, DropRotated,
         SettingsSubmit, DisableTOTP, Begin, Continue, Finish
    <3>2. CASE d = c
      BY <1>1, <2>1, <2>4, <3>2 DEF Typed, Request, Login, CreateSession, EnrolSubmit, ProveCode, ProveWrong,
         ProveNothing, Promote, PromoteFails, IssueCodes, CheckCode, CodeReplayed,
         ConsumeRecoveryCode, RecordRecovery, RotateSession, DropRotated, SettingsSubmit,
         DisableTOTP, Begin, Finish, At
    <3> QED BY <3>1, <3>2
  <2>5. ASSUME NEW s \in Sessions, NEW fresh \in Secrets,
               EndSession(s) \/ WrongCode(s) \/ EnrolForm(s, fresh)
        PROVE  FALSE
    BY <2>1, <2>5 DEF EndSession, WrongCode, EnrolForm
  <2>6. ASSUME NEW s \in Sessions, EndSession(s) \/ WrongCode(s) PROVE FALSE
    BY <2>1, <2>6 DEF EndSession, WrongCode
  <2>7. ASSUME ResetUserTOTP \/ Tick \/ Cleanup \/ UNCHANGED vars PROVE FALSE
    BY <2>1, <2>7 DEF ResetUserTOTP, Tick, Cleanup, vars
  <2>8. ASSUME Restart PROVE FALSE
    BY <2>1, <2>8 DEF Restart
  <2> QED BY <1>1, <2>3, <2>4, <2>5, <2>6, <2>7, <2>8 DEF Next
<1>2. Typed /\ AcceptedBefore /\ [Next]_vars
      => [\A c \in Callers : Counts(c) => calls[c].step \notin accepted]_vars
  BY <1>1
<1> QED BY <1>2, TypedInvariant, AcceptedInvariant, PTL DEF Spec, CodeCountsOnce

-----------------------------------------------------------------------------
(* The budget of guesses.  The bound on a window's guesses is not inductive: *)
(* what it rests on is what the bucket of the address knows of them, and     *)
(* that the guesses of the window before it cannot all still be near.        *)

Days == 0 .. MaxStep

\* The guesses of f at some steps, numbered, and how many there are from a to b.
Made(f, S) == UNION {{t} \X (1 .. f[t]) : t \in S}
Within(f, a, b) == Cardinality(Made(f, (a .. b) \cap Days))

\* With the guesses f, the bucket ip and the clock at n: the bucket has counted every
\* guess since it started and none came after it ran out, the one that started it
\* among them; what came before it, less than a window ago, is less than a budget.
BudgetOf(f, ip, n) ==
  /\ f \in [Days -> Nat] /\ ip \in [count : Nat, start : Nat] /\ n \in Days
  /\ ip.count <= MaxAttempts
  /\ Within(f, n + 1, MaxStep) = 0
  /\ ip.count = 0 =>
       /\ Within(f, n, MaxStep) = 0
       /\ \A t \in Days : t > n - Window => Within(f, t, MaxStep) <= MaxAttempts - 1
  /\ ip.count > 0 =>
       /\ ip.start <= n /\ f[ip.start] > 0
       /\ Within(f, ip.start, MaxStep) = ip.count
       /\ Within(f, ip.start + Window, MaxStep) = 0
       /\ \A t \in Days : t > ip.start - Window => Within(f, t, ip.start - 1) <= MaxAttempts - 1
  /\ \A t \in Days : Within(f, t, t + Window - 1) <= 2 * MaxAttempts - 1

Budget ==
  /\ DOMAIN buckets = Keys
  /\ \A f \in {tried}, ip \in {buckets["ip"]}, n \in {now} : BudgetOf(f, ip, n)

LEMMA MadeIsFinite ==
  ASSUME NEW f \in [Days -> Nat], NEW S \in SUBSET Days
  PROVE  IsFiniteSet(Made(f, S)) /\ Cardinality(Made(f, S)) \in Nat
<1> DEFINE parts == [t \in S |-> {t} \X (1 .. f[t])]
           T == {{t} \X (1 .. f[t]) : t \in S}
<1>1. IsFiniteSet(S)
  <2>1. 0 \in Int /\ MaxStep \in Int
    BY BudgetIsPositive
  <2>2. IsFiniteSet(Days)
    BY <2>1, FS_Interval DEF Days
  <2> QED BY <2>2, FS_Subset
<1>2. parts \in Surjection(S, T)
  BY DEF Surjection
<1>3. IsFiniteSet(T)
  <2> HIDE DEF parts, T
  <2> QED BY <1>1, <1>2, FS_Surjection
<1>4. ASSUME NEW U \in T PROVE IsFiniteSet(U)
  <2>1. PICK t \in S : U = {t} \X (1 .. f[t])
    OBVIOUS
  <2>2. IsFiniteSet({t})
    BY FS_Singleton
  <2>3. f[t] \in Int /\ 1 \in Int
    BY DEF Days
  <2>4. IsFiniteSet(1 .. f[t])
    BY <2>3, FS_Interval
  <2> QED BY <2>1, <2>2, <2>4, FS_Product
<1>5. IsFiniteSet(UNION T)
  <2> HIDE DEF T
  <2> QED BY <1>3, <1>4, FS_UNION
<1> QED BY <1>5, FS_CardinalityType DEF Made

LEMMA NoneMade ==
  ASSUME NEW f, NEW S, S = {}
  PROVE  Cardinality(Made(f, S)) = 0
<1>1. Made(f, S) = {}
  BY DEF Made
<1> QED BY <1>1, FS_EmptySet

\* Guesses are natural numbers, and those of a span are those of its two parts.
LEMMA WithinSplits ==
  ASSUME NEW f \in [Days -> Nat], NEW a \in Int, NEW b \in Int, NEW c \in Int,
         a <= c, c <= b + 1
  PROVE  /\ Within(f, a, b) = Within(f, a, c - 1) + Within(f, c, b)
         /\ Within(f, a, b) \in Nat /\ Within(f, a, c - 1) \in Nat /\ Within(f, c, b) \in Nat
<1> DEFINE S == (a .. (c - 1)) \cap Days
           T == (c .. b) \cap Days
<1>1. (a .. b) \cap Days = S \cup T /\ S \cap T = {}
  OBVIOUS
<1>2. S \in SUBSET Days /\ T \in SUBSET Days
  OBVIOUS
<1> HIDE DEF S, T
<1>3. Made(f, S \cup T) = Made(f, S) \cup Made(f, T) /\ Made(f, S) \cap Made(f, T) = {}
  BY <1>1 DEF Made
<1>4. /\ IsFiniteSet(Made(f, S)) /\ Cardinality(Made(f, S)) \in Nat
      /\ IsFiniteSet(Made(f, T)) /\ Cardinality(Made(f, T)) \in Nat
  BY <1>2, MadeIsFinite
<1>5. Cardinality(Made(f, S) \cap Made(f, T)) = 0
  BY <1>3, FS_EmptySet
<1>6. Cardinality(Made(f, S) \cup Made(f, T)) =
        Cardinality(Made(f, S)) + Cardinality(Made(f, T)) - Cardinality(Made(f, S) \cap Made(f, T))
  BY <1>4, FS_Union
<1>7. Cardinality(Made(f, S \cup T)) = Cardinality(Made(f, S)) + Cardinality(Made(f, T))
  <2>1. Cardinality(Made(f, S \cup T)) = Cardinality(Made(f, S) \cup Made(f, T))
    BY <1>3
  <2> DEFINE cs == Cardinality(Made(f, S))
             ct == Cardinality(Made(f, T))
             both == Cardinality(Made(f, S) \cap Made(f, T))
  <2>2. cs \in Nat /\ ct \in Nat /\ both = 0
    BY <1>4, <1>5
  <2>3. Cardinality(Made(f, S) \cup Made(f, T)) = cs + ct - both
    BY <1>6
  <2> HIDE DEF cs, ct, both
  <2>4. Cardinality(Made(f, S) \cup Made(f, T)) = cs + ct
    BY <2>2, <2>3
  <2> QED BY <2>1, <2>4 DEF cs, ct
<1> QED BY <1>1, <1>4, <1>7 DEF Within, S, T

\* A span has no fewer guesses than the part of it that starts later.
LEMMA WithinLater ==
  ASSUME NEW f \in [Days -> Nat], NEW a \in Int, NEW b \in Int, NEW c \in Int, a <= c
  PROVE  Within(f, c, b) <= Within(f, a, b) /\ Within(f, c, b) \in Nat /\ Within(f, a, b) \in Nat
<1>1. CASE c <= b + 1
  BY <1>1, WithinSplits
<1>2. CASE c > b + 1
  <2>1. Within(f, c, b) = 0
    <3>1. (c .. b) \cap Days = {}
      BY <1>2
    <3> QED BY <3>1, NoneMade DEF Within
  <2>2. (a .. b) \cap Days \in SUBSET Days
    OBVIOUS
  <2> QED BY <2>1, <2>2, MadeIsFinite DEF Within
<1> QED BY <1>1, <1>2

\* A step is a span by itself.
LEMMA WithinStep ==
  ASSUME NEW f \in [Days -> Nat], NEW n \in Days
  PROVE  Within(f, n, n) = f[n]
<1> DEFINE guesses == f[n]
<1>1. (n .. n) \cap Days = {n} /\ guesses \in Nat /\ 1 \in Int
  BY DEF Days
<1>2. Made(f, {n}) = {n} \X (1 .. guesses)
  BY DEF Made
<1> HIDE DEF guesses
<1>3. IsFiniteSet({n}) /\ Cardinality({n}) = 1
  BY FS_Singleton
<1>4. IsFiniteSet(1 .. guesses) /\ Cardinality(1 .. guesses) = guesses
  BY <1>1, FS_Interval
<1>5. Cardinality({n} \X (1 .. guesses)) = Cardinality({n}) * Cardinality(1 .. guesses)
  BY <1>3, <1>4, FS_Product
<1>6. Cardinality({n} \X (1 .. guesses)) = guesses
  BY <1>1, <1>3, <1>4, <1>5
<1> QED BY <1>1, <1>2, <1>6 DEF Within, guesses

\* One more guess is one more in the spans that have its step.
LEMMA WithinOneMore ==
  ASSUME NEW f \in [Days -> Nat], NEW g \in [Days -> Nat], NEW n \in Days,
         g[n] = f[n] + 1, \A x \in Days \ {n} : g[x] = f[x],
         NEW a \in Int, NEW b \in Int
  PROVE  /\ n \in a .. b => Within(g, a, b) = Within(f, a, b) + 1
         /\ n \notin a .. b => Within(g, a, b) = Within(f, a, b)
<1> DEFINE S == (a .. b) \cap Days
           x == <<n, f[n] + 1>>
<1>1. S \in SUBSET Days /\ \A t \in S : f[t] \in Nat
  OBVIOUS
<1>2. CASE n \in S
  <2>1. \A c : c \in Made(f, S) <=> \E t \in S : c \in {t} \X (1 .. f[t])
    BY DEF Made
  <2>2. \A c : c \in Made(g, S) <=> \E t \in S : c \in {t} \X (1 .. g[t])
    BY DEF Made
  <2>3. 1 .. g[n] = (1 .. f[n]) \cup {f[n] + 1} /\ f[n] + 1 \notin 1 .. f[n]
    BY <1>1
  <2>4. \A t \in S : t # n => g[t] = f[t]
    OBVIOUS
  <2> HIDE DEF S
  <2>5. Made(g, S) = Made(f, S) \cup {x} /\ x \notin Made(f, S)
    BY <1>2, <2>1, <2>2, <2>3, <2>4
  <2>6. IsFiniteSet(Made(f, S)) /\ Cardinality(Made(f, S)) \in Nat
    BY <1>1, MadeIsFinite
  <2> HIDE DEF x
  <2>7. Cardinality(Made(f, S) \cup {x}) = Cardinality(Made(f, S)) + 1
    BY <2>5, <2>6, FS_AddElement
  <2> QED BY <1>2, <2>5, <2>7 DEF Within, S
<1>3. CASE n \notin S
  <2>1. \A t \in S : g[t] = f[t]
    BY <1>3
  <2>2. Made(g, S) = Made(f, S)
    BY <2>1 DEF Made
  <2> QED BY <1>3, <2>2 DEF Within
<1> QED BY <1>2, <1>3

\* No span has more than all the guesses from its start on.
LEMMA WithinAll ==
  ASSUME NEW f \in [Days -> Nat], NEW a \in Days, NEW b \in Int
  PROVE  Within(f, a, b) <= Within(f, a, MaxStep) /\ Within(f, a, b) \in Nat
<1>0. MaxStep \in Nat /\ a \in Nat
  BY BudgetIsPositive DEF Days
<1>1. CASE b > MaxStep
  <2>1. (a .. b) \cap Days = (a .. MaxStep) \cap Days
    BY <1>0, <1>1 DEF Days
  <2>2. Within(f, a, MaxStep) \in Nat
    BY <1>0, WithinLater
  <2> QED BY <2>1, <2>2 DEF Within
<1>2. CASE b <= MaxStep /\ a <= b + 1
  <2>1. Within(f, a, MaxStep) = Within(f, a, (b + 1) - 1) + Within(f, b + 1, MaxStep)
        /\ Within(f, a, (b + 1) - 1) \in Nat /\ Within(f, b + 1, MaxStep) \in Nat
    <3>1. a \in Int /\ MaxStep \in Int /\ b + 1 \in Int /\ b + 1 <= MaxStep + 1
      BY <1>0, <1>2
    <3> QED BY <1>2, <3>1, WithinSplits
  <2>2. (b + 1) - 1 = b
    OBVIOUS
  <2> QED BY <2>1, <2>2
<1>3. CASE b <= MaxStep /\ a > b + 1
  <2>1. (a .. b) \cap Days = {}
    BY <1>0, <1>3
  <2>2. Within(f, a, b) = 0
    BY <2>1, NoneMade DEF Within
  <2>3. Within(f, a, MaxStep) \in Nat
    BY <1>0, WithinLater
  <2> QED BY <2>2, <2>3
<1> QED BY <1>0, <1>1, <1>2, <1>3

Runs(ip, n) == ip.count > 0 /\ n - ip.start < Window

\* A bucket that has run out leaves less than a budget of guesses near.
LEMMA RunOut ==
  ASSUME NEW f, NEW ip, NEW n, BudgetOf(f, ip, n), ~Runs(ip, n)
  PROVE  /\ Within(f, n, MaxStep) = 0
         /\ \A t \in Days : t > n - Window => Within(f, t, MaxStep) <= MaxAttempts - 1
<1>1. CASE ip.count = 0
  BY <1>1 DEF BudgetOf
<1>2. CASE ip.count # 0
  <2> DEFINE s == ip.start
  <2>1. ip.count \in Nat /\ s \in Nat /\ n \in Nat /\ MaxStep \in Nat /\ Window \in Nat /\ MaxAttempts \in Nat
    BY BudgetIsPositive DEF BudgetOf, Days
  <2>2. ip.count > 0 /\ s + Window <= n /\ s <= n
    BY <1>2, <2>1 DEF Runs
  <2>3. f \in [Days -> Nat] /\ s \in Days /\ f[s] > 0 /\ f[s] \in Nat
    BY <2>1, <2>2 DEF BudgetOf, Days
  <2>4. ip.count <= MaxAttempts /\ Within(f, s, MaxStep) = ip.count /\ Within(f, s + Window, MaxStep) = 0
    BY <2>2 DEF BudgetOf
  <2> HIDE DEF s
  <2>5. Within(f, n, MaxStep) = 0
    BY <2>1, <2>2, <2>3, <2>4, WithinLater
  <2>6. Within(f, s, MaxStep) = f[s] + Within(f, s + 1, MaxStep)
    <3>1. /\ Within(f, s, MaxStep) = Within(f, s, (s + 1) - 1) + Within(f, s + 1, MaxStep)
          /\ Within(f, s + 1, MaxStep) \in Nat
      <4>1. s <= s + 1 /\ s + 1 <= MaxStep + 1 /\ s \in Int /\ s + 1 \in Int /\ MaxStep \in Int
        BY <2>1, <2>3 DEF Days
      <4> QED BY <2>3, <4>1, WithinSplits
    <3>2. (s + 1) - 1 = s
      BY <2>1
    <3> QED BY <2>3, <3>1, <3>2, WithinStep
  <2>7. ASSUME NEW t \in Days, t > n - Window PROVE Within(f, t, MaxStep) <= MaxAttempts - 1
    <3>1. t \in Nat /\ s + 1 <= t
      BY <2>1, <2>2, <2>7 DEF Days
    <3>2. Within(f, t, MaxStep) <= Within(f, s + 1, MaxStep)
          /\ Within(f, t, MaxStep) \in Nat /\ Within(f, s + 1, MaxStep) \in Nat
      BY <2>1, <2>3, <3>1, WithinLater
    <3> QED BY <2>1, <2>3, <2>4, <2>6, <3>2
  <2> QED BY <2>5, <2>7
<1> QED BY <1>1, <1>2

\* Allow.
LEMMA AllowedGuess ==
  ASSUME NEW f, NEW ip, NEW n, BudgetOf(f, ip, n), Runs(ip, n) => ip.count < MaxAttempts
  PROVE  BudgetOf([f EXCEPT ![n] = @ + 1],
                  IF Runs(ip, n) THEN [ip EXCEPT !.count = @ + 1] ELSE [count |-> 1, start |-> n], n)
<1> DEFINE g == [f EXCEPT ![n] = @ + 1]
<1>1. /\ f \in [Days -> Nat] /\ n \in Days /\ n \in Nat /\ n <= MaxStep
      /\ MaxStep \in Nat /\ Window \in Nat \ {0} /\ MaxAttempts \in Nat \ {0}
  BY BudgetIsPositive DEF BudgetOf, Days
<1>2. g \in [Days -> Nat] /\ g[n] > 0 /\ \A t \in Days : g[t] >= f[t] /\ f[t] \in Nat /\ g[t] \in Nat
  BY <1>1
<1>3. \A a, b \in Int : /\ n \in a .. b => Within(g, a, b) = Within(f, a, b) + 1
                        /\ n \notin a .. b => Within(g, a, b) = Within(f, a, b)
  <2>1. /\ f \in [Days -> Nat] /\ g \in [Days -> Nat] /\ n \in Days
        /\ g[n] = f[n] + 1 /\ \A x \in Days \ {n} : g[x] = f[x]
    BY <1>1
  <2> HIDE DEF g
  <2> QED BY <2>1, WithinOneMore
<1>4. \A a, b, c \in Int : a <= c => /\ Within(f, c, b) <= Within(f, a, b)
                                     /\ Within(f, c, b) \in Nat /\ Within(f, a, b) \in Nat
  BY <1>1, WithinLater
<1>5. \A a \in Days, b \in Int : Within(f, a, b) <= Within(f, a, MaxStep) /\ Within(f, a, b) \in Nat
  BY <1>1, WithinAll
<1>6. /\ Within(f, n + 1, MaxStep) = 0
      /\ \A t \in Days : Within(f, t, t + Window - 1) <= 2 * MaxAttempts - 1
  BY DEF BudgetOf
<1>7. \A t \in Days : t \in Nat
  BY DEF Days
<1> HIDE DEF g
<1>8. Within(g, n + 1, MaxStep) = 0
  BY <1>1, <1>3, <1>6
<1>9. CASE Runs(ip, n)
  <2> DEFINE s == ip.start
             k == ip.count
  <2>1. k \in Nat /\ k > 0 /\ k < MaxAttempts /\ s \in Nat /\ s <= n /\ n < s + Window /\ s \in Days
    <3>1. ip \in [count : Nat, start : Nat]
      BY DEF BudgetOf
    <3>2. s <= n
      BY <1>9 DEF BudgetOf, Runs
    <3> QED BY <1>1, <1>9, <3>1, <3>2 DEF Runs, Days
  <2>2. /\ f[s] > 0 /\ Within(f, s, MaxStep) = k /\ Within(f, s + Window, MaxStep) = 0
        /\ \A t \in Days : t > s - Window => Within(f, t, s - 1) <= MaxAttempts - 1
    BY <2>1 DEF BudgetOf
  <2>3. [ip EXCEPT !.count = @ + 1] \in [count : Nat, start : Nat]
        /\ [ip EXCEPT !.count = @ + 1].count = k + 1 /\ [ip EXCEPT !.count = @ + 1].start = s
    BY DEF BudgetOf
  <2> HIDE DEF s, k
  <2>4. g[s] > 0
    BY <1>2, <2>1, <2>2
  <2>5. Within(g, s, MaxStep) = k + 1 /\ Within(g, s + Window, MaxStep) = 0
    BY <1>1, <1>3, <2>1, <2>2
  <2>6. \A t \in Days : t > s - Window => Within(g, t, s - 1) <= MaxAttempts - 1
    BY <1>1, <1>3, <1>7, <2>1, <2>2
  <2>7. ASSUME NEW t \in Days PROVE Within(g, t, t + Window - 1) <= 2 * MaxAttempts - 1
    <3>1. CASE n \notin t .. (t + Window - 1)
      BY <1>1, <1>3, <1>6, <1>7, <3>1
    <3>2. CASE n \in t .. (t + Window - 1)
      <4>1. /\ t \in Nat /\ t + Window - 1 \in Int
            /\ Within(g, t, t + Window - 1) = Within(f, t, t + Window - 1) + 1
            /\ Within(f, t, t + Window - 1) <= Within(f, t, MaxStep)
            /\ Within(f, t, t + Window - 1) \in Nat /\ Within(f, t, MaxStep) \in Nat
        BY <1>1, <1>3, <1>5, <1>7, <3>2
      <4>2. CASE s <= t
        <5>1. Within(f, t, MaxStep) <= k
          BY <1>1, <1>4, <2>1, <2>2, <4>1, <4>2
        <5> QED BY <1>1, <2>1, <4>1, <5>1
      <4>3. CASE t < s
        <5>1. t > s - Window
          BY <1>1, <2>1, <3>2, <4>1
        <5>2. Within(f, t, MaxStep) = Within(f, t, s - 1) + Within(f, s, MaxStep)
              /\ Within(f, t, s - 1) \in Nat
          <6>1. t <= s /\ s <= MaxStep + 1 /\ t \in Int /\ s \in Int /\ MaxStep \in Int
            BY <1>1, <2>1, <4>1, <4>3
          <6> QED BY <1>1, <6>1, WithinSplits
        <5>3. Within(f, t, s - 1) <= MaxAttempts - 1
          BY <2>2, <5>1
        <5> QED BY <1>1, <2>1, <2>2, <4>1, <5>2, <5>3
      <4> QED BY <2>1, <4>1, <4>2, <4>3
    <3> QED BY <3>1, <3>2
  <2>8. k + 1 <= MaxAttempts /\ k + 1 # 0
    BY <1>1, <2>1
  <2> QED BY <1>1, <1>2, <1>8, <1>9, <2>1, <2>3, <2>4, <2>5, <2>6, <2>7, <2>8 DEF BudgetOf, g
<1>10. CASE ~Runs(ip, n)
  <2>1. /\ Within(f, n, MaxStep) = 0
        /\ \A t \in Days : t > n - Window => Within(f, t, MaxStep) <= MaxAttempts - 1
    BY <1>10, RunOut
  <2>2. Within(g, n, MaxStep) = 1
    BY <1>1, <1>3, <2>1
  <2>3. Within(g, n + Window, MaxStep) = 0
    <3>1. n \in Int /\ n + Window \in Int /\ MaxStep \in Int /\ n <= n + Window
      BY <1>1
    <3>2. /\ Within(f, n + Window, MaxStep) <= Within(f, n, MaxStep)
          /\ Within(f, n + Window, MaxStep) \in Nat
      BY <1>4, <3>1
    <3>3. n \notin (n + Window) .. MaxStep
      BY <1>1
    <3> QED BY <1>3, <2>1, <3>1, <3>2, <3>3
  <2>4. ASSUME NEW t \in Days, t > n - Window PROVE Within(g, t, n - 1) <= MaxAttempts - 1
    <3>1. Within(g, t, n - 1) = Within(f, t, n - 1)
      BY <1>1, <1>3, <1>7
    <3>2. Within(f, t, n - 1) <= Within(f, t, MaxStep) /\ Within(f, t, n - 1) \in Nat
      BY <1>1, <1>5
    <3>3. Within(f, t, MaxStep) \in Nat
      BY <1>1, <1>5
    <3> QED BY <1>1, <2>1, <2>4, <3>1, <3>2, <3>3
  <2>5. ASSUME NEW t \in Days PROVE Within(g, t, t + Window - 1) <= 2 * MaxAttempts - 1
    <3>1. CASE n \notin t .. (t + Window - 1)
      BY <1>1, <1>3, <1>6, <1>7, <3>1
    <3>2. CASE n \in t .. (t + Window - 1)
      <4>1. /\ t \in Nat /\ t > n - Window
            /\ Within(g, t, t + Window - 1) = Within(f, t, t + Window - 1) + 1
            /\ Within(f, t, t + Window - 1) <= Within(f, t, MaxStep)
            /\ Within(f, t, t + Window - 1) \in Nat /\ Within(f, t, MaxStep) \in Nat
        <5>1. t \in Nat /\ t > n - Window /\ t + Window - 1 \in Int /\ MaxStep \in Int
          BY <1>1, <1>7, <3>2
        <5> QED BY <1>3, <1>5, <3>2, <5>1
      <4>2. Within(f, t, MaxStep) <= MaxAttempts - 1
        BY <2>1, <4>1
      <4> QED BY <1>1, <4>1, <4>2
    <3> QED BY <3>1, <3>2
  <2> DEFINE b == [count |-> 1, start |-> n]
  <2>6. b \in [count : Nat, start : Nat] /\ b.count = 1 /\ b.start = n /\ 1 <= MaxAttempts
    BY <1>1
  <2> HIDE DEF b
  <2>7. BudgetOf(g, b, n)
    BY <1>1, <1>2, <1>8, <2>2, <2>3, <2>4, <2>5, <2>6 DEF BudgetOf
  <2> QED BY <1>10, <2>7 DEF g, b
<1> QED BY <1>9, <1>10

\* A later clock, and a bucket that has run out and is swept, change nothing of it.
LEMMA LaterBudget ==
  ASSUME NEW f, NEW ip, NEW n, BudgetOf(f, ip, n), n < MaxStep
  PROVE  BudgetOf(f, ip, n + 1)
<1>1. /\ f \in [Days -> Nat] /\ n \in Nat /\ MaxStep \in Nat /\ Window \in Nat
      /\ n + 1 \in Days /\ n + 1 \in Int /\ n + 2 \in Int /\ MaxStep \in Int
  BY BudgetIsPositive DEF BudgetOf, Days
<1>2. Within(f, n + 1, MaxStep) = 0
  BY DEF BudgetOf
<1>3. Within(f, n + 1 + 1, MaxStep) = 0
  BY <1>1, <1>2, WithinLater
<1>4. \A t \in Days : t > n + 1 - Window => t > n - Window
  BY <1>1 DEF Days
<1>5. ip.count > 0 => ip.start <= n + 1
  BY <1>1 DEF BudgetOf
<1> QED BY <1>1, <1>2, <1>3, <1>4, <1>5 DEF BudgetOf

LEMMA SweptBudget ==
  ASSUME NEW f, NEW ip, NEW n, BudgetOf(f, ip, n), ~Runs(ip, n)
  PROVE  BudgetOf(f, NoBucket, n)
<1>1. NoBucket \in [count : Nat, start : Nat] /\ NoBucket.count = 0 /\ 0 <= MaxAttempts
  BY BudgetIsPositive DEF NoBucket
<1>2. /\ Within(f, n, MaxStep) = 0
      /\ \A t \in Days : t > n - Window => Within(f, t, MaxStep) <= MaxAttempts - 1
  BY RunOut
<1>3. ~(NoBucket.count > 0)
  BY <1>1
<1> QED BY <1>1, <1>2, <1>3 DEF BudgetOf

\* Nothing tried is within any budget.
LEMMA FreshBudget ==
  ASSUME NEW n \in Days
  PROVE  BudgetOf([t \in Days |-> 0], NoBucket, n)
<1> DEFINE f == [t \in Days |-> 0]
<1>1. f \in [Days -> Nat] /\ \A t \in Days : f[t] = 0
  OBVIOUS
<1> HIDE DEF f
<1>2. ASSUME NEW a, NEW b PROVE Within(f, a, b) = 0
  <2>1. Made(f, (a .. b) \cap Days) = {}
    <3> DEFINE S == (a .. b) \cap Days
    <3>1. \A t \in S : f[t] = 0
      BY <1>1
    <3> HIDE DEF S
    <3>2. \A t \in S : {t} \X (1 .. f[t]) = {}
      BY <3>1
    <3>3. Made(f, S) = {}
      BY <3>2 DEF Made
    <3> QED BY <3>3 DEF S
  <2>2. Cardinality({}) = 0
    BY FS_EmptySet
  <2> QED BY <2>1, <2>2 DEF Within
<1>3. NoBucket \in [count : Nat, start : Nat] /\ NoBucket.count = 0
  BY DEF NoBucket
<1>4. MaxAttempts \in Nat \ {0}
  BY BudgetIsPositive
<1>5. BudgetOf(f, NoBucket, n)
  BY <1>1, <1>2, <1>3, <1>4 DEF BudgetOf
<1> QED BY <1>5 DEF f

\* A step that leaves the guesses, the clock and the bucket of the address alone.
LEMMA SameBudget ==
  ASSUME Budget, DOMAIN buckets' = Keys, buckets'["ip"] = buckets["ip"], UNCHANGED <<tried, now>>
  PROVE  Budget'
BY DEF Budget

LEMMA AllowKeepsBudget ==
  ASSUME Budget, Allow, UNCHANGED now
  PROVE  Budget'
<1> DEFINE ip == buckets["ip"]
<1>1. BudgetOf(tried, ip, now)
  BY DEF Budget
<1>2. "ip" \in Keys
  BY DEF Keys
<1>3. Runs(ip, now) => ip.count < MaxAttempts
  BY <1>2 DEF Allow, Allowed, Running, Runs
<1>4. tried' = [tried EXCEPT ![now] = @ + 1] /\ DOMAIN buckets' = Keys
  BY DEF Allow
<1>5. buckets'["ip"] = IF Runs(ip, now) THEN [ip EXCEPT !.count = @ + 1]
                       ELSE [count |-> 1, start |-> now]
  BY <1>2 DEF Allow, Running, Runs
<1>6. BudgetOf(tried', buckets'["ip"], now)
  BY <1>1, <1>3, <1>4, <1>5, AllowedGuess
<1> QED BY <1>4, <1>6 DEF Budget

\* Every request keeps it.
LEMMA RequestKeepsBudget ==
  ASSUME Budget, NEW c \in Callers, Request(c)
  PROVE  Budget'
<1>1. CASE Promote(c)
  BY <1>1, SameBudget DEF Promote, Promotion, Reset, Keys, Budget
<1>2. CASE RecordTOTPStep(c)
  BY <1>2, SameBudget DEF RecordTOTPStep, Reset, Keys, Budget
<1>3. ASSUME NEW recorded \in BOOLEAN, RecordRecovery(c, recorded) PROVE Budget'
  BY <1>3, SameBudget DEF RecordRecovery, Reset, Keys, Budget
<1>4. CASE ProveWrong(c)
  BY <1>4, AllowKeepsBudget DEF ProveWrong
<1>5. CASE ProveNothing(c)
  <2>1. CASE Allowed
    BY <1>5, <2>1, AllowKeepsBudget DEF ProveNothing
  <2>2. CASE ~Allowed
    BY <1>5, <2>2, SameBudget DEF ProveNothing, Budget
  <2> QED BY <2>1, <2>2
<1>6. ASSUME NEW t \in Steps, ProveCode(c, t) PROVE Budget'
  BY <1>6, AllowKeepsBudget DEF ProveCode
<1>7. ASSUME NEW s \in Sessions, NEW t \in Steps, CheckCode(c, s, t) PROVE Budget'
  BY <1>7, AllowKeepsBudget DEF CheckCode
<1>8. ASSUME NEW s \in Sessions, NEW k \in Codes, ConsumeRecoveryCode(c, s, k) PROVE Budget'
  BY <1>8, AllowKeepsBudget DEF ConsumeRecoveryCode
<1>9. CASE Login(c) \/ PromoteFails(c) \/ CodeReplayed(c) \/ DropRotated(c) \/ DisableTOTP(c)
  BY <1>9, SameBudget DEF Login, PromoteFails, CodeReplayed, DropRotated, DisableTOTP, Budget
<1>10. ASSUME NEW sheet \in SUBSET Codes, IssueCodes(c, sheet) PROVE Budget'
  BY <1>10, SameBudget DEF IssueCodes, Budget
<1>11. ASSUME NEW s \in Sessions, CreateSession(c, s) \/ EnrolSubmit(c, s) \/ RotateSession(c, s)
       PROVE  Budget'
  BY <1>11, SameBudget DEF CreateSession, EnrolSubmit, RotateSession, Budget
<1>12. ASSUME NEW s \in Sessions, NEW what \in {"issuing", "disabling"}, SettingsSubmit(c, s, what)
       PROVE  Budget'
  BY <1>12, SameBudget DEF SettingsSubmit, Budget
<1> QED
  BY <1>1, <1>2, <1>3, <1>4, <1>5, <1>6, <1>7, <1>8, <1>9, <1>10, <1>11, <1>12 DEF Request

LEMMA BudgetInvariant == Spec => []Budget
<1>1. Init => Budget
  <2> SUFFICES ASSUME Init PROVE Budget
    OBVIOUS
  <2>1. now \in Days /\ tried = [t \in Days |-> 0] /\ DOMAIN buckets = Keys /\ buckets["ip"] = NoBucket
    BY BudgetIsPositive DEF Init, Days, Keys
  <2> QED BY <2>1, FreshBudget DEF Budget
<1>2. Budget /\ [Next]_vars => Budget'
  <2> SUFFICES ASSUME Budget, [Next]_vars PROVE Budget'
    OBVIOUS
  <2>0. /\ BudgetOf(tried, buckets["ip"], now) /\ "ip" \in Keys
        /\ now \in Days /\ DOMAIN buckets = Keys
    BY DEF Budget, BudgetOf, Keys
  <2>1. CASE UNCHANGED vars
    BY <2>0, <2>1, SameBudget DEF vars
  <2>2. ASSUME NEW c \in Callers, Request(c) PROVE Budget'
    BY <2>2, RequestKeepsBudget
  <2>3. ASSUME NEW s \in Sessions, EndSession(s) PROVE Budget'
    BY <2>0, <2>3, SameBudget DEF EndSession
  <2>4. ASSUME NEW s \in Sessions, WrongCode(s) PROVE Budget'
    BY <2>4, AllowKeepsBudget DEF WrongCode
  <2>5. ASSUME NEW s \in Sessions, NEW fresh \in Secrets, EnrolForm(s, fresh) PROVE Budget'
    BY <2>0, <2>5, SameBudget DEF EnrolForm
  <2>6. CASE ResetUserTOTP
    BY <2>0, <2>6, SameBudget DEF ResetUserTOTP
  <2>7. CASE Restart
    <3>1. /\ tried' = [t \in Days |-> 0] /\ now' = now
          /\ DOMAIN buckets' = Keys /\ buckets'["ip"] = NoBucket
      BY <2>0, <2>7 DEF Restart, Days
    <3> QED BY <2>0, <3>1, FreshBudget DEF Budget
  <2>8. CASE Tick
    <3>1. BudgetOf(tried, buckets["ip"], now + 1)
      BY <2>0, <2>8, LaterBudget DEF Tick
    <3> QED BY <2>0, <2>8, <3>1 DEF Tick, Budget
  <2>9. CASE Cleanup
    <3>1. UNCHANGED <<tried, now>> /\ DOMAIN buckets' = Keys
          /\ buckets'["ip"] = IF Runs(buckets["ip"], now) THEN buckets["ip"] ELSE NoBucket
      BY <2>0, <2>9 DEF Cleanup, Running, Runs
    <3>2. CASE Runs(buckets["ip"], now)
      BY <3>1, <3>2, SameBudget
    <3>3. CASE ~Runs(buckets["ip"], now)
      <4>1. BudgetOf(tried, NoBucket, now)
        BY <2>0, <3>3, SweptBudget
      <4> QED BY <3>1, <3>3, <4>1 DEF Budget
    <3> QED BY <3>2, <3>3
  <2> QED BY <2>1, <2>2, <2>3, <2>4, <2>5, <2>6, <2>7, <2>8, <2>9 DEF Next
<1> QED BY <1>1, <1>2, PTL DEF Spec

\* However many requests guess, and whatever succeeds between them, at most one guess less
\* than two budgets gets through in a window's time (Limiter.Allow).
THEOREM GuessesBoundedHolds == Spec => []GuessesBounded
<1>1. Budget => GuessesBounded
  <2> SUFFICES ASSUME Budget, NEW t \in 0 .. now
               PROVE  Guesses(t, t + Window - 1) <= 2 * MaxAttempts - 1
    BY DEF GuessesBounded
  <2>0. tried \in [Days -> Nat] /\ now \in Days
    BY DEF Budget, BudgetOf
  <2>1. DOMAIN tried = Days /\ t \in Days
    BY <2>0, BudgetIsPositive DEF Days
  <2>2. Guesses(t, t + Window - 1) = Within(tried, t, t + Window - 1)
    BY <2>1 DEF Guesses, Within, Made
  <2> QED BY <2>1, <2>2 DEF Budget, BudgetOf
<1> QED BY <1>1, BudgetInvariant, PTL
=============================================================================
