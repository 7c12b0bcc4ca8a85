---------------------------- MODULE SecondFactor ----------------------------
(***************************************************************************)
(* The second factor of one account: internal/store/totp.go, recovery.go   *)
(* and RotateSession, the handlers of internal/web that enrol, ask, replace *)
(* and switch off, and the budget of guesses of internal/auth/ratelimit.go *)
(* that they share.  A statement of the store is one action; a handler     *)
(* goes through several, and others come between.                          *)
(*                                                                         *)
(* A secret is a model value, and the code of a secret at a step is right  *)
(* or is not.  Time is counted in steps of an authenticator.  A secret and *)
(* a recovery code are random: an id nobody holds stands for a new one.    *)
(***************************************************************************)
EXTENDS FiniteSets, Integers

CONSTANTS
  Secrets, Codes,     \* authenticator secrets; recovery codes
  SheetSize,          \* auth.RecoveryCodeCount
  Sessions, Callers,
  MaxAttempts, Window,  \* of the limiter, the window in steps
  MaxStep,            \* the clock stops here
  NoSecret, NoCode, NoCall

Skew == 1
Steps == 0 .. MaxStep + Skew
NoStep == -1
Keys == {"user", "ip"}
NoBucket == [count |-> 0, start |-> 0]

ASSUME BudgetIsPositive == MaxAttempts \in Nat \ {0} /\ Window \in Nat \ {0} /\ MaxStep \in Nat
ASSUME NullsAreNull == NoSecret \notin Secrets /\ NoCode \notin Secrets \cup {NoSecret}

Call ==
  [at : {"entering"}, owed : BOOLEAN]
    \cup [at : {"gated", "recovered", "issuing", "disabling"}, session : Sessions]
    \cup [at : {"proving", "checked"}, session : Sessions, secret : Secrets, step : Steps]
    \cup [at : {"rotating", "dropping"}, session : Sessions, enrolled : BOOLEAN]

ASSUME NoCallIsNoCall == NoCall \notin Call

VARIABLES
  admin,      \* users.is_admin: the second factor is mandatory
  secret,     \* users.totp_secret_encrypted
  pending,    \* users.totp_pending_secret_encrypted
  lastStep,   \* users.totp_last_step
  codes,      \* totp_recovery_codes not used yet, by the secret in force when they were issued
  sessions,   \* of the account: "none", "pending" or "full"
  calls,      \* what each request has checked and not yet done
  buckets,    \* the limiter's, for this account and for one client address
  now,
  tried,      \* guesses let through at each step
  accepted    \* steps accepted or closed under the secret in force; only properties
              \* read these two

factor == <<secret, pending, lastStep, codes>>
vars == <<admin, secret, pending, lastStep, codes, sessions, calls, buckets, now, tried, accepted>>

HasTOTP == secret # NoSecret
At(c, stage) == calls[c] # NoCall /\ calls[c].at = stage
Begin(c, call) == calls[c] = NoCall /\ calls' = [calls EXCEPT ![c] = call]
Continue(c, call) == calls' = [calls EXCEPT ![c] = call]
Finish(c) == calls' = [calls EXCEPT ![c] = NoCall]

NewSecret(s) ==
  /\ s \notin {secret, pending}
  /\ \A c \in Callers : (At(c, "proving") \/ At(c, "checked")) => calls[c].secret # s
NoSheet == [k \in Codes |-> NoCode]

-----------------------------------------------------------------------------
(* Limiter.                                                                *)

Running(k) == buckets[k].count > 0 /\ now - buckets[k].start < Window

\* Allow: every key is looked at before any is counted.
Allowed == \A k \in Keys : Running(k) => buckets[k].count < MaxAttempts
Allow ==
  /\ Allowed
  /\ buckets' = [k \in Keys |-> IF Running(k) THEN [buckets[k] EXCEPT !.count = @ + 1]
                                ELSE [count |-> 1, start |-> now]]
  /\ tried' = [tried EXCEPT ![now] = @ + 1]

\* Reset, after a success, gives the account's budget back and not the address's.
ResetBoth == buckets' = [k \in Keys |-> NoBucket]
Reset == buckets' = [buckets EXCEPT !["user"] = NoBucket]

\* Cleanup, which the janitor calls.
Cleanup ==
  /\ buckets' = [k \in Keys |-> IF Running(k) THEN buckets[k] ELSE NoBucket]
  /\ buckets' # buckets
  /\ UNCHANGED <<admin, factor, sessions, calls, now, tried, accepted>>

-----------------------------------------------------------------------------
(* Signing in and out.                                                     *)

\* handleLoginSubmit: whether a second step is owed is read before the hash.
Login(c) ==
  /\ Begin(c, [at |-> "entering", owed |-> HasTOTP \/ admin])
  /\ UNCHANGED <<admin, factor, sessions, buckets, now, tried, accepted>>

CreateSession(c, s) ==
  /\ At(c, "entering") /\ sessions[s] = "none"
  /\ sessions' = [sessions EXCEPT ![s] = IF calls[c].owed THEN "pending" ELSE "full"]
  /\ Finish(c)
  /\ UNCHANGED <<admin, factor, buckets, now, tried, accepted>>

\* Logging out, expiry, a change of password.
EndSession(s) ==
  /\ sessions[s] # "none"
  /\ sessions' = [sessions EXCEPT ![s] = "none"]
  /\ UNCHANGED <<admin, factor, calls, buckets, now, tried, accepted>>

-----------------------------------------------------------------------------
(* Enrolling.                                                              *)

\* enrolCandidate: a session that owes a code enrols nothing over a secret.
EnrolCandidate(s) == sessions[s] = "full" \/ (sessions[s] = "pending" /\ ~HasTOTP)

\* handleEnrolTOTPForm and newTOTPSetup: every visit stores a new pending secret.
EnrolForm(s, fresh) ==
  /\ EnrolCandidate(s) /\ NewSecret(fresh)
  /\ pending' = fresh
  /\ UNCHANGED <<admin, secret, lastStep, codes, sessions, calls, buckets, now, tried, accepted>>

\* handleEnrolTOTPSubmit passes the gate, and checks the password for a while.
EnrolSubmit(c, s) ==
  /\ EnrolCandidate(s)
  /\ Begin(c, [at |-> "gated", session |-> s])
  /\ UNCHANGED <<admin, factor, sessions, buckets, now, tried, accepted>>

\* ValidateTOTP accepts the code of a step on either side of the clock's.
InWindow(t) == t \in now - Skew .. now + Skew

\* The code is one of the pending secret that is read now.
ProveCode(c, t) ==
  /\ At(c, "gated") /\ pending # NoSecret /\ InWindow(t)
  /\ Allow
  /\ Continue(c, [at |-> "proving", session |-> calls[c].session, secret |-> pending, step |-> t])
  /\ UNCHANGED <<admin, factor, sessions, now, accepted>>

\* A wrong code, or one of a secret that is no longer pending.
ProveWrong(c) ==
  /\ At(c, "gated") /\ pending # NoSecret
  /\ Allow
  /\ Finish(c)
  /\ UNCHANGED <<admin, factor, sessions, now, accepted>>

\* Nothing is pending any more, or there have been too many guesses.
ProveNothing(c) ==
  /\ At(c, "gated")
  /\ ~Allowed \/ pending = NoSecret
  /\ IF Allowed THEN Allow ELSE UNCHANGED <<buckets, tried>>
  /\ Finish(c)
  /\ UNCHANGED <<admin, factor, sessions, now, accepted>>

Promotion(c) ==
  /\ secret' = pending /\ pending' = NoSecret
  /\ lastStep' = calls[c].step
  /\ accepted' = {calls[c].step}
  /\ Reset
  /\ Continue(c, [at |-> "rotating", session |-> calls[c].session, enrolled |-> TRUE])
  /\ UNCHANGED <<admin, sessions, now, tried>>

\* PromotePendingTOTPSecret promotes what is pending by then.
PromoteKeepsCodes(c) ==
  /\ At(c, "proving") /\ pending # NoSecret
  /\ UNCHANGED codes
  /\ Promotion(c)
Promote(c) ==
  /\ At(c, "proving") /\ pending # NoSecret
  /\ codes' = NoSheet
  /\ Promotion(c)

PromoteFails(c) ==
  /\ At(c, "proving") /\ pending = NoSecret
  /\ Finish(c)
  /\ UNCHANGED <<admin, factor, sessions, buckets, now, tried, accepted>>

\* ReplaceRecoveryCodes, after an enrolment or from the settings.
IssueCodes(c, sheet) ==
  /\ At(c, "issuing")
  /\ Cardinality(sheet) = SheetSize /\ \A k \in sheet : codes[k] = NoCode
  /\ codes' = [k \in Codes |-> IF k \in sheet THEN secret ELSE NoCode]
  /\ Finish(c)
  /\ UNCHANGED <<admin, secret, pending, lastStep, sessions, buckets, now, tried, accepted>>

-----------------------------------------------------------------------------
(* Proving it at sign-in.                                                  *)

\* handleTOTPSubmit reads the secret and finds the code right.
CheckCode(c, s, t) ==
  /\ sessions[s] = "pending" /\ HasTOTP /\ InWindow(t)
  /\ Allow
  /\ Begin(c, [at |-> "checked", session |-> s, secret |-> secret, step |-> t])
  /\ UNCHANGED <<admin, factor, sessions, now, accepted>>

\* A wrong code, of the app or of the sheet, costs a guess.
WrongCode(s) ==
  /\ sessions[s] = "pending" /\ HasTOTP
  /\ Allow
  /\ UNCHANGED <<admin, factor, sessions, calls, now, accepted>>

\* RecordTOTPStep compares and stores in one statement.
NewerOrSame(t) == lastStep = NoStep \/ lastStep <= t
Newer(t) == lastStep = NoStep \/ lastStep < t

RecordTOTPStep(c) ==
  /\ At(c, "checked")
  /\ Newer(calls[c].step)
  /\ lastStep' = calls[c].step
  /\ accepted' = IF calls[c].secret = secret THEN accepted \cup {calls[c].step} ELSE accepted
  /\ Reset
  /\ Continue(c, [at |-> "rotating", session |-> calls[c].session, enrolled |-> FALSE])
  /\ UNCHANGED <<admin, secret, pending, codes, sessions, now, tried>>

CodeReplayed(c) ==
  /\ At(c, "checked")
  /\ ~Newer(calls[c].step)
  /\ Finish(c)
  /\ UNCHANGED <<admin, factor, sessions, buckets, now, tried, accepted>>

\* handleRecoverySubmit: ConsumeRecoveryCode checks and spends in one statement.
ConsumeRecoveryCode(c, s, k) ==
  /\ sessions[s] = "pending" /\ HasTOTP /\ codes[k] # NoCode
  /\ Allow
  /\ codes' = [codes EXCEPT ![k] = NoCode]
  /\ Begin(c, [at |-> "recovered", session |-> s])
  /\ UNCHANGED <<admin, secret, pending, lastStep, sessions, now, accepted>>

\* The current step is recorded unless a later one is; an error of the database is
\* logged and the sign-in goes on.
RecordRecovery(c, recorded) ==
  /\ At(c, "recovered")
  /\ lastStep' = IF recorded /\ Newer(now) THEN now ELSE lastStep
  /\ accepted' = IF recorded /\ HasTOTP THEN accepted \cup 0 .. now ELSE accepted
  /\ Reset
  /\ Continue(c, [at |-> "rotating", session |-> calls[c].session, enrolled |-> FALSE])
  /\ UNCHANGED <<admin, secret, pending, codes, sessions, now, tried>>

\* RotateSession: the new session, and then the end of the old one.  Nobody looks
\* whether the old one is still there.
RotateSession(c, s) ==
  /\ At(c, "rotating") /\ sessions[s] = "none" /\ s # calls[c].session
  /\ sessions' = [sessions EXCEPT ![s] = "full"]
  /\ Continue(c, [calls[c] EXCEPT !.at = "dropping"])
  /\ UNCHANGED <<admin, factor, buckets, now, tried, accepted>>

DropRotated(c) ==
  /\ At(c, "dropping")
  /\ sessions' = [sessions EXCEPT ![calls[c].session] = "none"]
  /\ IF calls[c].enrolled
     THEN Continue(c, [at |-> "issuing", session |-> calls[c].session])
     ELSE Finish(c)
  /\ UNCHANGED <<admin, factor, buckets, now, tried, accepted>>

-----------------------------------------------------------------------------
(* Settings, the command line and the world.                               *)

\* handleSettingsRecoveryCodes and handleSettingsTOTPDisable, whose password takes a while.
SettingsSubmit(c, s, what) ==
  /\ sessions[s] = "full" /\ HasTOTP
  /\ what = "disabling" => ~admin
  /\ Begin(c, [at |-> what, session |-> s])
  /\ UNCHANGED <<admin, factor, sessions, buckets, now, tried, accepted>>

Cleared ==
  /\ secret' = NoSecret /\ pending' = NoSecret /\ lastStep' = NoStep /\ codes' = NoSheet
  /\ accepted' = {}

DisableTOTP(c) ==
  /\ At(c, "disabling")
  /\ Cleared
  /\ Finish(c)
  /\ UNCHANGED <<admin, sessions, buckets, now, tried>>

\* "user reset-2fa": ResetUserTOTP.
ResetUserTOTP ==
  /\ HasTOTP \/ pending # NoSecret
  /\ Cleared
  /\ sessions' = [s \in Sessions |-> "none"]
  /\ UNCHANGED <<admin, calls, buckets, now, tried>>

\* The process is killed and started again: what was not written is lost, and so are
\* the counters.
Restart ==
  /\ calls' = [c \in Callers |-> NoCall]
  /\ buckets' = [k \in Keys |-> NoBucket]
  /\ tried' = [t \in 0 .. MaxStep |-> 0]
  /\ UNCHANGED <<admin, factor, sessions, now, accepted>>

Tick ==
  /\ now < MaxStep
  /\ now' = now + 1
  /\ UNCHANGED <<admin, factor, sessions, calls, buckets, tried, accepted>>

-----------------------------------------------------------------------------
Init ==
  /\ admin \in BOOLEAN
  /\ secret = NoSecret /\ pending = NoSecret /\ lastStep = NoStep
  /\ codes = NoSheet
  /\ sessions = [s \in Sessions |-> "none"]
  /\ calls = [c \in Callers |-> NoCall]
  /\ buckets = [k \in Keys |-> NoBucket]
  /\ now = 0
  /\ tried = [t \in 0 .. MaxStep |-> 0]
  /\ accepted = {}

Request(c) ==
  \/ Login(c) \/ ProveWrong(c) \/ ProveNothing(c) \/ Promote(c) \/ PromoteFails(c)
  \/ RecordTOTPStep(c) \/ CodeReplayed(c) \/ DropRotated(c) \/ DisableTOTP(c)
  \/ \E t \in Steps : ProveCode(c, t)
  \/ \E sheet \in SUBSET Codes : IssueCodes(c, sheet)
  \/ \E recorded \in BOOLEAN : RecordRecovery(c, recorded)
  \/ \E s \in Sessions :
       \/ CreateSession(c, s) \/ EnrolSubmit(c, s) \/ RotateSession(c, s)
       \/ \E t \in Steps : CheckCode(c, s, t)
       \/ \E k \in Codes : ConsumeRecoveryCode(c, s, k)
       \/ \E what \in {"issuing", "disabling"} : SettingsSubmit(c, s, what)

Next ==
  \/ \E c \in Callers : Request(c)
  \/ \E s \in Sessions :
       EndSession(s) \/ WrongCode(s) \/ \E fresh \in Secrets : EnrolForm(s, fresh)
  \/ ResetUserTOTP \/ Restart \/ Tick \/ Cleanup

Spec == Init /\ [][Next]_vars

-----------------------------------------------------------------------------
(* Properties.                                                             *)

\* The columns hold what they are for.
TypeOK ==
  /\ admin \in BOOLEAN
  /\ secret \in Secrets \cup {NoSecret} /\ pending \in Secrets \cup {NoSecret}
  /\ lastStep \in Steps \cup {NoStep}
  /\ codes \in [Codes -> Secrets \cup {NoSecret, NoCode}]
  /\ sessions \in [Sessions -> {"none", "pending", "full"}]
  /\ calls \in [Callers -> Call \cup {NoCall}]
  /\ buckets \in [Keys -> [count : 0 .. MaxAttempts, start : 0 .. MaxStep]]
  /\ now \in 0 .. MaxStep /\ tried \in [0 .. MaxStep -> Nat] /\ accepted \subseteq Steps

\* A code of the secret in force counts once, at enrolment or at sign-in, though two
\* requests may have found it right, and not at all once a recovery code of its
\* window was used (RecordTOTPStep: "two simultaneous submissions cannot both pass").
CodeCountsOnce ==
  [][\A c \in Callers :
       At(c, "checked") /\ calls[c].secret = secret /\ calls'[c] # calls[c] /\ calls'[c] # NoCall
       => calls[c].step \notin accepted]_vars

\* A live recovery code was issued under the secret in force, however an enrolment, a
\* replacement of the sheet, a disabling and a reset come between each other
\* (DiscardRecoveryCodes: "codes minted against the old secret are a way past the new one").
CodesAreTheSecrets == \A k \in Codes : codes[k] # NoCode => codes[k] = secret

\* How many guesses were let through at the steps from one to another.
Guesses(from, to) == Cardinality(UNION {{t} \X (1 .. tried[t]) : t \in (from .. to) \cap DOMAIN tried})

\* A fixed window lets at most one guess less than two budgets through in a window's
\* time, successes between them or not (Limiter.Allow).
GuessesBounded == \A t \in 0 .. now : Guesses(t, t + Window - 1) <= 2 * MaxAttempts - 1

=============================================================================
