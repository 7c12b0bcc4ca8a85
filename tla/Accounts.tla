------------------------------ MODULE Accounts ------------------------------
(***************************************************************************)
(* Logins: internal/store/users.go, sessions.go, reset.go and              *)
(* invitations.go, and the handlers of internal/web and commands of        *)
(* cmd/wordleland that drive them.  Every operation of the store is one    *)
(* transaction; a handler reads, hashes a password for a while, and only   *)
(* then writes, so that whatever it read may have changed.                 *)
(*                                                                         *)
(* A link is the live row of an emailed token: one that was used, spent by *)
(* another use or is too old is gone, and the id of a token is given again *)
(* only once nobody holds it, as random tokens never meet.  Of a password  *)
(* only the age is kept, of whatever it was checked for.  That an address  *)
(* was verified is left out: it only words a page.  The second factor is   *)
(* SecondFactor's.                                                         *)
(***************************************************************************)
EXTENDS FiniteSets, Naturals

CONSTANTS
  Users,      \* ids that accounts may be given
  Admins,     \* those of them made as admins, which an account stays
  Addresses,  \* addresses, as NormalizeEmail leaves them
  Players,    \* players of the scoreboard
  Links,      \* tokens of password resets and of address confirmations
  Invites,    \* tokens of invitations
  Sessions,   \* session ids
  Callers,    \* goroutines that may be inside a handler
  NoAccount, NoAddress, NoUser, NoLink, NoInvite, NoCall

Purposes == {"reset", "verify"}

Account == [email : Addresses, pending : Addresses \cup {NoAddress},
            disabled : BOOLEAN]
\* "to" is where the link was mailed, which the row does not hold.
Link == [user : Users, purpose : Purposes, to : Addresses]
Invite == [player : Players, to : Addresses]
\* A check, a session or a waiting address is of the password in force; was written
\* under it by a request that had checked one before it; or is of one before it.
Age == {"current", "late", "old"}
Ages == [checked : [Callers -> Age], opened : [Sessions -> Age], asked : [Users -> Age]]
Call ==
  [at : {"linking"}, user : Users, to : Addresses]
    \cup [at : {"mailing"}, user : Users, to : Addresses]
    \cup [at : {"moving"}, user : Users, to : Addresses]
    \cup [at : {"resetting"}, link : Links, user : Users]
    \cup [at : {"changing"}, user : Users]
    \cup [at : {"entering"}, user : Users]
    \cup [at : {"claiming"}, invite : Invites, player : Players]
    \cup [at : {"detaching"}, player : Players]

ASSUME AdminsAreUsers == Admins \subseteq Users
ASSUME NullsAreNull ==
  /\ NoAccount \notin Account /\ NoAddress \notin Addresses /\ NoUser \notin Users
  /\ NoLink \notin Link /\ NoInvite \notin Invite /\ NoCall \notin Call

VARIABLES
  accounts,   \* table users
  playerOf,   \* players.user_id: the login that is linked to a player
  links,      \* table password_reset_tokens
  invites,    \* table invitations
  sessions,   \* table sessions
  calls,      \* what each goroutine has decided and not yet done
  ages        \* history: how what was begun under a password stands to the one in force

tables == <<accounts, playerOf, links, invites, sessions>>
vars == <<accounts, playerOf, links, invites, sessions, calls, ages>>

Exists(u) == accounts[u] # NoAccount
Registered == {u \in Users : Exists(u)}
\* A bug: the address of an account that is switched off is free.
TakenByActive(a) == \E u \in Registered : accounts[u].email = a /\ ~accounts[u].disabled
\* ErrEmailTaken: the UNIQUE constraint on users.email.
Taken(a) == \E u \in Registered : accounts[u].email = a
\* A session as store.SessionUser gives it to a request.
SignedIn(s) == sessions[s] # NoUser /\ ~accounts[sessions[s]].disabled
LinkLives(l) == links[l] # NoLink
InviteLives(i) == invites[i] # NoInvite

NewAccount(a) == [email |-> a, pending |-> NoAddress, disabled |-> FALSE]

\* deleteSessions.
WithoutSessions(u) == [s \in Sessions |-> IF sessions[s] = u THEN NoUser ELSE sessions[s]]
\* Every other outstanding token of a user goes with a reset.
WithoutLinks(u) ==
  [l \in Links |-> IF LinkLives(l) /\ links[l].user = u THEN NoLink ELSE links[l]]

At(c, stage) == calls[c] # NoCall /\ calls[c].at = stage

\* A random token is one nobody has seen.
NewLink(l) == ~LinkLives(l) /\ \A c \in Callers : ~(At(c, "resetting") /\ calls[c].link = l)
NewInvite(i) == ~InviteLives(i) /\ \A c \in Callers : ~(At(c, "claiming") /\ calls[c].invite = i)

\* A request has checked the account's password and not yet written for it.
Asking(c, u) ==
  calls[c] # NoCall /\ calls[c].at \in {"entering", "moving", "changing"} /\ calls[c].user = u

\* A request finds the password right, or makes the account.
Checked(c) == ages' = [ages EXCEPT !.checked[c] = "current"]
\* What a request writes is late when a new password came between its check and the write.
Written(c) == IF ages.checked[c] = "current" THEN "current" ELSE "late"
\* With a new password, what is left of the account from before it is old.
NewPassword(u) ==
  ages' = [checked |-> [c \in Callers |-> IF Asking(c, u) THEN "old" ELSE ages.checked[c]],
           opened |-> [s \in Sessions |-> IF sessions[s] # u THEN ages.opened[s]
                                          ELSE IF sessions'[s] = u THEN "old" ELSE "current"],
           asked |-> [ages.asked EXCEPT ![u] =
                        IF accounts'[u].pending # NoAddress THEN "old" ELSE "current"]]

Begin(c, call) == calls[c] = NoCall /\ calls' = [calls EXCEPT ![c] = call]
Continue(c, call) == calls' = [calls EXCEPT ![c] = call]
Finish(c) == calls' = [calls EXCEPT ![c] = NoCall]
\* The handler answers with an error and nothing was written.
Refuse(c) == Finish(c) /\ UNCHANGED <<tables, ages>>

-----------------------------------------------------------------------------
(* Accounts made by the server on a fresh volume and by the CLI.           *)

\* store.BootstrapAdmin, from serve: the count and the insert share a transaction.
Bootstrap(u, a) ==
  /\ Registered = {} /\ u \in Admins
  /\ accounts' = [accounts EXCEPT ![u] = NewAccount(a)]
  /\ UNCHANGED <<playerOf, links, invites, sessions, calls, ages>>

\* "user create"; ids are given in order, so that any unused one will do.
CreateUser(u, a) ==
  /\ ~Exists(u) /\ ~Taken(a)
  /\ accounts' = [accounts EXCEPT ![u] = NewAccount(a)]
  /\ UNCHANGED <<playerOf, links, invites, sessions, calls, ages>>

\* store.SetUserPassword: sessions and a waiting change of address go, links do not.
SetUserPassword(u) ==
  /\ accounts' = [accounts EXCEPT ![u].pending = NoAddress]
  /\ sessions' = WithoutSessions(u)
  /\ NewPassword(u)

\* "user reset-password".
ResetPassword(u) ==
  /\ Exists(u)
  /\ SetUserPassword(u)
  /\ UNCHANGED <<playerOf, links, invites, calls>>

\* store.SetUserDisabled, which "user disable" and "user enable" call.
SetUserDisabled(u, disabled) ==
  /\ accounts' = [accounts EXCEPT ![u].disabled = disabled]
  /\ sessions' = IF disabled THEN WithoutSessions(u) ELSE sessions

Disable(u) ==
  /\ Exists(u)
  /\ SetUserDisabled(u, TRUE)
  /\ UNCHANGED <<playerOf, links, invites, calls, ages>>

Enable(u) ==
  /\ Exists(u) /\ accounts[u].disabled
  /\ SetUserDisabled(u, FALSE)
  /\ UNCHANGED <<playerOf, links, invites, calls, ages>>

-----------------------------------------------------------------------------
(* Signing in and out.                                                     *)

\* handleLoginSubmit up to a password that is right: the account is read, and the
\* hash takes a while.
CheckPassword(c, u) ==
  /\ Exists(u) /\ ~accounts[u].disabled
  /\ Begin(c, [at |-> "entering", user |-> u])
  /\ Checked(c) /\ UNCHANGED tables

\* store.CreateSession, for a sign-in or an accepted invitation.
OpenSession(c, s) ==
  /\ At(c, "entering") /\ sessions[s] = NoUser
  /\ sessions' = [sessions EXCEPT ![s] = calls[c].user]
  /\ ages' = [ages EXCEPT !.opened[s] = Written(c), !.checked[c] = "current"]
  /\ Finish(c)
  /\ UNCHANGED <<accounts, playerOf, links, invites>>

\* handleLogout, SessionUser meeting an expired session, or the janitor.
EndSession(s) ==
  /\ sessions[s] # NoUser
  /\ sessions' = [sessions EXCEPT ![s] = NoUser]
  /\ ages' = [ages EXCEPT !.opened[s] = "current"]
  /\ UNCHANGED <<accounts, playerOf, links, invites, calls>>

-----------------------------------------------------------------------------
(* Links by mail: forgotten passwords and changes of address.              *)

\* createLinkToken, and the mail that carries it.
CreateLink(l, u, purpose, a) ==
  /\ NewLink(l)
  /\ links' = [links EXCEPT ![l] = [user |-> u, purpose |-> purpose, to |-> a]]

\* issueResetLink, for somebody who forgot or for an admin: the account is read,
\* and the link goes to the address it had then.
ForgotPassword(c, u) ==
  /\ Exists(u) /\ ~accounts[u].disabled
  /\ Begin(c, [at |-> "linking", user |-> u, to |-> accounts[u].email])
  /\ UNCHANGED <<tables, ages>>

IssueResetLink(c, l) ==
  /\ At(c, "linking")
  /\ CreateLink(l, calls[c].user, "reset", calls[c].to)
  /\ Finish(c)
  /\ UNCHANGED <<accounts, playerOf, invites, sessions, ages>>

\* passwordResetTokenUser.
ResetLinkGood(l) ==
  /\ LinkLives(l) /\ links[l].purpose = "reset"
  /\ ~accounts[links[l].user].disabled

\* handleResetPasswordSubmit checks the link before it pays for a hash.
ResetPasswordSubmit(c, l) ==
  /\ ResetLinkGood(l)
  /\ Begin(c, [at |-> "resetting", link |-> l, user |-> links[l].user])
  /\ UNCHANGED <<tables, ages>>

\* A bug: a change of address that waits outlives the password.
ResetKeepsPending(u) ==
  /\ UNCHANGED accounts
  /\ links' = WithoutLinks(u)
  /\ sessions' = WithoutSessions(u)
  /\ NewPassword(u)
  /\ UNCHANGED <<playerOf, invites>>
\* What a reset does: password, pending address, links and sessions in one go.
Reset(u) ==
  /\ accounts' = [accounts EXCEPT ![u].pending = NoAddress]
  /\ links' = WithoutLinks(u)
  /\ sessions' = WithoutSessions(u)
  /\ NewPassword(u)
  /\ UNCHANGED <<playerOf, invites>>

\* ConsumePasswordResetToken checks the link again inside its transaction.
ConsumeReset(c) ==
  /\ At(c, "resetting")
  /\ ResetLinkGood(calls[c].link)
  /\ Finish(c)
  /\ Reset(calls[c].user)

ConsumeResetFails(c) ==
  /\ At(c, "resetting")
  /\ ~ResetLinkGood(calls[c].link)
  /\ Refuse(c)

\* handleSettingsPassword, once the current password has been checked.
SettingsPassword(c, s) ==
  /\ SignedIn(s)
  /\ Begin(c, [at |-> "changing", user |-> sessions[s]])
  /\ Checked(c) /\ UNCHANGED tables

ChangePassword(c) ==
  /\ At(c, "changing")
  /\ SetUserPassword(calls[c].user)
  /\ Finish(c)
  /\ UNCHANGED <<playerOf, links, invites>>

\* handleSettingsEmail, once the current password has been checked.
SettingsEmail(c, s, a) ==
  /\ SignedIn(s)
  /\ Begin(c, [at |-> "moving", user |-> sessions[s], to |-> a])
  /\ Checked(c) /\ UNCHANGED tables

TakenByOther(u, a) == \E v \in Registered \ {u} : accounts[v].email = a

\* SetPendingEmail: a transaction that refuses the account's own address and
\* anybody else's.
SetPendingEmail(c) ==
  LET u == calls[c].user  a == calls[c].to IN
    /\ At(c, "moving")
    /\ IF a = accounts[u].email \/ TakenByOther(u, a)
       THEN Refuse(c)
       ELSE /\ accounts' = [accounts EXCEPT ![u].pending = a]
            /\ ages' = [ages EXCEPT !.asked[u] = Written(c), !.checked[c] = "current"]
            /\ Continue(c, [at |-> "mailing", user |-> u, to |-> a])
            /\ UNCHANGED <<playerOf, links, invites, sessions>>

\* sendVerifyEmail: a link to the new address.
SendVerifyEmail(c, l) ==
  /\ At(c, "mailing")
  /\ CreateLink(l, calls[c].user, "verify", calls[c].to)
  /\ Finish(c)
  /\ UNCHANGED <<accounts, playerOf, invites, sessions, ages>>

\* PromotePendingEmail, when there is one.
Promoted(u) ==
  IF accounts[u].pending = NoAddress THEN accounts[u]
  ELSE [accounts[u] EXCEPT !.email = accounts[u].pending, !.pending = NoAddress]

\* ConsumeEmailVerificationToken: a promotion that meets a taken address takes the
\* whole transaction back, the spending of the link included.
VerifyEmail(l) ==
  LET u == links[l].user IN
    /\ LinkLives(l) /\ links[l].purpose = "verify"
    /\ accounts[u].pending = NoAddress \/ ~TakenByOther(u, accounts[u].pending)
    /\ accounts' = [accounts EXCEPT ![u] = Promoted(u)]
    /\ links' = [links EXCEPT ![l] = NoLink]
    /\ ages' = [ages EXCEPT !.asked[u] = "current"]
    /\ UNCHANGED <<playerOf, invites, sessions, calls>>

\* An hour has passed.
LinkExpires(l) ==
  /\ LinkLives(l)
  /\ links' = [links EXCEPT ![l] = NoLink]
  /\ UNCHANGED <<accounts, playerOf, invites, sessions, calls, ages>>

-----------------------------------------------------------------------------
(* Invitations, and the links between players and logins.                  *)

Spend(p) ==
  [i \in Invites |-> IF InviteLives(i) /\ invites[i].player = p THEN NoInvite ELSE invites[i]]

\* A bug: the earlier invitation stays live.
CreateAnotherInvitation(i, p, a) ==
  /\ NewInvite(i)
  /\ playerOf[p] = NoUser /\ ~Taken(a)
  /\ invites' = [invites EXCEPT ![i] = [player |-> p, to |-> a]]
  /\ UNCHANGED <<accounts, playerOf, links, sessions, calls, ages>>
\* CreateInvitation: any earlier one for the player is spent first.
CreateInvitation(i, p, a) ==
  /\ NewInvite(i)
  /\ playerOf[p] = NoUser /\ ~Taken(a)
  /\ invites' = [Spend(p) EXCEPT ![i] = [player |-> p, to |-> a]]
  /\ UNCHANGED <<accounts, playerOf, links, sessions, calls, ages>>

\* CancelInvitation.
CancelInvitation(p) ==
  /\ Spend(p) # invites
  /\ invites' = Spend(p)
  /\ UNCHANGED <<accounts, playerOf, links, sessions, calls, ages>>

\* A week has passed.
InviteExpires(i) ==
  /\ InviteLives(i)
  /\ invites' = [invites EXCEPT ![i] = NoInvite]
  /\ UNCHANGED <<accounts, playerOf, links, sessions, calls, ages>>

\* handleInviteSubmit reads the invitation, and hashes the chosen password.
InviteSubmit(c, i) ==
  /\ InviteLives(i)
  /\ Begin(c, [at |-> "claiming", invite |-> i, player |-> invites[i].player])
  /\ UNCHANGED <<tables, ages>>

Claim(c, u) ==
  LET i == calls[c].invite IN
    /\ ~Exists(u) /\ u \notin Admins
    /\ accounts' = [accounts EXCEPT ![u] = NewAccount(invites[i].to)]
    /\ playerOf' = [playerOf EXCEPT ![invites[i].player] = u]
    /\ invites' = [invites EXCEPT ![i] = NoInvite]
    /\ Continue(c, [at |-> "entering", user |-> u])
    /\ Checked(c) /\ UNCHANGED <<links, sessions>>

\* AcceptInvitation: account, link and spending in one transaction, which checks the
\* invitation and the player again.
Claimable(i) == InviteLives(i) /\ playerOf[invites[i].player] = NoUser /\ ~Taken(invites[i].to)

AcceptInvitation(c, u) == At(c, "claiming") /\ Claimable(calls[c].invite) /\ Claim(c, u)
AcceptFails(c) == At(c, "claiming") /\ ~Claimable(calls[c].invite) /\ Refuse(c)

\* LinkPlayer, from the editor, the page of a player and the CLI.
LinkPlayer(p, u) ==
  /\ Exists(u) /\ playerOf[p] # u
  /\ \A q \in Players \ {p} : playerOf[q] # u
  /\ playerOf' = [playerOf EXCEPT ![p] = u]
  /\ UNCHANGED <<accounts, links, invites, sessions, calls, ages>>

UnlinkPlayer(p) ==
  /\ playerOf[p] # NoUser
  /\ playerOf' = [playerOf EXCEPT ![p] = NoUser]
  /\ UNCHANGED <<accounts, links, invites, sessions, calls, ages>>

\* handleAdminDisableLogin: the login is switched off in one transaction and
\* detached in the next, which takes off whatever login the player has by then.
DisableLogin(c, p) ==
  /\ playerOf[p] # NoUser /\ playerOf[p] \notin Admins
  /\ SetUserDisabled(playerOf[p], TRUE)
  /\ Begin(c, [at |-> "detaching", player |-> p])
  /\ UNCHANGED <<playerOf, links, invites, ages>>

DetachLogin(c) ==
  /\ At(c, "detaching")
  /\ playerOf' = [playerOf EXCEPT ![calls[c].player] = NoUser]
  /\ Finish(c)
  /\ UNCHANGED <<accounts, links, invites, sessions, ages>>

\* The process stops, or a request's context ends: what was not written never is.
Crash ==
  /\ \E c \in Callers : calls[c] # NoCall
  /\ calls' = [c \in Callers |-> NoCall]
  /\ ages' = [ages EXCEPT !.checked = [c \in Callers |-> "current"]]
  /\ UNCHANGED tables

-----------------------------------------------------------------------------
Init ==
  /\ accounts = [u \in Users |-> NoAccount]
  /\ playerOf = [p \in Players |-> NoUser]
  /\ links = [l \in Links |-> NoLink]
  /\ invites = [i \in Invites |-> NoInvite]
  /\ sessions = [s \in Sessions |-> NoUser]
  /\ calls = [c \in Callers |-> NoCall]
  /\ ages = [checked |-> [c \in Callers |-> "current"], opened |-> [s \in Sessions |-> "current"],
              asked |-> [u \in Users |-> "current"]]

Operator ==
  \/ \E u \in Users, a \in Addresses :
       Bootstrap(u, a) \/ CreateUser(u, a)
  \/ \E u \in Users : ResetPassword(u) \/ Disable(u) \/ Enable(u)
  \/ \E i \in Invites, p \in Players, a \in Addresses : CreateInvitation(i, p, a)
  \/ \E p \in Players : CancelInvitation(p) \/ UnlinkPlayer(p)
  \/ \E p \in Players, u \in Users : LinkPlayer(p, u)
  \/ \E c \in Callers, p \in Players : DisableLogin(c, p)

Request(c) ==
  \/ \E u \in Users : CheckPassword(c, u) \/ ForgotPassword(c, u) \/ AcceptInvitation(c, u)
  \/ \E s \in Sessions :
       \/ OpenSession(c, s) \/ SettingsPassword(c, s)
       \/ \E a \in Addresses : SettingsEmail(c, s, a)
  \/ \E l \in Links : IssueResetLink(c, l) \/ ResetPasswordSubmit(c, l) \/ SendVerifyEmail(c, l)
  \/ \E i \in Invites : InviteSubmit(c, i)
  \/ ConsumeReset(c) \/ ConsumeResetFails(c) \/ ChangePassword(c) \/ SetPendingEmail(c)
  \/ AcceptFails(c) \/ DetachLogin(c)

Next ==
  \/ Operator
  \/ \E c \in Callers : Request(c)
  \/ \E l \in Links : VerifyEmail(l) \/ LinkExpires(l)
  \/ \E i \in Invites : InviteExpires(i)
  \/ \E s \in Sessions : EndSession(s)
  \/ Crash

Spec == Init /\ [][Next]_vars

-----------------------------------------------------------------------------
(* Properties.                                                             *)

\* The rows are rows, and what refers to an account refers to one that exists.
TypeOK ==
  /\ accounts \in [Users -> Account \cup {NoAccount}]
  /\ playerOf \in [Players -> Registered \cup {NoUser}]
  /\ links \in [Links -> Link \cup {NoLink}]
  /\ invites \in [Invites -> Invite \cup {NoInvite}]
  /\ sessions \in [Sessions -> Registered \cup {NoUser}]
  /\ calls \in [Callers -> Call \cup {NoCall}]
  /\ \A l \in Links : LinkLives(l) => Exists(links[l].user)
  /\ ages \in Ages

\* Two accounts never share an address and no account has two players, though
\* addresses are moved to, invited, and linked by several at once
\* (users.go: ErrEmailTaken; players.go: ErrUserLinkedElsewhere).
LoginsAreDistinct ==
  \A u, v \in Registered :
    /\ accounts[u].email = accounts[v].email => u = v
    /\ \A p, q \in Players : playerOf[p] = u /\ playerOf[q] = u => p = q

\* A link acts once, however many requests have found it good (reset.go: "so a
\* concurrent request cannot turn this early check into a second use").  Re-inviting
\* somebody never leaves two live links to one player (CreateInvitation), and a
\* claim never takes a player from the login that came to have it while the
\* password was hashed (AcceptInvitation).
LinksActOnce ==
  [][/\ \A c \in Callers :
          At(c, "resetting") /\ calls'[c] = NoCall /\ ~UNCHANGED <<accounts, links, sessions>>
          => LinkLives(calls[c].link) /\ links'[calls[c].link] = NoLink
     /\ \A i, j \in Invites :
          InviteLives(i)' /\ InviteLives(j)' /\ invites'[i].player = invites'[j].player => i = j
     /\ \A c \in Callers :
          At(c, "claiming") /\ calls'[c] # calls[c] /\ calls'[c] # NoCall
          => playerOf[calls[c].player] = NoUser]_vars

\* A new password ends what was begun under the old one: a session that is open, and an
\* address that becomes the account's whatever link to it is still live, is of the
\* password in force (SetUserPassword, ConsumePasswordResetToken) - or was written under
\* it by a request that had checked the one before, since neither CreateSession nor
\* SetPendingEmail looks at the password again.  The next new password ends that too.
NothingOutlivesThePassword ==
  [][/\ \A s \in Sessions : sessions'[s] # NoUser => ages'.opened[s] # "old"
     /\ \A u \in Registered :
          accounts'[u].email # accounts[u].email => ages.asked[u] # "old"]_vars

\* What a change of address is for (users.go:191: "The account keeps signing in with
\* the old address until the new one is confirmed: a typo would otherwise lock
\* somebody out"): an address becomes the account's by a link that was sent to it.
\* The code does not keep this: a link to an address asked for earlier confirms the
\* one asked for since.
NewAddressWasConfirmed ==
  [][\A l \in Links : LinkLives(l) /\ ~LinkLives(l)' /\ links[l].purpose = "verify"
       => LET u == links[l].user IN
            accounts'[u].email # accounts[u].email => accounts'[u].email = links[l].to]_vars
=============================================================================
