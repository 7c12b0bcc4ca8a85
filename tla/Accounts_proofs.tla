--------------------------- MODULE Accounts_proofs ---------------------------
(* That logins stay distinct, for any accounts, addresses, players, links, *)
(* sessions and requests.                                                  *)
EXTENDS Accounts, TLAPS

ForAccount == {"linking", "mailing", "moving", "resetting", "changing", "entering"}

\* A request in flight is about an account that is there: accounts are never deleted.
CallsLive(calling, there) ==
  \A c \in Callers : calling[c] # NoCall /\ calling[c].at \in ForAccount => calling[c].user \in there

\* What LoginsAreDistinct rests on.
LoginsInv == TypeOK /\ CallsLive(calls, Registered) /\ LoginsAreDistinct

\* What a request in flight names.
LEMMA CallNames ==
  ASSUME NEW call \in Call
  PROVE  /\ call.at \in ForAccount => call.user \in Users
         /\ call.at \in {"linking", "mailing", "moving"} => call.to \in Addresses
         /\ call.at = "resetting" => call.link \in Links
         /\ call.at = "claiming" => call.invite \in Invites /\ call.player \in Players
         /\ call.at = "detaching" => call.player \in Players
BY DEF Call, ForAccount

\* A step that leaves accounts and their players alone.
LEMMA QuietStep ==
  ASSUME LoginsInv, UNCHANGED <<accounts, playerOf>>,
         links' \in [Links -> Link \cup {NoLink}],
         \A l \in Links : links'[l] # NoLink => links'[l].user \in Registered,
         invites' \in [Invites -> Invite \cup {NoInvite}],
         sessions' \in [Sessions -> Registered \cup {NoUser}],
         calls' \in [Callers -> Call \cup {NoCall}],
         CallsLive(calls', Registered),
         ages' \in Ages
  PROVE  LoginsInv'
<1>1. Registered' = Registered
  BY DEF Registered, Exists
<1>2. TypeOK'
  BY <1>1 DEF LoginsInv, TypeOK, LinkLives, Exists, Registered
<1>3. LoginsAreDistinct'
  BY <1>1 DEF LoginsInv, LoginsAreDistinct
<1> QED
  BY <1>1, <1>2, <1>3 DEF LoginsInv, CallsLive

\* A step that writes one account under an address no other has.
LEMMA AccountStep ==
  ASSUME LoginsInv, NEW u \in Users,
         accounts' \in [Users -> Account \cup {NoAccount}], accounts'[u] \in Account,
         \A v \in Users \ {u} : accounts'[v] = accounts[v],
         \A v \in Registered \ {u} : accounts[v].email # accounts'[u].email,
         playerOf' \in [Players -> Registered \cup {u, NoUser}],
         \A p, q \in Players : playerOf'[p] = playerOf'[q] /\ playerOf'[p] # NoUser => p = q,
         links' \in [Links -> Link \cup {NoLink}],
         \A l \in Links : links'[l] # NoLink => links'[l].user \in Registered,
         invites' \in [Invites -> Invite \cup {NoInvite}],
         sessions' \in [Sessions -> Registered \cup {NoUser}],
         calls' \in [Callers -> Call \cup {NoCall}],
         CallsLive(calls', Registered \cup {u}),
         ages' \in Ages
  PROVE  LoginsInv'
<1>1. accounts \in [Users -> Account \cup {NoAccount}] /\ accounts'[u] # NoAccount
  BY NullsAreNull DEF LoginsInv, TypeOK
<1>2. Registered' = Registered \cup {u}
  BY <1>1 DEF Registered, Exists
<1>3. TypeOK'
  BY <1>1, <1>2 DEF TypeOK, LinkLives, Exists, Registered
<1>4. LoginsAreDistinct'
  <2> SUFFICES ASSUME NEW v \in Registered', NEW w \in Registered'
               PROVE  /\ accounts'[v].email = accounts'[w].email => v = w
                      /\ \A p, q \in Players : playerOf'[p] = v /\ playerOf'[q] = v => p = q
    BY DEF LoginsAreDistinct
  <2>1. accounts'[v].email = accounts'[w].email => v = w
    <3>0. \A x \in Registered' : x = u \/ (x \in Registered \ {u} /\ accounts'[x] = accounts[x])
      BY <1>2 DEF Registered
    <3>1. CASE v = u /\ w = u
      BY <3>1
    <3>2. CASE v = u /\ w # u
      BY <3>0, <3>2
    <3>3. CASE v # u /\ w = u
      BY <3>0, <3>3
    <3>4. CASE v # u /\ w # u
      BY <3>0, <3>4 DEF LoginsInv, LoginsAreDistinct
    <3> QED BY <3>1, <3>2, <3>3, <3>4
  <2>2. v # NoUser
    BY NullsAreNull DEF Registered
  <2> QED BY <2>1, <2>2
<1> QED
  BY <1>2, <1>3, <1>4 DEF LoginsInv, CallsLive

\* Beginning or going on with a request.
LEMMA GoesOn ==
  ASSUME LoginsInv, NEW c \in Callers
  PROVE  \A call \in Call :
           /\ calls' = [calls EXCEPT ![c] = call]
           /\ call.at \in ForAccount => call.user \in Registered
           => calls' \in [Callers -> Call \cup {NoCall}] /\ CallsLive(calls', Registered)
BY DEF LoginsInv, TypeOK, CallsLive

\* Ending one.
LEMMA Ends ==
  ASSUME LoginsInv, NEW c \in Callers, Finish(c)
  PROVE  calls' \in [Callers -> Call \cup {NoCall}] /\ CallsLive(calls', Registered)
BY DEF LoginsInv, TypeOK, CallsLive, Finish

\* What is typed.
LEMMA Rows ==
  ASSUME LoginsInv
  PROVE  /\ accounts \in [Users -> Account \cup {NoAccount}]
         /\ playerOf \in [Players -> Registered \cup {NoUser}]
         /\ links \in [Links -> Link \cup {NoLink}]
         /\ invites \in [Invites -> Invite \cup {NoInvite}]
         /\ sessions \in [Sessions -> Registered \cup {NoUser}]
         /\ calls \in [Callers -> Call \cup {NoCall}] /\ CallsLive(calls, Registered)
         /\ \A l \in Links : links[l] # NoLink => links[l].user \in Registered /\ links[l] \in Link
         /\ ages \in Ages
         /\ \A p, q \in Players : playerOf[p] = playerOf[q] /\ playerOf[p] # NoUser => p = q
         /\ \A u \in Registered : u \in Users /\ accounts[u] \in Account
<1>1. /\ \A p, q \in Players : playerOf[p] = playerOf[q] /\ playerOf[p] # NoUser => p = q
      /\ playerOf \in [Players -> Registered \cup {NoUser}]
  BY DEF LoginsInv, TypeOK, LoginsAreDistinct
<1>2. \A l \in Links : links[l] # NoLink => links[l].user \in Registered /\ links[l] \in Link
  <2> SUFFICES ASSUME NEW l \in Links, links[l] # NoLink
               PROVE  links[l].user \in Registered /\ links[l] \in Link
    OBVIOUS
  <2>1. links[l] \in Link /\ Exists(links[l].user)
    BY DEF LoginsInv, TypeOK, LinkLives
  <2> QED BY <2>1 DEF Link, Registered
<1>3. \A u \in Registered : u \in Users /\ accounts[u] \in Account
  BY DEF LoginsInv, TypeOK, Registered, Exists
<1> QED
  BY <1>1, <1>2, <1>3 DEF LoginsInv, TypeOK

\* The history a step writes is typed, and what it writes of which session and address.
Same(field) == ages'[field] = ages[field]
LEMMA AgeSteps ==
  ASSUME LoginsInv
  PROVE  /\ \A c \in Callers : Checked(c) => ages' \in Ages /\ Same("opened") /\ Same("asked")
         /\ \A c \in Callers, s \in Sessions :
              ages' = [ages EXCEPT !.opened[s] = Written(c), !.checked[c] = "current"]
              => /\ ages' \in Ages /\ Same("asked") /\ ages'.opened[s] # "old"
                 /\ \A t \in Sessions \ {s} : ages'.opened[t] = ages.opened[t]
         /\ \A c \in Callers, u \in Users :
              ages' = [ages EXCEPT !.asked[u] = Written(c), !.checked[c] = "current"]
              => /\ ages' \in Ages /\ Same("opened") /\ ages'.asked[u] # "old"
                 /\ \A v \in Users \ {u} : ages'.asked[v] = ages.asked[v]
         /\ \A s \in Sessions :
              ages' = [ages EXCEPT !.opened[s] = "current"]
              => /\ ages' \in Ages /\ Same("asked") /\ ages'.opened[s] # "old"
                 /\ \A t \in Sessions \ {s} : ages'.opened[t] = ages.opened[t]
         /\ \A u \in Users :
              ages' = [ages EXCEPT !.asked[u] = "current"]
              => /\ ages' \in Ages /\ Same("opened") /\ ages'.asked[u] # "old"
                 /\ \A v \in Users \ {u} : ages'.asked[v] = ages.asked[v]
         /\ ages' = [ages EXCEPT !.checked = [c \in Callers |-> "current"]]
            => ages' \in Ages /\ Same("opened") /\ Same("asked")
         /\ \A u \in Users :
              NewPassword(u)
              => /\ ages' \in Ages
                 /\ \A v \in Users \ {u} : ages'.asked[v] = ages.asked[v]
                 /\ \A s \in Sessions : sessions[s] # u => ages'.opened[s] = ages.opened[s]
<1>1. ages \in Ages
  BY Rows
<1>2. /\ ages.checked \in [Callers -> Age] /\ ages.opened \in [Sessions -> Age]
      /\ ages.asked \in [Users -> Age]
  BY <1>1 DEF Ages
<1>3. {"current", "late", "old"} = Age /\ \A c \in Callers : Written(c) \in {"current", "late"}
  BY DEF Age, Written
<1>4. ASSUME NEW u \in Users, NewPassword(u)
      PROVE  /\ ages' \in Ages
             /\ \A v \in Users \ {u} : ages'.asked[v] = ages.asked[v]
             /\ \A s \in Sessions : sessions[s] # u => ages'.opened[s] = ages.opened[s]
  <2>1. PICK new \in Age :
          ages' = [checked |-> [c \in Callers |-> IF Asking(c, u) THEN "old" ELSE ages.checked[c]],
                   opened |-> [s \in Sessions |-> IF sessions[s] # u THEN ages.opened[s]
                                                  ELSE IF sessions'[s] = u THEN "old" ELSE "current"],
                   asked |-> [ages.asked EXCEPT ![u] = new]]
    BY <1>3, <1>4 DEF NewPassword
  <2> QED BY <1>2, <1>3, <2>1 DEF Ages
<1>5. ASSUME NEW c \in Callers
      PROVE  /\ Checked(c) => ages' \in Ages /\ Same("opened") /\ Same("asked")
             /\ \A s \in Sessions :
                  ages' = [ages EXCEPT !.opened[s] = Written(c), !.checked[c] = "current"]
                  => /\ ages' \in Ages /\ Same("asked") /\ ages'.opened[s] # "old"
                     /\ \A t \in Sessions \ {s} : ages'.opened[t] = ages.opened[t]
             /\ \A u \in Users :
                  ages' = [ages EXCEPT !.asked[u] = Written(c), !.checked[c] = "current"]
                  => /\ ages' \in Ages /\ Same("opened") /\ ages'.asked[u] # "old"
                     /\ \A v \in Users \ {u} : ages'.asked[v] = ages.asked[v]
  <2>1. PICK age \in {"current", "late"} : age = Written(c)
    BY <1>3
  <2>2. PICK checked \in [Callers -> Age] : checked = [ages.checked EXCEPT ![c] = "current"]
    BY <1>2, <1>3
  <2>3. ages = [checked |-> ages.checked, opened |-> ages.opened, asked |-> ages.asked]
    BY <1>1 DEF Ages
  <2>4. Checked(c) => ages' \in Ages /\ Same("opened") /\ Same("asked")
    <3>1. Checked(c) => ages' = [checked |-> checked, opened |-> ages.opened, asked |-> ages.asked]
      BY <2>2, <2>3 DEF Checked
    <3> QED BY <1>2, <3>1 DEF Ages, Same
  <2>5. ASSUME NEW s \in Sessions,
               ages' = [ages EXCEPT !.opened[s] = Written(c), !.checked[c] = "current"]
        PROVE  /\ ages' \in Ages /\ Same("asked") /\ ages'.opened[s] # "old"
               /\ \A t \in Sessions \ {s} : ages'.opened[t] = ages.opened[t]
    <3>1. ages' = [checked |-> checked, opened |-> [ages.opened EXCEPT ![s] = age], asked |-> ages.asked]
      BY <2>1, <2>2, <2>3, <2>5
    <3>2. [ages.opened EXCEPT ![s] = age] \in [Sessions -> Age]
      BY <1>2, <1>3
    <3> QED BY <1>2, <3>1, <3>2 DEF Ages, Same
  <2>6. ASSUME NEW u \in Users,
               ages' = [ages EXCEPT !.asked[u] = Written(c), !.checked[c] = "current"]
        PROVE  /\ ages' \in Ages /\ Same("opened") /\ ages'.asked[u] # "old"
               /\ \A v \in Users \ {u} : ages'.asked[v] = ages.asked[v]
    <3>1. ages' = [checked |-> checked, opened |-> ages.opened, asked |-> [ages.asked EXCEPT ![u] = age]]
      BY <2>1, <2>2, <2>3, <2>6
    <3>2. [ages.asked EXCEPT ![u] = age] \in [Users -> Age]
      BY <1>2, <1>3
    <3> QED BY <1>2, <3>1, <3>2 DEF Ages, Same
  <2> QED BY <2>4, <2>5, <2>6
<1>6. \A s \in Sessions :
        ages' = [ages EXCEPT !.opened[s] = "current"]
        => /\ ages' \in Ages /\ Same("asked") /\ ages'.opened[s] # "old"
           /\ \A t \in Sessions \ {s} : ages'.opened[t] = ages.opened[t]
  BY <1>1, <1>2, <1>3 DEF Ages, Same
<1>7. \A u \in Users :
        ages' = [ages EXCEPT !.asked[u] = "current"]
        => /\ ages' \in Ages /\ Same("opened") /\ ages'.asked[u] # "old"
           /\ \A v \in Users \ {u} : ages'.asked[v] = ages.asked[v]
  BY <1>1, <1>2, <1>3 DEF Ages, Same
<1>8. ages' = [ages EXCEPT !.checked = [c \in Callers |-> "current"]]
      => ages' \in Ages /\ Same("opened") /\ Same("asked")
  BY <1>1, <1>2, <1>3 DEF Ages, Same
<1> QED
  BY <1>4, <1>5, <1>6, <1>7, <1>8

\* Steps that only begin a request, or end one that did nothing.
LEMMA BeginStep ==
  ASSUME LoginsInv, NEW c \in Callers, UNCHANGED tables, ages' \in Ages,
         \/ Finish(c)
         \/ \E u \in Users : CheckPassword(c, u) \/ ForgotPassword(c, u)
         \/ \E l \in Links : ResetPasswordSubmit(c, l)
         \/ \E s \in Sessions : SettingsPassword(c, s) \/ \E a \in Addresses : SettingsEmail(c, s, a)
         \/ \E i \in Invites : InviteSubmit(c, i)
  PROVE  LoginsInv'
<1>1. UNCHANGED <<accounts, playerOf, links, invites, sessions>>
  BY DEF tables
<1>2. calls' \in [Callers -> Call \cup {NoCall}] /\ CallsLive(calls', Registered)
  <2>1. CASE Finish(c)
    BY <2>1, Ends
  <2>2. ASSUME NEW u \in Users, CheckPassword(c, u) PROVE <1>2
    <3>1. PICK call \in Call : call = [at |-> "entering", user |-> u]
      BY DEF Call
    <3> QED BY <2>2, <3>1, GoesOn DEF CheckPassword, Begin, Registered
  <2>3. ASSUME NEW u \in Users, ForgotPassword(c, u) PROVE <1>2
    <3>1. u \in Registered /\ accounts[u].email \in Addresses
      BY <2>3, Rows DEF ForgotPassword, Registered, Account
    <3>2. PICK call \in Call : call = [at |-> "linking", user |-> u, to |-> accounts[u].email]
      BY <3>1 DEF Call
    <3> QED BY <2>3, <3>1, <3>2, GoesOn DEF ForgotPassword, Begin
  <2>4. ASSUME NEW l \in Links, ResetPasswordSubmit(c, l) PROVE <1>2
    <3>1. links[l].user \in Registered
      BY <2>4, Rows DEF ResetPasswordSubmit, ResetLinkGood, LinkLives
    <3>2. PICK call \in Call : call = [at |-> "resetting", link |-> l, user |-> links[l].user]
      BY <3>1 DEF Call, Registered
    <3> QED BY <2>4, <3>1, <3>2, GoesOn DEF ResetPasswordSubmit, Begin
  <2>5. ASSUME NEW s \in Sessions, SettingsPassword(c, s) PROVE <1>2
    <3>1. sessions[s] \in Registered
      BY <2>5, Rows DEF SettingsPassword, SignedIn
    <3>2. PICK call \in Call : call = [at |-> "changing", user |-> sessions[s]]
      BY <3>1 DEF Call, Registered
    <3> QED BY <2>5, <3>1, <3>2, GoesOn DEF SettingsPassword, Begin
  <2>6. ASSUME NEW s \in Sessions, NEW a \in Addresses, SettingsEmail(c, s, a) PROVE <1>2
    <3>1. sessions[s] \in Registered
      BY <2>6, Rows DEF SettingsEmail, SignedIn
    <3>2. PICK call \in Call : call = [at |-> "moving", user |-> sessions[s], to |-> a]
      BY <3>1 DEF Call, Registered
    <3> QED BY <2>6, <3>1, <3>2, GoesOn DEF SettingsEmail, Begin
  <2>7. ASSUME NEW i \in Invites, InviteSubmit(c, i) PROVE <1>2
    <3>1. invites[i].player \in Players
      BY <2>7, Rows DEF InviteSubmit, InviteLives, Invite
    <3>2. PICK call \in Call : call = [at |-> "claiming", invite |-> i, player |-> invites[i].player]
      BY <3>1 DEF Call
    <3> QED BY <2>7, <3>2, GoesOn DEF InviteSubmit, Begin, ForAccount
  <2> QED BY <2>1, <2>2, <2>3, <2>4, <2>5, <2>6, <2>7
<1> QED
  BY <1>1, <1>2, Rows, QuietStep

\* Steps about links, sessions and invitations, which touch no account.
LEMMA PaperStep ==
  ASSUME LoginsInv,
         \/ \E c \in Callers :
              \/ \E s \in Sessions : OpenSession(c, s)
              \/ \E l \in Links : IssueResetLink(c, l) \/ SendVerifyEmail(c, l)
         \/ \E s \in Sessions : EndSession(s)
         \/ \E l \in Links : LinkExpires(l)
         \/ \E i \in Invites : InviteExpires(i)
         \/ \E i \in Invites, p \in Players, a \in Addresses : CreateInvitation(i, p, a)
         \/ \E p \in Players : CancelInvitation(p)
  PROVE  LoginsInv'
<1>1. ASSUME NEW c \in Callers, NEW s \in Sessions, OpenSession(c, s) PROVE LoginsInv'
  <2>1. calls[c].user \in Registered
    BY <1>1, Rows DEF OpenSession, At, CallsLive, ForAccount
  <2>2. ages' \in Ages
    BY <1>1, AgeSteps DEF OpenSession
  <2> QED BY <1>1, <2>1, <2>2, Rows, Ends, QuietStep DEF OpenSession
<1>2. ASSUME NEW c \in Callers, NEW l \in Links, IssueResetLink(c, l) \/ SendVerifyEmail(c, l)
      PROVE  LoginsInv'
  <2>1. calls[c] \in Call /\ calls[c].at \in {"linking", "mailing"}
    BY <1>2, Rows DEF IssueResetLink, SendVerifyEmail, At
  <2>2. calls[c].user \in Registered /\ calls[c].user \in Users /\ calls[c].to \in Addresses
    BY <1>2, <2>1, Rows, CallNames DEF IssueResetLink, SendVerifyEmail, At, CallsLive, ForAccount
  <2>3. \E purpose \in Purposes :
          links' = [links EXCEPT ![l] = [user |-> calls[c].user, purpose |-> purpose, to |-> calls[c].to]]
    BY <1>2 DEF IssueResetLink, SendVerifyEmail, CreateLink, Purposes
  <2>4. /\ links' \in [Links -> Link \cup {NoLink}]
        /\ \A k \in Links : links'[k] # NoLink => links'[k].user \in Registered
    BY <2>2, <2>3, Rows DEF Link
  <2> QED BY <1>2, <2>4, Rows, Ends, QuietStep DEF IssueResetLink, SendVerifyEmail
<1>3. ASSUME NEW s \in Sessions, EndSession(s) PROVE LoginsInv'
  BY <1>3, Rows, AgeSteps, QuietStep DEF EndSession
<1>4. ASSUME NEW l \in Links, LinkExpires(l) PROVE LoginsInv'
  BY <1>4, Rows, QuietStep DEF LinkExpires
<1>5. ASSUME NEW i \in Invites, InviteExpires(i) PROVE LoginsInv'
  BY <1>5, Rows, QuietStep DEF InviteExpires
<1>6. ASSUME NEW p \in Players PROVE Spend(p) \in [Invites -> Invite \cup {NoInvite}]
  BY Rows DEF Spend
<1>7. ASSUME NEW i \in Invites, NEW p \in Players, NEW a \in Addresses, CreateInvitation(i, p, a)
      PROVE  LoginsInv'
  <2>1. invites' \in [Invites -> Invite \cup {NoInvite}]
    BY <1>6, <1>7 DEF CreateInvitation, Invite
  <2> QED BY <1>7, <2>1, Rows, QuietStep DEF CreateInvitation
<1>8. ASSUME NEW p \in Players, CancelInvitation(p) PROVE LoginsInv'
  BY <1>6, <1>8, Rows, QuietStep DEF CancelInvitation
<1> QED
  BY <1>1, <1>2, <1>3, <1>4, <1>5, <1>7, <1>8

\* Steps that write one account and leave its address and the players alone.
LEMMA SameAddressStep ==
  ASSUME LoginsInv, NEW u \in Users, u \in Registered,
         accounts' \in [Users -> Account \cup {NoAccount}], accounts'[u] \in Account,
         \A v \in Users \ {u} : accounts'[v] = accounts[v],
         accounts'[u].email = accounts[u].email, UNCHANGED playerOf,
         links' \in [Links -> Link \cup {NoLink}],
         \A l \in Links : links'[l] # NoLink => links'[l].user \in Registered,
         invites' \in [Invites -> Invite \cup {NoInvite}],
         sessions' \in [Sessions -> Registered \cup {NoUser}],
         calls' \in [Callers -> Call \cup {NoCall}],
         CallsLive(calls', Registered),
         ages' \in Ages
  PROVE  LoginsInv'
<1>1. \A v \in Registered \ {u} : accounts[v].email # accounts'[u].email
  BY DEF LoginsInv, LoginsAreDistinct
<1>2. Registered \cup {u} = Registered
  OBVIOUS
<1>3. /\ playerOf' \in [Players -> Registered \cup {u, NoUser}]
      /\ \A p, q \in Players : playerOf'[p] = playerOf'[q] /\ playerOf'[p] # NoUser => p = q
  BY Rows
<1> QED
  BY <1>1, <1>2, <1>3, AccountStep

\* What goes with a password stays typed.
LEMMA Without ==
  ASSUME LoginsInv, NEW u \in Users
  PROVE  /\ WithoutSessions(u) \in [Sessions -> Registered \cup {NoUser}]
         /\ WithoutLinks(u) \in [Links -> Link \cup {NoLink}]
         /\ \A l \in Links : WithoutLinks(u)[l] # NoLink => WithoutLinks(u)[l].user \in Registered
BY Rows DEF WithoutSessions, WithoutLinks, LinkLives

\* An account of the server or the CLI is made under a free address.
LEMMA CreateStep ==
  ASSUME LoginsInv, NEW u \in Users, NEW a \in Addresses, Bootstrap(u, a) \/ CreateUser(u, a)
  PROVE  LoginsInv'
<1>1. NewAccount(a) \in Account
  BY DEF NewAccount, Account
<1>2. /\ accounts' = [accounts EXCEPT ![u] = NewAccount(a)]
      /\ UNCHANGED <<playerOf, links, invites, sessions, calls, ages>>
      /\ \A v \in Registered \ {u} : accounts[v].email # a
  BY Rows DEF Bootstrap, CreateUser, Taken
<1>3. /\ accounts' \in [Users -> Account \cup {NoAccount}] /\ accounts'[u] = NewAccount(a)
      /\ \A v \in Users \ {u} : accounts'[v] = accounts[v]
  BY <1>1, <1>2, Rows
<1>4. /\ playerOf' \in [Players -> Registered \cup {u, NoUser}]
      /\ CallsLive(calls', Registered \cup {u})
  BY <1>2, Rows DEF CallsLive
<1>5. /\ accounts'[u].email = a /\ accounts'[u] \in Account
      /\ \A p, q \in Players : playerOf'[p] = playerOf'[q] /\ playerOf'[p] # NoUser => p = q
  BY <1>1, <1>2, <1>3, Rows DEF NewAccount
<1> QED
  BY <1>2, <1>3, <1>4, <1>5, Rows, AccountStep

\* A new password leaves an account an account, with its address.
LEMMA PendingGone ==
  ASSUME LoginsInv, NEW u \in Users, u \in Registered, accounts' = [accounts EXCEPT ![u].pending = NoAddress]
  PROVE  /\ accounts' \in [Users -> Account \cup {NoAccount}] /\ accounts'[u] \in Account
         /\ accounts'[u].email = accounts[u].email /\ \A v \in Users \ {u} : accounts'[v] = accounts[v]
BY Rows DEF Account

\* Passwords and switches, by the CLI, from the settings and through a link.
LEMMA PasswordStep ==
  ASSUME LoginsInv,
         \/ \E u \in Users : ResetPassword(u) \/ Disable(u) \/ Enable(u)
         \/ \E c \in Callers : ConsumeReset(c) \/ ChangePassword(c) \/ \E p \in Players : DisableLogin(c, p)
  PROVE  LoginsInv'
<1>1. ASSUME NEW u \in Users, ResetPassword(u) PROVE LoginsInv'
  <2>1. u \in Registered
    BY <1>1 DEF ResetPassword, Registered
  <2>2. /\ accounts' = [accounts EXCEPT ![u].pending = NoAddress]
        /\ sessions' = WithoutSessions(u) /\ NewPassword(u)
        /\ UNCHANGED <<playerOf, links, invites, calls>>
    BY <1>1 DEF ResetPassword, SetUserPassword
  <2> QED BY <2>1, <2>2, Rows, Without, PendingGone, AgeSteps, SameAddressStep
<1>2. ASSUME NEW u \in Users, NEW disabled \in BOOLEAN, u \in Registered, SetUserDisabled(u, disabled),
             calls' \in [Callers -> Call \cup {NoCall}], CallsLive(calls', Registered),
             UNCHANGED <<playerOf, links, invites, ages>>
      PROVE  LoginsInv'
  <2>1. accounts[u] \in Account
    BY <1>2, Rows
  <2>2. /\ accounts' \in [Users -> Account \cup {NoAccount}] /\ accounts'[u] \in Account
        /\ accounts'[u].email = accounts[u].email /\ \A v \in Users \ {u} : accounts'[v] = accounts[v]
    BY <1>2, <2>1, Rows DEF SetUserDisabled, Account
  <2>3. sessions' \in [Sessions -> Registered \cup {NoUser}]
    BY <1>2, Rows, Without DEF SetUserDisabled
  <2> QED BY <1>2, <2>2, <2>3, Rows, SameAddressStep
<1>3. ASSUME NEW u \in Users, Disable(u) \/ Enable(u) PROVE LoginsInv'
  <2>1. u \in Registered /\ (SetUserDisabled(u, TRUE) \/ SetUserDisabled(u, FALSE))
        /\ UNCHANGED <<playerOf, links, invites, calls, ages>>
    BY <1>3 DEF Disable, Enable, Registered
  <2>2. calls' \in [Callers -> Call \cup {NoCall}] /\ CallsLive(calls', Registered)
    BY <2>1, Rows
  <2> QED BY <1>2, <2>1, <2>2
<1>4. ASSUME NEW c \in Callers, NEW p \in Players, DisableLogin(c, p) PROVE LoginsInv'
  <2>1. PICK u \in Users : u = playerOf[p] /\ u \in Registered
    BY <1>4, Rows DEF DisableLogin
  <2>2. PICK call \in Call : call = [at |-> "detaching", player |-> p]
    BY DEF Call
  <2>3. calls' \in [Callers -> Call \cup {NoCall}] /\ CallsLive(calls', Registered)
    BY <1>4, <2>2, GoesOn DEF DisableLogin, Begin, ForAccount
  <2>4. SetUserDisabled(u, TRUE) /\ UNCHANGED <<playerOf, links, invites, ages>>
    <3>1. /\ accounts' = [accounts EXCEPT ![playerOf[p]].disabled = TRUE]
          /\ sessions' = [s \in Sessions |-> IF sessions[s] = playerOf[p] THEN NoUser ELSE sessions[s]]
          /\ UNCHANGED <<playerOf, links, invites, ages>>
      BY <1>4 DEF DisableLogin, SetUserDisabled, WithoutSessions
    <3> QED BY <2>1, <3>1 DEF SetUserDisabled, WithoutSessions
  <2> QED BY <1>2, <2>1, <2>3, <2>4
<1>5. ASSUME NEW c \in Callers, ConsumeReset(c) PROVE LoginsInv'
  <2>1. calls[c] \in Call /\ calls[c].at = "resetting"
    BY <1>5, Rows DEF ConsumeReset, At
  <2>2. PICK u \in Users : u = calls[c].user /\ u \in Registered
    BY <1>5, <2>1, Rows, CallNames DEF ConsumeReset, At, CallsLive, ForAccount
  <2>4. /\ accounts' = [accounts EXCEPT ![u].pending = NoAddress]
        /\ links' = WithoutLinks(u) /\ sessions' = WithoutSessions(u) /\ NewPassword(u)
        /\ UNCHANGED <<playerOf, invites>>
    BY <1>5, <2>2 DEF ConsumeReset, Reset, WithoutLinks, WithoutSessions
  <2>6. calls' \in [Callers -> Call \cup {NoCall}] /\ CallsLive(calls', Registered)
    BY <1>5, Ends DEF ConsumeReset
  <2> QED BY <2>2, <2>4, <2>6, Rows, Without, PendingGone, AgeSteps, SameAddressStep
<1>6. ASSUME NEW c \in Callers, ChangePassword(c) PROVE LoginsInv'
  <2>1. calls[c] \in Call /\ calls[c].at = "changing"
    BY <1>6, Rows DEF ChangePassword, At
  <2>2. PICK u \in Users : u = calls[c].user /\ u \in Registered
    BY <1>6, <2>1, Rows, CallNames DEF ChangePassword, At, CallsLive, ForAccount
  <2>4. /\ accounts' = [accounts EXCEPT ![u].pending = NoAddress]
        /\ sessions' = WithoutSessions(u) /\ NewPassword(u)
        /\ UNCHANGED <<playerOf, links, invites>>
    BY <1>6, <2>2 DEF ChangePassword, SetUserPassword, WithoutSessions
  <2>6. calls' \in [Callers -> Call \cup {NoCall}] /\ CallsLive(calls', Registered)
    BY <1>6, Ends DEF ChangePassword
  <2> QED BY <2>2, <2>4, <2>6, Rows, Without, PendingGone, AgeSteps, SameAddressStep
<1> QED
  BY <1>1, <1>3, <1>4, <1>5, <1>6

\* A change of address waits for its link, and takes the address when nobody has it by then.
LEMMA AddressStep ==
  ASSUME LoginsInv,
         (\E c \in Callers : SetPendingEmail(c)) \/ \E l \in Links : VerifyEmail(l)
  PROVE  LoginsInv'
<1>1. ASSUME NEW c \in Callers, SetPendingEmail(c) PROVE LoginsInv'
  <2>1. calls[c] \in Call /\ calls[c].at = "moving"
    BY <1>1, Rows DEF SetPendingEmail, At
  <2>2. PICK u \in Users : u = calls[c].user /\ u \in Registered
    BY <1>1, <2>1, Rows, CallNames DEF SetPendingEmail, At, CallsLive, ForAccount
  <2>3. PICK a \in Addresses : a = calls[c].to
    BY <2>1, CallNames
  <2>4. CASE Refuse(c)
    BY <2>4, Rows, BeginStep DEF Refuse
  <2>5. CASE ~Refuse(c)
    <3>1. /\ accounts' = [accounts EXCEPT ![u].pending = a]
          /\ ages' = [ages EXCEPT !.asked[u] = Written(c), !.checked[c] = "current"]
          /\ Continue(c, [at |-> "mailing", user |-> u, to |-> a])
          /\ UNCHANGED <<playerOf, links, invites, sessions>>
      BY <1>1, <2>2, <2>3, <2>5 DEF SetPendingEmail
    <3>2. accounts[u] \in Account
      BY <2>2, Rows
    <3>3. /\ accounts' \in [Users -> Account \cup {NoAccount}] /\ accounts'[u] \in Account
          /\ accounts'[u].email = accounts[u].email /\ \A v \in Users \ {u} : accounts'[v] = accounts[v]
      BY <3>1, <3>2, Rows DEF Account
    <3>4. ages' \in Ages
      BY <3>1, AgeSteps
    <3>5. PICK call \in Call : call = [at |-> "mailing", user |-> u, to |-> a]
      BY DEF Call
    <3>6. calls' \in [Callers -> Call \cup {NoCall}] /\ CallsLive(calls', Registered)
      BY <2>2, <3>1, <3>5, GoesOn DEF Continue
    <3> QED BY <2>2, <3>1, <3>3, <3>4, <3>6, Rows, SameAddressStep
  <2> QED BY <2>4, <2>5
<1>2. ASSUME NEW l \in Links, VerifyEmail(l) PROVE LoginsInv'
  <2>1. PICK u \in Users : u = links[l].user /\ u \in Registered
    BY <1>2, Rows DEF VerifyEmail, LinkLives
  <2>2. /\ accounts' = [accounts EXCEPT ![u] = Promoted(u)]
        /\ links' = [links EXCEPT ![l] = NoLink]
        /\ ages' = [ages EXCEPT !.asked[u] = "current"]
        /\ UNCHANGED <<playerOf, invites, sessions, calls>>
        /\ accounts[u].pending = NoAddress \/ ~TakenByOther(u, accounts[u].pending)
    BY <1>2, <2>1 DEF VerifyEmail
  <2>3. accounts[u] \in Account /\ ages' \in Ages
    BY <2>1, <2>2, Rows, AgeSteps
  <2>4. CASE accounts[u].pending = NoAddress
    <3>1. Promoted(u) = accounts[u]
      BY <2>4 DEF Promoted
    <3>2. accounts' = accounts
      BY <2>2, <3>1, Rows
    <3> QED BY <2>2, <2>3, <3>2, Rows, QuietStep
  <2>5. CASE accounts[u].pending # NoAddress
    <3>1. Promoted(u) = [accounts[u] EXCEPT !.email = accounts[u].pending, !.pending = NoAddress]
      BY <2>5 DEF Promoted
    <3>2. Promoted(u) \in Account /\ Promoted(u).email = accounts[u].pending
      BY <2>3, <2>5, <3>1 DEF Account
    <3>3. /\ accounts' \in [Users -> Account \cup {NoAccount}] /\ accounts'[u] = Promoted(u)
          /\ \A v \in Users \ {u} : accounts'[v] = accounts[v]
      BY <2>2, <3>2, Rows
    <3>4. \A v \in Registered \ {u} : accounts[v].email # accounts'[u].email
      BY <2>2, <2>5, <3>2, <3>3 DEF TakenByOther
    <3>5. /\ playerOf' \in [Players -> Registered \cup {u, NoUser}]
          /\ \A p, q \in Players : playerOf'[p] = playerOf'[q] /\ playerOf'[p] # NoUser => p = q
          /\ CallsLive(calls', Registered \cup {u})
      BY <2>2, Rows DEF CallsLive
    <3> QED BY <2>2, <2>3, <3>2, <3>3, <3>4, <3>5, Rows, AccountStep
  <2> QED BY <2>4, <2>5
<1> QED
  BY <1>1, <1>2

\* A player is linked to an account that has none, and is taken off any.
LEMMA PlayerStep ==
  ASSUME LoginsInv, NEW u \in Users, u \in Registered, UNCHANGED <<accounts, links, invites, sessions, ages>>,
         calls' \in [Callers -> Call \cup {NoCall}], CallsLive(calls', Registered),
         NEW p \in Players,
         \/ playerOf' = [playerOf EXCEPT ![p] = NoUser]
         \/ playerOf' = [playerOf EXCEPT ![p] = u] /\ \A q \in Players \ {p} : playerOf[q] # u
  PROVE  LoginsInv'
<1>1. /\ playerOf' \in [Players -> Registered \cup {u, NoUser}]
      /\ \A q, r \in Players : playerOf'[q] = playerOf'[r] /\ playerOf'[q] # NoUser => q = r
  BY Rows
<1>2. \A v \in Registered \ {u} : accounts[v].email # accounts'[u].email
  BY DEF LoginsInv, LoginsAreDistinct
<1>3. Registered \cup {u} = Registered
  OBVIOUS
<1> QED
  BY <1>1, <1>2, <1>3, Rows, AccountStep

\* An invitation that is accepted makes an account and links it, in one go.
LEMMA AcceptStep ==
  ASSUME LoginsInv, NEW c \in Callers, NEW u \in Users, AcceptInvitation(c, u)
  PROVE  LoginsInv'
<1>1. calls[c] \in Call /\ calls[c].at = "claiming"
  BY Rows DEF AcceptInvitation, At
<1>2. PICK i \in Invites : i = calls[c].invite
  BY <1>1, CallNames
<1>3. /\ InviteLives(i) /\ playerOf[invites[i].player] = NoUser /\ ~Taken(invites[i].to) /\ ~Exists(u)
      /\ accounts' = [accounts EXCEPT ![u] = NewAccount(invites[i].to)]
      /\ playerOf' = [playerOf EXCEPT ![invites[i].player] = u]
      /\ invites' = [invites EXCEPT ![i] = NoInvite]
      /\ Continue(c, [at |-> "entering", user |-> u])
      /\ Checked(c) /\ UNCHANGED <<links, sessions>>
  BY <1>2 DEF AcceptInvitation, Claimable, Claim
<1>4. PICK p \in Players, a \in Addresses : p = invites[i].player /\ a = invites[i].to
  BY <1>3, Rows DEF InviteLives, Invite
<1>5. NewAccount(a) \in Account /\ NewAccount(a).email = a
  BY DEF NewAccount, Account
<1>6. /\ accounts' \in [Users -> Account \cup {NoAccount}] /\ accounts'[u] = NewAccount(a)
      /\ \A v \in Users \ {u} : accounts'[v] = accounts[v]
  BY <1>3, <1>4, <1>5, Rows
<1>7. u \notin Registered /\ \A v \in Registered \ {u} : accounts[v].email # a
  BY <1>3, <1>4 DEF Taken, Registered
<1>8. /\ playerOf' \in [Players -> Registered \cup {u, NoUser}]
      /\ \A q, r \in Players : playerOf'[q] = playerOf'[r] /\ playerOf'[q] # NoUser => q = r
  <2>1. playerOf' = [playerOf EXCEPT ![p] = u] /\ \A q \in Players : playerOf[q] # u
    BY <1>3, <1>4, <1>7, NullsAreNull, Rows
  <2> QED BY <2>1, Rows
<1>9. calls' \in [Callers -> Call \cup {NoCall}] /\ CallsLive(calls', Registered \cup {u})
  <2>1. PICK call \in Call : call = [at |-> "entering", user |-> u]
    BY DEF Call
  <2>2. calls' = [calls EXCEPT ![c] = call]
    BY <1>3, <2>1 DEF Continue
  <2> QED BY <2>1, <2>2, Rows DEF CallsLive
<1>10. ages' \in Ages
  BY <1>3, AgeSteps
<1>11. /\ accounts'[u] \in Account /\ accounts'[u].email = a
       /\ invites' \in [Invites -> Invite \cup {NoInvite}]
  BY <1>3, <1>5, <1>6, Rows
<1> QED
  BY <1>3, <1>6, <1>7, <1>8, <1>9, <1>10, <1>11, Rows, AccountStep

\* Linking, unlinking and detaching.
LEMMA LinkingStep ==
  ASSUME LoginsInv,
         \/ \E p \in Players, u \in Users : LinkPlayer(p, u)
         \/ \E p \in Players : UnlinkPlayer(p)
         \/ \E c \in Callers : DetachLogin(c)
  PROVE  LoginsInv'
<1>1. ASSUME NEW p \in Players, NEW u \in Users, LinkPlayer(p, u) PROVE LoginsInv'
  BY <1>1, Rows, PlayerStep DEF LinkPlayer, Registered
<1>2. ASSUME NEW p \in Players, UnlinkPlayer(p) PROVE LoginsInv'
  <2>1. PICK u \in Users : u = playerOf[p] /\ u \in Registered
    BY <1>2, Rows DEF UnlinkPlayer
  <2> QED BY <1>2, <2>1, Rows, PlayerStep DEF UnlinkPlayer
<1>3. ASSUME NEW c \in Callers, DetachLogin(c) PROVE LoginsInv'
  <2>1. calls[c] \in Call /\ calls[c].at = "detaching"
    BY <1>3, Rows DEF DetachLogin, At
  <2>2. PICK p \in Players : p = calls[c].player
    BY <2>1, CallNames
  <2>3. /\ playerOf' = [playerOf EXCEPT ![p] = NoUser]
        /\ UNCHANGED <<accounts, links, invites, sessions, ages>>
        /\ calls' \in [Callers -> Call \cup {NoCall}] /\ CallsLive(calls', Registered)
    BY <1>3, <2>2, Ends DEF DetachLogin
  <2>4. CASE playerOf[p] = NoUser
    <3>1. playerOf' = playerOf
      BY <2>3, <2>4, Rows
    <3> QED BY <2>3, <3>1, Rows, QuietStep
  <2>5. CASE playerOf[p] # NoUser
    <3>1. PICK u \in Users : u = playerOf[p] /\ u \in Registered
      BY <2>5, Rows
    <3> QED BY <2>3, <3>1, PlayerStep
  <2> QED BY <2>4, <2>5
<1> QED
  BY <1>1, <1>2, <1>3

\* Every request keeps the invariant.
LEMMA RequestStep ==
  ASSUME LoginsInv, NEW c \in Callers, Request(c)
  PROVE  LoginsInv'
<1>1. ASSUME NEW u \in Users, CheckPassword(c, u) \/ ForgotPassword(c, u) PROVE LoginsInv'
  BY <1>1, Rows, AgeSteps, BeginStep DEF CheckPassword, ForgotPassword
<1>2. ASSUME NEW s \in Sessions, NEW a \in Addresses, SettingsEmail(c, s, a) PROVE LoginsInv'
  BY <1>2, AgeSteps, BeginStep DEF SettingsEmail
<1>3. ASSUME NEW s \in Sessions, SettingsPassword(c, s) PROVE LoginsInv'
  BY <1>3, AgeSteps, BeginStep DEF SettingsPassword
<1>4. ASSUME NEW l \in Links, ResetPasswordSubmit(c, l) PROVE LoginsInv'
  BY <1>4, Rows, BeginStep DEF ResetPasswordSubmit
<1>5. ASSUME NEW i \in Invites, InviteSubmit(c, i) PROVE LoginsInv'
  BY <1>5, Rows, BeginStep DEF InviteSubmit
<1>6. CASE ConsumeResetFails(c) \/ AcceptFails(c)
  BY <1>6, Rows, BeginStep DEF ConsumeResetFails, AcceptFails, Refuse
<1>7. ASSUME NEW s \in Sessions, OpenSession(c, s) PROVE LoginsInv'
  BY <1>7, PaperStep
<1>8. ASSUME NEW l \in Links, IssueResetLink(c, l) \/ SendVerifyEmail(c, l) PROVE LoginsInv'
  BY <1>8, PaperStep
<1>9. CASE ConsumeReset(c) \/ ChangePassword(c)
  BY <1>9, PasswordStep
<1>10. CASE SetPendingEmail(c)
  BY <1>10, AddressStep
<1>11. CASE DetachLogin(c)
  BY <1>11, LinkingStep
<1>12. ASSUME NEW u \in Users, AcceptInvitation(c, u) PROVE LoginsInv'
  BY <1>12, AcceptStep
<1> QED
  BY <1>1, <1>2, <1>3, <1>4, <1>5, <1>6, <1>7, <1>8, <1>9, <1>10, <1>11, <1>12 DEF Request

LEMMA LoginsInvariant == Spec => []LoginsInv
<1>1. Init => LoginsInv
  BY NullsAreNull DEF Init, LoginsInv, TypeOK, CallsLive, LoginsAreDistinct, Registered, Exists, LinkLives,
     Ages, Age
<1>2. LoginsInv /\ [Next]_vars => LoginsInv'
  <2> SUFFICES ASSUME LoginsInv, [Next]_vars PROVE LoginsInv'
    OBVIOUS
  <2>1. CASE UNCHANGED vars
    BY <2>1, Rows, QuietStep DEF vars
  <2>2. CASE Operator
    BY <2>2, CreateStep, PasswordStep, PaperStep, LinkingStep DEF Operator
  <2>3. ASSUME NEW c \in Callers, Request(c) PROVE LoginsInv'
    BY <2>3, RequestStep
  <2>4. ASSUME NEW l \in Links, VerifyEmail(l) \/ LinkExpires(l) PROVE LoginsInv'
    BY <2>4, AddressStep, PaperStep
  <2>5. ASSUME NEW i \in Invites, InviteExpires(i) PROVE LoginsInv'
    BY <2>5, PaperStep
  <2>6. ASSUME NEW s \in Sessions, EndSession(s) PROVE LoginsInv'
    BY <2>6, PaperStep
  <2>7. CASE Crash
    <3>1. calls' \in [Callers -> Call \cup {NoCall}] /\ CallsLive(calls', Registered)
      BY <2>7 DEF Crash, CallsLive
    <3>2. ages' \in Ages
      BY <2>7, AgeSteps DEF Crash
    <3> QED BY <2>7, <3>1, <3>2, Rows, QuietStep DEF Crash, tables
  <2> QED
    BY <2>1, <2>2, <2>3, <2>4, <2>5, <2>6, <2>7 DEF Next
<1> QED BY <1>1, <1>2, PTL DEF Spec

\* Two accounts never share an address and no account has two players, whatever requests,
\* commands and crashes meet (users.go: ErrEmailTaken; players.go: ErrUserLinkedElsewhere).
THEOREM LoginsAreDistinctHolds == Spec => []LoginsAreDistinct
<1>1. LoginsInv => LoginsAreDistinct
  BY DEF LoginsInv
<1> QED BY <1>1, LoginsInvariant, PTL

-----------------------------------------------------------------------------
(* Links act once, and nothing outlives a password.                        *)

\* A request holds a link of the account, or of the player, it was begun for, as tokens never
\* meet; one invitation to a player is live; and no session that is open and no address
\* that waits is of an old password.
HeldLinks ==
  \A c \in Callers :
    At(c, "resetting") /\ LinkLives(calls[c].link) => links[calls[c].link].user = calls[c].user
HeldInvites ==
  \A c \in Callers :
    At(c, "claiming") /\ InviteLives(calls[c].invite)
    => invites[calls[c].invite].player = calls[c].player
OneInvite ==
  \A i, j \in Invites :
    InviteLives(i) /\ InviteLives(j) /\ invites[i].player = invites[j].player => i = j
NoneOld ==
  /\ \A s \in Sessions : sessions[s] # NoUser => ages.opened[s] # "old"
  /\ \A u \in Registered : accounts[u].pending # NoAddress => ages.asked[u] # "old"

\* Who writes links.
LEMMA LinkWriters ==
  ASSUME LoginsInv, [Next]_vars
  PROVE  \A l \in Links : links'[l] \in {links[l], NoLink} \/ (NewLink(l) /\ \E c \in Callers : Finish(c))
<1> USE DEF tables
<1>1. CASE UNCHANGED vars
  BY <1>1 DEF vars
<1>2. CASE Operator
  BY <1>2 DEF Operator, Bootstrap, CreateUser, ResetPassword, Disable, Enable, CreateInvitation,
     CancelInvitation, UnlinkPlayer, LinkPlayer, DisableLogin
<1>3. ASSUME NEW c \in Callers, Request(c)
      PROVE  \A l \in Links : links'[l] \in {links[l], NoLink} \/ (NewLink(l) /\ Finish(c))
  <2>1. ASSUME NEW l \in Links, IssueResetLink(c, l) \/ SendVerifyEmail(c, l)
        PROVE  \A k \in Links : links'[k] \in {links[k], NoLink} \/ (NewLink(k) /\ Finish(c))
    BY <2>1, Rows DEF IssueResetLink, SendVerifyEmail, CreateLink
  <2>2. CASE ConsumeReset(c)
    BY <2>2 DEF ConsumeReset, Reset, WithoutLinks
  <2>3. \/ UNCHANGED links
        \/ ConsumeReset(c)
        \/ \E l \in Links : IssueResetLink(c, l) \/ SendVerifyEmail(c, l)
    BY <1>3 DEF Request, CheckPassword, ForgotPassword, AcceptInvitation, Claim, OpenSession,
       SettingsPassword, SettingsEmail, ResetPasswordSubmit, InviteSubmit, ConsumeResetFails, Refuse,
       ChangePassword, SetPendingEmail, AcceptFails, DetachLogin
  <2> QED BY <2>1, <2>2, <2>3
<1>4. ASSUME NEW l \in Links, VerifyEmail(l) \/ LinkExpires(l)
      PROVE  \A k \in Links : links'[k] \in {links[k], NoLink}
  BY <1>4, Rows DEF VerifyEmail, LinkExpires
<1>5. ASSUME NEW i \in Invites, InviteExpires(i) PROVE UNCHANGED links
  BY <1>5 DEF InviteExpires
<1>6. ASSUME NEW s \in Sessions, EndSession(s) PROVE UNCHANGED links
  BY <1>6 DEF EndSession
<1>7. CASE Crash
  BY <1>7 DEF Crash
<1> QED
  BY <1>1, <1>2, <1>3, <1>4, <1>5, <1>6, <1>7 DEF Next

\* Who writes invitations: one is made for a player whose others are spent.
LEMMA InviteWriters ==
  ASSUME LoginsInv, [Next]_vars
  PROVE  \/ \A i \in Invites : invites'[i] \in {invites[i], NoInvite}
         \/ \E i \in Invites, p \in Players, a \in Addresses : CreateInvitation(i, p, a)
<1> USE DEF tables
<1>1. ASSUME NEW c \in Callers, Request(c) PROVE \A i \in Invites : invites'[i] \in {invites[i], NoInvite}
  <2>1. ASSUME NEW u \in Users, AcceptInvitation(c, u)
        PROVE  \A i \in Invites : invites'[i] \in {invites[i], NoInvite}
    BY <2>1, Rows DEF AcceptInvitation, Claim
  <2>2. UNCHANGED invites \/ \E u \in Users : AcceptInvitation(c, u)
    BY <1>1 DEF Request, CheckPassword, ForgotPassword, OpenSession, SettingsPassword, SettingsEmail,
       IssueResetLink, ResetPasswordSubmit, SendVerifyEmail, InviteSubmit, ConsumeReset, Reset,
       ConsumeResetFails, Refuse, ChangePassword, SetPendingEmail, AcceptFails, DetachLogin
  <2> QED BY <2>1, <2>2
<1>2. CASE Operator
  BY <1>2 DEF Operator, Bootstrap, CreateUser, ResetPassword, Disable, Enable, CancelInvitation, Spend,
     UnlinkPlayer, LinkPlayer, DisableLogin
<1>3. ASSUME NEW i \in Invites, InviteExpires(i)
      PROVE  \A j \in Invites : invites'[j] \in {invites[j], NoInvite}
  BY <1>3, Rows DEF InviteExpires
<1>4. ASSUME NEW l \in Links, VerifyEmail(l) \/ LinkExpires(l) PROVE UNCHANGED invites
  BY <1>4 DEF VerifyEmail, LinkExpires
<1>5. ASSUME NEW s \in Sessions, EndSession(s) PROVE UNCHANGED invites
  BY <1>5 DEF EndSession
<1>6. CASE Crash \/ UNCHANGED vars
  BY <1>6 DEF Crash, vars
<1> QED
  BY <1>1, <1>2, <1>3, <1>4, <1>5, <1>6 DEF Next

\* Who writes a request in flight.
LEMMA CallWriters ==
  ASSUME LoginsInv, [Next]_vars, NEW c \in Callers
  PROVE  \/ calls'[c] = calls[c]
         \/ Crash
         \/ Request(c)
         \/ \E p \in Players : DisableLogin(c, p)
<1> USE DEF tables
<1>1. ASSUME NEW d \in Callers, d # c, Request(d) PROVE calls'[c] = calls[c]
  <2>1. calls \in [Callers -> Call \cup {NoCall}]
    BY Rows
  <2> QED
    BY <1>1, <2>1 DEF Request, CheckPassword, ForgotPassword, OpenSession, SettingsPassword, SettingsEmail,
       IssueResetLink, ResetPasswordSubmit, SendVerifyEmail, InviteSubmit, ConsumeReset,
       ConsumeResetFails, Refuse, ChangePassword, SetPendingEmail, AcceptInvitation, Claim, AcceptFails,
       DetachLogin, Begin, Continue, Finish
<1>2. ASSUME NEW d \in Callers, d # c, NEW p \in Players, DisableLogin(d, p) PROVE calls'[c] = calls[c]
  BY <1>2, Rows DEF DisableLogin, Begin
<1>3. Operator => UNCHANGED calls \/ \E d \in Callers, p \in Players : DisableLogin(d, p)
  BY DEF Operator, Bootstrap, CreateUser, ResetPassword, Disable, Enable, CreateInvitation,
     CancelInvitation, UnlinkPlayer, LinkPlayer
<1>4. ASSUME NEW l \in Links, VerifyEmail(l) \/ LinkExpires(l) PROVE UNCHANGED calls
  BY <1>4 DEF VerifyEmail, LinkExpires
<1>5. ASSUME NEW i \in Invites, InviteExpires(i) PROVE UNCHANGED calls
  BY <1>5 DEF InviteExpires
<1>6. ASSUME NEW s \in Sessions, EndSession(s) PROVE UNCHANGED calls
  BY <1>6 DEF EndSession
<1>7. UNCHANGED vars => UNCHANGED calls
  BY DEF vars
<1> QED
  BY <1>1, <1>2, <1>3, <1>4, <1>5, <1>6, <1>7 DEF Next

\* Which requests come to hold a link or an invitation.
LEMMA Holders ==
  ASSUME LoginsInv, NEW c \in Callers, Request(c) \/ \E p \in Players : DisableLogin(c, p)
  PROVE  /\ At(c, "resetting")' => \E l \in Links : ResetPasswordSubmit(c, l)
         /\ At(c, "claiming")' => \E i \in Invites : InviteSubmit(c, i)
<1> DEFINE Other == calls'[c] = NoCall
             \/ calls'[c].at \in {"linking", "mailing", "moving", "changing", "entering", "detaching"}
<1>1. calls \in [Callers -> Call \cup {NoCall}]
  BY Rows
<1>2. ASSUME NEW u \in Users, CheckPassword(c, u) \/ ForgotPassword(c, u) \/ AcceptInvitation(c, u)
      PROVE  Other
  BY <1>1, <1>2 DEF CheckPassword, ForgotPassword, AcceptInvitation, Claim, Begin, Continue
<1>3. ASSUME NEW s \in Sessions,
             OpenSession(c, s) \/ SettingsPassword(c, s) \/ \E a \in Addresses : SettingsEmail(c, s, a)
      PROVE  Other
  BY <1>1, <1>3 DEF OpenSession, SettingsPassword, SettingsEmail, Begin, Finish
<1>4. ASSUME NEW l \in Links, IssueResetLink(c, l) \/ SendVerifyEmail(c, l) PROVE Other
  BY <1>1, <1>4 DEF IssueResetLink, SendVerifyEmail, Finish
<1>5. ASSUME ConsumeReset(c) \/ ConsumeResetFails(c) \/ ChangePassword(c) \/ AcceptFails(c) \/ DetachLogin(c)
      PROVE  Other
  BY <1>1, <1>5 DEF ConsumeReset, ConsumeResetFails, ChangePassword, AcceptFails, DetachLogin, Refuse, Finish
<1>6. ASSUME SetPendingEmail(c) PROVE Other
  <2>1. Refuse(c) \/ Continue(c, [at |-> "mailing", user |-> calls[c].user, to |-> calls[c].to])
    BY <1>6 DEF SetPendingEmail
  <2> QED BY <1>1, <2>1 DEF Refuse, Finish, Continue
<1>7. ASSUME NEW p \in Players, DisableLogin(c, p) PROVE Other
  BY <1>1, <1>7 DEF DisableLogin, Begin
<1>8. ASSUME NEW l \in Links, ResetPasswordSubmit(c, l) PROVE ~At(c, "claiming")'
  BY <1>1, <1>8 DEF ResetPasswordSubmit, Begin, At
<1>9. ASSUME NEW i \in Invites, InviteSubmit(c, i) PROVE ~At(c, "resetting")'
  BY <1>1, <1>9 DEF InviteSubmit, Begin, At
<1>10. Other => ~At(c, "resetting")' /\ ~At(c, "claiming")'
  BY DEF At
<1> HIDE DEF Other
<1>11. \/ Other
       \/ \E l \in Links : ResetPasswordSubmit(c, l)
       \/ \E i \in Invites : InviteSubmit(c, i)
  BY <1>2, <1>3, <1>4, <1>5, <1>6, <1>7 DEF Request
<1> QED
  BY <1>8, <1>9, <1>10, <1>11

\* What a request holds stays for whom it was begun.
LEMMA HeldStep ==
  ASSUME LoginsInv, HeldLinks, HeldInvites, [Next]_vars
  PROVE  HeldLinks' /\ HeldInvites'
<1>1. ASSUME NEW c \in Callers, At(c, "resetting")', LinkLives(calls[c].link)'
      PROVE  links'[calls'[c].link].user = calls'[c].user
  <2>1. CASE calls'[c] = calls[c]
    <3>1. calls[c] \in Call /\ calls[c].at = "resetting" /\ At(c, "resetting")
      BY <1>1, <2>1, Rows DEF At
    <3>2. PICK l \in Links : l = calls[c].link
      BY <3>1, CallNames
    <3>3. ~NewLink(l) /\ links'[l] # NoLink
      BY <1>1, <2>1, <3>1, <3>2 DEF NewLink, LinkLives
    <3>4. links'[l] = links[l]
      BY <3>3, LinkWriters
    <3> QED BY <2>1, <3>1, <3>2, <3>3, <3>4 DEF HeldLinks, LinkLives
  <2>2. ASSUME NEW l \in Links, ResetPasswordSubmit(c, l)
        PROVE  links'[calls'[c].link].user = calls'[c].user
    BY <2>2, Rows DEF ResetPasswordSubmit, Begin, tables
  <2>3. ~Crash
    BY <1>1 DEF At, Crash
  <2> QED BY <1>1, <2>1, <2>2, <2>3, CallWriters, Holders
<1>2. ASSUME NEW c \in Callers, At(c, "claiming")', InviteLives(calls[c].invite)'
      PROVE  invites'[calls'[c].invite].player = calls'[c].player
  <2>1. CASE calls'[c] = calls[c]
    <3>1. calls[c] \in Call /\ calls[c].at = "claiming" /\ At(c, "claiming")
      BY <1>2, <2>1, Rows DEF At
    <3>2. PICK i \in Invites : i = calls[c].invite
      BY <3>1, CallNames
    <3>3. ~NewInvite(i) /\ invites'[i] # NoInvite
      BY <1>2, <2>1, <3>1, <3>2 DEF NewInvite, InviteLives
    <3>4. invites'[i] = invites[i]
      <4>1. ASSUME NEW j \in Invites, NEW p \in Players, NEW a \in Addresses, CreateInvitation(j, p, a)
            PROVE  invites'[i] \in {invites[i], NoInvite}
        BY <3>3, <4>1, Rows DEF CreateInvitation, Spend
      <4> QED BY <3>3, <4>1, InviteWriters
    <3> QED BY <2>1, <3>1, <3>2, <3>3, <3>4 DEF HeldInvites, InviteLives
  <2>2. ASSUME NEW i \in Invites, InviteSubmit(c, i)
        PROVE  invites'[calls'[c].invite].player = calls'[c].player
    BY <2>2, Rows DEF InviteSubmit, Begin, tables
  <2>3. ~Crash
    BY <1>2 DEF At, Crash
  <2> QED BY <1>2, <2>1, <2>2, <2>3, CallWriters, Holders
<1> QED
  BY <1>1, <1>2 DEF HeldLinks, HeldInvites

\* One invitation to a player is live.
LEMMA OneInviteStep ==
  ASSUME LoginsInv, OneInvite, [Next]_vars
  PROVE  OneInvite'
<1>1. CASE \A i \in Invites : invites'[i] \in {invites[i], NoInvite}
  BY <1>1 DEF OneInvite, InviteLives
<1>2. ASSUME NEW i \in Invites, NEW p \in Players, NEW a \in Addresses, CreateInvitation(i, p, a)
      PROVE  OneInvite'
  <2>1. /\ invites'[i] = [player |-> p, to |-> a]
        /\ \A j \in Invites \ {i} : invites'[j] = invites[j] \/ invites'[j] = NoInvite
        /\ \A j \in Invites \ {i} : invites'[j] # NoInvite => invites[j].player # p /\ invites'[j] = invites[j]
    BY <1>2 DEF CreateInvitation, Spend, InviteLives
  <2> QED BY <2>1 DEF OneInvite, InviteLives
<1> QED
  BY <1>1, <1>2, InviteWriters

\* What a step does to one account: nothing to its addresses; a new password, which drops
\* the one that waits; an address asked for; or one confirmed.
Keeps(u) ==
  /\ accounts'[u].email = accounts[u].email
  /\ accounts'[u].pending = accounts[u].pending
  /\ ages'.asked[u] = ages.asked[u]
Renews(u) ==
  /\ accounts'[u].email = accounts[u].email
  /\ accounts'[u].pending = NoAddress
Asks(u) ==
  /\ accounts'[u].email = accounts[u].email
  /\ ages'.asked[u] # "old"
Moves(u) ==
  /\ accounts[u].pending # NoAddress
  /\ accounts'[u].pending = NoAddress
Effect(u) ==
  IF Exists(u) THEN Keeps(u) \/ Renews(u) \/ Asks(u) \/ Moves(u)
  ELSE accounts'[u] = NoAccount \/ accounts'[u].pending = NoAddress

\* Steps that leave accounts alone, and steps that make one.
LEMMA UntouchedEffect ==
  ASSUME UNCHANGED accounts, Same("asked") \/ UNCHANGED ages, NEW u \in Users
  PROVE  Effect(u)
BY DEF Effect, Keeps, Exists, Same

LEMMA CreateEffect ==
  ASSUME LoginsInv, NEW v \in Users, ~Exists(v), NEW a,
         accounts' = [accounts EXCEPT ![v] = NewAccount(a)], Same("asked") \/ UNCHANGED ages, NEW u \in Users
  PROVE  Effect(u)
<1>1. CASE u = v
  BY <1>1, Rows DEF Effect, Exists, NewAccount
<1>2. CASE u # v
  <2>1. accounts'[u] = accounts[u]
    BY <1>2, Rows
  <2> QED BY <2>1 DEF Effect, Keeps, Exists, Same
<1> QED
  BY <1>1, <1>2

\* A new password.
LEMMA PasswordEffect ==
  ASSUME LoginsInv, NEW v \in Users, Exists(v),
         accounts' = [accounts EXCEPT ![v].pending = NoAddress], NewPassword(v), NEW u \in Users
  PROVE  Effect(u)
<1>1. accounts[v] \in Account /\ accounts \in [Users -> Account \cup {NoAccount}]
  BY Rows DEF Registered
<1>2. CASE u = v
  <2>1. /\ accounts'[v].email = accounts[v].email
        /\ accounts'[v].pending = NoAddress
    BY <1>1 DEF Account
  <2> QED BY <1>2, <2>1 DEF Effect, Renews
<1>3. CASE u # v
  <2>1. accounts'[u] = accounts[u] /\ ages'.asked[u] = ages.asked[u]
    BY <1>1, <1>3, AgeSteps
  <2> QED BY <2>1 DEF Effect, Keeps, Exists
<1> QED
  BY <1>2, <1>3

\* An account switched on or off, by the CLI or from the page of a player.
LEMMA SwitchEffect ==
  ASSUME LoginsInv, NEW v \in Users, Exists(v), NEW disabled \in BOOLEAN,
         accounts' = [accounts EXCEPT ![v].disabled = disabled], UNCHANGED ages, NEW u \in Users
  PROVE  Effect(u)
<1>1. accounts[v] \in Account /\ accounts \in [Users -> Account \cup {NoAccount}]
  BY Rows DEF Registered
<1>2. CASE u = v
  BY <1>1, <1>2 DEF Effect, Keeps, Account
<1>3. CASE u # v
  <2>1. accounts'[u] = accounts[u]
    BY <1>1, <1>3
  <2> QED BY <2>1 DEF Effect, Keeps, Exists
<1> QED
  BY <1>2, <1>3

\* An address asked for, and one confirmed.
LEMMA AddressEffect ==
  ASSUME LoginsInv, NEW u \in Users,
         (\E c \in Callers : SetPendingEmail(c)) \/ \E l \in Links : VerifyEmail(l)
  PROVE  Effect(u)
<1>1. ASSUME NEW c \in Callers, SetPendingEmail(c) PROVE Effect(u)
  <2>1. calls[c] \in Call /\ calls[c].at = "moving"
    BY <1>1, Rows DEF SetPendingEmail, At
  <2>2. PICK v \in Users : v = calls[c].user /\ v \in Registered
    BY <1>1, <2>1, Rows, CallNames DEF SetPendingEmail, At, CallsLive, ForAccount
  <2>3. PICK a \in Addresses : a = calls[c].to
    BY <2>1, CallNames
  <2>4. CASE Refuse(c)
    BY <2>4, UntouchedEffect DEF Refuse, tables
  <2>5. CASE ~Refuse(c)
    <3>1. /\ accounts' = [accounts EXCEPT ![v].pending = a]
          /\ ages' = [ages EXCEPT !.asked[v] = Written(c), !.checked[c] = "current"]
      BY <1>1, <2>2, <2>3, <2>5 DEF SetPendingEmail
    <3>2. accounts[v] \in Account /\ accounts \in [Users -> Account \cup {NoAccount}] /\ Exists(v)
      BY <2>2, Rows DEF Registered
    <3>3. ages'.asked[v] # "old" /\ \A w \in Users \ {v} : ages'.asked[w] = ages.asked[w]
      BY <3>1, AgeSteps
    <3>4. CASE u = v
      <4>1. accounts'[u].email = accounts[u].email
        BY <3>1, <3>2, <3>4 DEF Account
      <4> QED BY <3>2, <3>3, <3>4, <4>1 DEF Effect, Asks
    <3>5. CASE u # v
      <4>1. accounts'[u] = accounts[u] /\ ages'.asked[u] = ages.asked[u]
        BY <3>1, <3>2, <3>3, <3>5
      <4> QED BY <4>1 DEF Effect, Keeps, Exists
    <3> QED BY <3>4, <3>5
  <2> QED BY <2>4, <2>5
<1>2. ASSUME NEW l \in Links, VerifyEmail(l) PROVE Effect(u)
  <2>1. PICK v \in Users : v = links[l].user /\ v \in Registered
    BY <1>2, Rows DEF VerifyEmail, LinkLives
  <2>2. /\ accounts' = [accounts EXCEPT ![v] = Promoted(v)]
        /\ ages' = [ages EXCEPT !.asked[v] = "current"]
    BY <1>2, <2>1 DEF VerifyEmail
  <2>3. /\ accounts[v] \in Account /\ Exists(v)
        /\ accounts'[u] = IF u = v THEN Promoted(v) ELSE accounts[u]
    BY <2>1, <2>2, Rows DEF Registered
  <2>4. ages'.asked[v] # "old" /\ \A w \in Users \ {v} : ages'.asked[w] = ages.asked[w]
    BY <2>2, AgeSteps
  <2>5. CASE u # v
    BY <2>3, <2>4, <2>5 DEF Effect, Keeps, Exists
  <2>6. CASE u = v /\ accounts[v].pending = NoAddress
    <3>1. accounts'[u] = accounts[u]
      BY <2>3, <2>6 DEF Promoted
    <3> QED BY <2>3, <2>4, <2>6, <3>1 DEF Effect, Asks
  <2>7. CASE u = v /\ accounts[v].pending # NoAddress
    <3>1. Promoted(v) = [accounts[v] EXCEPT !.email = accounts[v].pending, !.pending = NoAddress]
      BY <2>7 DEF Promoted
    <3>2. Promoted(v).pending = NoAddress
      BY <2>3, <3>1 DEF Account
    <3> QED BY <2>3, <2>7, <3>2 DEF Effect, Moves
  <2> QED BY <2>5, <2>6, <2>7
<1> QED
  BY <1>1, <1>2

\* Every way to a new password: whose it is, and what goes with it.
LEMMA Passwords ==
  ASSUME LoginsInv,
         \/ \E v \in Users : ResetPassword(v)
         \/ \E c \in Callers : ConsumeReset(c) \/ ChangePassword(c)
  PROVE  \E v \in Users : /\ Exists(v) /\ NewPassword(v)
                          /\ accounts' = [accounts EXCEPT ![v].pending = NoAddress]
                          /\ sessions' = WithoutSessions(v)
<1>1. ASSUME NEW v \in Users, ResetPassword(v)
      PROVE  /\ Exists(v) /\ NewPassword(v) /\ sessions' = WithoutSessions(v)
             /\ accounts' = [accounts EXCEPT ![v].pending = NoAddress]
  BY <1>1 DEF ResetPassword, SetUserPassword
<1>2. ASSUME NEW c \in Callers, ConsumeReset(c) \/ ChangePassword(c)
      PROVE  \E v \in Users : /\ Exists(v) /\ NewPassword(v) /\ sessions' = WithoutSessions(v)
                              /\ accounts' = [accounts EXCEPT ![v].pending = NoAddress]
  <2>1. calls[c] \in Call /\ calls[c].at \in {"resetting", "changing"}
    BY <1>2, Rows DEF ConsumeReset, ChangePassword, At
  <2>2. calls[c].user \in Users /\ Exists(calls[c].user)
    BY <1>2, <2>1, Rows, CallNames DEF ConsumeReset, ChangePassword, At, CallsLive, ForAccount, Registered
  <2>3. /\ NewPassword(calls[c].user) /\ sessions' = WithoutSessions(calls[c].user)
        /\ accounts' = [accounts EXCEPT ![calls[c].user].pending = NoAddress]
    BY <1>2 DEF ConsumeReset, Reset, ChangePassword, SetUserPassword
  <2> QED BY <2>2, <2>3
<1> QED
  BY <1>1, <1>2

LEMMA PasswordsEffect ==
  ASSUME LoginsInv, NEW u \in Users,
         \/ \E v \in Users : ResetPassword(v)
         \/ \E c \in Callers : ConsumeReset(c) \/ ChangePassword(c)
  PROVE  Effect(u)
BY Passwords, PasswordEffect

\* Every command.
LEMMA OperatorEffect ==
  ASSUME LoginsInv, Operator, NEW u \in Users
  PROVE  Effect(u)
<1>1. ASSUME NEW v \in Users, NEW a \in Addresses, Bootstrap(v, a) \/ CreateUser(v, a) PROVE Effect(u)
  <2>1. /\ ~Exists(v) /\ accounts' = [accounts EXCEPT ![v] = NewAccount(a)] /\ UNCHANGED ages
    BY <1>1 DEF Bootstrap, CreateUser, Registered
  <2> QED BY <2>1, CreateEffect
<1>2. ASSUME NEW v \in Users, Disable(v) \/ Enable(v) PROVE Effect(u)
  BY <1>2, SwitchEffect DEF Disable, Enable, SetUserDisabled
<1>3. ASSUME NEW c \in Callers, NEW p \in Players, DisableLogin(c, p) PROVE Effect(u)
  <2>1. PICK v \in Users : v = playerOf[p] /\ v \in Registered
    BY <1>3, Rows DEF DisableLogin
  <2>2. accounts' = [accounts EXCEPT ![v].disabled = TRUE] /\ UNCHANGED ages /\ Exists(v)
    BY <1>3, <2>1 DEF DisableLogin, SetUserDisabled, Registered
  <2> QED BY <2>2, SwitchEffect
<1>4. ASSUME NEW i \in Invites, NEW p \in Players, NEW a \in Addresses, CreateInvitation(i, p, a)
      PROVE  Effect(u)
  BY <1>4, UntouchedEffect DEF CreateInvitation
<1>5. ASSUME NEW p \in Players, CancelInvitation(p) \/ UnlinkPlayer(p) PROVE Effect(u)
  BY <1>5, UntouchedEffect DEF CancelInvitation, UnlinkPlayer
<1>6. ASSUME NEW p \in Players, NEW v \in Users, LinkPlayer(p, v) PROVE Effect(u)
  BY <1>6, UntouchedEffect DEF LinkPlayer
<1>7. ASSUME NEW v \in Users, ResetPassword(v) PROVE Effect(u)
  BY <1>7, PasswordsEffect
<1> QED
  BY <1>1, <1>2, <1>3, <1>4, <1>5, <1>6, <1>7 DEF Operator

\* Every step.
LEMMA StepEffect ==
  ASSUME LoginsInv, [Next]_vars, NEW u \in Users
  PROVE  Effect(u)
<1>1. ASSUME NEW c \in Callers, Request(c) PROVE Effect(u)
  <2>1. ASSUME NEW v \in Users, AcceptInvitation(c, v) PROVE Effect(u)
    <3>1. calls[c] \in Call /\ calls[c].at = "claiming"
      BY <2>1, Rows DEF AcceptInvitation, At
    <3>2. PICK a : a = invites[calls[c].invite].to
      OBVIOUS
    <3>3. /\ ~Exists(v) /\ accounts' = [accounts EXCEPT ![v] = NewAccount(a)] /\ Same("asked")
      BY <2>1, <3>2, AgeSteps DEF AcceptInvitation, Claim
    <3> QED BY <3>3, CreateEffect
  <2>2. \/ UNCHANGED accounts /\ (Same("asked") \/ UNCHANGED ages)
        \/ ConsumeReset(c) \/ ChangePassword(c) \/ SetPendingEmail(c)
        \/ \E v \in Users : AcceptInvitation(c, v)
    BY <1>1, AgeSteps DEF Request, CheckPassword, ForgotPassword, OpenSession, SettingsPassword, SettingsEmail,
       IssueResetLink, CreateLink, ResetPasswordSubmit, SendVerifyEmail, InviteSubmit, ConsumeResetFails,
       Refuse, AcceptFails, DetachLogin, tables
  <2> QED BY <2>1, <2>2, UntouchedEffect, PasswordsEffect, AddressEffect
<1>2. CASE Operator
  BY <1>2, OperatorEffect
<1>3. ASSUME NEW l \in Links, VerifyEmail(l) PROVE Effect(u)
  BY <1>3, AddressEffect
<1>4. ASSUME NEW l \in Links, LinkExpires(l) PROVE Effect(u)
  BY <1>4, UntouchedEffect DEF LinkExpires
<1>5. ASSUME NEW i \in Invites, InviteExpires(i) PROVE Effect(u)
  BY <1>5, UntouchedEffect DEF InviteExpires
<1>6. ASSUME NEW s \in Sessions, EndSession(s) PROVE Effect(u)
  BY <1>6, AgeSteps, UntouchedEffect DEF EndSession
<1>7. CASE Crash \/ UNCHANGED vars
  BY <1>7, AgeSteps, UntouchedEffect DEF Crash, tables, vars
<1> QED
  BY <1>1, <1>2, <1>3, <1>4, <1>5, <1>6, <1>7 DEF Next

\* What a step does to one session: it ends, is left alone, or is written by a request.
LEMMA SessionEffect ==
  ASSUME LoginsInv, [Next]_vars, NEW s \in Sessions
  PROVE  \/ sessions'[s] = NoUser
         \/ ages'.opened[s] # "old"
         \/ sessions'[s] = sessions[s] /\ ages'.opened[s] = ages.opened[s]
<1> DEFINE Goal == \/ sessions'[s] = NoUser
                   \/ ages'.opened[s] # "old"
                   \/ sessions'[s] = sessions[s] /\ ages'.opened[s] = ages.opened[s]
<1>1. CASE \/ \E v \in Users : ResetPassword(v)
           \/ \E c \in Callers : ConsumeReset(c) \/ ChangePassword(c)
  <2>1. PICK v \in Users : NewPassword(v) /\ sessions' = WithoutSessions(v)
    BY <1>1, Passwords
  <2>2. sessions[s] # v => ages'.opened[s] = ages.opened[s]
    BY <2>1, AgeSteps
  <2> QED BY <2>1, <2>2 DEF WithoutSessions
<1>2. ASSUME NEW c \in Callers, NEW t \in Sessions, OpenSession(c, t) PROVE Goal
  <2>1. /\ sessions' = [sessions EXCEPT ![t] = calls[c].user]
        /\ ages'.opened[t] # "old" /\ \A r \in Sessions \ {t} : ages'.opened[r] = ages.opened[r]
    BY <1>2, AgeSteps DEF OpenSession
  <2> QED BY <2>1, Rows
<1>3. ASSUME NEW t \in Sessions, EndSession(t) PROVE Goal
  <2>1. /\ sessions' = [sessions EXCEPT ![t] = NoUser]
        /\ ages'.opened[t] # "old" /\ \A r \in Sessions \ {t} : ages'.opened[r] = ages.opened[r]
    BY <1>3, AgeSteps DEF EndSession
  <2> QED BY <2>1, Rows
<1>4. ASSUME NEW v, NEW disabled, SetUserDisabled(v, disabled), UNCHANGED ages PROVE Goal
  BY <1>4 DEF SetUserDisabled, WithoutSessions
<1>5. UNCHANGED sessions /\ (Same("opened") \/ UNCHANGED ages) => Goal
  BY DEF Same
<1> HIDE DEF Goal
<1>6. ASSUME NEW c \in Callers, Request(c) PROVE Goal
  <2>1. \/ ConsumeReset(c) \/ ChangePassword(c) \/ \E t \in Sessions : OpenSession(c, t)
        \/ UNCHANGED sessions /\ (Same("opened") \/ UNCHANGED ages)
    <3>1. ASSUME SetPendingEmail(c) PROVE UNCHANGED sessions /\ (Same("opened") \/ UNCHANGED ages)
      <4>1. calls[c].user \in Users
        BY <3>1, Rows, CallNames DEF SetPendingEmail, At, ForAccount
      <4> QED BY <3>1, <4>1, AgeSteps DEF SetPendingEmail, Refuse, tables
    <3> QED
      BY <1>6, <3>1, AgeSteps DEF Request, CheckPassword, ForgotPassword, AcceptInvitation, Claim,
         SettingsPassword, SettingsEmail, IssueResetLink, ResetPasswordSubmit, SendVerifyEmail,
         InviteSubmit, ConsumeResetFails, Refuse, AcceptFails, DetachLogin, tables
  <2> QED BY <1>1, <1>2, <1>5, <2>1 DEF Goal
<1>7. CASE Operator
  <2>1. \/ \E v \in Users : ResetPassword(v)
        \/ \E v \in Users : (SetUserDisabled(v, TRUE) \/ SetUserDisabled(v, FALSE)) /\ UNCHANGED ages
        \/ \E p \in Players : SetUserDisabled(playerOf[p], TRUE) /\ UNCHANGED ages
        \/ UNCHANGED <<sessions, ages>>
    BY <1>7 DEF Operator, Bootstrap, CreateUser, Disable, Enable, CreateInvitation, CancelInvitation,
       UnlinkPlayer, LinkPlayer, DisableLogin
  <2>2. CASE \E v \in Users : ResetPassword(v)
    BY <1>1, <2>2 DEF Goal
  <2>3. CASE UNCHANGED <<sessions, ages>>
    BY <1>5, <2>3 DEF Goal
  <2> QED BY <1>4, <2>1, <2>2, <2>3 DEF Goal
<1>8. ASSUME NEW l \in Links, VerifyEmail(l) \/ LinkExpires(l) PROVE Goal
  <2>1. VerifyEmail(l) => links[l].user \in Users
    BY Rows DEF VerifyEmail, LinkLives
  <2> QED BY <1>5, <1>8, <2>1, AgeSteps DEF VerifyEmail, LinkExpires
<1>9. ASSUME NEW i \in Invites, InviteExpires(i) PROVE Goal
  BY <1>5, <1>9 DEF InviteExpires
<1>10. CASE Crash
  <2>1. UNCHANGED sessions /\ Same("opened")
    BY <1>10, AgeSteps DEF Crash, tables
  <2> QED BY <1>5, <2>1 DEF Goal
<1>11. CASE UNCHANGED vars
  BY <1>5, <1>11 DEF vars, Goal
<1> QED
  BY <1>3, <1>6, <1>7, <1>8, <1>9, <1>10, <1>11 DEF Next, Goal

\* What the two properties rest on.
HeldInv == LoginsInv /\ HeldLinks /\ HeldInvites /\ OneInvite /\ NoneOld

\* Nothing that is open or waits is ever of an old password.
LEMMA NoneOldStep ==
  ASSUME LoginsInv, NoneOld, [Next]_vars
  PROVE  NoneOld'
<1>1. ASSUME NEW u \in Registered', accounts'[u].pending # NoAddress
      PROVE  ages'.asked[u] # "old"
  <2>1. u \in Users /\ accounts'[u] # NoAccount
    BY DEF Registered, Exists
  <2>2. Effect(u)
    BY <2>1, StepEffect
  <2>3. Exists(u) => u \in Registered
    BY <2>1 DEF Registered
  <2> QED BY <1>1, <2>1, <2>2, <2>3 DEF Effect, Keeps, Renews, Asks, Moves, NoneOld
<1>2. ASSUME NEW s \in Sessions, sessions'[s] # NoUser PROVE ages'.opened[s] # "old"
  BY <1>2, SessionEffect DEF NoneOld
<1> QED
  BY <1>1, <1>2 DEF NoneOld

LEMMA HeldInvariant == Spec => []HeldInv
<1>1. Init => HeldLinks /\ HeldInvites /\ OneInvite /\ NoneOld
  BY NullsAreNull DEF Init, HeldLinks, HeldInvites, OneInvite, NoneOld, At, LinkLives, InviteLives,
     Registered, Exists
<1>2. LoginsInv /\ NoneOld /\ [Next]_vars => NoneOld'
  BY NoneOldStep
<1>3. LoginsInv /\ HeldLinks /\ HeldInvites /\ [Next]_vars => HeldLinks' /\ HeldInvites'
  BY HeldStep
<1>4. LoginsInv /\ OneInvite /\ [Next]_vars => OneInvite'
  BY OneInviteStep
<1> QED
  BY <1>1, <1>2, <1>3, <1>4, LoginsInvariant, PTL DEF Spec, HeldInv

\* A link acts once, re-inviting leaves one live link to a player, and a claim never takes a
\* player from the login that came to have it (reset.go, invitations.go).
THEOREM LinksActOnceHolds == Spec => LinksActOnce
<1>1. ASSUME HeldInv, [Next]_vars, NEW c \in Callers, At(c, "resetting"), calls'[c] = NoCall,
             ~UNCHANGED <<accounts, links, sessions>>
      PROVE  LinkLives(calls[c].link) /\ links'[calls[c].link] = NoLink
  <2>1. LoginsInv /\ calls[c] \in Call /\ calls[c].at = "resetting" /\ calls[c] # NoCall
    BY <1>1, Rows DEF HeldInv, At
  <2>2. PICK l \in Links : l = calls[c].link
    BY <2>1, CallNames
  <2>3. Request(c)
    <3>1. ~Crash /\ \A p \in Players : ~DisableLogin(c, p)
      BY <1>1, <2>1 DEF Crash, tables, DisableLogin, Begin
    <3> QED BY <1>1, <2>1, <3>1, CallWriters
  <2>4. CASE ConsumeReset(c)
    <3>1. LinkLives(l) /\ links' = WithoutLinks(calls[c].user)
      BY <2>2, <2>4 DEF ConsumeReset, ResetLinkGood, Reset, WithoutLinks
    <3>2. links[l].user = calls[c].user
      BY <1>1, <2>2, <3>1 DEF HeldInv, HeldLinks
    <3> QED BY <2>2, <3>1, <3>2 DEF WithoutLinks
  <2>5. ASSUME ~ConsumeReset(c) PROVE UNCHANGED <<accounts, links, sessions>>
    BY <2>1, <2>3, <2>5 DEF Request, At, Begin, CheckPassword, ForgotPassword, AcceptInvitation,
       OpenSession, SettingsPassword, SettingsEmail, IssueResetLink, ResetPasswordSubmit, SendVerifyEmail,
       InviteSubmit, ConsumeResetFails, Refuse, tables, ChangePassword, SetPendingEmail, AcceptFails,
       DetachLogin
  <2> QED BY <1>1, <2>4, <2>5
<1>2. ASSUME HeldInv, [Next]_vars, NEW c \in Callers, At(c, "claiming"), calls'[c] # calls[c],
             calls'[c] # NoCall
      PROVE  playerOf[calls[c].player] = NoUser
  <2>1. LoginsInv /\ calls[c] \in Call /\ calls[c].at = "claiming" /\ calls[c] # NoCall
    BY <1>2, Rows DEF HeldInv, At
  <2>2. PICK i \in Invites : i = calls[c].invite
    BY <2>1, CallNames
  <2>3. Request(c)
    <3>1. ~Crash /\ \A p \in Players : ~DisableLogin(c, p)
      BY <1>2, <2>1 DEF Crash, DisableLogin, Begin
    <3> QED BY <1>2, <2>1, <3>1, CallWriters
  <2>4. \E u \in Users : AcceptInvitation(c, u)
    <3>1. ~AcceptFails(c)
      BY <1>2, <2>1, Rows DEF AcceptFails, Refuse, Finish
    <3> QED
      BY <2>1, <2>3, <3>1 DEF Request, At, Begin, CheckPassword, ForgotPassword, OpenSession,
         SettingsPassword, SettingsEmail, IssueResetLink, ResetPasswordSubmit, SendVerifyEmail,
         InviteSubmit, ConsumeReset, ConsumeResetFails, ChangePassword, SetPendingEmail, DetachLogin
  <2>5. InviteLives(i) /\ playerOf[invites[i].player] = NoUser
    BY <2>2, <2>4 DEF AcceptInvitation, Claimable
  <2>6. invites[i].player = calls[c].player
    BY <1>2, <2>2, <2>5 DEF HeldInv, HeldInvites
  <2> QED BY <2>5, <2>6
<1>3. HeldInv /\ [Next]_vars => OneInvite'
  BY OneInviteStep DEF HeldInv
<1>4. HeldInv /\ [Next]_vars
      => [/\ \A c \in Callers :
               At(c, "resetting") /\ calls'[c] = NoCall /\ ~UNCHANGED <<accounts, links, sessions>>
               => LinkLives(calls[c].link) /\ links'[calls[c].link] = NoLink
          /\ \A i, j \in Invites :
               InviteLives(i)' /\ InviteLives(j)' /\ invites'[i].player = invites'[j].player => i = j
          /\ \A c \in Callers :
               At(c, "claiming") /\ calls'[c] # calls[c] /\ calls'[c] # NoCall
               => playerOf[calls[c].player] = NoUser]_vars
  BY <1>1, <1>2, <1>3 DEF OneInvite
<1> QED
  BY <1>4, HeldInvariant, PTL DEF Spec, LinksActOnce

\* A session that is open and an address that becomes the account's are of the password in
\* force, or were written under it by a request that had checked the one before
\* (SetUserPassword, ConsumePasswordResetToken).
THEOREM NothingOutlivesThePasswordHolds == Spec => NothingOutlivesThePassword
<1>1. ASSUME HeldInv, [Next]_vars, NEW u \in Registered, accounts'[u].email # accounts[u].email
      PROVE  ages.asked[u] # "old"
  <2>1. Effect(u) /\ Exists(u)
    BY <1>1, StepEffect DEF HeldInv, Registered
  <2> QED BY <1>1, <2>1 DEF Effect, Keeps, Renews, Asks, Moves, HeldInv, NoneOld
<1>2. ASSUME HeldInv, [Next]_vars, NEW s \in Sessions, sessions'[s] # NoUser
      PROVE  ages'.opened[s] # "old"
  BY <1>2, NoneOldStep DEF HeldInv, NoneOld
<1>3. HeldInv /\ [Next]_vars
      => [/\ \A s \in Sessions : sessions'[s] # NoUser => ages'.opened[s] # "old"
          /\ \A u \in Registered :
               accounts'[u].email # accounts[u].email => ages.asked[u] # "old"]_vars
  BY <1>1, <1>2
<1> QED
  BY <1>3, HeldInvariant, PTL DEF Spec, NothingOutlivesThePassword
=============================================================================
