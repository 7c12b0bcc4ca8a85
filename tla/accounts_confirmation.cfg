SPECIFICATION Spec
CONSTANTS
  Users = {u1}
  Admins = {u1}
  Addresses = {a1, a2, a3}
  Players = {p1}
  Links = {l1, l2}
  Invites = {i1}
  Sessions = {s1}
  Callers = {c1}
  NoAccount = NoAccount
  NoAddress = NoAddress
  NoUser = NoUser
  NoLink = NoLink
  NoInvite = NoInvite
  NoCall = NoCall
PROPERTY NewAddressWasConfirmed
