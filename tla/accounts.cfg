SPECIFICATION Spec
CONSTANTS
  Users = {u1, u2}
  Admins = {u1}
  Addresses = {a1, a2}
  Players = {p1}
  Links = {l1}
  Invites = {i1, i2}
  Sessions = {s1}
  Callers = {c1, c2}
  NoAccount = NoAccount
  NoAddress = NoAddress
  NoUser = NoUser
  NoLink = NoLink
  NoInvite = NoInvite
  NoCall = NoCall
SYMMETRY Symmetry
INVARIANT LoginsAreDistinct
PROPERTIES LinksActOnce NothingOutlivesThePassword
