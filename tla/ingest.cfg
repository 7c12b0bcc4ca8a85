SPECIFICATION Spec
CONSTANTS
  Players = {p1, p2}
  Senders = {s1}
  Callers = {c1, c2}
  Puzzles = {1}
  Scores  = {3, 4}
  Times   = {1, 2}
  Posts   <- TwoPosts
  PendingExpires = TRUE
  DemoMode = TRUE
  NoPlayer = NoPlayer
  NoSender = NoSender
  NoGrid   = NoGrid
  Never    = Never
  NoResult = NoResult
  NoHeld   = NoHeld
  NoCall   = NoCall
SYMMETRY Symmetry
INVARIANTS IdentityOnRows GridsAgree RowsHavePlayers
PROPERTIES HandEntryStands HeldUntilReplayed FirstPostingKept RowsFollowSender ResultsOnlyMove KeepsBook
