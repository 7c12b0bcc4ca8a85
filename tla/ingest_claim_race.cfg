SPECIFICATION Spec
CONSTANTS
  Players = {p1, p2}
  Senders = {s1}
  Callers = {c1, c2}
  Puzzles = {1}
  Scores  = {3, 4}
  Times   = {}
  Posts   <- BarePosts
  PendingExpires = TRUE
  DemoMode = FALSE
  NoPlayer = NoPlayer
  NoSender = NoSender
  NoGrid   = NoGrid
  Never    = Never
  NoResult = NoResult
  NoHeld   = NoHeld
  NoCall   = NoCall
INVARIANT ClaimedHoldNothing
