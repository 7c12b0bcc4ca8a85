SPECIFICATION FairSpec
CONSTANTS
  Pages = {p, q}
  Limit = 1
  MaxChanges = 2
PROPERTIES LateResultShown IdleStopsPolling CloseReturns
