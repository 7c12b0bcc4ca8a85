SPECIFICATION FairSpec
CONSTANTS
  Count = 3
  MaxRuns = 2
  QueueSize = 1
  MaxAttempts = 2
  MaxPanics = 2
  MaxInHand = 2
  None = None
CHECK_DEADLOCK FALSE
INVARIANT TypeOK
PROPERTIES NoOvertaking Delivers TicketsComeBack
