SPECIFICATION FairSpec
CONSTANTS
  Players = {p1, p2}
  FirstDay = 3
  LastDay  = 5
  FirstMonday = 2
  WeekLength  = 2
  MonthEnds = {3}
  WeekMinPlayers = 2
  Kinds = {"day", "month"}
  MaxFaults = 1
  MaxEdits  = 0
  Idle = Idle
  NothingDue = NothingDue
PROPERTY ClosesAreSaid
