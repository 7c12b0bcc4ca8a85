SPECIFICATION Spec
CONSTANTS
  Players = {1, 2, 3}
  Posted  <- FailureAndThree
  Toggles <- Pages
  Slots   <- Turnout
  LastDay = 5
  Months  <- TwoMonths
  FormWindow = 3
  MinGames   = 2
  Active = {1, 2}
  AbsentDays = 1
  Enough <- FewDays
  DayMinFiled = 2
  BoardRecent = 2
  MoveWindow = 1
  UsualWindow = 3
  HardestWindow = 3
  YearWindow = 5
  AwardDays = 2
  SteadyDays = 2
  Podium = 1
  AwardsShown = 3
INVARIANTS RanksAreEarned LeadersEndWithWinners EarlyIsFinal PathsAgree AnswersAgree PagesAgree
PROPERTIES PlayingNeverHurts TitlesStand MidnightSettlesTheDay WhatIfComesTrue RecordsStand
