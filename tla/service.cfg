SPECIFICATION FairSpec
CONSTANTS
  Processes = {1, 2}
  LastFile  = 2
  MaxStarts = 2
  Workers   = {"bridge", "janitor"}
  MaxDisconnected = 1
  MaxSilence = 1
  MaxSilenceBeforeFirst = 1
  MaxDeliveryFailure = 1
  MaxVerifyAttempts = 1
  Never = Never
CHECK_DEADLOCK FALSE
INVARIANT StartsActOnce
PROPERTIES StopEnds TroubleShows
