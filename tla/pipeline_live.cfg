SPECIFICATION FairSpec
CONSTANTS
  Requests = {r1, r2}
  Dates = {mon, sat}
  Weekends = {sat}
  MaxItems = 1
  Overrun = TRUE
  Nobody = Nobody
INVARIANT OneRunningPerDate
PROPERTIES
  EveryRunReturns
  AbandonedIsRecovered
