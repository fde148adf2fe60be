SPECIFICATION FairSpec
CONSTANTS
  Requests = {r1, r2}
  MaxRetries = 1
  MaxLosses = 3
  Nobody = Nobody
INVARIANTS
  IssuingIsExclusive
  RetriesAreEarned

PROPERTIES
  AcceptedTokenIsKept
  EveryRequestEnds
