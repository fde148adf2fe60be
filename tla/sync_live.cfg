SPECIFICATION FairSpec
CONSTANTS
  Calls = {c1, c2}
  Processes = {p1, p2}
  NumSymbols = 2
  MaxDay = 1
  Suspended = {}
  Window = 1
  BatchSize = 2
  Nobody = Nobody
PROPERTIES EveryCallEnds
