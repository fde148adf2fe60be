SPECIFICATION Spec
CONSTANTS
  Calls = {c1}
  Processes = {p1}
  NumSymbols = 1
  MaxDay = 1
  Suspended = {}
  Window = 1
  BatchSize = 1
  Nobody = Nobody
INVARIANT FailureIsRecorded
