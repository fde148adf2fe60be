SPECIFICATION Spec
CONSTANTS
  Calls = {c1, c2}
  Processes = {p1, p2}
  NumSymbols = 2
  MaxDay = 3
  Suspended <- MCSuspended
  Window = 1
  BatchSize = 1
  Nobody = Nobody
SYMMETRY CallSymmetry
INVARIANTS
  NoGap
  SuccessIsAsRecorded
  StateIsCoherent
