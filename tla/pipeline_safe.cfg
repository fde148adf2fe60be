SPECIFICATION Spec
CONSTANTS
  Requests = {r1, r2, r3}
  Dates = {mon}
  Weekends = {}
  MaxItems = 2
  Overrun = FALSE
  Nobody = Nobody
SYMMETRY RequestSymmetry
INVARIANTS
  TypeOK
  OneOwner
  PublishedIsNewestSuccess
  OutcomesAreJustified

PROPERTIES
  TerminalIsFinal
  ImplementsPublishing
