SPECIFICATION Spec
CONSTANTS
  Requests = {r1, r2}
  Dates = {mon}
  Weekends = {}
  MaxItems = 1
  Overrun = TRUE
  Nobody = Nobody
INVARIANTS
  PublishedIsNewestSuccess
