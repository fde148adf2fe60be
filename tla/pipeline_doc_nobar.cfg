SPECIFICATION Spec
CONSTANTS
  Requests = {r1}
  Dates = {mon}
  Weekends = {}
  MaxItems = 1
  Overrun = FALSE
  Nobody = Nobody
INVARIANTS
  NoBarIsSkipped
