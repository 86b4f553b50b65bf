SPECIFICATION Spec
CONSTANTS
  ReviewIds = {r1}
  Traceable = {r1}
  Waiters = {w1}
  Operators = {o1, o2}
  Dispatches = {}
  PollURL = FALSE
  NoId = NoId
INVARIANT DecidedOnce
CHECK_DEADLOCK FALSE
SYMMETRY Requests
