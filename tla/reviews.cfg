SPECIFICATION FairSpec
CONSTANTS
  ReviewIds = {r1}
  Traceable = {r1}
  Waiters = {w1, w2}
  Operators = {o1, o2}
  Dispatches = {d1}
  PollURL = TRUE
  NoId = NoId
INVARIANTS TypeOK AllowNeedsApproval RecordMatchesAnswer
PROPERTIES EveryoneIsAnswered
CHECK_DEADLOCK FALSE
