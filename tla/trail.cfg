SPECIFICATION Spec
CONSTANTS
  Sessions = {s1, s2}
  Handlers = {h1, h2}
  NoSession = NoSession
  Capacity = 2
  Printing = TRUE
  Faults = {"exec", "append"}
  MaxRecords = 3
  MaxCrashes = 1
INVARIANTS TypeOK RecordTellsTheStory AnsweredIsDurable
CHECK_DEADLOCK FALSE
SYMMETRY Interchangeable
