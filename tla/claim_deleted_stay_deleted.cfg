CONSTANTS
  Managed = {m1}
  Anonymous = {}
  Handlers = {h1}
  Deleters = {d1}
  None = None
  DelegatedLimits = TRUE
  Limits = {}
  MaxCalls = 1
  MaxCells = 2
  MaxAgents = 2
  MaxDeletes = 1
SPECIFICATION ClaimSpec
INVARIANT DeletedSessionsStayDeleted
CHECK_DEADLOCK FALSE
