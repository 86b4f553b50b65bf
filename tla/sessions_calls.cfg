CONSTANTS
  Managed = {}
  Anonymous = {a1}
  Handlers = {h1, h2}
  Deleters = {}
  None = None
  DelegatedLimits = TRUE
  Limits = {"aged"}
  MaxCalls = 3
  MaxCells = 2
  MaxAgents = 2
  MaxDeletes = 0
SPECIFICATION FairSpec
PROPERTY OverdueLeaves
INVARIANTS TypeOK TerminateIsFinal
CHECK_DEADLOCK FALSE
