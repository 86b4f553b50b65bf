CONSTANTS
  Managed = {m1, m2}
  Anonymous = {}
  Handlers = {h1}
  Deleters = {d1}
  None = None
  DelegatedLimits = TRUE
  Limits = {"aged"}
  MaxCalls = 1
  MaxCells = 3
  MaxAgents = 3
  MaxDeletes = 1
SPECIFICATION Spec
INVARIANTS NothingLeavesUnreported TokensDieWithTheirSession ChildLimitHolds DelegationIsProven
CHECK_DEADLOCK FALSE
