SPECIFICATION FairSpec
CONSTANTS
  Handlers = {h1, h2}
  Sessions = {s1}
  Policies <- BudgetPolicies
  InitialPolicy <- Roomy
  DelegatedLimit <- Undelegated
  ReviewDispatcher = TRUE
  DeepCalls = TRUE
  MaxCalls = 2
  MaxReloads = 1
PROPERTY EveryCallAnswered
CHECK_DEADLOCK FALSE
