SPECIFICATION Spec
CONSTANTS
  Handlers = {h1, h2}
  Sessions = {s1}
  Policies <- AllPolicies
  InitialPolicy <- Roomy
  DelegatedLimit <- Undelegated
  ReviewDispatcher = TRUE
  DeepCalls = TRUE
  MaxCalls = 3
  MaxReloads = 1
SYMMETRY HandlerSymmetry
INVARIANTS CallsWithinLimit SpendAccounted TypeOK QuietCallsSeeOnePolicy PublishedPolicyInForce
PROPERTY KeepsGatePromise
CHECK_DEADLOCK FALSE
