SPECIFICATION Spec
CONSTANTS
  Tokens = {"x", "y"}
  MaxTokens = 3
  MaxParts = 3
  Labels = {"a", "b"}
  MaxLabels = 3
  Stages = {"recon", "exploit", "exfiltrate"}
  MaxEvents = 5
  Windows = {1, 3, 4}
  Family = {p, c, g}
  Root = p
  Uids = {u1}
  Requests = {r1, r2}
  MaxBegun = 3
  MaxRefs = 1
  MaxGraphs = 3
  MaxExpiries = 1
  MaxMessages = 2
  MaxSpoken = 1
  HookCalls = {c, g}
  MaxServerDeaths = 1
  MaxTurns = 1
  MaxBlocks = 2
  Lives = {c, g}
  Ports = {8080, 9090}
  MaxEdits = 1
  Guards = {c, g}
  Records = {r1, r2, r3}
  ContextLimit = 1
  MaxNotes = 2
  SessionCalls = {c, g}
  ThresholdCalls = 1
  RiskContribution = 25
  MaxSpans = 2
  Operators = {c, g}
  KeyLabels = {"default", "ci"}
  Default = "default"
  MaxKeys = 4
INVARIANTS TypeOK ScansMissNothing DelegationGivesNothing NetworkKeepsToTheLists SanitizedPasses
INVARIANTS FlowIsKeptAndHeld InheritedRefsAreReal NothingUnjudgedRuns ClientsAreServed
INVARIANTS HookKeepsToVerdicts AgentsActOnAnswers FilesAreGivenBack
INVARIANTS SnapshotsAreKept RiskIsNeverForgotten OneKeyPerLabel
SYMMETRY Alike
CHECK_DEADLOCK FALSE
