-------------------------------- MODULE Parts --------------------------------
(***************************************************************************)
(* The components nothing else here shares a variable with.  They are        *)
(* explored side by side: a behaviour is one of one component's, while the   *)
(* others rest.                                                             *)
(***************************************************************************)
EXTENDS Rules, Lineage, Proxy, Hook, Agents, Wrap, Snapshots, Risk, Keys

VARIABLE part

calls == <<proxyVars, hookVars, agentVars>>
files == <<wrapVars, snapshotVars>>
sessions == <<lineageVars, riskVars, keyVars>>
partVars == <<input, calls, files, sessions, part>>

NoInput == input = [of |-> "nothing"]
NoClient ==
  /\ link = [messages |-> <<>>, upstream |-> "http", dispatcher |-> FALSE]
  /\ ProxyStart
NoHook == HookRest /\ disk = "none"
NoAgents == AgentsRest /\ graph = [step |-> 1, parent |-> Nobody, key |-> FALSE]

Init ==
  /\ part \in {"rules", "proxy", "hook", "agents", "wrap", "lineage", "snapshots", "risk", "keys"}
  /\ IF part = "rules" THEN RulesInit ELSE NoInput
  /\ IF part = "proxy" THEN ProxyInit ELSE NoClient
  /\ IF part = "hook" THEN HookInit ELSE NoHook
  /\ IF part = "agents" THEN AgentsInit ELSE NoAgents
  /\ IF part = "wrap" THEN WrapInit ELSE WrapRest
  /\ LineageInit /\ SnapshotsInit /\ RiskInit /\ KeysInit

Next ==
  /\ UNCHANGED part
  /\ \/ part = "rules" /\ RulesNext /\ UNCHANGED <<calls, files, sessions>>
     \/ part = "proxy" /\ ProxyNext /\ UNCHANGED <<input, hookVars, agentVars, files, sessions>>
     \/ part = "hook" /\ HookNext /\ UNCHANGED <<input, proxyVars, agentVars, files, sessions>>
     \/ part = "agents" /\ AgentsNext /\ UNCHANGED <<input, proxyVars, hookVars, files, sessions>>
     \/ part = "wrap" /\ WrapNext /\ UNCHANGED <<input, calls, snapshotVars, sessions>>
     \/ part = "snapshots" /\ SnapshotsNext /\ UNCHANGED <<input, calls, wrapVars, sessions>>
     \/ part = "lineage" /\ LineageNext /\ UNCHANGED <<input, calls, files, riskVars, keyVars>>
     \/ part = "risk" /\ RiskNext /\ UNCHANGED <<input, calls, files, lineageVars, keyVars>>
     \/ part = "keys" /\ KeysNext /\ UNCHANGED <<input, calls, files, lineageVars, riskVars>>

\* Every property is an invariant.  The parts share their names: no two requests
\* differ, two of the records do not, nor do the children, calls, guards, lives and holders of keys.
Alike == Permutations(Requests) \cup Permutations(Family \ {Root})

Spec == Init /\ [][Next]_partVars

\* The type invariants of those that have state.
TypeOK ==
  /\ LineageTypeOK /\ ProxyTypeOK /\ HookTypeOK /\ AgentsTypeOK /\ WrapTypeOK
  /\ SnapshotsTypeOK /\ RiskTypeOK /\ KeysTypeOK
=============================================================================
