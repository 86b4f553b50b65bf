---------------------------- MODULE SessionsProofs ----------------------------
(***************************************************************************)
(* Proofs about Sessions, for any number of sessions, handlers and DELETE   *)
(* requests, and any bounds.                                                *)
(***************************************************************************)
EXTENDS Sessions, TLAPS

-----------------------------------------------------------------------------
(* Who touches what *)

\* The steps that touch the session store ...
StoreStep ==
  \/ \E h \in Handlers : InitState(h) \/ Publish(h)
  \/ \E s \in Managed : SeedFromManifest(s) \/ SetDelegatedLimit(s)
  \/ \E d \in Deleters : RemoveDeleted(d)
  \/ RemoveExpired
  \/ \E s \in AllSessions : TimePasses(s)

LEMMA StoreUntouched == [Next]_vars => StoreStep \/ UNCHANGED mapVars
BY DEF Next, vars, StoreStep, Call, Arrive, CheckBudget, FoundAgent, FindAgent, CreateAgent,
       LoadState, Score, JudgeCall, LogCall, Register, BeginRoot, BeginChild, RecordParent,
       InheritRefs, FetchState, IssueToken, Delete, BeginDelete, DeleteFound, ReportDeleted,
       EvictDeleted, RevokeToken, Terminated, Sweep, BeginSweep, JudgeCell, ReportExpired,
       EvictExpired, EndSweep

\* ... the fleet ...
FleetStep ==
  \/ \E h \in Handlers : CreateAgent(h) \/ Score(h)
  \/ \E s \in Managed : SeedFromManifest(s)
  \/ \E d \in Deleters : EvictDeleted(d)
  \/ EvictExpired

LEMMA FleetUntouched == [Next]_vars => FleetStep \/ UNCHANGED fleetVars
BY DEF Next, vars, FleetStep, Call, Arrive, CheckBudget, FoundAgent, FindAgent, InitState, Publish,
       LoadState, JudgeCall, LogCall, Register, BeginRoot, BeginChild, RecordParent,
       InheritRefs, FetchState, SetDelegatedLimit, IssueToken, Delete, BeginDelete, DeleteFound,
       ReportDeleted, RemoveDeleted, RevokeToken, Terminated, Sweep, BeginSweep, JudgeCell,
       RemoveExpired, ReportExpired, EndSweep, TimePasses

\* ... a handler of a call ...
LEMMA CallsUntouched == [Next]_vars => (\E h \in Handlers : Call(h)) \/ UNCHANGED callVars
BY DEF Next, vars, Register, BeginRoot, BeginChild, RecordParent, InheritRefs, SeedFromManifest,
       FetchState, SetDelegatedLimit, IssueToken, RegStep, Delete, BeginDelete, DeleteFound,
       ReportDeleted, RemoveDeleted, EvictDeleted, RevokeToken, Terminated, DelStep, Sweep,
       BeginSweep, JudgeCell, RemoveExpired, ReportExpired, EvictExpired, EndSweep, ReapStep,
       TimePasses

\* ... a registration ...
LEMMA RegUntouched == [Next]_vars => (\E s \in Managed : Register(s)) \/ UNCHANGED regVars
BY DEF Next, vars, Call, Arrive, CheckBudget, FoundAgent, FindAgent, CreateAgent, LoadState,
       InitState, Score, Publish, JudgeCall, LogCall, CallStep, Delete, BeginDelete, DeleteFound,
       ReportDeleted, RemoveDeleted, EvictDeleted, RevokeToken, Terminated, DelStep, Sweep,
       BeginSweep, JudgeCell, RemoveExpired, ReportExpired, EvictExpired, EndSweep, ReapStep,
       TimePasses

\* ... a DELETE ...
LEMMA DelUntouched == [Next]_vars => (\E d \in Deleters : Delete(d)) \/ UNCHANGED delVars
BY DEF Next, vars, Call, Arrive, CheckBudget, FoundAgent, FindAgent, CreateAgent, LoadState,
       InitState, Score, Publish, JudgeCall, LogCall, CallStep, Register, BeginRoot, BeginChild,
       RecordParent, InheritRefs, SeedFromManifest, FetchState, SetDelegatedLimit, IssueToken,
       RegStep, Sweep, BeginSweep, JudgeCell, RemoveExpired, ReportExpired, EvictExpired, EndSweep,
       ReapStep, TimePasses

\* ... and the reaper.
LEMMA ReapUntouched == [Next]_vars => Sweep \/ UNCHANGED reapVars
BY DEF Next, vars, Call, Arrive, CheckBudget, FoundAgent, FindAgent, CreateAgent, LoadState,
       InitState, Score, Publish, JudgeCall, LogCall, CallStep, Register, BeginRoot, BeginChild,
       RecordParent, InheritRefs, SeedFromManifest, FetchState, SetDelegatedLimit, IssueToken,
       RegStep, Delete, BeginDelete, DeleteFound, ReportDeleted, RemoveDeleted, EvictDeleted,
       RevokeToken, Terminated, DelStep, TimePasses

-----------------------------------------------------------------------------
(* Type correctness *)

StoreTypeOK ==
  /\ sessions \in [AllSessions -> Cells \cup {0}]
  /\ cells \in [Cells -> CellRecord]
  /\ made \in 0 .. MaxCells
FleetTypeOK ==
  /\ agents \in [AllSessions -> Agents \cup {0}]
  /\ hot \in [Agents -> BOOLEAN]
  /\ spawned \in 0 .. MaxAgents
  /\ epoch \in [AllSessions -> Nat]
TokenTypeOK ==
  /\ tokens \subseteq Managed
  /\ parents \in [Managed -> Managed \cup {None}]
BudgetTypeOK ==
  /\ budgets \in [AllSessions -> {"none", "policy", "delegated"}]
  /\ recent \in [AllSessions -> Nat]
  /\ reported \subseteq AllSessions
CallTypeOK ==
  /\ pc \in [Handlers -> CallStage]
  /\ sess \in [Handlers -> AllSessions]
  /\ agent \in [Handlers -> Agents \cup {0}]
  /\ cell \in [Handlers -> Cells \cup {0}]
  /\ verdict \in [Handlers -> BOOLEAN]
  /\ calls \in Nat
  /\ doomed \subseteq AllSessions \X Nat
  /\ warned \in [Handlers -> BOOLEAN]
  /\ since \in [Handlers -> Nat]
RegTypeOK ==
  /\ reg \in [Managed -> RegStage]
  /\ claimed \in [Managed -> Managed \cup {None}]
  /\ got \in [Managed -> Cells \cup {0}]
DelTypeOK ==
  /\ dpc \in [Deleters -> {"idle", "report", "remove", "evict", "revoke"}]
  /\ dsess \in [Deleters -> AllSessions]
  /\ deletes \in Nat
  /\ deleted \subseteq AllSessions /\ overtaken \subseteq deleted
ReapTypeOK ==
  /\ rpc \in {"idle", "judge", "remove", "report", "evict"}
  /\ todo \subseteq Cells
  /\ victim \in Cells \cup {0}

\* No goroutine follows a nil pointer, and the reaper knows whose cell it holds.
NoNil ==
  /\ \A h \in Handlers :
       /\ pc[h] \in {"load", "init", "score", "publish", "judge"} => agent[h] # 0
       /\ pc[h] \in {"score", "publish", "judge"} => cell[h] # 0
  /\ \A s \in Managed : reg[s] = "write" => got[s] # 0
  /\ rpc \in {"remove", "report", "evict"} => victim # 0

\* A cell is the state of the session that holds it, in the store, at a handler or at a
\* registration; those not allocated are nobody's.
CellsBelong ==
  /\ \A c \in Cells : c > made => cells[c].of = None
  /\ \A s \in AllSessions : sessions[s] # 0 => cells[sessions[s]].of = s
  /\ \A h \in Handlers : cell[h] # 0 => pc[h] # "idle" /\ cells[cell[h]].of = sess[h]
  /\ \A s \in Managed : got[s] # 0 => cells[got[s]].of = s
  /\ \A c \in todo : cells[c].of \in AllSessions
  /\ victim # 0 => cells[victim].of \in AllSessions

Types == /\ StoreTypeOK /\ FleetTypeOK /\ TokenTypeOK /\ BudgetTypeOK
         /\ CallTypeOK /\ RegTypeOK /\ DelTypeOK /\ ReapTypeOK

\* Allocating a cell keeps to the types, and the cells there were.
LEMMA AllocateDoes ==
  ASSUME StoreTypeOK, NEW s \in AllSessions, NEW managed \in BOOLEAN, Allocate(s, managed)
  PROVE  /\ StoreTypeOK' /\ made + 1 \in Cells /\ made' = made + 1
         /\ sessions' = [sessions EXCEPT ![s] = made + 1]
         /\ \A c \in Cells : c # made + 1 => cells'[c] = cells[c]
         /\ cells'[made + 1].of = s /\ cells'[made + 1].managed = managed
         /\ cells'[made + 1].limited = FALSE /\ cells'[made + 1].overdue = "no"
<1> DEFINE new == [BlankCell EXCEPT !.of = s, !.managed = managed]
<1>1. new \in CellRecord /\ new.of = s /\ new.managed = managed /\ ~new.limited /\ new.overdue = "no"
  BY DEF CellRecord, BlankCell
<1>2. made + 1 \in Cells /\ made' = made + 1 /\ made' \in 0 .. MaxCells
  BY SessionBounds DEF Allocate, StoreTypeOK, Cells
<1>3. cells' = [cells EXCEPT ![made + 1] = new] /\ sessions' = [sessions EXCEPT ![s] = made + 1]
  BY DEF Allocate
<1> HIDE DEF new
<1>4. cells' \in [Cells -> CellRecord'] /\ sessions' \in [AllSessions -> Cells \cup {0}]
  BY <1>1, <1>2, <1>3 DEF StoreTypeOK, CellRecord
<1>5. cells'[made + 1] = new /\ \A c \in Cells : c # made + 1 => cells'[c] = cells[c]
  BY <1>2, <1>3 DEF StoreTypeOK
<1>6. StoreTypeOK'
  BY <1>2, <1>4 DEF StoreTypeOK, Cells, AllSessions
<1> QED BY <1>1, <1>2, <1>3, <1>5, <1>6

\* No other step changes whose a cell is, whether it is managed, or takes its limit away.
CellsKept ==
  /\ made' = made
  /\ \A c \in Cells : /\ cells'[c].of = cells[c].of /\ cells'[c].managed = cells[c].managed
                      /\ cells[c].limited => cells'[c].limited

LEMMA PublishDoes ==
  ASSUME StoreTypeOK, CallTypeOK, NEW h \in Handlers, cell[h] \in Cells, Publish(h)
  PROVE  StoreTypeOK' /\ CellsKept /\ sessions' = [sessions EXCEPT ![sess[h]] = cell[h]]
<1> DEFINE c == cell[h]
           new == [cells[c] EXCEPT !.overdue = IF @ = "idle" THEN "no" ELSE @]
<1>1. cells[c] \in CellRecord
  BY DEF StoreTypeOK
<1>2. /\ new \in CellRecord /\ new.of = cells[c].of /\ new.managed = cells[c].managed
      /\ new.limited = cells[c].limited
  BY <1>1 DEF CellRecord
<1>3. /\ cells' = [cells EXCEPT ![c] = new] /\ made' = made
      /\ sessions' = [sessions EXCEPT ![sess[h]] = c]
  BY DEF Publish
<1> HIDE DEF new
<1>4. cells' \in [Cells -> CellRecord'] /\ sessions' \in [AllSessions -> Cells \cup {0}]
  BY <1>2, <1>3 DEF StoreTypeOK, CellRecord, AllSessions
<1>5. cells'[c] = new /\ \A b \in Cells : b # c => cells'[b] = cells[b]
  BY <1>3 DEF StoreTypeOK
<1>6. CellsKept
  BY <1>2, <1>3, <1>5 DEF CellsKept
<1>7. StoreTypeOK'
  BY <1>3, <1>4 DEF StoreTypeOK, Cells, AllSessions
<1> QED BY <1>3, <1>6, <1>7

LEMMA SetDelegatedLimitDoes ==
  ASSUME StoreTypeOK, RegTypeOK, NEW s \in Managed, got[s] \in Cells, SetDelegatedLimit(s)
  PROVE  /\ StoreTypeOK' /\ CellsKept /\ cells'[got[s]].limited
         /\ sessions' = [sessions EXCEPT ![s] = got[s]]
<1> DEFINE c == got[s]
           new == [cells[c] EXCEPT !.limited = TRUE]
<1>1. cells[c] \in CellRecord
  BY DEF StoreTypeOK
<1>2. /\ new \in CellRecord /\ new.of = cells[c].of /\ new.managed = cells[c].managed
      /\ new.limited
  BY <1>1 DEF CellRecord
<1>3. /\ cells' = [cells EXCEPT ![c] = new] /\ made' = made
      /\ sessions' = [sessions EXCEPT ![s] = c]
  BY DEF SetDelegatedLimit
<1> HIDE DEF new
<1>4. cells' \in [Cells -> CellRecord'] /\ sessions' \in [AllSessions -> Cells \cup {0}]
  BY <1>2, <1>3 DEF StoreTypeOK, CellRecord, AllSessions
<1>5. cells'[c] = new /\ \A b \in Cells : b # c => cells'[b] = cells[b]
  BY <1>3 DEF StoreTypeOK
<1>6. CellsKept
  BY <1>2, <1>3, <1>5 DEF CellsKept
<1>7. StoreTypeOK'
  BY <1>3, <1>4 DEF StoreTypeOK, Cells, AllSessions
<1> QED BY <1>2, <1>3, <1>5, <1>6, <1>7

LEMMA TimePassesDoes ==
  ASSUME StoreTypeOK, NEW s \in AllSessions, TimePasses(s)
  PROVE  StoreTypeOK' /\ CellsKept /\ UNCHANGED sessions
<1> DEFINE c == sessions[s]
<1>1. PICK age \in {"idle", "aged"} : /\ c # 0 /\ UNCHANGED <<sessions, made>>
                                     /\ cells' = [cells EXCEPT ![c].overdue = age]
  BY SwitchesAssumption DEF TimePasses
<1>2. c \in Cells /\ cells[c] \in CellRecord
  BY <1>1 DEF StoreTypeOK
<1> DEFINE new == [cells[c] EXCEPT !.overdue = age]
<1>3. /\ new \in CellRecord /\ new.of = cells[c].of /\ new.managed = cells[c].managed
      /\ new.limited = cells[c].limited
  BY <1>2 DEF CellRecord
<1>4. cells' = [cells EXCEPT ![c] = new]
  BY <1>1
<1> HIDE DEF new
<1>5. cells' \in [Cells -> CellRecord'] /\ sessions' \in [AllSessions -> Cells \cup {0}]
  BY <1>1, <1>3, <1>4 DEF StoreTypeOK, CellRecord, AllSessions
<1>6. cells'[c] = new /\ \A b \in Cells : b # c => cells'[b] = cells[b]
  BY <1>2, <1>4 DEF StoreTypeOK
<1>7. CellsKept
  BY <1>1, <1>3, <1>6 DEF CellsKept
<1>8. StoreTypeOK'
  BY <1>1, <1>5 DEF StoreTypeOK, Cells, AllSessions
<1> QED BY <1>1, <1>7, <1>8

\* A step of the session store allocates a cell, or keeps them and stores under one session
\* a cell that a handler or its registration held, or nothing.
LEMMA StoreDoes ==
  ASSUME Types, NoNil, StoreStep
  PROVE  /\ StoreTypeOK'
         /\ \/ \E h \in Handlers : InitState(h)
            \/ \E s \in Managed : SeedFromManifest(s)
            \/ CellsKept /\ \E h \in Handlers :
                 Publish(h) /\ cell[h] # 0 /\ sessions' = [sessions EXCEPT ![sess[h]] = cell[h]]
            \/ CellsKept /\ \E s \in Managed :
                 /\ SetDelegatedLimit(s) /\ got[s] \in Cells /\ cells'[got[s]].limited
                 /\ sessions' = [sessions EXCEPT ![s] = got[s]]
            \/ CellsKept /\ \E d \in Deleters :
                 RemoveDeleted(d) /\ sessions' = [sessions EXCEPT ![dsess[d]] = 0]
            \/ CellsKept /\ RemoveExpired /\ sessions' = [sessions EXCEPT ![cells[victim].of] = 0]
            \/ CellsKept /\ (\E s \in AllSessions : TimePasses(s)) /\ UNCHANGED sessions
<1> USE DEF Types
<1>1. CASE \E h \in Handlers : InitState(h)
  BY <1>1, AllocateDoes DEF InitState, CallTypeOK
<1>2. CASE \E s \in Managed : SeedFromManifest(s)
  BY <1>2, AllocateDoes DEF SeedFromManifest, AllSessions
<1>3. CASE \E h \in Handlers : Publish(h)
  <2>1. PICK h \in Handlers : Publish(h)
    BY <1>3
  <2>2. cell[h] # 0 /\ cell[h] \in Cells
    BY <2>1 DEF Publish, CallStep, NoNil, CallTypeOK
  <2> QED BY <2>1, <2>2, PublishDoes
<1>4. CASE \E s \in Managed : SetDelegatedLimit(s)
  <2>1. PICK s \in Managed : SetDelegatedLimit(s)
    BY <1>4
  <2>2. got[s] \in Cells
    BY <2>1 DEF SetDelegatedLimit, RegStep, NoNil, RegTypeOK
  <2> QED BY <2>1, <2>2, SetDelegatedLimitDoes
<1>5. CASE \E d \in Deleters : RemoveDeleted(d)
  <2>1. PICK d \in Deleters : RemoveDeleted(d)
    BY <1>5
  <2>2. sessions' = [sessions EXCEPT ![dsess[d]] = 0] /\ UNCHANGED <<cells, made>>
    BY <2>1 DEF RemoveDeleted
  <2>3. StoreTypeOK'
    BY <2>2 DEF StoreTypeOK, CellRecord, Cells, AllSessions
  <2> QED BY <2>1, <2>2, <2>3 DEF CellsKept
<1>6. CASE RemoveExpired
  <2>1. sessions' = [sessions EXCEPT ![cells[victim].of] = 0] /\ UNCHANGED <<cells, made>>
    BY <1>6 DEF RemoveExpired
  <2>2. StoreTypeOK'
    BY <2>1 DEF StoreTypeOK, CellRecord, Cells, AllSessions
  <2> QED BY <1>6, <2>1, <2>2 DEF CellsKept
<1>7. CASE \E s \in AllSessions : TimePasses(s)
  BY <1>7, TimePassesDoes
<1> QED BY <1>1, <1>2, <1>3, <1>4, <1>5, <1>6, <1>7 DEF StoreStep

LEMMA StoreTypeStep ==
  ASSUME Types, NoNil, [Next]_vars
  PROVE  StoreTypeOK'
<1>1. CASE UNCHANGED mapVars
  BY <1>1 DEF mapVars, Types, StoreTypeOK, CellRecord, Cells, AllSessions
<1> QED BY <1>1, StoreUntouched, StoreDoes

\* Spawning numbers the next agent.
LEMMA SpawnDoes ==
  ASSUME FleetTypeOK, NEW s \in AllSessions, Spawn(s)
  PROVE  /\ FleetTypeOK' /\ spawned + 1 \in Agents
         /\ agents' = [agents EXCEPT ![s] = spawned + 1] /\ UNCHANGED <<hot, epoch>>
<1>1. spawned + 1 \in Agents /\ spawned' \in 0 .. MaxAgents
  BY SessionBounds DEF Spawn, FleetTypeOK, Agents
<1> QED BY <1>1 DEF Spawn, FleetTypeOK, Agents, AllSessions

LEMMA FleetTypeStep ==
  ASSUME Types, NoNil, CellsBelong, [Next]_vars
  PROVE  FleetTypeOK'
<1> USE DEF Types
<1>1. CASE \E h \in Handlers : CreateAgent(h)
  <2>1. PICK h \in Handlers : CreateAgent(h)
    BY <1>1
  <2>2. CASE UNCHANGED fleetVars
    BY <2>2 DEF fleetVars, FleetTypeOK, Agents, AllSessions
  <2>3. CASE Spawn(sess[h])
    BY <2>3, SpawnDoes DEF CallTypeOK
  <2> QED BY <2>1, <2>2, <2>3 DEF CreateAgent
<1>2. CASE \E h \in Handlers : Score(h)
  BY <1>2 DEF Score, CallStep, FleetTypeOK, Agents, AllSessions
<1>3. CASE \E s \in Managed : SeedFromManifest(s)
  BY <1>3, SpawnDoes DEF SeedFromManifest, AllSessions
<1>4. ASSUME NEW s \in AllSessions, EvictAgent(s)
      PROVE  FleetTypeOK'
  BY <1>4 DEF EvictAgent, FleetTypeOK, Agents, AllSessions
<1>5. CASE \E d \in Deleters : EvictDeleted(d)
  BY <1>4, <1>5 DEF EvictDeleted, DelTypeOK
<1>6. CASE EvictExpired
  BY <1>4, <1>6 DEF EvictExpired, ReapStep, NoNil, CellsBelong
<1>7. CASE UNCHANGED fleetVars
  BY <1>7 DEF fleetVars, FleetTypeOK, Agents, AllSessions
<1> QED BY <1>1, <1>2, <1>3, <1>5, <1>6, <1>7, FleetUntouched DEF FleetStep

\* Tokens and parents: handlers of calls and the reaper's other steps leave them alone.
LEMMA TokenTypeStep ==
  ASSUME Types, [Next]_vars
  PROVE  TokenTypeOK'
<1> USE DEF Types, TokenTypeOK
<1>1. CASE \E s \in Managed : Register(s)
  BY <1>1 DEF Register, BeginRoot, BeginChild, RecordParent, InheritRefs, SeedFromManifest,
     FetchState, SetDelegatedLimit, IssueToken, RegTypeOK
<1>2. CASE \E d \in Deleters : Delete(d)
  BY <1>2 DEF Delete, BeginDelete, DeleteFound, ReportDeleted, RemoveDeleted, EvictDeleted,
     RevokeToken, Terminated, DelStep
<1>3. CASE Sweep
  BY <1>3 DEF Sweep, BeginSweep, JudgeCell, RemoveExpired, ReportExpired, EvictExpired, EndSweep,
     ReapStep
<1>4. CASE \/ \E h \in Handlers : Call(h)
           \/ \E s \in AllSessions : TimePasses(s)
           \/ UNCHANGED vars
  BY <1>4 DEF Call, Arrive, CheckBudget, FoundAgent, FindAgent, CreateAgent, LoadState, InitState,
     Score, Publish, JudgeCall, LogCall, CallStep, TimePasses, vars
<1> QED BY <1>1, <1>2, <1>3, <1>4 DEF Next

LEMMA BudgetTypeStep ==
  ASSUME Types, NoNil, CellsBelong, [Next]_vars
  PROVE  BudgetTypeOK'
<1> USE DEF Types, BudgetTypeOK
<1>1. ASSUME NEW s \in AllSessions, Report(s), UNCHANGED budgets
      PROVE  BudgetTypeOK'
  BY <1>1 DEF Report, AllSessions
<1>2. CASE \E h \in Handlers : CheckBudget(h)
  <2>1. PICK h \in Handlers : CheckBudget(h)
    BY <1>2
  <2>2. sess[h] \in AllSessions
    BY DEF CallTypeOK
  <2>3. \E kind \in {"none", "policy", "delegated"} :
          budgets' = [budgets EXCEPT ![sess[h]] = kind]
    BY <2>1, <2>2 DEF CheckBudget
  <2>4. recent' = recent /\ reported' = reported
    BY <2>1 DEF CheckBudget, CallStep
  <2> QED BY <2>3, <2>4
<1>3. CASE \E h \in Handlers : LogCall(h)
  <2>1. PICK h \in Handlers : LogCall(h)
    BY <1>3
  <2>2. sess[h] \in AllSessions
    BY DEF CallTypeOK
  <2>3. recent[sess[h]] + 1 \in Nat
    BY <2>2
  <2>4. recent' = [recent EXCEPT ![sess[h]] = recent[sess[h]] + 1] /\ UNCHANGED <<budgets, reported>>
    BY <2>1 DEF LogCall, CallStep
  <2> QED BY <2>2, <2>3, <2>4 DEF AllSessions
<1>4. CASE \E d \in Deleters : ReportDeleted(d)
  BY <1>1, <1>4 DEF ReportDeleted, DelStep, DelTypeOK
<1>5. CASE ReportExpired
  BY <1>1, <1>5 DEF ReportExpired, ReapStep, NoNil, CellsBelong
<1>6. CASE UNCHANGED <<budgets, reportVars>>
  BY <1>6 DEF reportVars, AllSessions
<1>7. CASE \E h \in Handlers : Call(h) /\ ~CheckBudget(h) /\ ~LogCall(h)
  BY <1>6, <1>7 DEF Call, Arrive, FoundAgent, FindAgent, CreateAgent, LoadState, InitState,
     Score, Publish, JudgeCall, CallStep, reportVars
<1>8. CASE \E s \in Managed : Register(s)
  BY <1>6, <1>8 DEF Register, BeginRoot, BeginChild, RecordParent, InheritRefs, SeedFromManifest,
     FetchState, SetDelegatedLimit, IssueToken, RegStep
<1>9. CASE \E d \in Deleters : Delete(d) /\ ~ReportDeleted(d)
  BY <1>6, <1>9 DEF Delete, BeginDelete, DeleteFound, RemoveDeleted, EvictDeleted, RevokeToken,
     Terminated, DelStep
<1>10. CASE Sweep /\ ~ReportExpired
  BY <1>6, <1>10 DEF Sweep, BeginSweep, JudgeCell, RemoveExpired, EvictExpired, EndSweep, ReapStep
<1>11. CASE (\E s \in AllSessions : TimePasses(s)) \/ UNCHANGED vars
  BY <1>6, <1>11 DEF TimePasses, vars, reportVars
<1> QED BY <1>2, <1>3, <1>4, <1>5, <1>7, <1>8, <1>9, <1>10, <1>11 DEF Next

\* A handler's step goes to a stage there is, with a cell and an agent there are.
LEMMA CallTypeStep ==
  ASSUME Types, NoNil, [Next]_vars
  PROVE  CallTypeOK'
<1> USE DEF Types
<1>1. ASSUME UNCHANGED callVars
      PROVE  CallTypeOK'
  BY <1>1 DEF callVars, CallTypeOK, AllSessions, Agents, Cells
<1>2. CASE \E h \in Handlers, s \in AllSessions, token \in BOOLEAN : Arrive(h, s, token)
  BY <1>2 DEF Arrive, CallTypeOK, FleetTypeOK, CallStage, AllSessions, Agents, Cells
<1>3. ASSUME NEW h \in Handlers, NEW from \in CallStage, NEW to \in CallStage, CallStep(h, from, to),
             NEW a \in Agents \cup {0}, NEW c \in Cells \cup {0}, NEW v \in BOOLEAN,
             agent' \in {agent, [agent EXCEPT ![h] = a]}, cell' \in {cell, [cell EXCEPT ![h] = c]},
             verdict' \in {verdict, [verdict EXCEPT ![h] = v]},
             doomed' \subseteq AllSessions \X Nat,
             warned' \in {warned, [warned EXCEPT ![h] = FALSE]},
             since' \in {since, [since EXCEPT ![h] = 0]}
      PROVE  CallTypeOK'
  <2>1. agent' \in [Handlers -> Agents \cup {0}] /\ cell' \in [Handlers -> Cells \cup {0}]
    BY <1>3 DEF CallTypeOK
  <2>2. verdict' \in [Handlers -> BOOLEAN] /\ warned' \in [Handlers -> BOOLEAN]
    BY <1>3 DEF CallTypeOK
  <2>3. since' \in [Handlers -> Nat]
    BY <1>3 DEF CallTypeOK
  <2>4. pc' \in [Handlers -> CallStage]
    BY <1>3 DEF CallStep, CallTypeOK
  <2>5. UNCHANGED <<sess, calls>>
    BY <1>3 DEF CallStep
  <2> QED BY <1>3, <2>1, <2>2, <2>3, <2>4, <2>5 DEF CallTypeOK, CallStage, AllSessions, Agents, Cells
<1>4. ASSUME NEW h \in Handlers
      PROVE  /\ pc[h] \in CallStage /\ sess[h] \in AllSessions
             /\ agent[h] \in Agents \cup {0} /\ cell[h] \in Cells \cup {0}
             /\ agents[sess[h]] \in Agents \cup {0} /\ sessions[sess[h]] \in Cells \cup {0}
             /\ doomed \subseteq AllSessions \X Nat
             /\ 0 \in Agents \cup {0} /\ 0 \in Cells \cup {0} /\ since[h] \in Nat
  BY DEF CallTypeOK, FleetTypeOK, StoreTypeOK
<1>5. CASE \E h \in Handlers : CheckBudget(h)
  <2>1. PICK h \in Handlers, to \in {"agent", "log"} :
          CallStep(h, "budget", to) /\ UNCHANGED <<agent, cell, verdict, doomed, warned, since>>
    BY <1>5 DEF CheckBudget
  <2>2. "budget" \in CallStage /\ to \in CallStage
    BY DEF CallStage
  <2> QED BY <1>3, <1>4, <2>1, <2>2
<1>6. CASE \E h \in Handlers : FindAgent(h) \/ LoadState(h)
  BY <1>3, <1>4, <1>6 DEF FindAgent, FoundAgent, LoadState, CallStage
<1>7. CASE \E h \in Handlers : CreateAgent(h)
  <2>1. PICK h \in Handlers : CreateAgent(h)
    BY <1>7
  <2>2. FleetTypeOK' /\ agents'[sess[h]] \in Agents \cup {0}
    <3>1. CASE UNCHANGED fleetVars
      BY <1>4, <3>1 DEF fleetVars, FleetTypeOK, Agents, AllSessions
    <3>2. CASE Spawn(sess[h])
      BY <1>4, <3>2, SpawnDoes DEF FleetTypeOK
    <3> QED BY <2>1, <3>1, <3>2 DEF CreateAgent
  <2> QED BY <1>3, <1>4, <2>1, <2>2 DEF CreateAgent, CallStage
<1>8. CASE \E h \in Handlers : InitState(h)
  <2>1. PICK h \in Handlers : InitState(h)
    BY <1>8
  <2>2. made + 1 \in Cells
    BY <1>4, <2>1, AllocateDoes DEF InitState
  <2> QED BY <1>3, <1>4, <2>1, <2>2 DEF InitState, CallStage
<1>9. CASE \E h \in Handlers : Score(h) \/ Publish(h)
  BY <1>3, <1>4, <1>9 DEF Score, Publish, CallStage
<1>10. CASE \E h \in Handlers : JudgeCall(h)
  <2>1. PICK h \in Handlers : JudgeCall(h)
    BY <1>10
  <2>2. hot[agent[h]] \in BOOLEAN
    BY <1>4, <2>1 DEF JudgeCall, CallStep, NoNil, FleetTypeOK
  <2>3. doomed' \subseteq AllSessions \X Nat
    BY <1>4, <2>1 DEF JudgeCall
  <2> QED BY <1>3, <1>4, <2>1, <2>2, <2>3 DEF JudgeCall, CallStage
<1>11. CASE \E h \in Handlers : LogCall(h)
  BY <1>3, <1>4, <1>11 DEF LogCall, CallStage
<1> QED
  BY <1>1, <1>2, <1>5, <1>6, <1>7, <1>8, <1>9, <1>10, <1>11, CallsUntouched DEF Call

\* A registration's step goes to a stage there is, with a cell there is.
LEMMA RegTypeStep ==
  ASSUME Types, [Next]_vars
  PROVE  RegTypeOK'
<1> USE DEF Types
<1>1. ASSUME UNCHANGED regVars
      PROVE  RegTypeOK'
  BY <1>1 DEF regVars, RegTypeOK, Cells
<1>2. ASSUME NEW s \in Managed, NEW from \in RegStage, NEW to \in RegStage, RegStep(s, from, to),
             NEW p \in Managed, NEW c \in Cells \cup {0},
             claimed' \in {claimed, [claimed EXCEPT ![s] = p]}, got' \in {got, [got EXCEPT ![s] = c]}
      PROVE  RegTypeOK'
  BY <1>2 DEF RegStep, RegTypeOK, Cells
<1>3. \A s \in Managed : s \in AllSessions /\ sessions[s] \in Cells \cup {0}
  BY DEF StoreTypeOK, AllSessions
<1>4. CASE \E s \in Managed, p \in Managed : BeginChild(s, p)
  BY <1>2, <1>4 DEF BeginChild, RegStage
<1>5. CASE \E s \in Managed : FetchState(s)
  BY <1>2, <1>3, <1>5 DEF FetchState, RegStage
<1>6. CASE \E s \in Managed : \/ BeginRoot(s) \/ RecordParent(s) \/ InheritRefs(s)
                            \/ SeedFromManifest(s) \/ SetDelegatedLimit(s) \/ IssueToken(s)
  BY <1>2, <1>6 DEF BeginRoot, RecordParent, InheritRefs, SeedFromManifest, SetDelegatedLimit,
     IssueToken, RegStage
<1> QED BY <1>1, <1>4, <1>5, <1>6, RegUntouched DEF Register

LEMMA DelTypeStep ==
  ASSUME Types, [Next]_vars
  PROVE  DelTypeOK'
<1> USE DEF Types
<1>1. CASE UNCHANGED delVars
  BY <1>1 DEF delVars, DelTypeOK, AllSessions
<1>2. CASE \E d \in Deleters, s \in AllSessions : BeginDelete(d, s)
  BY <1>2 DEF BeginDelete, DeleteFound, DelStep, DelTypeOK, AllSessions
<1>3. CASE \E d \in Deleters : ReportDeleted(d) \/ RemoveDeleted(d) \/ EvictDeleted(d)
  BY <1>3 DEF ReportDeleted, RemoveDeleted, EvictDeleted, DelStep, DelTypeOK, AllSessions
<1>4. CASE \E d \in Deleters : RevokeToken(d)
  BY <1>4 DEF RevokeToken, Terminated, DelStep, DelTypeOK, AllSessions
<1> QED BY <1>1, <1>2, <1>3, <1>4, DelUntouched DEF Delete

LEMMA ReapTypeStep ==
  ASSUME Types, [Next]_vars
  PROVE  ReapTypeOK'
<1> USE DEF Types
<1>1. CASE UNCHANGED reapVars
  BY <1>1 DEF reapVars, ReapTypeOK, Cells
<1>2. CASE BeginSweep
  BY <1>2 DEF BeginSweep, ReapStep, ReapTypeOK, StoreTypeOK, Cells
<1>3. CASE Sweep /\ ~BeginSweep
  BY <1>3 DEF Sweep, JudgeCell, RemoveExpired, ReportExpired, EvictExpired, EndSweep, ReapStep,
     ReapTypeOK, Cells
<1> QED BY <1>1, <1>2, <1>3, ReapUntouched

\* A handler's step moves no other handler.
LEMMA CallMoves ==
  ASSUME CallTypeOK, NEW h \in Handlers, NEW from, NEW to, CallStep(h, from, to)
  PROVE  /\ pc[h] = from /\ pc'[h] = to /\ sess' = sess
         /\ \A g \in Handlers \ {h} : pc'[g] = pc[g]
BY DEF CallStep, CallTypeOK

LEMMA NoNilStep ==
  ASSUME Types, NoNil, [Next]_vars
  PROVE  NoNil'
<1> USE DEF Types
<1> DEFINE Callers(h) == /\ pc[h] \in {"load", "init", "score", "publish", "judge"} => agent[h] # 0
                         /\ pc[h] \in {"score", "publish", "judge"} => cell[h] # 0
<1>1. \A h \in Handlers : Callers(h)'
  <2>1. \A h \in Handlers : Callers(h)
    BY DEF NoNil
  <2>2. CASE UNCHANGED callVars
    BY <2>1, <2>2 DEF callVars
  <2>3. ASSUME NEW h \in Handlers, Callers(h)',
               \A g \in Handlers \ {h} : pc'[g] = pc[g] /\ agent'[g] = agent[g] /\ cell'[g] = cell[g]
        PROVE  \A g \in Handlers : Callers(g)'
    BY <2>1, <2>3
  <2>4. CASE \E h \in Handlers, s \in AllSessions, token \in BOOLEAN : Arrive(h, s, token)
    <3>1. PICK h \in Handlers : /\ pc' = [pc EXCEPT ![h] = "budget"] /\ UNCHANGED <<agent, cell>>
      BY <2>4 DEF Arrive
    <3> QED BY <2>3, <3>1 DEF CallTypeOK
  <2>5. CASE \E h \in Handlers : CheckBudget(h)
    <3>1. PICK h \in Handlers, to \in {"agent", "log"} :
            CallStep(h, "budget", to) /\ UNCHANGED <<agent, cell>>
      BY <2>5 DEF CheckBudget
    <3>2. pc'[h] = to /\ \A g \in Handlers \ {h} : pc'[g] = pc[g]
      BY <3>1, CallMoves
    <3> QED BY <2>3, <3>1, <3>2
  <2>6. CASE \E h \in Handlers : FindAgent(h)
    <3>1. PICK h \in Handlers : FindAgent(h)
      BY <2>6
    <3> DEFINE to == IF agents[sess[h]] = 0 THEN "create" ELSE "load"
    <3>2. /\ CallStep(h, "agent", to) /\ UNCHANGED cell
          /\ agent' = [agent EXCEPT ![h] = agents[sess[h]]]
      BY <3>1 DEF FindAgent, FoundAgent
    <3>3. pc'[h] = to /\ \A g \in Handlers \ {h} : pc'[g] = pc[g]
      BY <3>2, CallMoves
    <3> QED BY <2>3, <3>2, <3>3 DEF CallTypeOK
  <2>7. CASE \E h \in Handlers : CreateAgent(h)
    <3>1. PICK h \in Handlers : CreateAgent(h)
      BY <2>7
    <3>2. /\ CallStep(h, "create", "load") /\ UNCHANGED cell
          /\ agent' = [agent EXCEPT ![h] = agents'[sess[h]]]
      BY <3>1 DEF CreateAgent
    <3>3. pc'[h] = "load" /\ \A g \in Handlers \ {h} : pc'[g] = pc[g]
      BY <3>2, CallMoves
    <3>4. sess[h] \in AllSessions
      BY DEF CallTypeOK
    <3>5. agents'[sess[h]] # 0
      <4>1. CASE agents[sess[h]] = 0
        <5>1. Spawn(sess[h])
          BY <3>1, <4>1 DEF CreateAgent
        <5>2. agents'[sess[h]] \in Agents
          BY <3>4, <5>1, SpawnDoes DEF FleetTypeOK
        <5> QED BY <5>2 DEF Agents
      <4>2. CASE agents[sess[h]] # 0
        BY <3>1, <4>2 DEF CreateAgent, fleetVars
      <4> QED BY <4>1, <4>2
    <3> QED BY <2>3, <3>2, <3>3, <3>5 DEF CallTypeOK
  <2>8. CASE \E h \in Handlers : LoadState(h)
    <3>1. PICK h \in Handlers : LoadState(h)
      BY <2>8
    <3> DEFINE to == IF sessions[sess[h]] = 0 THEN "init" ELSE "score"
    <3>2. /\ CallStep(h, "load", to) /\ UNCHANGED agent
          /\ cell' = [cell EXCEPT ![h] = sessions[sess[h]]]
      BY <3>1 DEF LoadState
    <3>3. pc[h] = "load" /\ pc'[h] = to /\ \A g \in Handlers \ {h} : pc'[g] = pc[g]
      BY <3>2, CallMoves
    <3> QED BY <2>1, <2>3, <3>2, <3>3 DEF CallTypeOK
  <2>9. CASE \E h \in Handlers : InitState(h)
    <3>1. PICK h \in Handlers : InitState(h)
      BY <2>9
    <3>2. /\ CallStep(h, "init", "score") /\ UNCHANGED agent /\ Allocate(sess[h], FALSE)
          /\ cell' = [cell EXCEPT ![h] = made + 1]
      BY <3>1 DEF InitState
    <3>3. pc[h] = "init" /\ pc'[h] = "score" /\ \A g \in Handlers \ {h} : pc'[g] = pc[g]
      BY <3>2, CallMoves
    <3>4. made + 1 # 0
      BY DEF StoreTypeOK
    <3> QED BY <2>1, <2>3, <3>2, <3>3, <3>4 DEF CallTypeOK
  <2>10. CASE \E h \in Handlers : Score(h) \/ Publish(h)
    <3>1. PICK h \in Handlers : Score(h) \/ Publish(h)
      BY <2>10
    <3>2. /\ CallStep(h, "score", "publish") \/ CallStep(h, "publish", "judge")
          /\ UNCHANGED <<agent, cell>>
      BY <3>1 DEF Score, Publish
    <3>3. /\ pc[h] \in {"score", "publish"}
          /\ pc'[h] \in {"publish", "judge"} /\ \A g \in Handlers \ {h} : pc'[g] = pc[g]
      BY <3>2, CallMoves
    <3> QED BY <2>1, <2>3, <3>2, <3>3
  <2>11. CASE \E h \in Handlers : JudgeCall(h)
    <3>1. PICK h \in Handlers : CallStep(h, "judge", "log") /\ UNCHANGED <<agent, cell>>
      BY <2>11 DEF JudgeCall
    <3>2. pc'[h] = "log" /\ \A g \in Handlers \ {h} : pc'[g] = pc[g]
      BY <3>1, CallMoves
    <3> QED BY <2>3, <3>1, <3>2
  <2>12. CASE \E h \in Handlers : LogCall(h)
    <3>1. PICK h \in Handlers : /\ CallStep(h, "log", "idle") /\ agent' = [agent EXCEPT ![h] = 0]
                                /\ cell' = [cell EXCEPT ![h] = 0]
      BY <2>12 DEF LogCall
    <3>2. pc'[h] = "idle" /\ \A g \in Handlers \ {h} : pc'[g] = pc[g]
      BY <3>1, CallMoves
    <3> QED BY <2>3, <3>1, <3>2 DEF CallTypeOK
  <2> QED BY <2>2, <2>4, <2>5, <2>6, <2>7, <2>8, <2>9, <2>10, <2>11, <2>12, CallsUntouched DEF Call
<1>2. \A s \in Managed : reg'[s] = "write" => got'[s] # 0
  <2>1. CASE \E s \in Managed : Register(s)
    BY <2>1 DEF Register, BeginRoot, BeginChild, RecordParent, InheritRefs, SeedFromManifest,
       FetchState, SetDelegatedLimit, IssueToken, RegStep, RegTypeOK, NoNil
  <2>2. CASE UNCHANGED regVars
    BY <2>2 DEF regVars, NoNil
  <2> QED BY <2>1, <2>2, RegUntouched
<1>3. rpc' \in {"remove", "report", "evict"} => victim' # 0
  <2>1. CASE \E c \in Cells : JudgeCell(c)
    BY <2>1 DEF JudgeCell, ReapStep, Cells
  <2>2. CASE BeginSweep \/ RemoveExpired \/ ReportExpired \/ EvictExpired \/ EndSweep
    BY <2>2 DEF BeginSweep, RemoveExpired, ReportExpired, EvictExpired, EndSweep, ReapStep, NoNil
  <2>3. CASE UNCHANGED reapVars
    BY <2>3 DEF reapVars, NoNil
  <2> QED BY <2>1, <2>2, <2>3, ReapUntouched DEF Sweep
<1> HIDE DEF Types
<1> QED BY <1>1, <1>2, <1>3 DEF NoNil

\* An allocated cell stays its session's, managed or not, and keeps its limit.
LEMMA CellsStay ==
  ASSUME Types, NoNil, CellsBelong, [Next]_vars
  PROVE  /\ \A c \in Cells : cells[c].of # None =>
              /\ cells'[c].of = cells[c].of /\ cells'[c].managed = cells[c].managed
              /\ cells[c].limited => cells'[c].limited
         /\ \A c \in Cells : c > made' => cells'[c].of = None
<1>1. CASE CellsKept
  BY <1>1 DEF CellsKept, CellsBelong
<1>2. CASE UNCHANGED mapVars
  BY <1>2 DEF mapVars, CellsBelong
<1>3. ASSUME NEW s \in AllSessions, NEW managed \in BOOLEAN, Allocate(s, managed)
      PROVE  /\ \A c \in Cells : cells[c].of # None => cells'[c] = cells[c]
             /\ \A c \in Cells : c > made' => cells'[c].of = None
  <2>1. /\ made \in Nat /\ made + 1 \in Cells /\ made' = made + 1
        /\ \A c \in Cells : c # made + 1 => cells'[c] = cells[c]
    <3>1. StoreTypeOK /\ made \in Nat
      BY DEF Types, StoreTypeOK
    <3> QED BY <1>3, <3>1, AllocateDoes
  <2>2. cells[made + 1].of = None
    BY <2>1 DEF CellsBelong
  <2>3. \A c \in Cells : c > made + 1 => c > made /\ c # made + 1
    BY <2>1 DEF Cells
  <2> QED BY <2>1, <2>2, <2>3 DEF CellsBelong
<1>4. CASE \E h \in Handlers : InitState(h)
  BY <1>3, <1>4 DEF InitState, Types, CallTypeOK
<1>5. CASE \E s \in Managed : SeedFromManifest(s)
  BY <1>3, <1>5 DEF SeedFromManifest, AllSessions
<1> QED BY <1>1, <1>2, <1>4, <1>5, StoreUntouched, StoreDoes

LEMMA CellsBelongStep ==
  ASSUME Types, NoNil, CellsBelong, [Next]_vars
  PROVE  CellsBelong'
<1> DEFINE Belongs(c, s) == c # 0 => cells[c].of = s
<1>0. None \notin AllSessions /\ Managed \subseteq AllSessions
  BY IdsAssumption DEF AllSessions
<1>1. ASSUME NEW c \in Cells \cup {0}, NEW s \in AllSessions, Belongs(c, s)
      PROVE  c # 0 => cells'[c].of = s
  BY <1>0, <1>1, CellsStay
<1>2. \A c \in Cells : c > made' => cells'[c].of = None
  BY CellsStay
<1>3. \A s \in AllSessions : sessions'[s] # 0 => cells'[sessions'[s]].of = s
  <2>1. \A s \in AllSessions : sessions[s] \in Cells \cup {0} /\ Belongs(sessions[s], s)
    BY DEF Types, StoreTypeOK, CellsBelong
  <2>2. \A s \in AllSessions : sessions[s] # 0 => cells'[sessions[s]].of = s
    BY <1>1, <2>1
  <2>3. ASSUME NEW s \in AllSessions, NEW c \in Cells \cup {0}, Belongs(c, s),
               sessions' = [sessions EXCEPT ![s] = c]
        PROVE  \A t \in AllSessions : sessions'[t] # 0 => cells'[sessions'[t]].of = t
    <3>1. c # 0 => cells'[c].of = s
      BY <1>1, <2>3
    <3>2. sessions'[s] = c /\ \A t \in AllSessions \ {s} : sessions'[t] = sessions[t]
      BY <2>3 DEF Types, StoreTypeOK
    <3> QED BY <2>2, <3>1, <3>2
  <2>4. ASSUME NEW s \in AllSessions, NEW managed \in BOOLEAN, Allocate(s, managed)
        PROVE  \A t \in AllSessions : sessions'[t] # 0 => cells'[sessions'[t]].of = t
    <3>1. /\ sessions' = [sessions EXCEPT ![s] = made + 1] /\ cells'[made + 1].of = s
      BY <2>4, AllocateDoes DEF Types
    <3>2. sessions'[s] = made + 1 /\ \A t \in AllSessions \ {s} : sessions'[t] = sessions[t]
      BY <3>1 DEF Types, StoreTypeOK
    <3> QED BY <2>2, <3>1, <3>2
  <2>5. CASE \E h \in Handlers : InitState(h)
    BY <2>4, <2>5 DEF InitState, Types, CallTypeOK
  <2>6. CASE \E s \in Managed : SeedFromManifest(s)
    BY <1>0, <2>4, <2>6 DEF SeedFromManifest
  <2>7. CASE \E h \in Handlers : sessions' = [sessions EXCEPT ![sess[h]] = cell[h]]
    <3>1. PICK h \in Handlers : sessions' = [sessions EXCEPT ![sess[h]] = cell[h]]
      BY <2>7
    <3>2. sess[h] \in AllSessions /\ cell[h] \in Cells \cup {0} /\ Belongs(cell[h], sess[h])
      BY <1>0 DEF Types, CallTypeOK, CellsBelong
    <3> QED BY <2>3, <3>1, <3>2
  <2>8. CASE \E s \in Managed : sessions' = [sessions EXCEPT ![s] = got[s]]
    <3>1. PICK s \in Managed : sessions' = [sessions EXCEPT ![s] = got[s]]
      BY <2>8
    <3>2. s \in AllSessions /\ got[s] \in Cells \cup {0} /\ Belongs(got[s], s)
      BY <1>0 DEF Types, RegTypeOK, CellsBelong
    <3> QED BY <2>3, <3>1, <3>2
  <2>9. CASE \E d \in Deleters : sessions' = [sessions EXCEPT ![dsess[d]] = 0]
    BY <2>3, <2>9 DEF Types, DelTypeOK
  <2>10. CASE RemoveExpired /\ sessions' = [sessions EXCEPT ![cells[victim].of] = 0]
    BY <2>3, <2>10 DEF RemoveExpired, ReapStep, NoNil, CellsBelong
  <2>11. CASE UNCHANGED sessions
    BY <2>2, <2>11
  <2> QED BY <2>5, <2>6, <2>7, <2>8, <2>9, <2>10, <2>11, StoreUntouched, StoreDoes DEF mapVars
<1>4. \A h \in Handlers : cell'[h] # 0 => pc'[h] # "idle" /\ cells'[cell'[h]].of = sess'[h]
  <2>1. \A h \in Handlers : /\ cell[h] # 0 => pc[h] # "idle" /\ cells'[cell[h]].of = sess[h]
                            /\ cell[h] \in Cells \cup {0} /\ sess[h] \in AllSessions
    BY <1>1 DEF Types, CallTypeOK, CellsBelong
  <2>2. CASE UNCHANGED callVars
    BY <2>1, <2>2 DEF callVars
  <2>3. ASSUME NEW h \in Handlers, NEW from \in CallStage, NEW to \in CallStage, CallStep(h, from, to),
               NEW c \in Cells \cup {0}, cell' = [cell EXCEPT ![h] = c],
               c # 0 => to # "idle" /\ cells'[c].of = sess[h]
        PROVE  \A g \in Handlers : cell'[g] # 0 => pc'[g] # "idle" /\ cells'[cell'[g]].of = sess'[g]
    <3>1. pc'[h] = to /\ sess' = sess /\ \A g \in Handlers \ {h} : pc'[g] = pc[g]
      BY <2>3, CallMoves DEF Types
    <3>2. cell'[h] = c /\ \A g \in Handlers \ {h} : cell'[g] = cell[g]
      BY <2>3 DEF Types, CallTypeOK
    <3> QED BY <2>1, <2>3, <3>1, <3>2
  <2>4. CASE \E h \in Handlers, s \in AllSessions, token \in BOOLEAN : Arrive(h, s, token)
    <3>1. PICK h \in Handlers, s \in AllSessions, token \in BOOLEAN : Arrive(h, s, token)
      BY <2>4
    <3>2. cell[h] = 0 /\ UNCHANGED cell
      BY <2>1, <3>1 DEF Arrive
    <3>3. \A g \in Handlers \ {h} : pc'[g] = pc[g] /\ sess'[g] = sess[g]
      BY <3>1 DEF Arrive, Types, CallTypeOK
    <3> QED BY <2>1, <3>2, <3>3
  <2>5. ASSUME NEW h \in Handlers, NEW from \in CallStage, NEW to \in CallStage \ {"idle"},
               CallStep(h, from, to), UNCHANGED cell
        PROVE  \A g \in Handlers : cell'[g] # 0 => pc'[g] # "idle" /\ cells'[cell'[g]].of = sess'[g]
    <3>1. pc'[h] = to /\ sess' = sess /\ \A g \in Handlers \ {h} : pc'[g] = pc[g]
      BY <2>5, CallMoves DEF Types
    <3> QED BY <2>1, <2>5, <3>1
  <2>6. CASE \E h \in Handlers : \/ CheckBudget(h) \/ FindAgent(h) \/ CreateAgent(h) \/ Score(h)
                               \/ Publish(h) \/ JudgeCall(h)
    BY <2>5, <2>6 DEF CheckBudget, FindAgent, FoundAgent, CreateAgent, Score, Publish, JudgeCall,
       CallStage
  <2>7. CASE \E h \in Handlers : LoadState(h)
    <3>1. PICK h \in Handlers : LoadState(h)
      BY <2>7
    <3>2. sessions[sess[h]] \in Cells \cup {0} /\ Belongs(sessions[sess[h]], sess[h])
      BY <2>1 DEF Types, StoreTypeOK, CellsBelong
    <3>3. sessions[sess[h]] # 0 => cells'[sessions[sess[h]]].of = sess[h]
      BY <1>1, <2>1, <3>2
    <3> QED BY <2>3, <3>1, <3>2, <3>3 DEF LoadState, CallStage
  <2>8. CASE \E h \in Handlers : InitState(h)
    <3>1. PICK h \in Handlers : InitState(h)
      BY <2>8
    <3>2. made + 1 \in Cells /\ cells'[made + 1].of = sess[h]
      BY <2>1, <3>1, AllocateDoes DEF InitState, Types
    <3> QED BY <2>3, <3>1, <3>2 DEF InitState, CallStage
  <2>9. CASE \E h \in Handlers : LogCall(h)
    <3>1. PICK h \in Handlers : LogCall(h)
      BY <2>9
    <3>2. CallStep(h, "log", "idle") /\ cell' = [cell EXCEPT ![h] = 0]
      BY <3>1 DEF LogCall
    <3>3. "log" \in CallStage /\ "idle" \in CallStage
      BY DEF CallStage
    <3> QED BY <2>3, <3>2, <3>3
  <2> QED BY <2>2, <2>4, <2>6, <2>7, <2>8, <2>9, CallsUntouched DEF Call
<1>5. \A s \in Managed : got'[s] # 0 => cells'[got'[s]].of = s
  <2>1. \A s \in Managed : /\ sessions[s] \in Cells \cup {0} /\ Belongs(sessions[s], s)
                           /\ got[s] \in Cells \cup {0} /\ Belongs(got[s], s)
    BY <1>0 DEF Types, StoreTypeOK, RegTypeOK, CellsBelong
  <2>2. \A s \in Managed : /\ sessions[s] # 0 => cells'[sessions[s]].of = s
                           /\ got[s] # 0 => cells'[got[s]].of = s
    BY <1>0, <1>1, <2>1
  <2>3. CASE \E s \in Managed : FetchState(s)
    BY <2>2, <2>3 DEF FetchState, Types, RegTypeOK
  <2>4. CASE UNCHANGED got
    BY <2>2, <2>4
  <2>5. CASE \E s \in Managed : Register(s) /\ ~FetchState(s)
    BY <2>4, <2>5 DEF Register, BeginRoot, BeginChild, RecordParent, InheritRefs, SeedFromManifest,
       SetDelegatedLimit, IssueToken
  <2> QED BY <2>3, <2>4, <2>5, RegUntouched DEF regVars
<1>6. (\A c \in todo' : cells'[c].of \in AllSessions) /\ (victim' # 0 => cells'[victim'].of \in AllSessions)
  <2>1. \A c \in Cells : cells[c].of \in AllSessions => cells'[c].of \in AllSessions
    BY <1>0, CellsStay
  <2>2. \A s \in AllSessions : sessions[s] # 0 => sessions[s] \in Cells /\ cells[sessions[s]].of \in AllSessions
    BY DEF Types, StoreTypeOK, CellsBelong
  <2>3. /\ \A c \in todo : c \in Cells /\ cells[c].of \in AllSessions
        /\ victim # 0 => victim \in Cells /\ cells[victim].of \in AllSessions
    BY DEF Types, ReapTypeOK, CellsBelong
  <2>4. CASE BeginSweep
    BY <2>1, <2>2, <2>3, <2>4 DEF BeginSweep
  <2>5. CASE Sweep /\ ~BeginSweep
    BY <2>1, <2>3, <2>5 DEF Sweep, JudgeCell, RemoveExpired, ReportExpired, EvictExpired, EndSweep
  <2>6. CASE UNCHANGED reapVars
    BY <2>1, <2>3, <2>6 DEF reapVars
  <2> QED BY <2>4, <2>5, <2>6, ReapUntouched
<1> QED BY <1>2, <1>3, <1>4, <1>5, <1>6 DEF CellsBelong

Core == Types /\ NoNil /\ CellsBelong

LEMMA InitCore ==
  ASSUME Init
  PROVE  Core
<1>0. 0 \notin Cells /\ 0 \notin Agents
  BY DEF Cells, Agents
<1>1. PICK any \in AllSessions : any = CHOOSE s \in AllSessions : TRUE
  BY IdsAssumption
<1>2. BlankCell \in CellRecord /\ BlankCell.of = None
  BY DEF BlankCell, CellRecord
<1>3. StoreTypeOK
  BY <1>2, SessionBounds DEF Init, StoreTypeOK
<1>4. FleetTypeOK
  BY SessionBounds DEF Init, FleetTypeOK
<1>5. TokenTypeOK /\ BudgetTypeOK
  BY DEF Init, TokenTypeOK, BudgetTypeOK
<1>6. sess \in [Handlers -> AllSessions] /\ dsess \in [Deleters -> AllSessions]
  BY <1>1 DEF Init
<1>7. CallTypeOK
  BY <1>6 DEF Init, CallTypeOK, CallStage
<1>8. RegTypeOK
  BY DEF Init, RegTypeOK, RegStage
<1>9. DelTypeOK /\ ReapTypeOK
  BY <1>6 DEF Init, DelTypeOK, ReapTypeOK
<1>10. NoNil
  BY DEF Init, NoNil
<1>11. CellsBelong
  BY <1>2 DEF Init, CellsBelong
<1> QED BY <1>3, <1>4, <1>5, <1>7, <1>8, <1>9, <1>10, <1>11 DEF Core, Types

LEMMA CoreStep ==
  ASSUME Core, [Next]_vars
  PROVE  Core'
<1> USE DEF Core
<1>1. Types'
  <2>1. StoreTypeOK' /\ FleetTypeOK'
    BY StoreTypeStep, FleetTypeStep
  <2>2. TokenTypeOK' /\ BudgetTypeOK'
    BY TokenTypeStep, BudgetTypeStep
  <2>3. CallTypeOK' /\ RegTypeOK'
    BY CallTypeStep, RegTypeStep
  <2>4. DelTypeOK' /\ ReapTypeOK'
    BY DelTypeStep, ReapTypeStep
  <2> QED BY <2>1, <2>2, <2>3, <2>4 DEF Types
<1> QED BY <1>1, NoNilStep, CellsBelongStep

\* Type correctness of the stores and of everybody who works on them: no goroutine follows
\* a nil pointer, though each lets go of every lock between a lookup and its use.
THEOREM SessionsTypeOK == Spec => []TypeOK
<1>1. Core => TypeOK
  BY DEF Core, Types, StoreTypeOK, FleetTypeOK, TokenTypeOK, BudgetTypeOK, CallTypeOK, RegTypeOK,
     DelTypeOK, ReapTypeOK, NoNil, CellsBelong, TypeOK
<1> QED BY <1>1, InitCore, CoreStep, PTL DEF Spec

-----------------------------------------------------------------------------
(* Registration and delegation *)

\* A token is issued last; only who was issued one calls.
OnlyIssuedCall ==
  /\ \A s \in tokens : reg[s] = "issued"
  /\ \A h \in Handlers : pc[h] # "idle" /\ sess[h] \in Managed => reg[sess[h]] = "issued"

LEMMA OnlyIssuedCallStep ==
  ASSUME Core, OnlyIssuedCall, [Next]_vars
  PROVE  OnlyIssuedCall'
<1> USE DEF Core, Types
<1>1. \A s \in Managed : reg[s] = "issued" => reg'[s] = "issued"
  <2>1. CASE \E s \in Managed : Register(s)
    BY <2>1 DEF Register, BeginRoot, BeginChild, RecordParent, InheritRefs, SeedFromManifest,
       FetchState, SetDelegatedLimit, IssueToken, RegStep, RegTypeOK
  <2> QED BY <2>1, RegUntouched DEF regVars
<1>2. \A s \in tokens' : s \in tokens \/ (s \in Managed /\ reg'[s] = "issued")
  <2>1. CASE \E s \in Managed : IssueToken(s)
    BY <2>1 DEF IssueToken, RegStep, RegTypeOK
  <2>2. CASE \E d \in Deleters : RevokeToken(d)
    BY <2>2 DEF RevokeToken, Terminated
  <2>3. CASE UNCHANGED tokens
    BY <2>3
  <2>4. CASE \E s \in Managed : Register(s) /\ ~IssueToken(s)
    BY <2>4 DEF Register, BeginRoot, BeginChild, RecordParent, InheritRefs, SeedFromManifest,
       FetchState, SetDelegatedLimit
  <2>5. CASE \E d \in Deleters : Delete(d) /\ ~RevokeToken(d)
    BY <2>5 DEF Delete, BeginDelete, DeleteFound, ReportDeleted, RemoveDeleted, EvictDeleted
  <2>6. CASE Sweep
    BY <2>6 DEF Sweep, BeginSweep, JudgeCell, RemoveExpired, ReportExpired, EvictExpired, EndSweep,
       ReapStep
  <2>7. CASE \/ \E h \in Handlers : Call(h)
             \/ \E s \in AllSessions : TimePasses(s)
             \/ UNCHANGED vars
    BY <2>7 DEF Call, Arrive, CheckBudget, FoundAgent, FindAgent, CreateAgent, LoadState, InitState,
       Score, Publish, JudgeCall, LogCall, CallStep, TimePasses, vars
  <2> QED BY <2>1, <2>2, <2>3, <2>4, <2>5, <2>6, <2>7 DEF Next
<1>3. \A h \in Handlers : pc'[h] # "idle" /\ sess'[h] \in Managed =>
        \/ pc[h] # "idle" /\ sess'[h] = sess[h]
        \/ reg[sess'[h]] = "issued"
  <2>1. CASE \E h \in Handlers, s \in AllSessions, token \in BOOLEAN : Arrive(h, s, token)
    BY <2>1 DEF Arrive, CanCall, CallTypeOK
  <2>2. ASSUME NEW h \in Handlers, NEW from \in CallStage \ {"idle"}, NEW to, CallStep(h, from, to)
        PROVE  \A g \in Handlers : pc'[g] # "idle" => pc[g] # "idle" /\ sess'[g] = sess[g]
    BY <2>2, CallMoves
  <2>3. CASE \E h \in Handlers : \/ CheckBudget(h) \/ FindAgent(h) \/ CreateAgent(h) \/ LoadState(h)
                               \/ InitState(h) \/ Score(h) \/ Publish(h) \/ JudgeCall(h)
                               \/ LogCall(h)
    BY <2>2, <2>3 DEF CheckBudget, FindAgent, FoundAgent, CreateAgent, LoadState, InitState, Score,
       Publish, JudgeCall, LogCall, CallStage
  <2>4. CASE UNCHANGED callVars
    BY <2>4 DEF callVars
  <2> QED BY <2>1, <2>3, <2>4, CallsUntouched DEF Call
<1> HIDE DEF Types, Core
<1> QED BY <1>1, <1>2, <1>3 DEF OnlyIssuedCall, Core, Types, TokenTypeOK

\* Whose parent a session claims had its token before; the store has no other parent, and
\* none before the claim was recorded.
ParentsProven ==
  \A s \in Managed :
    /\ claimed[s] # None => reg[claimed[s]] = "issued" /\ reg[s] # "unused"
    /\ parents[s] # None => parents[s] = claimed[s] /\ reg[s] \notin {"unused", "record"}

LEMMA ParentsProvenStep ==
  ASSUME Core, OnlyIssuedCall, ParentsProven, [Next]_vars
  PROVE  ParentsProven'
<1> USE DEF Core, Types
<1>1. CASE \E s \in Managed : Register(s)
  <2>1. PICK s \in Managed : Register(s)
    BY <1>1
  <2>2. \A t \in Managed \ {s} : reg'[t] = reg[t] /\ claimed'[t] = claimed[t] /\ parents'[t] = parents[t]
    BY <2>1 DEF Register, BeginRoot, BeginChild, RecordParent, InheritRefs, SeedFromManifest,
       FetchState, SetDelegatedLimit, IssueToken, RegStep, RegTypeOK, TokenTypeOK
  <2>3. reg[s] # "issued" /\ reg'[s] # "unused"
    BY <2>1 DEF Register, BeginRoot, BeginChild, RecordParent, InheritRefs, SeedFromManifest,
       FetchState, SetDelegatedLimit, IssueToken, RegStep, RegTypeOK
  <2>4. CASE \E p \in Managed : BeginChild(s, p)
    BY <2>2, <2>3, <2>4 DEF BeginChild, RegStep, RegTypeOK, ParentsProven, OnlyIssuedCall
  <2>5. CASE RecordParent(s)
    BY <2>2, <2>3, <2>5 DEF RecordParent, RegStep, RegTypeOK, TokenTypeOK, ParentsProven
  <2>6. CASE BeginRoot(s)
    BY <2>2, <2>3, <2>6 DEF BeginRoot, RegStep, RegTypeOK, ParentsProven
  <2>7. CASE \/ InheritRefs(s) \/ SeedFromManifest(s) \/ FetchState(s)
             \/ SetDelegatedLimit(s) \/ IssueToken(s)
    <3>1. reg'[s] # "record" /\ UNCHANGED <<claimed, parents>>
      BY <2>7 DEF InheritRefs, SeedFromManifest, FetchState, SetDelegatedLimit, IssueToken, RegStep,
         RegTypeOK
    <3> QED BY <2>2, <2>3, <3>1 DEF ParentsProven, RegTypeOK
  <2> QED BY <2>1, <2>4, <2>5, <2>6, <2>7 DEF Register
<1>2. CASE EvictExpired
  <2>1. UNCHANGED regVars /\ parents' \in {parents, [parents EXCEPT ![cells[victim].of] = None]}
    BY <1>2 DEF EvictExpired, ReapStep
  <2>2. \A s \in Managed : parents'[s] \in {parents[s], None}
    BY <2>1 DEF TokenTypeOK
  <2> QED BY <2>1, <2>2 DEF ParentsProven, regVars
<1>3. CASE UNCHANGED <<regVars, parents>>
  BY <1>3 DEF ParentsProven, regVars
<1>4. CASE \E d \in Deleters : Delete(d)
  BY <1>3, <1>4 DEF Delete, BeginDelete, DeleteFound, ReportDeleted, RemoveDeleted, EvictDeleted,
     RevokeToken, Terminated, DelStep
<1>5. CASE Sweep /\ ~EvictExpired
  BY <1>3, <1>5 DEF Sweep, BeginSweep, JudgeCell, RemoveExpired, ReportExpired, EndSweep, ReapStep
<1>6. CASE \E h \in Handlers : Call(h)
  <2>1. PICK h \in Handlers : Call(h)
    BY <1>6
  <2>2. UNCHANGED regVars
    BY <2>1 DEF Call, Arrive, CheckBudget, FoundAgent, FindAgent, CreateAgent, LoadState, InitState,
       Score, Publish, JudgeCall, LogCall, CallStep
  <2>3. UNCHANGED parents
    BY <2>1 DEF Call, Arrive, CheckBudget, FoundAgent, FindAgent, CreateAgent, LoadState, InitState,
       Score, Publish, JudgeCall, LogCall, CallStep
  <2> QED BY <1>3, <2>2, <2>3
<1>7. CASE (\E s \in AllSessions : TimePasses(s)) \/ UNCHANGED vars
  BY <1>3, <1>7 DEF TimePasses, vars
<1> QED BY <1>1, <1>2, <1>4, <1>5, <1>6, <1>7 DEF Next

\* The delegation store knows no parent that was not proven with its token: whatever is
\* reaped, deleted or refused on the way, its chains lead to sessions that were registered.
THEOREM SessionsDelegationIsProven == Spec => []DelegationIsProven
<1> DEFINE Inv == Core /\ OnlyIssuedCall /\ ParentsProven
<1>1. Init => Inv
  <2>1. Init => OnlyIssuedCall /\ ParentsProven
    BY DEF Init, OnlyIssuedCall, ParentsProven
  <2> QED BY <2>1, InitCore
<1>2. Inv /\ [Next]_vars => Inv'
  BY CoreStep, OnlyIssuedCallStep, ParentsProvenStep
<1>3. Inv => DelegationIsProven
  BY DEF ParentsProven, DelegationIsProven
<1> QED BY <1>1, <1>2, <1>3, PTL DEF Spec

\* A deleted session that was not overtaken has its registration behind it, and no token.
Dead ==
  \A s \in Managed :
    s \in deleted /\ s \notin overtaken => reg[s] = "issued" /\ s \notin tokens

LEMMA DeadStep ==
  ASSUME Core, OnlyIssuedCall, Dead, [Next]_vars
  PROVE  Dead'
<1> USE DEF Core, Types
<1>1. CASE \E d \in Deleters : RevokeToken(d)
  <2>1. PICK d \in Deleters : RevokeToken(d)
    BY <1>1
  <2>2. /\ tokens' = tokens \ {dsess[d]} /\ deleted' = deleted \cup {dsess[d]} /\ reg' = reg
        /\ overtaken' = IF dsess[d] \in Managed /\ reg[dsess[d]] # "issued"
                        THEN overtaken \cup {dsess[d]} ELSE overtaken \ {dsess[d]}
    BY <2>1 DEF RevokeToken, Terminated, DelStep, regVars
  <2> QED BY <2>2 DEF Dead
<1>2. CASE \E s \in Managed : IssueToken(s)
  <2>1. PICK s \in Managed : IssueToken(s)
    BY <1>2
  <2>2. /\ reg[s] = "token" /\ \A t \in Managed \ {s} : reg'[t] = reg[t]
        /\ tokens' = tokens \cup {s} /\ UNCHANGED <<deleted, overtaken>>
    BY <2>1 DEF IssueToken, RegStep, RegTypeOK, delVars
  <2>3. s \notin deleted \/ s \in overtaken
    BY <2>2 DEF Dead
  <2> QED BY <2>2, <2>3 DEF Dead
<1>3. CASE \E s \in Managed : Register(s) /\ ~IssueToken(s)
  <2>1. UNCHANGED <<tokens, deleted, overtaken>>
    BY <1>3 DEF Register, BeginRoot, BeginChild, RecordParent, InheritRefs, SeedFromManifest,
       FetchState, SetDelegatedLimit, RegStep, delVars
  <2>2. \A s \in Managed : reg[s] = "issued" => reg'[s] = "issued"
    BY <1>3 DEF Register, BeginRoot, BeginChild, RecordParent, InheritRefs, SeedFromManifest,
       FetchState, SetDelegatedLimit, RegStep, RegTypeOK
  <2> QED BY <2>1, <2>2 DEF Dead
<1>4. CASE UNCHANGED <<tokens, reg, deleted, overtaken>>
  BY <1>4 DEF Dead
<1>5. CASE \E d \in Deleters : Delete(d) /\ ~RevokeToken(d)
  BY <1>4, <1>5 DEF Delete, BeginDelete, DeleteFound, ReportDeleted, RemoveDeleted, EvictDeleted,
     DelStep, regVars
<1>6. CASE Sweep
  BY <1>4, <1>6 DEF Sweep, BeginSweep, JudgeCell, RemoveExpired, ReportExpired, EvictExpired,
     EndSweep, ReapStep, regVars, delVars
<1>7. CASE \E h \in Handlers : Call(h)
  BY <1>4, <1>7 DEF Call, Arrive, CheckBudget, FoundAgent, FindAgent, CreateAgent, LoadState,
     InitState, Score, Publish, JudgeCall, LogCall, CallStep, regVars, delVars
<1>8. CASE (\E s \in AllSessions : TimePasses(s)) \/ UNCHANGED vars
  BY <1>4, <1>8 DEF TimePasses, vars, regVars, delVars
<1> QED BY <1>1, <1>2, <1>3, <1>5, <1>6, <1>7, <1>8 DEF Next

\* The token of a session that was deleted stays dead, whatever else goes on: registrations
\* issue theirs once, and only one that a DELETE overtook issues it afterwards.
THEOREM SessionsTokensDieWithTheirSession == Spec => []TokensDieWithTheirSession
<1> DEFINE Inv == Core /\ OnlyIssuedCall /\ Dead
<1>1. Init => Inv
  <2>1. Init => OnlyIssuedCall /\ Dead
    BY DEF Init, OnlyIssuedCall, Dead
  <2> QED BY <2>1, InitCore
<1>2. Inv /\ [Next]_vars => Inv'
  BY CoreStep, OnlyIssuedCallStep, DeadStep
<1>3. Inv => TokensDieWithTheirSession
  BY DEF Core, Types, TokenTypeOK, Dead, TokensDieWithTheirSession
<1> QED BY <1>1, <1>2, <1>3, PTL DEF Spec

-----------------------------------------------------------------------------
(* A TERMINATE is final *)

\* While a session stays in the fleet its handlers share one agent, which is hot once a call
\* was judged TERMINATE; eviction starts another epoch.
OneAgent ==
  /\ \A h \in Handlers :
       /\ pc[h] \in {"idle", "budget"} => agent[h] = 0
       /\ pc[h] # "idle" => since[h] <= epoch[sess[h]]
       /\ agent[h] # 0 /\ since[h] = epoch[sess[h]] => agent[h] = agents[sess[h]]
       /\ pc[h] # "idle" /\ warned[h] => <<sess[h], since[h]>> \in doomed
  /\ \A s \in AllSessions, e \in Nat : <<s, e>> \in doomed =>
       /\ e <= epoch[s] /\ (s \in Managed => reg[s] = "issued")
       /\ e = epoch[s] => agents[s] # 0 /\ hot[agents[s]]

\* A step of one handler is none of another's ...
LEMMA OthersStay ==
  ASSUME CallTypeOK, NEW h \in Handlers, Call(h)
  PROVE  \A g \in Handlers \ {h} :
           /\ pc'[g] = pc[g] /\ sess'[g] = sess[g] /\ agent'[g] = agent[g] /\ cell'[g] = cell[g]
           /\ verdict'[g] = verdict[g] /\ warned'[g] = warned[g] /\ since'[g] = since[g]
<1>1. CASE \E s \in AllSessions, token \in BOOLEAN : Arrive(h, s, token)
  BY <1>1 DEF Arrive, CallTypeOK
<1>2. CASE CheckBudget(h) \/ FindAgent(h) \/ LoadState(h) \/ Score(h) \/ Publish(h)
  BY <1>2 DEF CheckBudget, FindAgent, FoundAgent, LoadState, Score, Publish, CallStep, CallTypeOK
<1>3. CASE CreateAgent(h)
  BY <1>3 DEF CreateAgent, CallStep, CallTypeOK
<1>4. CASE InitState(h)
  BY <1>4 DEF InitState, CallStep, CallTypeOK
<1>5. CASE JudgeCall(h) \/ LogCall(h)
  BY <1>5 DEF JudgeCall, LogCall, CallStep, CallTypeOK
<1> QED BY <1>1, <1>2, <1>3, <1>4, <1>5 DEF Call

\* ... and a registration that was answered stays answered.
LEMMA IssuedStays ==
  ASSUME RegTypeOK, [Next]_vars, NEW s \in Managed, reg[s] = "issued"
  PROVE  reg'[s] = "issued"
<1>1. CASE \E t \in Managed : Register(t)
  BY <1>1 DEF Register, BeginRoot, BeginChild, RecordParent, InheritRefs, SeedFromManifest,
     FetchState, SetDelegatedLimit, IssueToken, RegStep, RegTypeOK
<1> QED BY <1>1, RegUntouched DEF regVars

LEMMA OneAgentStep ==
  ASSUME Core, OnlyIssuedCall, OneAgent, [Next]_vars
  PROVE  OneAgent'
<1> USE DEF Core, Types
<1> DEFINE Handling(h) ==
             /\ pc[h] \in {"idle", "budget"} => agent[h] = 0
             /\ pc[h] # "idle" => since[h] <= epoch[sess[h]]
             /\ agent[h] # 0 /\ since[h] = epoch[sess[h]] => agent[h] = agents[sess[h]]
             /\ pc[h] # "idle" /\ warned[h] => <<sess[h], since[h]>> \in doomed
           Doom(s, e) ==
             <<s, e>> \in doomed =>
               /\ e <= epoch[s] /\ (s \in Managed => reg[s] = "issued")
               /\ e = epoch[s] => agents[s] # 0 /\ hot[agents[s]]
<1>1. /\ \A h \in Handlers : Handling(h) /\ sess[h] \in AllSessions /\ since[h] \in Nat
      /\ \A s \in AllSessions, e \in Nat : Doom(s, e)
  BY DEF OneAgent, CallTypeOK
<1>2. \A s \in Managed : reg[s] = "issued" => reg'[s] = "issued"
  BY IssuedStays
<1>3. \A a \in Agents : hot[a] => hot'[a]
  <2>1. CASE \E h \in Handlers : Score(h)
    BY <2>1 DEF Score, FleetTypeOK
  <2>2. CASE UNCHANGED hot
    BY <2>2
  <2> QED BY <2>1, <2>2, FleetUntouched
        DEF FleetStep, CreateAgent, Spawn, SeedFromManifest, EvictDeleted, EvictExpired, EvictAgent, fleetVars
<1>4. ASSUME UNCHANGED <<agents, epoch, doomed>>
      PROVE  \A s \in AllSessions, e \in Nat : Doom(s, e)'
  BY <1>1, <1>2, <1>3, <1>4 DEF FleetTypeOK
<1>5. CASE UNCHANGED callVars
  <2>1. CASE \E s \in AllSessions : EvictAgent(s)
    <3>1. PICK s \in AllSessions : EvictAgent(s)
      BY <2>1
    <3>2. /\ epoch'[s] = epoch[s] + 1 /\ \A t \in AllSessions \ {s} : epoch'[t] = epoch[t] /\ agents'[t] = agents[t]
          /\ epoch[s] \in Nat /\ hot' = hot
      BY <3>1 DEF EvictAgent, FleetTypeOK
    <3>3. \A h \in Handlers : Handling(h)'
      BY <1>1, <1>5, <3>2 DEF callVars
    <3>4. \A t \in AllSessions, e \in Nat : Doom(t, e)'
      BY <1>1, <1>2, <1>5, <3>2 DEF callVars
    <3> QED BY <3>3, <3>4 DEF OneAgent
  <2>2. CASE \E s \in Managed : SeedFromManifest(s)
    <3>1. PICK s \in Managed : SeedFromManifest(s)
      BY <2>2
    <3>2. /\ reg[s] # "issued" /\ UNCHANGED <<epoch, hot>>
          /\ \A t \in AllSessions \ {s} : agents'[t] = agents[t]
      BY <3>1 DEF SeedFromManifest, RegStep, Spawn, FleetTypeOK, AllSessions
    <3>3. \A h \in Handlers : pc[h] # "idle" => sess[h] # s
      BY <3>2 DEF OnlyIssuedCall
    <3>4. \A h \in Handlers : Handling(h)'
      BY <1>1, <1>5, <3>2, <3>3 DEF callVars
    <3>5. \A t \in AllSessions, e \in Nat : Doom(t, e)'
      BY <1>1, <1>2, <1>5, <3>2 DEF callVars
    <3> QED BY <3>4, <3>5 DEF OneAgent
  <2>3. CASE UNCHANGED <<agents, epoch>>
    BY <1>1, <1>4, <1>5, <2>3 DEF callVars, OneAgent
  <2>4. CASE \E h \in Handlers : CreateAgent(h) \/ Score(h)
    <3>1. PICK h \in Handlers, from \in {"create", "score"}, to \in {"load", "publish"} :
            CallStep(h, from, to)
      BY <2>4 DEF CreateAgent, Score
    <3>2. pc[h] = from /\ pc'[h] = to
      BY <3>1, CallMoves
    <3> QED BY <1>5, <3>2 DEF callVars
  <2> QED BY <2>1, <2>2, <2>3, <2>4, FleetUntouched
        DEF FleetStep, fleetVars, EvictDeleted, EvictExpired, ReapStep, NoNil, CellsBelong, DelTypeOK
<1>6. ASSUME NEW h \in Handlers, Call(h)
      PROVE  OneAgent'
  <2>1. \A g \in Handlers \ {h} : /\ pc'[g] = pc[g] /\ sess'[g] = sess[g] /\ agent'[g] = agent[g]
                                 /\ warned'[g] = warned[g] /\ since'[g] = since[g]
    BY <1>6, OthersStay
  <2>2. ASSUME UNCHANGED <<agents, epoch>>, doomed \subseteq doomed', Handling(h)',
               \A s \in AllSessions, e \in Nat : Doom(s, e)'
        PROVE  OneAgent'
    BY <1>1, <2>1, <2>2 DEF OneAgent
  <2> DEFINE s == sess[h]
  <2>3. CASE \E t \in AllSessions, token \in BOOLEAN : Arrive(h, t, token)
    <3>1. PICK t \in AllSessions, token \in BOOLEAN : Arrive(h, t, token)
      BY <2>3
    <3>2. /\ pc[h] = "idle" /\ pc'[h] = "budget" /\ sess'[h] = t /\ agent' = agent
          /\ warned'[h] = (<<t, epoch[t]>> \in doomed) /\ since'[h] = epoch[t]
          /\ UNCHANGED <<agents, epoch, doomed>>
      BY <3>1 DEF Arrive, CallTypeOK, fleetVars
    <3>3. epoch[t] \in Nat /\ epoch[t] <= epoch[t]
      BY DEF FleetTypeOK
    <3>4. agent[h] = 0
      BY <1>1, <3>2
    <3>5. Handling(h)'
      BY <3>2, <3>3, <3>4
    <3>6. \A r \in AllSessions, e \in Nat : Doom(r, e)'
      BY <1>4, <3>2
    <3> QED BY <2>2, <3>2, <3>5, <3>6
  <2>4. CASE CheckBudget(h)
    <3>1. PICK to \in {"agent", "log"} : CallStep(h, "budget", to)
      BY <2>4 DEF CheckBudget
    <3>2. /\ pc[h] = "budget" /\ pc'[h] = to /\ sess' = sess /\ UNCHANGED <<agent, warned, since>>
          /\ UNCHANGED <<agents, epoch, doomed>>
      BY <2>4, <3>1, CallMoves DEF CheckBudget, fleetVars
    <3> QED BY <1>1, <1>4, <2>2, <3>2
  <2>5. CASE FindAgent(h)
    <3>1. PICK to \in {"create", "load"} : CallStep(h, "agent", to)
      BY <2>5 DEF FindAgent, FoundAgent
    <3>2. /\ pc[h] = "agent" /\ pc'[h] = to /\ sess' = sess /\ UNCHANGED <<warned, since>>
          /\ UNCHANGED <<agents, epoch, doomed>> /\ agent'[h] = agents[s]
      BY <2>5, <3>1, CallMoves DEF FindAgent, FoundAgent, fleetVars, CallTypeOK
    <3> QED BY <1>1, <1>4, <2>2, <3>2
  <2>6. CASE LoadState(h) \/ InitState(h) \/ Score(h) \/ Publish(h)
    <3>1. PICK from \in {"load", "init", "score", "publish"}, to \in {"init", "score", "publish", "judge"} :
            CallStep(h, from, to)
      BY <2>6 DEF LoadState, InitState, Score, Publish
    <3>2. /\ pc[h] = from /\ pc'[h] = to /\ sess' = sess /\ UNCHANGED <<agent, warned, since>>
          /\ UNCHANGED <<agents, epoch, doomed>>
      BY <2>6, <3>1, CallMoves DEF LoadState, InitState, Score, Publish, fleetVars
    <3> QED BY <1>1, <1>4, <2>2, <3>2
  <2>7. CASE LogCall(h)
    <3>1. CallStep(h, "log", "idle")
      BY <2>7 DEF LogCall
    <3>2. /\ pc'[h] = "idle" /\ sess' = sess /\ agent'[h] = 0
          /\ UNCHANGED <<agents, epoch, doomed>>
      BY <2>7, <3>1, CallMoves DEF LogCall, fleetVars, CallTypeOK
    <3> QED BY <1>1, <1>4, <2>2, <3>2
  <2>8. CASE CreateAgent(h)
    <3>1. CallStep(h, "create", "load")
      BY <2>8 DEF CreateAgent
    <3>2. /\ pc[h] = "create" /\ pc'[h] = "load" /\ sess' = sess /\ agent'[h] = agents'[s]
          /\ UNCHANGED <<warned, since, epoch, hot, doomed>>
      BY <2>8, <3>1, CallMoves DEF CreateAgent, Spawn, fleetVars, CallTypeOK
    <3>3. \A t \in AllSessions : agents'[t] = agents[t] \/ (t = s /\ agents[t] = 0)
      BY <2>8 DEF CreateAgent, Spawn, fleetVars, FleetTypeOK
    <3>4. \A g \in Handlers : Handling(g)'
      BY <1>1, <2>1, <3>2, <3>3
    <3>5. \A t \in AllSessions, e \in Nat : Doom(t, e)'
      BY <1>1, <1>2, <3>2, <3>3
    <3> QED BY <3>4, <3>5 DEF OneAgent
  <2>9. CASE JudgeCall(h)
    <3>1. CallStep(h, "judge", "log")
      BY <2>9 DEF JudgeCall
    <3>2. /\ pc[h] = "judge" /\ pc'[h] = "log" /\ sess' = sess
          /\ UNCHANGED <<agent, warned, since, agents, epoch, hot>>
      BY <2>9, <3>1, CallMoves DEF JudgeCall, fleetVars
    <3>3. CASE UNCHANGED doomed
      BY <1>1, <1>4, <2>2, <3>2, <3>3
    <3>4. CASE /\ hot[agent[h]] /\ since[h] = epoch[s] /\ doomed' = doomed \cup {<<s, since[h]>>}
      <4>1. agent[h] # 0 /\ agent[h] = agents[s]
        BY <1>1, <3>2, <3>4 DEF NoNil
      <4>2. s \in Managed => reg[s] = "issued"
        BY <3>2 DEF OnlyIssuedCall
      <4>3. \A t \in AllSessions, e \in Nat : Doom(t, e)'
        BY <1>1, <1>2, <3>2, <3>4, <4>1, <4>2
      <4> QED BY <1>1, <2>2, <3>2, <3>4, <4>3
    <3> QED BY <2>9, <3>3, <3>4 DEF JudgeCall
  <2> QED BY <1>6, <2>3, <2>4, <2>5, <2>6, <2>7, <2>8, <2>9 DEF Call
<1> QED BY <1>5, <1>6, CallsUntouched

LEMMA TerminateStep ==
  ASSUME Core, OneAgent, TerminateIsFinal, [Next]_vars
  PROVE  TerminateIsFinal'
<1> USE DEF Core, Types
<1>1. \A s \in AllSessions : epoch[s] \in Nat /\ epoch'[s] \in {epoch[s], epoch[s] + 1}
  <2>1. epoch \in [AllSessions -> Nat]
    BY DEF FleetTypeOK
  <2>2. epoch' = epoch \/ \E t : epoch' = [epoch EXCEPT ![t] = epoch[t] + 1]
    <3>1. CASE UNCHANGED fleetVars
      BY <3>1 DEF fleetVars
    <3>2. CASE \E h \in Handlers : CreateAgent(h) \/ Score(h)
      BY <3>2 DEF CreateAgent, Spawn, Score, fleetVars
    <3>3. CASE \E s \in Managed : SeedFromManifest(s)
      BY <3>3 DEF SeedFromManifest, Spawn
    <3>4. CASE (\E d \in Deleters : EvictDeleted(d)) \/ EvictExpired
      BY <3>4 DEF EvictDeleted, EvictExpired, EvictAgent
    <3> QED BY <3>1, <3>2, <3>3, <3>4, FleetUntouched DEF FleetStep
  <2> QED BY <2>1, <2>2
<1>2. ASSUME NEW g \in Handlers, pc'[g] = "log", pc[g] = "log", sess'[g] = sess[g], agent'[g] = agent[g],
             verdict'[g] = verdict[g], warned'[g] = warned[g], since'[g] = since[g],
             agent'[g] # 0, warned'[g], since'[g] = epoch'[sess'[g]]
      PROVE  verdict'[g]
  <2>1. sess[g] \in AllSessions /\ since[g] <= epoch[sess[g]] /\ since[g] \in Nat
    BY <1>2 DEF OneAgent, CallTypeOK
  <2>2. since[g] = epoch[sess[g]]
    BY <1>1, <1>2, <2>1
  <2> QED BY <1>2, <2>2 DEF TerminateIsFinal
<1>3. CASE UNCHANGED callVars
  BY <1>2, <1>3 DEF callVars, TerminateIsFinal
<1>4. ASSUME NEW h \in Handlers, Call(h)
      PROVE  TerminateIsFinal'
  <2>1. \A g \in Handlers \ {h} :
          /\ pc'[g] = pc[g] /\ sess'[g] = sess[g] /\ agent'[g] = agent[g]
          /\ verdict'[g] = verdict[g] /\ warned'[g] = warned[g] /\ since'[g] = since[g]
    BY <1>4, OthersStay
  <2>2. ASSUME pc'[h] = "log" /\ agent'[h] # 0 /\ warned'[h] /\ since'[h] = epoch'[sess'[h]] => verdict'[h]
        PROVE  TerminateIsFinal'
    BY <1>2, <2>1, <2>2 DEF TerminateIsFinal
  <2>3. CASE CheckBudget(h)
    <3>1. PICK to \in {"agent", "log"} : CallStep(h, "budget", to) /\ UNCHANGED agent
      BY <2>3 DEF CheckBudget
    <3>2. pc[h] = "budget"
      BY <3>1, CallMoves
    <3> QED BY <2>2, <3>1, <3>2 DEF OneAgent
  <2>4. CASE JudgeCall(h)
    <3>1. CallStep(h, "judge", "log") /\ UNCHANGED <<agent, warned, since, epoch>>
      BY <2>4 DEF JudgeCall, fleetVars
    <3>2. pc[h] = "judge" /\ sess' = sess /\ verdict'[h] = hot[agent[h]]
      BY <2>4, <3>1, CallMoves DEF JudgeCall, CallTypeOK
    <3>3. sess[h] \in AllSessions /\ since[h] \in Nat /\ agent[h] # 0
      BY <3>2 DEF CallTypeOK, NoNil
    <3>4. ASSUME warned[h], since[h] = epoch[sess[h]]
          PROVE  hot[agent[h]]
      BY <3>2, <3>3, <3>4 DEF OneAgent
    <3> QED BY <2>2, <3>1, <3>2, <3>4
  <2>5. ASSUME NEW from, NEW to \in CallStage \ {"log"}, CallStep(h, from, to)
        PROVE  TerminateIsFinal'
    BY <2>2, <2>5, CallMoves
  <2>6. CASE \/ \E s \in AllSessions, token \in BOOLEAN : Arrive(h, s, token)
             \/ FindAgent(h) \/ CreateAgent(h) \/ LoadState(h) \/ InitState(h) \/ Score(h)
             \/ Publish(h) \/ LogCall(h)
    <3>1. CASE \E s \in AllSessions, token \in BOOLEAN : Arrive(h, s, token)
      BY <2>2, <3>1 DEF Arrive, CallTypeOK
    <3> QED BY <2>5, <2>6, <3>1 DEF FindAgent, FoundAgent, CreateAgent, LoadState, InitState, Score, Publish,
          LogCall, CallStage
  <2> QED BY <1>4, <2>3, <2>4, <2>6 DEF Call
<1> QED BY <1>3, <1>4, CallsUntouched

\* A session once answered TERMINATE is answered TERMINATE until it is evicted: two calls that
\* race to create its agent never end up with two accumulators.
THEOREM SessionsTerminateIsFinal == Spec => []TerminateIsFinal
<1> DEFINE Inv == Core /\ OnlyIssuedCall /\ OneAgent /\ TerminateIsFinal
<1>1. Init => Inv
  <2>1. Init => OnlyIssuedCall /\ TerminateIsFinal
    BY DEF Init, OnlyIssuedCall, TerminateIsFinal
  <2>2. Init => OneAgent
    BY DEF Init, OneAgent
  <2> QED BY <2>1, <2>2, InitCore
<1>2. Inv /\ [Next]_vars => Inv'
  BY CoreStep, OnlyIssuedCallStep, OneAgentStep, TerminateStep
<1> QED BY <1>1, <1>2, PTL DEF Spec

-----------------------------------------------------------------------------
(* Nothing leaves unreported *)

Seeded == {"limit", "write", "token", "issued"}

\* A record of s was emitted, or the reaper is about to emit one.
ReportedOrDue(s) == s \in reported \/ (rpc = "report" /\ cells[victim].of = s)

\* No cell before the seed; afterwards a registered session has a managed cell, in the store,
\* or is reported.  Who is to remove it, or to start it anew, knows it reported.
NothingUnreported ==
  /\ \A s \in Managed, c \in Cells : cells[c].of = s =>
       reg[s] \in Seeded /\ (cells[c].managed \/ ReportedOrDue(s))
  /\ \A s \in Managed : reg[s] \in Seeded /\ sessions[s] = 0 => ReportedOrDue(s)
  /\ \A d \in Deleters : dpc[d] = "remove" /\ dsess[d] \in Managed => ReportedOrDue(dsess[d])
  /\ \A h \in Handlers : pc[h] = "init" /\ sess[h] \in Managed => ReportedOrDue(sess[h])

LEMMA ReportStays ==
  ASSUME Core, [Next]_vars, NEW s \in Managed, ReportedOrDue(s)
  PROVE  ReportedOrDue(s)'
<1> USE DEF Core, Types
<1>1. reported \subseteq reported'
  BY DEF Next, Call, Arrive, CheckBudget, FoundAgent, FindAgent, CreateAgent, LoadState,
     InitState, Score, Publish, JudgeCall, LogCall, CallStep, Register, BeginRoot, BeginChild,
     RecordParent, InheritRefs, SeedFromManifest, FetchState, SetDelegatedLimit, IssueToken,
     RegStep, Delete, BeginDelete, DeleteFound, ReportDeleted, RemoveDeleted, EvictDeleted,
     RevokeToken, Terminated, DelStep, Sweep, BeginSweep, JudgeCell, RemoveExpired, ReportExpired,
     EvictExpired, EndSweep, ReapStep, TimePasses, Report, reportVars, vars
<1>2. ASSUME rpc = "report", cells[victim].of = s
      PROVE  ReportedOrDue(s)'
  <2>1. CASE ReportExpired
    BY <1>2, <2>1 DEF ReportExpired, Report, ReportedOrDue
  <2>2. CASE UNCHANGED reapVars
    <3>1. victim \in Cells /\ cells[victim].of # None
      BY <1>2, IdsAssumption DEF NoNil, ReapTypeOK, AllSessions
    <3>2. cells'[victim].of = s
      BY <1>2, <3>1, CellsStay
    <3> QED BY <1>2, <2>2, <3>2 DEF reapVars, ReportedOrDue
  <2>3. ~(Sweep /\ ~ReportExpired)
    BY <1>2 DEF Sweep, BeginSweep, JudgeCell, RemoveExpired, EvictExpired, EndSweep, ReapStep
  <2> QED BY <2>1, <2>2, <2>3, ReapUntouched
<1> QED BY <1>1, <1>2 DEF ReportedOrDue

\* What a cell is of, and whether it is managed, is new for a new cell only.
LEMMA NewCell ==
  ASSUME Core, [Next]_vars, NEW c \in Cells,
         cells'[c].of # cells[c].of \/ cells'[c].managed # cells[c].managed
  PROVE  \/ \E h \in Handlers : InitState(h) /\ cells'[c].of = sess[h] /\ ~cells'[c].managed
         \/ \E s \in Managed : SeedFromManifest(s) /\ cells'[c].of = s /\ cells'[c].managed
<1> USE DEF Core, Types
<1>1. ~CellsKept /\ ~UNCHANGED mapVars
  BY DEF CellsKept, mapVars
<1>2. ASSUME NEW s \in AllSessions, NEW managed \in BOOLEAN, Allocate(s, managed)
      PROVE  cells'[c].of = s /\ cells'[c].managed = managed
  BY <1>2, AllocateDoes
<1>3. CASE \E h \in Handlers : InitState(h)
  <2>1. PICK h \in Handlers : InitState(h)
    BY <1>3
  <2>2. sess[h] \in AllSessions /\ Allocate(sess[h], FALSE)
    BY <2>1 DEF InitState, CallTypeOK
  <2> QED BY <1>2, <2>1, <2>2
<1>4. CASE \E s \in Managed : SeedFromManifest(s)
  <2>1. PICK s \in Managed : SeedFromManifest(s)
    BY <1>4
  <2>2. s \in AllSessions /\ Allocate(s, TRUE)
    BY <2>1 DEF SeedFromManifest, AllSessions
  <2> QED BY <1>2, <2>1, <2>2
<1> QED BY <1>1, <1>3, <1>4, StoreUntouched, StoreDoes

\* Once seeded, always seeded.
LEMMA SeededStays ==
  ASSUME RegTypeOK, [Next]_vars, NEW s \in Managed
  PROVE  /\ reg[s] \in Seeded => reg'[s] \in Seeded
         /\ reg'[s] \in Seeded => reg[s] \in Seeded \/ SeedFromManifest(s)
         /\ SeedFromManifest(s) => reg'[s] \in Seeded
<1>1. CASE \E t \in Managed : Register(t)
  <2>1. PICK t \in Managed : Register(t)
    BY <1>1
  <2>2. CASE SeedFromManifest(t)
    BY <2>2 DEF SeedFromManifest, RegStep, RegTypeOK, Seeded
  <2>3. CASE \/ BeginRoot(t) \/ RecordParent(t) \/ InheritRefs(t)
             \/ \E p \in Managed : BeginChild(t, p)
    BY <2>3 DEF BeginRoot, BeginChild, RecordParent, InheritRefs, SeedFromManifest, RegStep,
       RegTypeOK, Seeded
  <2>4. CASE FetchState(t) \/ SetDelegatedLimit(t) \/ IssueToken(t)
    BY <2>4 DEF FetchState, SetDelegatedLimit, IssueToken, SeedFromManifest, RegStep, RegTypeOK, Seeded
  <2> QED BY <2>1, <2>2, <2>3, <2>4 DEF Register
<1>2. CASE UNCHANGED regVars
  BY <1>2 DEF regVars, SeedFromManifest, RegStep, RegTypeOK, Seeded
<1> QED BY <1>1, <1>2, RegUntouched

LEMMA UnreportedStep ==
  ASSUME Core, OnlyIssuedCall, NothingUnreported, [Next]_vars
  PROVE  NothingUnreported'
<1> USE DEF Core, Types
<1>0. \A s \in Managed : ReportedOrDue(s) => ReportedOrDue(s)'
  BY ReportStays
<1>1. ASSUME NEW s \in Managed, NEW c \in Cells, cells'[c].of = s
      PROVE  reg'[s] \in Seeded /\ (cells'[c].managed \/ ReportedOrDue(s)')
  <2>1. CASE cells'[c].of = cells[c].of /\ cells'[c].managed = cells[c].managed
    BY <1>0, <1>1, <2>1, SeededStays DEF NothingUnreported
  <2>2. CASE \E h \in Handlers : InitState(h) /\ cells'[c].of = sess[h]
    <3>1. PICK h \in Handlers : InitState(h) /\ sess[h] = s
      BY <1>1, <2>2
    <3>2. pc[h] = "init"
      BY <3>1 DEF InitState, CallStep
    <3>3. reg[s] = "issued" /\ ReportedOrDue(s)
      BY <3>1, <3>2 DEF OnlyIssuedCall, NothingUnreported
    <3> QED BY <1>0, <3>3, IssuedStays DEF Seeded
  <2>3. CASE \E t \in Managed : SeedFromManifest(t) /\ cells'[c].of = t /\ cells'[c].managed
    BY <1>1, <2>3, SeededStays
  <2> QED BY <2>1, <2>2, <2>3, NewCell
<1>2. ASSUME NEW s \in Managed, reg'[s] \in Seeded, sessions'[s] = 0
      PROVE  ReportedOrDue(s)'
  <2>0. s \in AllSessions
    BY DEF AllSessions
  <2>1. CASE SeedFromManifest(s)
    <3>1. Allocate(s, TRUE)
      BY <2>1 DEF SeedFromManifest
    <3>2. sessions' = [sessions EXCEPT ![s] = made + 1]
      BY <3>1 DEF Allocate
    <3>3. sessions'[s] = made + 1 /\ made \in Nat
      BY <2>0, <3>2, SessionBounds DEF StoreTypeOK
    <3> QED BY <1>2, <3>3
  <2>2. CASE reg[s] \in Seeded /\ sessions[s] = 0
    BY <1>0, <2>2 DEF NothingUnreported
  <2>3. CASE reg[s] \in Seeded /\ sessions[s] # 0
    <3>1. CASE \E h \in Handlers : InitState(h) \/ (cell[h] # 0 /\ sessions' = [sessions EXCEPT ![sess[h]] = cell[h]])
      <4>1. PICK h \in Handlers, n \in Nat \ {0} : sessions' = [sessions EXCEPT ![sess[h]] = n]
        <5>1. ASSUME NEW h \in Handlers, InitState(h)
              PROVE  made + 1 \in Nat \ {0} /\ sessions' = [sessions EXCEPT ![sess[h]] = made + 1]
          BY <5>1 DEF InitState, Allocate, StoreTypeOK
        <5>2. \A h \in Handlers : cell[h] # 0 => cell[h] \in Nat \ {0}
          BY DEF CallTypeOK, Cells
        <5> QED BY <3>1, <5>1, <5>2
      <4> QED BY <1>2, <2>0, <2>3, <4>1 DEF StoreTypeOK
    <3>2. CASE \E t \in Managed : SeedFromManifest(t) /\ t # s
      BY <1>2, <2>0, <2>3, <3>2 DEF SeedFromManifest, Allocate, StoreTypeOK
    <3>3. CASE \E t \in Managed : got[t] \in Cells /\ sessions' = [sessions EXCEPT ![t] = got[t]]
      BY <1>2, <2>0, <2>3, <3>3 DEF StoreTypeOK, Cells
    <3>4. CASE \E d \in Deleters : RemoveDeleted(d) /\ sessions' = [sessions EXCEPT ![dsess[d]] = 0]
      <4>1. PICK d \in Deleters : RemoveDeleted(d) /\ sessions' = [sessions EXCEPT ![dsess[d]] = 0]
        BY <3>4
      <4>2. dsess[d] = s /\ dpc[d] = "remove"
        BY <1>2, <2>0, <2>3, <4>1 DEF RemoveDeleted, DelStep, StoreTypeOK
      <4> QED BY <1>0, <4>2 DEF NothingUnreported
    <3>5. CASE RemoveExpired /\ sessions' = [sessions EXCEPT ![cells[victim].of] = 0]
      <4>1. cells[victim].of = s /\ rpc = "remove" /\ victim \in Cells
        BY <1>2, <2>0, <2>3, <3>5 DEF RemoveExpired, ReapStep, StoreTypeOK, NoNil, ReapTypeOK
      <4>2. CASE cells[victim].managed
        <5>1. rpc' = "report" /\ UNCHANGED <<cells, victim>>
          BY <3>5, <4>2 DEF RemoveExpired, ReapStep
        <5> QED BY <4>1, <5>1 DEF ReportedOrDue
      <4>3. CASE ~cells[victim].managed
        BY <1>0, <4>1, <4>3 DEF NothingUnreported
      <4> QED BY <4>2, <4>3
    <3>6. ~UNCHANGED sessions
      BY <1>2, <2>3
    <3> QED
      BY <2>1, <3>1, <3>2, <3>3, <3>4, <3>5, <3>6, StoreUntouched, StoreDoes DEF mapVars
  <2> QED BY <1>2, <2>1, <2>2, <2>3, SeededStays
<1>3. ASSUME NEW d \in Deleters, NEW s \in Managed, dpc'[d] = "remove", dsess'[d] = s
      PROVE  ReportedOrDue(s)'
  <2> USE <1>3
  <2>2. CASE dpc[d] = "remove" /\ dsess[d] = s
    BY <1>0, <2>2 DEF NothingUnreported
  <2>3. CASE BeginDelete(d, s)
    <3>1. sessions[s] # 0 /\ ~cells[sessions[s]].managed
      BY <2>3 DEF BeginDelete, DeleteFound, DelStep, DelTypeOK
    <3>2. sessions[s] \in Cells /\ cells[sessions[s]].of = s
      BY <3>1 DEF StoreTypeOK, CellsBelong, AllSessions
    <3> QED BY <1>0, <3>1, <3>2 DEF NothingUnreported
  <2>4. CASE ReportDeleted(d)
    <3>1. s \in reported'
      BY <2>4 DEF ReportDeleted, Report, DelStep
    <3> QED BY <3>1 DEF ReportedOrDue
  <2>5. CASE UNCHANGED delVars
    BY <2>2, <2>5 DEF delVars
  <2>6. CASE \E f \in Deleters : Delete(f)
    <3>1. PICK f \in Deleters : Delete(f)
      BY <2>6
    <3>2. CASE f # d
      <4>1. dpc'[d] = dpc[d] /\ dsess'[d] = dsess[d]
        BY <3>1, <3>2 DEF Delete, BeginDelete, DeleteFound, ReportDeleted, RemoveDeleted,
           EvictDeleted, RevokeToken, Terminated, DelStep, DelTypeOK
      <4> QED BY <2>2, <4>1
    <3>3. CASE f = d /\ \E t \in AllSessions : BeginDelete(d, t)
      <4>1. \E t \in AllSessions : BeginDelete(d, t) /\ dsess'[d] = t
        BY <3>3 DEF BeginDelete, DeleteFound, DelTypeOK
      <4> QED BY <2>3, <4>1
    <3>4. ~(RemoveDeleted(d) \/ EvictDeleted(d) \/ RevokeToken(d))
      BY DEF RemoveDeleted, EvictDeleted, RevokeToken, Terminated, DelStep, DelTypeOK
    <3> QED BY <2>4, <3>1, <3>2, <3>3, <3>4 DEF Delete
  <2> QED BY <2>5, <2>6, DelUntouched
<1>4. ASSUME NEW h \in Handlers, NEW s \in Managed, pc'[h] = "init", sess'[h] = s
      PROVE  ReportedOrDue(s)'
  <2> USE <1>4
  <2>1. CASE pc[h] = "init" /\ sess[h] = s
    BY <1>0, <2>1 DEF NothingUnreported
  <2>2. CASE LoadState(h)
    <3>1. CallStep(h, "load", IF sessions[sess[h]] = 0 THEN "init" ELSE "score")
      BY <2>2 DEF LoadState
    <3>2. pc[h] = "load" /\ sess[h] = s /\ sessions[s] = 0
      BY <3>1, CallMoves
    <3>3. reg[s] \in Seeded
      BY <3>2 DEF OnlyIssuedCall, Seeded
    <3> QED BY <1>0, <3>2, <3>3 DEF NothingUnreported
  <2>3. CASE UNCHANGED callVars
    BY <2>1, <2>3 DEF callVars
  <2>4. CASE \E g \in Handlers : Call(g)
    <3>1. PICK g \in Handlers : Call(g)
      BY <2>4
    <3>2. CASE g # h
      BY <2>1, <3>1, <3>2, OthersStay
    <3>3. ASSUME NEW from, NEW to, CallStep(h, from, to)
          PROVE  to = "init"
      BY <3>3, CallMoves
    <3>4. ~(\/ CheckBudget(h) \/ FindAgent(h) \/ CreateAgent(h) \/ InitState(h) \/ Score(h)
            \/ Publish(h) \/ JudgeCall(h) \/ LogCall(h))
      BY <3>3 DEF CheckBudget, FindAgent, FoundAgent, CreateAgent, InitState, Score, Publish, JudgeCall, LogCall
    <3>5. \A t \in AllSessions, token \in BOOLEAN : ~Arrive(h, t, token)
      BY DEF Arrive, CallTypeOK
    <3> QED BY <2>2, <3>1, <3>2, <3>4, <3>5 DEF Call
  <2> QED BY <2>3, <2>4, CallsUntouched
<1>5. \A s \in Managed, c \in Cells : cells'[c].of = s =>
        reg'[s] \in Seeded /\ (cells'[c].managed \/ ReportedOrDue(s)')
  BY <1>1
<1>6. \A s \in Managed : reg'[s] \in Seeded /\ sessions'[s] = 0 => ReportedOrDue(s)'
  BY <1>2
<1>7. \A d \in Deleters, s \in Managed : dpc'[d] = "remove" /\ dsess'[d] = s => ReportedOrDue(s)'
  BY <1>3
<1>8. \A h \in Handlers, s \in Managed : pc'[h] = "init" /\ sess'[h] = s => ReportedOrDue(s)'
  BY <1>4
<1> QED BY <1>5, <1>6, <1>7, <1>8 DEF NothingUnreported, ReportedOrDue, Seeded

\* No registered session leaves the session store without a governance record, whichever of
\* DELETE and the reaper removes it and whoever puts it back in between.
THEOREM SessionsNothingLeavesUnreported == Spec => []NothingLeavesUnreported
<1> DEFINE Inv == Core /\ OnlyIssuedCall /\ NothingUnreported
<1>1. Init => Inv
  <2>1. Init => OnlyIssuedCall
    BY DEF Init, OnlyIssuedCall
  <2>2. Init => NothingUnreported
    BY IdsAssumption DEF Init, NothingUnreported, BlankCell, AllSessions, Seeded
  <2> QED BY <2>1, <2>2, InitCore
<1>2. Inv /\ [Next]_vars => Inv'
  BY CoreStep, OnlyIssuedCallStep, UnreportedStep
<1>3. Inv => NothingLeavesUnreported
  BY DEF NothingUnreported, NothingLeavesUnreported, ReportedOrDue, Seeded
<1> QED BY <1>1, <1>2, <1>3, PTL DEF Spec

-----------------------------------------------------------------------------
(* A child's limit *)

\* Who may still read or store cell c for s: the store itself, and the calls that fetched it.
Held(s, c) == sessions[s] = c \/ \E h \in Handlers : sess[h] = s /\ cell[h] = c

\* A budget is opened by the first call's "budget" step, before that call holds a cell.  From
\* the end of the child's registration on, the managed cells still held for it are limited;
\* and if the budget was opened with the policy's limit, none is held.
LimitKept ==
  /\ \A h \in Handlers :
       /\ pc[h] = "budget" => cell[h] = 0
       /\ pc[h] \notin {"idle", "budget"} => budgets[sess[h]] # "none"
  /\ \A s \in Managed : budgets[s] # "none" => reg[s] = "issued"
  /\ \A s \in Managed, c \in Cells :
       DelegatedLimits /\ claimed[s] # None /\ Held(s, c) /\ cells[c].managed =>
         /\ reg[s] \in {"token", "issued"} => cells[c].limited
         /\ budgets[s] # "policy"

\* What a session comes to hold is what it held, an unmanaged cell a call made, or what its own
\* registration stored.
LEMMA HeldMoves ==
  ASSUME Core, [Next]_vars, NEW s \in Managed, NEW c \in Cells,
         sessions'[s] = c \/ \E h \in Handlers : sess'[h] = s /\ cell'[h] = c
  PROVE  \/ Held(s, c)
         \/ ~cells'[c].managed
         \/ SeedFromManifest(s)
         \/ SetDelegatedLimit(s) /\ cells'[c].limited
<1> USE DEF Core, Types
<1>0. s \in AllSessions /\ c # 0
  BY DEF AllSessions, Cells
<1>1. ASSUME NEW h \in Handlers, InitState(h)
      PROVE  /\ sessions' = [sessions EXCEPT ![sess[h]] = made + 1]
             /\ cell' = [cell EXCEPT ![h] = made + 1]
             /\ ~cells'[made + 1].managed /\ sess' = sess
  <2>1. Allocate(sess[h], FALSE) /\ sess[h] \in AllSessions
    BY <1>1 DEF InitState, CallTypeOK
  <2>2. ~cells'[made + 1].managed
    BY <2>1, AllocateDoes
  <2> QED BY <1>1, <2>1, <2>2 DEF InitState, CallStep, Allocate
<1>2. CASE sessions'[s] = c
  <2>1. CASE \E h \in Handlers : InitState(h)
    <3>1. PICK h \in Handlers : InitState(h)
      BY <2>1
    <3> QED BY <1>0, <1>1, <1>2, <3>1 DEF StoreTypeOK, Held
  <2>2. CASE \E t \in Managed : SeedFromManifest(t) /\ t # s
    BY <1>0, <1>2, <2>2 DEF SeedFromManifest, Allocate, StoreTypeOK, Held
  <2>3. CASE \E h \in Handlers : cell[h] # 0 /\ sessions' = [sessions EXCEPT ![sess[h]] = cell[h]]
    BY <1>0, <1>2, <2>3 DEF StoreTypeOK, Held
  <2>4. CASE \E t \in Managed : /\ SetDelegatedLimit(t) /\ cells'[got[t]].limited
                                /\ sessions' = [sessions EXCEPT ![t] = got[t]]
    BY <1>0, <1>2, <2>4 DEF StoreTypeOK, Held
  <2>5. CASE \E x : sessions' = [sessions EXCEPT ![x] = 0]
    BY <1>0, <1>2, <2>5 DEF StoreTypeOK, Held
  <2>6. CASE UNCHANGED sessions
    BY <1>2, <2>6 DEF Held
  <2> QED BY <2>1, <2>2, <2>3, <2>4, <2>5, <2>6, StoreUntouched, StoreDoes DEF mapVars
<1>3. ASSUME NEW h \in Handlers, sess'[h] = s, cell'[h] = c
      PROVE  Held(s, c) \/ ~cells'[c].managed
  <2>1. CASE UNCHANGED <<sess, cell>>
    BY <1>3, <2>1 DEF Held
  <2>2. CASE \E g \in Handlers : Call(g) /\ g # h
    <3>1. PICK g \in Handlers : Call(g) /\ g # h
      BY <2>2
    <3>2. sess'[h] = sess[h] /\ cell'[h] = cell[h]
      BY <3>1, OthersStay
    <3> QED BY <1>3, <3>2 DEF Held
  <2>3. CASE Call(h)
    <3>1. CASE \E t \in AllSessions, token \in BOOLEAN : Arrive(h, t, token)
      <4>1. cell'[h] = cell[h] /\ pc[h] = "idle"
        BY <3>1 DEF Arrive
      <4> QED BY <1>0, <1>3, <4>1 DEF CellsBelong
    <3>2. CASE LoadState(h)
      <4>1. cell'[h] = sessions[sess[h]] /\ sess' = sess
        BY <3>2 DEF LoadState, CallStep, CallTypeOK
      <4> QED BY <1>3, <4>1 DEF Held
    <3>3. CASE InitState(h)
      BY <1>1, <1>3, <3>3 DEF CallTypeOK
    <3>4. CASE LogCall(h)
      <4>1. cell'[h] = 0
        BY <3>4 DEF LogCall, CallTypeOK
      <4> QED BY <1>0, <1>3, <4>1
    <3>5. CASE \/ CheckBudget(h) \/ FindAgent(h) \/ CreateAgent(h) \/ Score(h) \/ Publish(h)
               \/ JudgeCall(h)
      BY <2>1, <3>5 DEF CheckBudget, FindAgent, FoundAgent, CreateAgent, Score, Publish, JudgeCall,
         CallStep
    <3> QED BY <2>3, <3>1, <3>2, <3>3, <3>4, <3>5 DEF Call
  <2>4. CASE UNCHANGED callVars
    BY <2>1, <2>4 DEF callVars
  <2> QED BY <2>2, <2>3, <2>4, CallsUntouched
<1> QED BY <1>2, <1>3

\* Budgets change when the first call reaches the checker, and only then.
LEMMA BudgetOpens ==
  ASSUME Core, [Next]_vars, NEW s \in AllSessions
  PROVE  \/ budgets'[s] = budgets[s]
         \/ \E h \in Handlers :
              /\ CheckBudget(h) /\ sess[h] = s /\ pc[h] = "budget" /\ budgets[s] = "none"
              /\ budgets'[s] = "policy" =>
                   sessions[s] = 0 \/ ~cells[sessions[s]].limited
<1> USE DEF Core, Types
<1>1. CASE \E h \in Handlers : CheckBudget(h)
  <2>1. PICK h \in Handlers : CheckBudget(h)
    BY <1>1
  <2> DEFINE limited == sessions[sess[h]] # 0 /\ cells[sessions[sess[h]]].limited
             open == IF budgets[sess[h]] # "none" THEN budgets[sess[h]]
                     ELSE IF limited THEN "delegated" ELSE "policy"
  <2>2. budgets' = [budgets EXCEPT ![sess[h]] = open] /\ pc[h] = "budget"
    BY <2>1 DEF CheckBudget, CallStep
  <2>3. budgets'[s] = IF s = sess[h] THEN open ELSE budgets[s]
    BY <2>2 DEF BudgetTypeOK
  <2> QED BY <2>1, <2>2, <2>3
<1>2. CASE UNCHANGED budgets
  BY <1>2
<1>3. (\E h \in Handlers : CheckBudget(h)) \/ UNCHANGED budgets
  BY DEF Next, vars, Call, Arrive, FoundAgent, FindAgent, CreateAgent, LoadState,
     InitState, Score, Publish, JudgeCall, LogCall, CallStep, Register, BeginRoot, BeginChild,
     RecordParent, InheritRefs, SeedFromManifest, FetchState, SetDelegatedLimit, IssueToken,
     RegStep, Delete, BeginDelete, DeleteFound, ReportDeleted, RemoveDeleted, EvictDeleted,
     RevokeToken, Terminated, DelStep, Sweep, BeginSweep, JudgeCell, RemoveExpired, ReportExpired,
     EvictExpired, EndSweep, ReapStep, TimePasses
<1> QED BY <1>1, <1>2, <1>3

\* How far a registration gets in a step.
LEMMA RegistrationMoves ==
  ASSUME RegTypeOK, [Next]_vars, NEW s \in Managed
  PROVE  /\ claimed'[s] = claimed[s] \/ reg[s] = "unused"
         /\ reg'[s] \in {"token", "issued"} =>
              \/ reg[s] \in {"token", "issued"} /\ ~SeedFromManifest(s) /\ ~SetDelegatedLimit(s)
              \/ reg[s] = "write" /\ SetDelegatedLimit(s)
              \/ FetchState(s) /\ sessions[s] = 0
              \/ SeedFromManifest(s) /\ ~(claimed[s] # None /\ DelegatedLimits)
         /\ reg[s] = "issued" => claimed'[s] = claimed[s]
<1>1. CASE \E t \in Managed : Register(t)
  BY <1>1 DEF Register, BeginRoot, BeginChild, RecordParent, InheritRefs, SeedFromManifest,
     FetchState, SetDelegatedLimit, IssueToken, RegStep, RegTypeOK
<1>2. CASE UNCHANGED regVars
  BY <1>2 DEF regVars, SeedFromManifest, SetDelegatedLimit, RegStep, RegTypeOK
<1> QED BY <1>1, <1>2, RegUntouched

LEMMA LimitStep ==
  ASSUME Core, OnlyIssuedCall, LimitKept, [Next]_vars
  PROVE  LimitKept'
<1> USE DEF Core, Types
<1>0. ASSUME NEW s \in AllSessions, budgets[s] # "none"
      PROVE  budgets'[s] = budgets[s]
  BY <1>0, BudgetOpens
<1>1. ASSUME NEW h \in Handlers
      PROVE  /\ pc'[h] = "budget" => cell'[h] = 0
             /\ pc'[h] \notin {"idle", "budget"} => budgets'[sess'[h]] # "none"
  <2>0. sess[h] \in AllSessions
    BY DEF CallTypeOK
  <2>1. CASE pc'[h] = pc[h] /\ sess'[h] = sess[h] /\ cell'[h] = cell[h]
    BY <1>0, <2>0, <2>1 DEF LimitKept
  <2>2. CASE Call(h)
    <3>1. CASE \E s \in AllSessions, token \in BOOLEAN : Arrive(h, s, token)
      <4>1. pc[h] = "idle" /\ pc'[h] = "budget" /\ cell' = cell
        BY <3>1 DEF Arrive, CallTypeOK
      <4> QED BY <4>1 DEF CellsBelong
    <3>2. CASE CheckBudget(h)
      <4>1. \E to \in {"agent", "log"} : CallStep(h, "budget", to)
        BY <3>2 DEF CheckBudget
      <4>2. pc'[h] \in {"agent", "log"} /\ sess' = sess
        BY <4>1, CallMoves
      <4>3. budgets'[sess[h]] # "none"
        BY <2>0, <3>2 DEF CheckBudget, BudgetTypeOK
      <4> QED BY <4>2, <4>3
    <3>3. ASSUME NEW from, NEW to, CallStep(h, from, to), from \notin {"idle", "budget"},
                 to # "budget"
          PROVE  /\ pc'[h] # "budget"
                 /\ pc'[h] \notin {"idle", "budget"} => budgets'[sess'[h]] # "none"
      BY <1>0, <2>0, <3>3, CallMoves DEF LimitKept
    <3>4. CASE \/ FindAgent(h) \/ CreateAgent(h) \/ LoadState(h) \/ InitState(h) \/ Score(h)
               \/ Publish(h) \/ JudgeCall(h) \/ LogCall(h)
      <4>1. \E from, to : CallStep(h, from, to) /\ from \notin {"idle", "budget"} /\ to # "budget"
        BY <3>4 DEF FindAgent, FoundAgent, CreateAgent, LoadState, InitState, Score, Publish,
           JudgeCall, LogCall
      <4> QED BY <3>3, <4>1
    <3> QED BY <2>2, <3>1, <3>2, <3>4 DEF Call
  <2>3. CASE \E g \in Handlers : Call(g) /\ g # h
    BY <2>1, <2>3, OthersStay
  <2>4. CASE UNCHANGED callVars
    BY <2>1, <2>4 DEF callVars
  <2> QED BY <2>2, <2>3, <2>4, CallsUntouched
<1>2. ASSUME NEW s \in Managed, budgets'[s] # "none"
      PROVE  reg'[s] = "issued" /\ reg[s] = "issued"
  <2>0. s \in AllSessions
    BY DEF AllSessions
  <2>1. reg[s] = "issued"
    BY <1>2, <2>0, BudgetOpens DEF LimitKept, OnlyIssuedCall
  <2> QED BY <2>1, IssuedStays
<1>3. ASSUME NEW s \in Managed, NEW c \in Cells, DelegatedLimits, claimed'[s] # None,
             sessions'[s] = c \/ \E h \in Handlers : sess'[h] = s /\ cell'[h] = c,
             cells'[c].managed
      PROVE  /\ reg'[s] \in {"token", "issued"} => cells'[c].limited
             /\ budgets'[s] # "policy"
  <2>0. s \in AllSessions /\ c # 0
    BY DEF AllSessions, Cells
  <2>1. ASSUME Held(s, c)
        PROVE  cells[c].managed /\ (cells[c].limited => cells'[c].limited)
    <3>1. cells[c].of # None
      BY <2>0, <2>1, IdsAssumption DEF Held, CellsBelong
    <3> QED BY <1>3, <3>1, CellsStay
  <2>2. ASSUME reg'[s] \in {"token", "issued"}
        PROVE  cells'[c].limited
    <3>1. CASE reg[s] \in {"token", "issued"} /\ ~SeedFromManifest(s) /\ ~SetDelegatedLimit(s)
      <4>1. Held(s, c) /\ claimed[s] # None
        BY <1>3, <3>1, HeldMoves, RegistrationMoves
      <4> QED BY <1>3, <2>1, <3>1, <4>1 DEF LimitKept
    <3>2. ASSUME reg[s] # "issued", NEW h \in Handlers, sess[h] = s
          PROVE  cell[h] = 0
      BY <3>2 DEF OnlyIssuedCall, CellsBelong
    <3>3. CASE reg[s] = "write" /\ SetDelegatedLimit(s)
      <4>1. cells'[got[s]].limited /\ sessions' = [sessions EXCEPT ![s] = got[s]]
        BY <3>3, SetDelegatedLimitDoes DEF NoNil, RegTypeOK
      <4>2. UNCHANGED <<sess, cell>>
        BY <3>3 DEF SetDelegatedLimit, RegStep, callVars
      <4>3. sessions'[s] = c
        BY <1>3, <2>0, <3>2, <3>3, <4>2
      <4> QED BY <2>0, <4>1, <4>3 DEF StoreTypeOK
    <3>4. CASE FetchState(s) /\ sessions[s] = 0
      <4>1. reg[s] = "limit" /\ UNCHANGED <<sessions, sess, cell>>
        BY <3>4 DEF FetchState, RegStep, callVars, mapVars
      <4> QED BY <1>3, <2>0, <3>2, <3>4, <4>1
    <3>5. ~(SeedFromManifest(s) /\ ~(claimed[s] # None /\ DelegatedLimits))
      BY <1>3 DEF SeedFromManifest
    <3> QED BY <2>2, <3>1, <3>3, <3>4, <3>5, RegistrationMoves
  <2>3. ASSUME budgets'[s] = "policy"
        PROVE  FALSE
    <3>1. reg[s] = "issued" /\ claimed[s] # None
      BY <1>2, <1>3, <2>3, RegistrationMoves
    <3>2. Held(s, c)
      <4>1. ~SeedFromManifest(s) /\ ~SetDelegatedLimit(s)
        BY <3>1 DEF SeedFromManifest, SetDelegatedLimit, RegStep
      <4> QED BY <1>3, <4>1, HeldMoves
    <3>3. cells[c].managed /\ cells[c].limited
      BY <1>3, <2>1, <3>1, <3>2 DEF LimitKept
    <3>4. budgets[s] # "policy"
      BY <1>3, <2>1, <3>1, <3>2 DEF LimitKept
    <3>5. budgets[s] = "none" /\ (sessions[s] = 0 \/ ~cells[sessions[s]].limited)
      BY <2>0, <2>3, <3>4, BudgetOpens
    <3>6. \A h \in Handlers : sess[h] = s => cell[h] = 0
      BY <3>5 DEF LimitKept, CellsBelong
    <3> QED BY <2>0, <3>2, <3>3, <3>5, <3>6 DEF Held
  <2> QED BY <2>2, <2>3
<1>4. \A h \in Handlers :
        /\ pc'[h] = "budget" => cell'[h] = 0
        /\ pc'[h] \notin {"idle", "budget"} => budgets'[sess'[h]] # "none"
  BY <1>1
<1>5. \A s \in Managed : budgets'[s] # "none" => reg'[s] = "issued"
  BY <1>2
<1>6. \A s \in Managed, c \in Cells :
        /\ DelegatedLimits /\ claimed'[s] # None /\ cells'[c].managed
        /\ sessions'[s] = c \/ \E h \in Handlers : sess'[h] = s /\ cell'[h] = c
        => /\ reg'[s] \in {"token", "issued"} => cells'[c].limited
           /\ budgets'[s] # "policy"
  BY <1>3
<1> QED BY <1>4, <1>5, <1>6 DEF LimitKept, Held

\* A registered child whose session still stands in the store runs under its delegated limit:
\* its parent's fraction, never the policy's own.
THEOREM SessionsChildLimitHolds == Spec => []ChildLimitHolds
<1> DEFINE Inv == Core /\ OnlyIssuedCall /\ LimitKept
<1>1. Init => Inv
  <2>1. Init => OnlyIssuedCall
    BY DEF Init, OnlyIssuedCall
  <2>2. Init => LimitKept
    BY DEF Init, LimitKept, AllSessions
  <2> QED BY <2>1, <2>2, InitCore
<1>2. Inv /\ [Next]_vars => Inv'
  BY CoreStep, OnlyIssuedCallStep, LimitStep
<1>3. Inv => ChildLimitHolds
  BY DEF Core, Types, StoreTypeOK, LimitKept, ChildLimitHolds, Held, AllSessions
<1> QED BY <1>1, <1>2, <1>3, PTL DEF Spec

=============================================================================
