------------------------------ MODULE Sessions ------------------------------
(***************************************************************************)
(* The life of a session across the stores that hold a piece of it, none of *)
(* which shares a lock with another: the session store (pkg/store), the     *)
(* fleet's agents (pkg/agent), the manifest store's tokens (pkg/manifest),  *)
(* the delegation store, the budget checker's own sessions, and the audit   *)
(* ring a governance record is drawn from.                                  *)
(*                                                                          *)
(* Four kinds of goroutine work on them: handlers of /intercept calls, the  *)
(* handlers of POST /agents/register (one per session id: ids are random),  *)
(* the handlers of DELETE /api/sessions/{id}, and the reaper.  A step is    *)
(* what one of them does between two lock operations.                       *)
(*                                                                          *)
(*   call      idle -> budget -> agent -> (create) -> load -> (init)        *)
(*                  -> score -> publish -> judge -> log -> idle             *)
(*   register  unused -> record -> inherit -> seed -> limit -> write        *)
(*                  -> token -> issued        (or refused)                  *)
(*   delete    idle -> report -> remove -> evict -> revoke -> idle          *)
(*   reaper    idle -> judge -> remove -> report -> evict -> judge ...      *)
(*                                                                          *)
(* The session store keeps pointers: a goroutine that fetched one goes on   *)
(* using it after the store has let go of it, and Set puts it back.  Hence  *)
(* cells, numbered in the order they are allocated; so too the agents.      *)
(* Lineage graphs, which the reaper also evicts, are left out.              *)
(***************************************************************************)
EXTENDS Integers, FiniteSets

CONSTANTS
  Managed,    \* the ids registrations draw
  Anonymous,  \* the ids unregistered agents make up
  Handlers, Deleters,
  None,       \* no session
  DelegatedLimits, \* is delegationFraction positive?
  Limits,     \* which of idleTimeoutMinutes ("idle") and maxDurationMinutes
              \* ("aged") are set; the reaper runs if one is
  MaxCalls,   \* bound: calls to /intercept
  MaxCells,   \* bound: SessionStates allocated
  MaxAgents,  \* bound: SessionAgents allocated
  MaxDeletes  \* bound: DELETE requests

AllSessions == Managed \cup Anonymous
Cells  == 1 .. MaxCells
Agents == 1 .. MaxAgents

ASSUME IdsAssumption ==
  /\ Managed \cap Anonymous = {}
  /\ AllSessions # {}
  /\ None \notin AllSessions
ASSUME SwitchesAssumption ==
  DelegatedLimits \in BOOLEAN /\ Limits \subseteq {"idle", "aged"}
ASSUME SessionBounds ==
  MaxCalls \in Nat /\ MaxCells \in Nat /\ MaxAgents \in Nat /\ MaxDeletes \in Nat

VARIABLES
  \* the stores
  sessions,  \* MemoryStore.sessions: the cell of a session, 0 when absent
  cells,     \* the SessionStates themselves
  made,      \* cells allocated so far
  agents,    \* FleetManager.agents: the agent of a session, 0 when absent
  hot,       \* has an agent's risk reached the terminate threshold?
  spawned,   \* agents allocated so far
  tokens,    \* manifest.Store.bySession: sessions whose token verifies
  parents,   \* DelegationStore.parents
  budgets,   \* SessionBudgetChecker.sessions: the call limit each runs under
  \* the audit ring and the governance records drawn from it
  recent,    \* audit records of a session younger than its last report
  reported,  \* sessions a governance record was emitted for
  \* /intercept handlers
  pc, sess, agent, cell, verdict, calls,
  \* /agents/register handlers, one per managed id
  reg, claimed, got,
  \* DELETE handlers
  dpc, dsess, deletes,
  \* the reaper
  rpc, todo, victim,
  \* ghosts
  epoch,     \* times a session was evicted from the fleet
  doomed,    \* <<session, epoch>>s in which a call was judged TERMINATE
  warned,    \* did the call in hand arrive in a doomed epoch?
  since,     \* the epoch it arrived in
  deleted,   \* sessions a DELETE answered "terminated" for
  overtaken  \* those of them whose registration was still going on at the last one

mapVars   == <<sessions, cells, made>>
fleetVars == <<agents, hot, spawned, epoch>>
callVars  == <<pc, sess, agent, cell, verdict, calls, doomed, warned, since>>
regVars   == <<reg, claimed, got>>
delVars   == <<dpc, dsess, deletes, deleted, overtaken>>
reapVars  == <<rpc, todo, victim>>
reportVars == <<recent, reported>>
vars == <<mapVars, fleetVars, tokens, parents, budgets, reportVars,
          callVars, regVars, delVars, reapVars>>

\* The zero SessionState; overdue says what a sweep would find of its times.
BlankCell == [of |-> None, managed |-> FALSE, limited |-> FALSE, overdue |-> "no"]

\* A cell is allocated for s and stored under it.
Allocate(s, managed) ==
  /\ made < MaxCells
  /\ made' = made + 1
  /\ cells' = [cells EXCEPT ![made + 1] =
                 [BlankCell EXCEPT !.of = s, !.managed = managed]]
  /\ sessions' = [sessions EXCEPT ![s] = made + 1]

Spawn(s) ==
  /\ spawned < MaxAgents
  /\ spawned' = spawned + 1
  /\ agents' = [agents EXCEPT ![s] = spawned + 1]
  /\ UNCHANGED <<hot, epoch>>

\* FleetManager.Evict
EvictAgent(s) ==
  /\ agents' = [agents EXCEPT ![s] = 0]
  /\ epoch' = [epoch EXCEPT ![s] = @ + 1]
  /\ UNCHANGED <<hot, spawned>>

\* EmitGovernanceRecord: what the ring holds of s now.
Report(s) ==
  /\ reported' = reported \cup {s}
  /\ recent' = [recent EXCEPT ![s] = 0]

-----------------------------------------------------------------------------
(* A call: SessionBudgetChecker.Check and FleetManager.Validate *)

CallStep(h, from, to) ==
  /\ pc[h] = from
  /\ pc' = [pc EXCEPT ![h] = to]
  /\ UNCHANGED <<sess, calls, tokens, parents, reported, regVars,
                 delVars, reapVars>>

\* A call enters the pipeline with a token that verifies or without one; an
\* id registration drew is unknown to agents until the registration answers.
CanCall(s, token) ==
  IF s \in Managed THEN reg[s] = "issued" /\ (token => s \in tokens) ELSE ~token

Arrive(h, s, token) ==
  /\ pc[h] = "idle"
  /\ calls < MaxCalls
  /\ CanCall(s, token)
  /\ calls' = calls + 1
  /\ pc' = [pc EXCEPT ![h] = "budget"]
  /\ sess' = [sess EXCEPT ![h] = s]
  /\ warned' = [warned EXCEPT ![h] = (<<s, epoch[s]>> \in doomed)]
  /\ since' = [since EXCEPT ![h] = epoch[s]]
  /\ UNCHANGED <<mapVars, fleetVars, tokens, parents, budgets, reportVars,
                 agent, cell, verdict, doomed, regVars, delVars, reapVars>>

\* getOrCreateSession reads the delegated limit when it first sees the session;
\* a session over its budget goes no further.
CheckBudget(h) ==
  LET s == sess[h]
      limited == sessions[s] # 0 /\ cells[sessions[s]].limited
  IN  /\ budgets' = [budgets EXCEPT ![s] =
           IF @ # "none" THEN @ ELSE IF limited THEN "delegated" ELSE "policy"]
      /\ \E to \in {"agent", "log"} : CallStep(h, "budget", to)
      /\ UNCHANGED <<mapVars, fleetVars, recent, agent, cell, verdict, doomed,
                     warned, since>>

FoundAgent(h, absent) ==
  /\ CallStep(h, "agent", IF agents[sess[h]] = 0 THEN absent ELSE "load")
  /\ agent' = [agent EXCEPT ![h] = agents[sess[h]]]
  /\ UNCHANGED <<mapVars, fleetVars, budgets, recent, cell, verdict, doomed,
                 warned, since>>

\* Mutant of FindAgent: an agent that is not there is used.
FindAgentOrNil(h) == FoundAgent(h, "load")

\* getOrCreate's fast path, under the read lock.
FindAgent(h) == FoundAgent(h, "create")

\* Mutant of CreateAgent: no second look under the write lock.
CreateAgentUnchecked(h) ==
  /\ CallStep(h, "create", "load")
  /\ Spawn(sess[h])
  /\ agent' = [agent EXCEPT ![h] = spawned + 1]
  /\ UNCHANGED <<mapVars, budgets, recent, cell, verdict, doomed, warned, since>>

\* Its slow path, which looks again under the write lock.
CreateAgent(h) ==
  /\ CallStep(h, "create", "load")
  /\ IF agents[sess[h]] = 0 THEN Spawn(sess[h]) ELSE UNCHANGED fleetVars
  /\ agent' = [agent EXCEPT ![h] = agents'[sess[h]]]
  /\ UNCHANGED <<mapVars, budgets, recent, cell, verdict, doomed, warned, since>>

\* loadOrInit: Get, and on a miss a Set of a new state.
LoadState(h) ==
  /\ CallStep(h, "load", IF sessions[sess[h]] = 0 THEN "init" ELSE "score")
  /\ cell' = [cell EXCEPT ![h] = sessions[sess[h]]]
  /\ UNCHANGED <<mapVars, fleetVars, budgets, recent, agent, verdict, doomed,
                 warned, since>>

InitState(h) ==
  /\ CallStep(h, "init", "score")
  /\ Allocate(sess[h], FALSE)
  /\ cell' = [cell EXCEPT ![h] = made + 1]
  /\ UNCHANGED <<fleetVars, budgets, recent, agent, verdict, doomed, warned, since>>

\* The signals of this call may take the agent's risk over the threshold
\* (what raises it, and by how much, is left out).
Score(h) ==
  /\ CallStep(h, "score", "publish")
  /\ \E risky \in BOOLEAN : hot' = [hot EXCEPT ![agent[h]] = @ \/ risky]
  /\ UNCHANGED <<mapVars, agents, spawned, epoch, budgets, recent, agent, cell,
                 verdict, doomed, warned, since>>

\* UpdatedAt is set and the state stored, whatever became of the session.
Publish(h) ==
  /\ CallStep(h, "publish", "judge")
  /\ cells' = [cells EXCEPT ![cell[h]].overdue = IF @ = "idle" THEN "no" ELSE @]
  /\ sessions' = [sessions EXCEPT ![sess[h]] = cell[h]]
  /\ UNCHANGED <<made, fleetVars, budgets, recent, agent, cell, verdict, doomed,
                 warned, since>>

JudgeCall(h) ==
  /\ CallStep(h, "judge", "log")
  /\ verdict' = [verdict EXCEPT ![h] = hot[agent[h]]]
  /\ doomed' = IF hot[agent[h]] /\ since[h] = epoch[sess[h]]
               THEN doomed \cup {<<sess[h], since[h]>>} ELSE doomed
  /\ UNCHANGED <<mapVars, fleetVars, budgets, recent, agent, cell, warned, since>>

\* The audit record reaches the ring and the call is over.
LogCall(h) ==
  /\ CallStep(h, "log", "idle")
  /\ recent' = [recent EXCEPT ![sess[h]] = @ + 1]
  /\ agent' = [agent EXCEPT ![h] = 0]
  /\ cell' = [cell EXCEPT ![h] = 0]
  /\ verdict' = [verdict EXCEPT ![h] = FALSE]
  /\ warned' = [warned EXCEPT ![h] = FALSE]
  /\ since' = [since EXCEPT ![h] = 0]
  /\ UNCHANGED <<mapVars, fleetVars, budgets, doomed>>

-----------------------------------------------------------------------------
(* registerAgent, for the id s it drew *)

RegStep(s, from, to) ==
  /\ reg[s] = from
  /\ reg' = [reg EXCEPT ![s] = to]
  /\ UNCHANGED <<budgets, reportVars, callVars, delVars, reapVars>>

\* A root needs no proof; a child's registration must present its parent's
\* token and stay within its scope.
BeginRoot(s) ==
  /\ RegStep(s, "unused", "seed")
  /\ UNCHANGED <<mapVars, fleetVars, tokens, parents, claimed, got>>

\* Mutant of BeginChild: parent_session_id is believed.
BeginChildUnverified(s, p) ==
  /\ RegStep(s, "unused", "record")
  /\ p # s
  /\ claimed' = [claimed EXCEPT ![s] = p]
  /\ UNCHANGED <<mapVars, fleetVars, tokens, parents, got>>

BeginChild(s, p) ==
  /\ \E to \in {"record", "refused"} : RegStep(s, "unused", to)
  /\ p \in tokens
  /\ claimed' = [claimed EXCEPT ![s] = p]
  /\ UNCHANGED <<mapVars, fleetVars, tokens, parents, got>>

RecordParent(s) ==
  /\ RegStep(s, "record", "inherit")
  /\ parents' = [parents EXCEPT ![s] = claimed[s]]
  /\ UNCHANGED <<mapVars, fleetVars, tokens, claimed, got>>

\* Claims about inherited data are checked after the parent was recorded.
InheritRefs(s) ==
  /\ \E to \in {"seed", "refused"} : RegStep(s, "inherit", to)
  /\ UNCHANGED <<mapVars, fleetVars, tokens, parents, claimed, got>>

\* SeedFromManifest, under the fleet's lock.
SeedFromManifest(s) ==
  /\ RegStep(s, "seed", IF claimed[s] # None /\ DelegatedLimits
                        THEN "limit" ELSE "token")
  /\ Spawn(s)
  /\ Allocate(s, TRUE)
  /\ UNCHANGED <<tokens, parents, claimed, got>>

\* s.sessions.Get, then the limit is written and the state Set again.
FetchState(s) ==
  /\ RegStep(s, "limit", IF sessions[s] = 0 THEN "token" ELSE "write")
  /\ got' = [got EXCEPT ![s] = sessions[s]]
  /\ UNCHANGED <<mapVars, fleetVars, tokens, parents, claimed>>

\* Mutant of SetDelegatedLimit: the limit is never written.
SetDelegatedLimitForgotten(s) ==
  /\ RegStep(s, "write", "token")
  /\ UNCHANGED <<mapVars, fleetVars, tokens, parents, claimed, got>>

SetDelegatedLimit(s) ==
  /\ RegStep(s, "write", "token")
  /\ cells' = [cells EXCEPT ![got[s]].limited = TRUE]
  /\ sessions' = [sessions EXCEPT ![s] = got[s]]
  /\ UNCHANGED <<made, fleetVars, tokens, parents, claimed, got>>

\* manifest.Store.Register; the answer carries the token.
IssueToken(s) ==
  /\ RegStep(s, "token", "issued")
  /\ tokens' = tokens \cup {s}
  /\ UNCHANGED <<mapVars, fleetVars, parents, claimed, got>>

-----------------------------------------------------------------------------
(* deleteSession; GET /api/sessions lists whatever the store holds *)

DelStep(d, from, to) ==
  /\ dpc[d] = from
  /\ dpc' = [dpc EXCEPT ![d] = to]
  /\ UNCHANGED <<budgets, parents, callVars, regVars, reapVars>>

DeleteFound(d, s, first) ==
  /\ deletes < MaxDeletes
  /\ sessions[s] # 0
  /\ DelStep(d, "idle", IF cells[sessions[s]].managed THEN first ELSE "remove")
  /\ deletes' = deletes + 1
  /\ dsess' = [dsess EXCEPT ![d] = s]
  /\ UNCHANGED <<mapVars, fleetVars, tokens, reportVars, deleted, overtaken>>

\* Mutant of BeginDelete: only the reaper reports what it removes.
BeginDeleteUnreported(d, s) == DeleteFound(d, s, "remove")

BeginDelete(d, s) == DeleteFound(d, s, "report")

ReportDeleted(d) ==
  /\ DelStep(d, "report", "remove")
  /\ Report(dsess[d])
  /\ UNCHANGED <<mapVars, fleetVars, tokens, dsess, deletes, deleted, overtaken>>

RemoveDeleted(d) ==
  /\ DelStep(d, "remove", "evict")
  /\ sessions' = [sessions EXCEPT ![dsess[d]] = 0]
  /\ UNCHANGED <<cells, made, fleetVars, tokens, reportVars, dsess, deletes, deleted, overtaken>>

EvictDeleted(d) ==
  /\ DelStep(d, "evict", "revoke")
  /\ EvictAgent(dsess[d])
  /\ UNCHANGED <<mapVars, tokens, reportVars, dsess, deletes, deleted, overtaken>>

Terminated(d, left) ==
  /\ DelStep(d, "revoke", "idle")
  /\ tokens' = left
  /\ deleted' = deleted \cup {dsess[d]}
  /\ overtaken' = IF dsess[d] \in Managed /\ reg[dsess[d]] # "issued"
                  THEN overtaken \cup {dsess[d]} ELSE overtaken \ {dsess[d]}
  /\ UNCHANGED <<mapVars, fleetVars, reportVars, dsess, deletes>>

\* Mutant of RevokeToken: manifestStore.Delete is forgotten.
RevokeNothing(d) == Terminated(d, tokens)

RevokeToken(d) == Terminated(d, tokens \ {dsess[d]})

-----------------------------------------------------------------------------
(* The reaper: a sweep every minute, and onExpire of cmd/main.go *)

\* A stored session outlives its idle limit, or its maximum duration.
TimePasses(s) ==
  /\ sessions[s] # 0
  /\ \E age \in Limits :
       /\ cells[sessions[s]].overdue \in {"no", "idle"} \ {age}
       /\ cells' = [cells EXCEPT ![sessions[s]].overdue = age]
  /\ UNCHANGED <<sessions, made, fleetVars, tokens, parents, budgets, recent,
                 reportVars, callVars, regVars, delVars, reapVars>>

\* Mutant of Overdue: MaxDurationMinutes is not looked at.
OverdueWhenIdle(c) == cells[c].overdue = "idle"

Overdue(c) == cells[c].overdue # "no"

ReapStep(from, to) ==
  /\ rpc = from
  /\ rpc' = to
  /\ UNCHANGED <<tokens, budgets, callVars, regVars, delVars>>

\* sweep takes the time, then List.  What is not overdue by then will not be
\* in this sweep; what is may still be updated before its turn.
BeginSweep ==
  /\ Limits # {}
  /\ ReapStep("idle", "judge")
  /\ todo' = {sessions[s] : s \in {x \in AllSessions : sessions[x] # 0
                                                   /\ Overdue(sessions[x])}}
  /\ UNCHANGED <<mapVars, fleetVars, parents, reportVars, victim>>

JudgeCell(c) ==
  /\ ReapStep("judge", IF Overdue(c) THEN "remove" ELSE "judge")
  /\ c \in todo
  /\ todo' = todo \ {c}
  /\ victim' = IF Overdue(c) THEN c ELSE victim
  /\ UNCHANGED <<mapVars, fleetVars, parents, reportVars>>

\* Delete is by id: it takes whatever cell the session has by now.
RemoveExpired ==
  /\ ReapStep("remove", IF cells[victim].managed THEN "report" ELSE "evict")
  /\ sessions' = [sessions EXCEPT ![cells[victim].of] = 0]
  /\ UNCHANGED <<cells, made, fleetVars, parents, reportVars, todo, victim>>

ReportExpired ==
  /\ ReapStep("report", "evict")
  /\ Report(cells[victim].of)
  /\ UNCHANGED <<mapVars, fleetVars, parents, todo, victim>>

EvictExpired ==
  /\ ReapStep("evict", "judge")
  /\ EvictAgent(cells[victim].of)
  /\ parents' = IF cells[victim].of \in Managed
                THEN [parents EXCEPT ![cells[victim].of] = None] ELSE parents
  /\ victim' = 0
  /\ UNCHANGED <<mapVars, reportVars, todo>>

EndSweep ==
  /\ ReapStep("judge", "idle")
  /\ todo = {}
  /\ UNCHANGED <<mapVars, fleetVars, parents, reportVars, todo, victim>>

-----------------------------------------------------------------------------
Init ==
  /\ sessions = [s \in AllSessions |-> 0]
  /\ cells = [c \in Cells |-> BlankCell] /\ made = 0
  /\ agents = [s \in AllSessions |-> 0]
  /\ hot = [a \in Agents |-> FALSE] /\ spawned = 0
  /\ tokens = {}
  /\ parents = [s \in Managed |-> None]
  /\ budgets = [s \in AllSessions |-> "none"]
  /\ recent = [s \in AllSessions |-> 0]
  /\ reported = {}
  /\ pc = [h \in Handlers |-> "idle"]
  /\ sess = [h \in Handlers |-> CHOOSE s \in AllSessions : TRUE]
  /\ agent = [h \in Handlers |-> 0]
  /\ cell = [h \in Handlers |-> 0]
  /\ verdict = [h \in Handlers |-> FALSE]
  /\ calls = 0
  /\ reg = [s \in Managed |-> "unused"]
  /\ claimed = [s \in Managed |-> None]
  /\ got = [s \in Managed |-> 0]
  /\ dpc = [d \in Deleters |-> "idle"]
  /\ dsess = [d \in Deleters |-> CHOOSE s \in AllSessions : TRUE]
  /\ deletes = 0
  /\ rpc = "idle" /\ todo = {} /\ victim = 0
  /\ epoch = [s \in AllSessions |-> 0]
  /\ doomed = {}
  /\ warned = [h \in Handlers |-> FALSE]
  /\ since = [h \in Handlers |-> 0]
  /\ deleted = {} /\ overtaken = {}

Call(h) ==
  \/ \E s \in AllSessions, token \in BOOLEAN : Arrive(h, s, token)
  \/ CheckBudget(h) \/ FindAgent(h) \/ CreateAgent(h) \/ LoadState(h)
  \/ InitState(h) \/ Score(h) \/ Publish(h) \/ JudgeCall(h) \/ LogCall(h)

Register(s) ==
  \/ BeginRoot(s)
  \/ \E p \in Managed : BeginChild(s, p)
  \/ RecordParent(s) \/ InheritRefs(s) \/ SeedFromManifest(s)
  \/ FetchState(s) \/ SetDelegatedLimit(s) \/ IssueToken(s)

Delete(d) ==
  \/ \E s \in AllSessions : BeginDelete(d, s)
  \/ ReportDeleted(d) \/ RemoveDeleted(d) \/ EvictDeleted(d) \/ RevokeToken(d)

Sweep ==
  \/ BeginSweep
  \/ \E c \in Cells : JudgeCell(c)
  \/ RemoveExpired \/ ReportExpired \/ EvictExpired \/ EndSweep

Next ==
  \/ \E h \in Handlers : Call(h)
  \/ \E s \in Managed : Register(s)
  \/ \E d \in Deleters : Delete(d)
  \/ Sweep
  \/ \E s \in AllSessions : TimePasses(s)

Spec == Init /\ [][Next]_vars

\* The reaper's ticker keeps firing and its goroutine is scheduled.
FairSpec == Spec /\ WF_vars(Sweep)

-----------------------------------------------------------------------------
(* Properties *)

CallStage == {"idle", "budget", "agent", "create", "load", "init", "score",
              "publish", "judge", "log"}
RegStage == {"unused", "record", "inherit", "seed", "limit", "write", "token",
             "issued", "refused"}
CellRecord == [of : AllSessions \cup {None}, managed : BOOLEAN,
               limited : BOOLEAN, overdue : {"no", "idle", "aged"}]

\* Every variable stays within its type, and no goroutine follows a nil pointer.
TypeOK ==
  /\ sessions \in [AllSessions -> Cells \cup {0}]
  /\ cells \in [Cells -> CellRecord]
  /\ made \in 0 .. MaxCells
  /\ agents \in [AllSessions -> Agents \cup {0}]
  /\ hot \in [Agents -> BOOLEAN]
  /\ spawned \in 0 .. MaxAgents
  /\ tokens \subseteq Managed
  /\ parents \in [Managed -> Managed \cup {None}]
  /\ budgets \in [AllSessions -> {"none", "policy", "delegated"}]
  /\ recent \in [AllSessions -> Nat]
  /\ reported \subseteq AllSessions
  /\ pc \in [Handlers -> CallStage]
  /\ sess \in [Handlers -> AllSessions]
  /\ agent \in [Handlers -> Agents \cup {0}]
  /\ cell \in [Handlers -> Cells \cup {0}]
  /\ verdict \in [Handlers -> BOOLEAN]
  /\ calls \in Nat
  /\ reg \in [Managed -> RegStage]
  /\ claimed \in [Managed -> Managed \cup {None}]
  /\ got \in [Managed -> Cells \cup {0}]
  /\ dpc \in [Deleters -> {"idle", "report", "remove", "evict", "revoke"}]
  /\ dsess \in [Deleters -> AllSessions]
  /\ deletes \in Nat
  /\ rpc \in {"idle", "judge", "remove", "report", "evict"}
  /\ todo \subseteq Cells
  /\ victim \in Cells \cup {0}
  /\ epoch \in [AllSessions -> Nat]
  /\ doomed \subseteq AllSessions \X Nat
  /\ warned \in [Handlers -> BOOLEAN]
  /\ since \in [Handlers -> Nat]
  /\ deleted \subseteq AllSessions /\ overtaken \subseteq deleted
  /\ \A h \in Handlers :
       /\ pc[h] \in {"load", "init", "score", "publish", "judge"} => agent[h] # 0
       /\ pc[h] \in {"score", "publish", "judge"} => cell[h] # 0
  /\ \A s \in Managed : reg[s] = "write" => got[s] # 0
  /\ rpc \in {"remove", "report", "evict"} =>
       victim # 0 /\ cells[victim].of \in AllSessions

\* A session that was answered TERMINATE is answered TERMINATE from then on, by
\* every call that arrives later and reaches the fleet, until it is evicted:
\* concurrent first calls never end up with accumulators of their own.
TerminateIsFinal ==
  \A h \in Handlers :
    /\ pc[h] = "log" /\ agent[h] # 0
    /\ warned[h] /\ since[h] = epoch[sess[h]]
    => verdict[h]

\* No registered session leaves the session store without a governance record,
\* whoever removes it and whoever puts it back in between.
NothingLeavesUnreported ==
  \A s \in Managed :
    reg[s] \in {"limit", "write", "token", "issued"} /\ sessions[s] = 0 =>
      \/ s \in reported
      \/ rpc = "report" /\ cells[victim].of = s

\* What verifies of the sessions an operator was told are terminated: only one whose
\* registration was overtaken by the DELETE, and answered after it.  No order of calls,
\* registrations and other DELETEs brings back a token that was in use when it died.
TokensDieWithTheirSession == tokens \cap deleted \subseteq overtaken

\* A registered child runs under its delegated limit, unless its session was removed
\* before its first call.
ChildLimitHolds ==
  DelegatedLimits =>
    \A s \in Managed :
      reg[s] = "issued" /\ claimed[s] # None /\ budgets[s] = "policy" =>
        sessions[s] = 0 \/ ~cells[sessions[s]].managed

\* The delegation store holds no parent a session did not prove, and its chains
\* never run in a circle: every parent had its token before its child began.
DelegationIsProven ==
  \A s \in Managed :
    parents[s] # None =>
      /\ parents[s] = claimed[s]
      /\ reg[parents[s]] = "issued"
      /\ reg[s] \notin {"unused", "record"}

\* A session past its maximum duration does not stay in the store.
OverdueLeaves ==
  \A s \in AllSessions, c \in Cells :
    (sessions[s] = c /\ cells[c].overdue = "aged") ~> sessions[s] # c
=============================================================================
