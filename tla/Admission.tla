----------------------------- MODULE Admission -----------------------------
(***************************************************************************)
(* The admission pipeline: concurrent handlers of pkg/admission's          *)
(* Interceptor, the session budget they share (quota.SessionBudgetChecker),*)
(* the human review they may block on, and the policy watcher's callback   *)
(* in cmd/main.go, which replaces the policy under them piece by piece.    *)
(*                                                                         *)
(* A handler serves one call at a time.  Its steps are the points where    *)
(* the code takes or releases a lock or blocks, in the code's order:       *)
(*                                                                         *)
(*   idle -> quota -> validate -> mutate -> record -> mode -> log -> reply *)
(*             |         |-> review -> usage --------->|                   *)
(*             |-> usage (TERMINATE)                                       *)
(*   idle -> outbound -> mode -> log -> reply      (/validate/output)      *)
(*                                                                         *)
(* A policy is a record of the fields the pipeline distinguishes.  Which   *)
(* violations a validator finds is a free choice; what is done with them   *)
(* is the code's.                                                          *)
(***************************************************************************)
EXTENDS Integers, FiniteSets, Decisions

CONSTANTS
  Handlers,         \* goroutines net/http runs ServeHTTP on
  Sessions,         \* session ids
  Policies,         \* the contents policies.yaml may have (records, see below)
  InitialPolicy,    \* the one loaded at startup
  DelegatedLimit,   \* [Sessions -> Nat]: DelegatedCallLimit, 0 when not a child
  ReviewDispatcher, \* is a human review webhook configured?
  DeepCalls,        \* may a call nest deeper than the depth limiter allows?
  MaxCalls,         \* bound: calls that arrive
  MaxReloads        \* bound: times the policy file changes

PolicyRecord ==
  [id      : STRING,    \* its hash
   budget  : BOOLEAN,   \* sessionBudget.enabled
   calls   : Nat,       \* maxToolCallsPerSession
   tokens  : Nat,       \* maxTokensPerSession, a call spending one unit
   rate    : Nat,       \* maxToolCallsPerMinute, 0 when off
   observe : BOOLEAN,   \* enforcement: observe
   builds  : BOOLEAN]   \* does buildPipelineSlices accept it?

ASSUME HandlersAssumption == IsFiniteSet(Handlers) /\ Handlers # {}
ASSUME PoliciesAssumption == Policies \subseteq PolicyRecord
                             /\ InitialPolicy \in Policies
                             /\ InitialPolicy.builds
ASSUME DelegatedAssumption == DelegatedLimit \in [Sessions -> Nat]
ASSUME SessionsAssumption == Sessions # {}
ASSUME SwitchesAssumption == ReviewDispatcher \in BOOLEAN /\ DeepCalls \in BOOLEAN
ASSUME BoundsAssumption == MaxCalls \in Nat /\ MaxReloads \in Nat

VARIABLES
  \* SessionBudgetChecker
  budget,     \* c.policy
  callCount,  \* SessionState.ToolCallCount, per session
  tokens,     \* SessionState.TokensConsumed (CostUSD moves with it)
  recent,     \* entries of callTimestamps younger than a minute
  \* Interceptor
  pipeline,   \* the policy its validators, mutators and quotas were built from
  observe,    \* observeMode
  \* cmd/main.go
  current,    \* currentPolicy, which GET /api/pipeline and the audit stamp read
  reload,     \* where the watcher's callback is
  target,     \* the policy it is installing
  reloads,
  \* the handlers
  pc,
  sess,       \* session of the call in hand
  snap,       \* the policy behind the slices it took a snapshot of
  found,      \* the decision its violations resolved to, "none" without any
  reviewed,   \* what the human review of the call came to
  decision,   \* resp.Decision
  stamp,      \* entry.PolicyVersion of the record it wrote
  quiet,      \* ghost: an /intercept call during which no reload was under way
  entered,    \* ghost: calls of each session that reached the quota phase
  \* what leaves the pipeline
  arrived,    \* calls received
  answered,   \* calls answered with a decision
  logged      \* audit records written

budgetVars  == <<budget, callCount, tokens, recent>>
reloadVars  == <<reload, target, reloads>>
callVars    == <<sess, snap, found, reviewed, decision, stamp>>
countVars   == <<arrived, answered, logged>>
vars == <<budgetVars, pipeline, observe, current, reloadVars, pc, callVars,
          quiet, entered, countVars>>

Stage == {"idle", "quota", "validate", "review", "mutate", "usage", "record",
          "outbound", "mode", "log", "reply"}
ReloadStage == {"idle", "budget", "build", "mode", "publish"}

Found == Decision \cup {"none"}
ReviewOutcome == {"none", "approved", "refused", "failed"}

\* What sess[h] is while h holds no call.
NoSession == CHOOSE s \in Sessions : TRUE

-----------------------------------------------------------------------------
Goto(h, stage) == pc' = [pc EXCEPT ![h] = stage]

Decide(h, d) == decision' = [decision EXCEPT ![h] = d]

\* Check, Record and RecordUsage read c.policy without c.mu while ReloadPolicy
\* stores it field by field: during the store a field read is old or new.
VisibleBudget == IF reload = "budget" THEN {budget, target} ELSE {budget}

\* A child session's delegated limit replaces the policy's.
CallLimit(s, p) == IF DelegatedLimit[s] > 0 THEN DelegatedLimit[s] ELSE p.calls

\* Mutant of Exhausted: one call too many.
ExhaustedTooLate(s, t, c, r, q) ==
  \/ tokens[s] >= t.tokens
  \/ callCount[s] > CallLimit(s, c)
  \/ r.rate > 0 /\ recent[s] >= q.rate

\* The limits of Check, each of its reads from a policy that may differ.
Exhausted(s, t, c, r, q) ==
  \/ tokens[s] >= t.tokens
  \/ callCount[s] >= CallLimit(s, c)
  \/ r.rate > 0 /\ recent[s] >= q.rate

-----------------------------------------------------------------------------
(* Interceptor.ServeHTTP and Intercept, step by step *)

\* A call without a token or with a valid one enters the pipeline and takes its
\* snapshot of the slices under the read lock.  No reload replaces the outbound
\* validators.
Arrive(h, s, stage) ==
  /\ pc[h] = "idle"
  /\ arrived < MaxCalls
  /\ arrived' = arrived + 1
  /\ Goto(h, stage)
  /\ sess' = [sess EXCEPT ![h] = s]
  /\ snap' = [snap EXCEPT ![h] = IF stage = "quota" THEN pipeline
                                 ELSE InitialPolicy]
  /\ quiet' = [quiet EXCEPT ![h] = (stage = "quota" /\ reload = "idle")]
  /\ entered' = IF stage = "quota" THEN [entered EXCEPT ![s] = @ + 1] ELSE entered
  /\ UNCHANGED <<budgetVars, pipeline, observe, current, reloadVars, found,
                 reviewed, decision, stamp, answered, logged>>

\* A token that does not verify is answered DENY by ServeHTTP itself.
RefuseToken(h) ==
  /\ pc[h] = "idle"
  /\ arrived < MaxCalls
  /\ arrived' = arrived + 1
  /\ answered' = answered + 1
  /\ UNCHANGED <<budgetVars, pipeline, observe, current, reloadVars, pc,
                 callVars, quiet, entered, logged>>

\* A step of h from one stage to the next that touches nothing shared.
Local(h, from, to) ==
  /\ pc[h] = from
  /\ Goto(h, to)
  /\ UNCHANGED <<budgetVars, pipeline, observe, current, reloadVars, sess,
                 snap, stamp, quiet, entered, countVars>>

QuotaStop(h, to) ==
  /\ found' = [found EXCEPT ![h] = "TERMINATE"]
  /\ Decide(h, "TERMINATE")
  /\ Local(h, "quota", to)
  /\ UNCHANGED reviewed

\* Mutant of QuotaViolation: the spend of a call over quota is dropped.
QuotaViolationUncharged(h) == QuotaStop(h, "mode")

QuotaViolation(h) == QuotaStop(h, "usage")

\* The quota checkers run in this order and the first violation ends the phase.
DepthLimited(h) == DeepCalls /\ QuotaViolation(h)

BudgetExhausted(h) ==
  /\ \E e, t, c, r, q \in VisibleBudget :
       e.budget /\ Exhausted(sess[h], t, c, r, q)
  /\ QuotaViolation(h)

QuotaPass(h) ==
  /\ \E e, t, c, r, q \in VisibleBudget :
       e.budget => ~Exhausted(sess[h], t, c, r, q)
  /\ Local(h, "quota", "validate")
  /\ UNCHANGED <<found, reviewed, decision>>

ValidatorsPass(h) ==
  /\ Local(h, "validate", "mutate")
  /\ UNCHANGED <<found, reviewed, decision>>

\* Every validator runs and the worst violation decides.  Calls with one of the
\* reviewable decisions go to the dispatcher, if there is one.
Violated(h, reviewable) ==
  \E candidates \in SUBSET {"HUMAN_REVIEW", "DENY", "TERMINATE"} :
    LET d == ResolveDecision(candidates)
    IN  /\ candidates # {}
        /\ found' = [found EXCEPT ![h] = d]
        /\ Decide(h, d)
        /\ Local(h, "validate", IF d \in reviewable /\ ReviewDispatcher
                                THEN "review" ELSE "usage")
        /\ UNCHANGED reviewed

\* Mutant of ValidatorsFail: a reviewer is asked about denied calls too.
ValidatorsFailAskAlways(h) == Violated(h, {"HUMAN_REVIEW", "DENY"})

ValidatorsFail(h) == Violated(h, {"HUMAN_REVIEW"})

ReviewEnds(h, outcome) ==
  /\ reviewed' = [reviewed EXCEPT ![h] = outcome]
  /\ Decide(h, IF outcome = "approved" THEN "ALLOW" ELSE "DENY")
  /\ Local(h, "review", "usage")
  /\ UNCHANGED found

\* Dispatch returns with the reviewer's answer, or fails at the latest when the
\* timeout of its context has passed.
ReviewAnswered(h) ==
  \E outcome \in {"approved", "refused"} : ReviewEnds(h, outcome)

\* Mutant of ReviewTimesOut: Dispatch is given a context without a timeout.
ReviewUnbounded(h) == FALSE /\ ReviewEnds(h, "failed")

ReviewTimesOut(h) == ReviewEnds(h, "failed")

\* A mutator that fails is skipped; one that rewrites the call makes it MUTATE.
Mutate(h) ==
  /\ \E d \in {"ALLOW", "MUTATE"} : Decide(h, d)
  /\ Local(h, "mutate", "record")
  /\ UNCHANGED <<found, reviewed>>

\* quotas.Record: the call is counted and so are its tokens.
RecordCall(h) ==
  /\ pc[h] = "record"
  /\ \E e \in VisibleBudget :
       IF e.budget
       THEN /\ callCount' = [callCount EXCEPT ![sess[h]] = @ + 1]
            /\ recent'    = [recent EXCEPT ![sess[h]] = @ + 1]
            /\ tokens'    = [tokens EXCEPT ![sess[h]] = @ + 1]
       ELSE UNCHANGED <<callCount, recent, tokens>>
  /\ Goto(h, "mode")
  /\ UNCHANGED <<budget, pipeline, observe, current, reloadVars, callVars,
                 quiet, entered, countVars>>

\* quotas.RecordUsage, on every path that found a violation.
Charge(h, spent, to) ==
  /\ pc[h] = "usage"
  /\ \E e \in VisibleBudget :
       tokens' = IF e.budget THEN [tokens EXCEPT ![sess[h]] = @ + spent] ELSE tokens
  /\ Goto(h, to)
  /\ UNCHANGED <<budget, callCount, recent, pipeline, observe, current,
                 reloadVars, callVars, quiet, entered, countVars>>

\* Mutants of RecordUsage: the call is answered unaudited; its spend is taken off.
RecordUsageUnaudited(h) == Charge(h, 1, "reply")
RecordUsageRefunds(h) == Charge(h, 0 - 1, "mode")

RecordUsage(h) == Charge(h, 1, "mode")

\* InterceptOutput: no quota, no review, no budget.
OutboundPass(h) ==
  /\ Local(h, "outbound", "mode")
  /\ UNCHANGED <<found, reviewed, decision>>

OutboundFail(h) ==
  \E severities \in SUBSET Severity :
    LET d == ResolveOutboundDecision(severities)
    IN  /\ severities # {}
        /\ found' = [found EXCEPT ![h] = d]
        /\ Decide(h, d)
        /\ Local(h, "outbound", "mode")
        /\ UNCHANGED reviewed

\* audit: the mode is read after everything else, under its own lock.
ApplyMode(h) ==
  /\ decision' = [decision EXCEPT ![h] = IF observe THEN "ALLOW" ELSE @]
  /\ Local(h, "mode", "log")
  /\ UNCHANGED <<found, reviewed>>

\* TeeAuditLogger.Log stamps the record with the policy published by now.
WriteAudit(h) ==
  /\ pc[h] = "log"
  /\ logged' = logged + 1
  /\ stamp' = [stamp EXCEPT ![h] = current]
  /\ Goto(h, "reply")
  /\ UNCHANGED <<budgetVars, pipeline, observe, current, reloadVars, sess,
                 snap, found, reviewed, decision, quiet, entered, arrived, answered>>

\* The answer goes out and the call's locals with it.
Reply(h) ==
  /\ pc[h] = "reply"
  /\ answered' = answered + 1
  /\ Goto(h, "idle")
  /\ sess'  = [sess EXCEPT ![h] = NoSession]
  /\ snap'  = [snap EXCEPT ![h] = InitialPolicy]
  /\ found' = [found EXCEPT ![h] = "none"]
  /\ reviewed' = [reviewed EXCEPT ![h] = "none"]
  /\ Decide(h, "ALLOW")
  /\ stamp' = [stamp EXCEPT ![h] = InitialPolicy]
  /\ quiet' = [quiet EXCEPT ![h] = FALSE]
  /\ UNCHANGED <<budgetVars, pipeline, observe, current, reloadVars, entered,
                 arrived, logged>>

\* callTimestamps of a session grow older than a minute.
MinutePasses(s) ==
  /\ recent[s] > 0
  /\ \E n \in 0 .. recent[s] - 1 : recent' = [recent EXCEPT ![s] = n]
  /\ UNCHANGED <<budget, callCount, tokens, pipeline, observe, current,
                 reloadVars, pc, callVars, quiet, entered, countVars>>

-----------------------------------------------------------------------------
(* The callback cmd/main.go gives the policy watcher *)

\* A new policy has been read; ReloadPolicy starts to store it.
ReloadBegins(p) ==
  /\ reload = "idle"
  /\ reloads < MaxReloads
  /\ reloads' = reloads + 1
  /\ reload' = "budget"
  /\ target' = p
  /\ quiet' = [h \in Handlers |-> FALSE]
  /\ UNCHANGED <<budgetVars, pipeline, observe, current, pc, callVars,
                 entered, countVars>>

ReloadBudget ==
  /\ reload = "budget"
  /\ budget' = target
  /\ reload' = "build"
  /\ UNCHANGED <<callCount, tokens, recent, pipeline, observe, current, target,
                 reloads, pc, callVars, quiet, entered, countVars>>

\* buildPipelineSlices fails: the callback returns.
GiveUp(published) ==
  /\ reload = "build"
  /\ ~target.builds
  /\ current' = published
  /\ reload' = "idle"
  /\ UNCHANGED <<budgetVars, pipeline, observe, target, reloads, pc, callVars,
                 quiet, entered, countVars>>

\* Mutant of ReloadFails: the policy that did not build is published.
ReloadFailsPublished == GiveUp(target)

ReloadFails == GiveUp(current)

ReloadValidators ==
  /\ reload = "build"
  /\ target.builds
  /\ pipeline' = target
  /\ reload' = "mode"
  /\ UNCHANGED <<budgetVars, observe, current, target, reloads, pc, callVars,
                 quiet, entered, countVars>>

SetObserveMode ==
  /\ reload = "mode"
  /\ observe' = target.observe
  /\ reload' = "publish"
  /\ UNCHANGED <<budgetVars, pipeline, current, target, reloads, pc, callVars,
                 quiet, entered, countVars>>

PublishPolicy ==
  /\ reload = "publish"
  /\ current' = target
  /\ reload' = "idle"
  /\ UNCHANGED <<budgetVars, pipeline, observe, target, reloads, pc, callVars,
                 quiet, entered, countVars>>

-----------------------------------------------------------------------------
Init ==
  /\ budget = InitialPolicy
  /\ callCount = [s \in Sessions |-> 0]
  /\ tokens = [s \in Sessions |-> 0]
  /\ recent = [s \in Sessions |-> 0]
  /\ pipeline = InitialPolicy
  /\ observe = InitialPolicy.observe
  /\ current = InitialPolicy
  /\ reload = "idle" /\ target = InitialPolicy /\ reloads = 0
  /\ pc = [h \in Handlers |-> "idle"]
  /\ sess = [h \in Handlers |-> NoSession]
  /\ snap = [h \in Handlers |-> InitialPolicy]
  /\ found = [h \in Handlers |-> "none"]
  /\ reviewed = [h \in Handlers |-> "none"]
  /\ decision = [h \in Handlers |-> "ALLOW"]
  /\ stamp = [h \in Handlers |-> InitialPolicy]
  /\ quiet = [h \in Handlers |-> FALSE]
  /\ entered = [s \in Sessions |-> 0]
  /\ arrived = 0 /\ answered = 0 /\ logged = 0

\* What a handler does of its own once it holds a call.
Serve(h) ==
  \/ DepthLimited(h) \/ BudgetExhausted(h) \/ QuotaPass(h)
  \/ ValidatorsPass(h) \/ ValidatorsFail(h) \/ ReviewTimesOut(h)
  \/ Mutate(h) \/ RecordCall(h) \/ RecordUsage(h)
  \/ OutboundPass(h) \/ OutboundFail(h)
  \/ ApplyMode(h) \/ WriteAudit(h) \/ Reply(h)

Reload ==
  \/ ReloadBudget \/ ReloadFails \/ ReloadValidators \/ SetObserveMode
  \/ PublishPolicy

Next ==
  \/ \E h \in Handlers : Serve(h) \/ ReviewAnswered(h) \/ RefuseToken(h)
  \/ \E h \in Handlers, s \in Sessions :
       Arrive(h, s, "quota") \/ Arrive(h, s, "outbound")
  \/ \E s \in Sessions : MinutePasses(s)
  \/ \E p \in Policies : ReloadBegins(p)
  \/ Reload

Spec == Init /\ [][Next]_vars

\* Go schedules every runnable goroutine and the context given to Dispatch
\* times out; callers, reviewers and operators owe nothing.
Fairness == \A h \in Handlers : WF_vars(Serve(h))

FairSpec == Spec /\ Fairness

-----------------------------------------------------------------------------
(* Properties *)

\* Every variable stays within its type.
TypeOK ==
  /\ {budget, pipeline, current, target} \subseteq Policies
  /\ callCount \in [Sessions -> Nat]
  /\ tokens \in [Sessions -> Nat]
  /\ recent \in [Sessions -> Nat]
  /\ entered \in [Sessions -> Nat]
  /\ observe \in BOOLEAN
  /\ reload \in ReloadStage
  /\ reloads \in Nat
  /\ pc \in [Handlers -> Stage]
  /\ sess \in [Handlers -> Sessions]
  /\ snap \in [Handlers -> Policies]
  /\ stamp \in [Handlers -> Policies]
  /\ found \in [Handlers -> Found]
  /\ reviewed \in [Handlers -> ReviewOutcome]
  /\ decision \in [Handlers -> Decision]
  /\ quiet \in [Handlers -> BOOLEAN]
  /\ {arrived, answered, logged} \subseteq Nat

BudgetAlwaysOn == \A p \in Policies : p.budget

\* Handlers holding a call of s that Check let through and Record has not counted.
InFlight(s) ==
  {h \in Handlers : sess[h] = s /\ pc[h] \in {"validate", "mutate", "record"}}

\* Check and Record are two critical sections, so calls of one session may pass
\* Check together: its count can pass the limit, but by less than the number of
\* handlers, whatever the policy reloads in between.
CallsWithinLimit ==
  BudgetAlwaysOn =>
    \A s \in Sessions : \E p \in Policies :
      callCount[s] + Cardinality(InFlight(s))
        < CallLimit(s, p) + Cardinality(Handlers)

\* Handlers holding a call whose spend is not on the session's account yet.
Unspent(s) ==
  {h \in Handlers : sess[h] = s /\ pc[h] \in {"quota", "validate", "review",
                                             "mutate", "usage", "record"}}

\* "a blocked call doesn't silently drop the spend that already occurred":
\* every exit path of Intercept accounts for the call's tokens exactly once.
SpendAccounted ==
  BudgetAlwaysOn =>
    \A s \in Sessions :
      entered[s] = tokens[s] + Cardinality(Unspent(s))

\* Outside the window in which the callback swaps them, the pipeline and the
\* mode are those of the policy GET /api/pipeline and the audit stamp name.
PublishedPolicyInForce ==
  /\ reload \in {"idle", "budget", "build"} =>
       pipeline = current /\ observe = current.observe
  /\ reload = "mode" => pipeline = target /\ observe = current.observe
  /\ reload = "publish" => pipeline = target /\ observe = target.observe

\* A call to /intercept that no reload overlapped is judged by the pipeline, released
\* and stamped under one policy: blocked calls pass only in observe mode, a held call
\* only by approval, and a reviewer can release nothing but what needed a review.  The
\* limits are not part of it: after a build that failed they are the failed policy's.
QuietCallsSeeOnePolicy ==
  \A h \in Handlers : quiet[h] /\ pc[h] = "reply" =>
    /\ stamp[h] = snap[h]
    /\ snap[h].observe => decision[h] = "ALLOW"
    /\ ~snap[h].observe =>
         /\ found[h] \in Blocking => decision[h] = found[h]
         /\ decision[h] \in {"ALLOW", "MUTATE"} =>
              \/ found[h] = "none"
              \/ found[h] = "HUMAN_REVIEW" /\ reviewed[h] = "approved"

Gate == INSTANCE AdmissionGate WITH
  phase   <- [h \in Handlers |-> CASE pc[h] = "idle"  -> "free"
                                   [] pc[h] = "reply" -> "recorded"
                                   [] OTHER           -> "judging"],
  answer  <- [h \in Handlers |-> IF pc[h] = "reply" THEN decision[h]
                                 ELSE "ALLOW"],
  ledger  <- logged,
  replies <- answered

\* The pipeline keeps the promise of AdmissionGate: one record per judged call,
\* written before the answer and with the answer's decision.
KeepsGatePromise == Gate!GateSpec

\* Every call that arrives is answered, a held one by the review's timeout.
EveryCallAnswered == \A h \in Handlers : pc[h] # "idle" ~> pc[h] = "idle"
=============================================================================
