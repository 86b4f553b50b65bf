-------------------------- MODULE AdmissionProofs --------------------------
(***************************************************************************)
(* Proofs about Admission, for any number of handlers, sessions, policies, *)
(* calls and reloads.                                                      *)
(***************************************************************************)
EXTENDS Admission, FiniteSetTheorems, TLAPS

-----------------------------------------------------------------------------
(* Operators *)

\* What the violations of a call resolve to is one of the blocking decisions or
\* a review, and no worse than one of them.
LEMMA ResolveDecisionType ==
  ASSUME NEW candidates \in SUBSET {"HUMAN_REVIEW", "DENY", "TERMINATE"},
         candidates # {}
  PROVE  ResolveDecision(candidates) \in candidates
<1> DEFINE Worst(d) == \A e \in candidates : DecisionSeverity[e] <= DecisionSeverity[d]
<1>1. /\ DecisionSeverity["TERMINATE"] = 4
      /\ DecisionSeverity["DENY"] = 3
      /\ DecisionSeverity["HUMAN_REVIEW"] = 2
  BY DEF DecisionSeverity, Decision
<1>2. \E d \in candidates : DecisionSeverity[d] > 0
  <2>1. PICK d \in candidates : d \in {"HUMAN_REVIEW", "DENY", "TERMINATE"}
    OBVIOUS
  <2>2. DecisionSeverity[d] > 0
    BY <1>1, <2>1
  <2> QED BY <2>2
<1>3. \E d \in candidates : Worst(d)
  <2>1. CASE "TERMINATE" \in candidates
    BY <1>1, <2>1
  <2>2. CASE "TERMINATE" \notin candidates /\ "DENY" \in candidates
    BY <1>1, <2>2
  <2>3. CASE "TERMINATE" \notin candidates /\ "DENY" \notin candidates
    <3>1. candidates = {"HUMAN_REVIEW"}
      BY <2>3
    <3> QED BY <1>1, <3>1
  <2> QED BY <2>1, <2>2, <2>3
<1>4. (CHOOSE d \in candidates : Worst(d)) \in candidates
  BY <1>3
<1> QED BY <1>2, <1>4 DEF ResolveDecision

\* What Check, Record and RecordUsage, Charge see of the budget policy is a policy.
LEMMA VisibleBudgetType == TypeOK => VisibleBudget \subseteq Policies
BY DEF TypeOK, VisibleBudget

\* Only the watcher's callback touches the policies.
LEMMA PolicyUntouched ==
  ASSUME \/ \E h \in Handlers : Serve(h) \/ ReviewAnswered(h) \/ RefuseToken(h)
         \/ \E h \in Handlers, s \in Sessions :
              Arrive(h, s, "quota") \/ Arrive(h, s, "outbound")
         \/ \E s \in Sessions : MinutePasses(s)
         \/ UNCHANGED vars
  PROVE  UNCHANGED <<pipeline, observe, current, reload, target>>
BY DEF Serve, DepthLimited, BudgetExhausted, QuotaViolation, QuotaStop, QuotaPass,
       ValidatorsPass, ValidatorsFail, Violated, ReviewTimesOut, ReviewAnswered, ReviewEnds,
       Mutate, RecordCall, RecordUsage, Charge, OutboundPass, OutboundFail, ApplyMode,
       WriteAudit, Reply, Local, RefuseToken, Arrive, MinutePasses, vars, reloadVars

-----------------------------------------------------------------------------
(* Type correctness *)

\* The initial state is well typed.
LEMMA InitTypeOK == Init => TypeOK
<1> SUFFICES ASSUME Init PROVE TypeOK
  OBVIOUS
<1>1. NoSession \in Sessions
  BY SessionsAssumption DEF NoSession
<1> QED BY <1>1, PoliciesAssumption
     DEF Init, TypeOK, PolicyRecord, Stage, ReloadStage, Found, Decision, ReviewOutcome

\* Every step of a handler keeps the types.
LEMMA ServeTypeOK ==
  ASSUME TypeOK, NEW h \in Handlers, Serve(h) \/ ReviewAnswered(h)
  PROVE  TypeOK'
<1> USE DEF TypeOK, Stage, Goto, Decide, Local, ReviewOutcome, budgetVars,
            reloadVars, countVars, callVars
<1>1. Decision \subseteq Found /\ {"none"} \subseteq Found
      /\ {"ALLOW", "DENY", "MUTATE", "HUMAN_REVIEW", "TERMINATE"} = Decision
  BY DEF Found, Decision
<1>2. CASE DepthLimited(h)
  BY <1>1, <1>2 DEF DepthLimited, QuotaViolation, QuotaStop
<1>3. CASE BudgetExhausted(h)
  BY <1>1, <1>3 DEF BudgetExhausted, QuotaViolation, QuotaStop
<1>4. CASE QuotaPass(h)
  BY <1>4 DEF QuotaPass
<1>5. CASE ValidatorsPass(h)
  BY <1>5 DEF ValidatorsPass
<1>6. CASE ValidatorsFail(h)
  <2>1. PICK candidates \in SUBSET {"HUMAN_REVIEW", "DENY", "TERMINATE"} :
          LET d == ResolveDecision(candidates)
          IN  /\ candidates # {}
              /\ found' = [found EXCEPT ![h] = d]
              /\ Decide(h, d)
              /\ Local(h, "validate", IF d \in {"HUMAN_REVIEW"} /\ ReviewDispatcher
                                      THEN "review" ELSE "usage")
              /\ UNCHANGED reviewed
    BY <1>6 DEF ValidatorsFail, Violated
  <2>2. ResolveDecision(candidates) \in Decision
    BY <2>1, <1>1, ResolveDecisionType
  <2> QED BY <1>1, <2>1, <2>2
<1>7. CASE ReviewTimesOut(h) \/ ReviewAnswered(h)
  BY <1>1, <1>7 DEF ReviewTimesOut, ReviewAnswered, ReviewEnds
<1>8. CASE Mutate(h)
  BY <1>1, <1>8 DEF Mutate
<1>9. CASE RecordCall(h)
  BY <1>9 DEF RecordCall
<1>10. CASE RecordUsage(h)
  BY <1>10 DEF RecordUsage, Charge
<1>11. CASE OutboundPass(h)
  BY <1>11 DEF OutboundPass
<1>12. CASE OutboundFail(h)
  BY <1>1, <1>12 DEF OutboundFail, ResolveOutboundDecision
<1>13. CASE ApplyMode(h)
  BY <1>1, <1>13 DEF ApplyMode
<1>14. CASE WriteAudit(h)
  BY <1>14 DEF WriteAudit
<1>15. CASE Reply(h)
  <2>1. NoSession \in Sessions
    BY SessionsAssumption DEF NoSession
  <2> QED BY <1>1, <1>15, <2>1, PoliciesAssumption DEF Reply
<1> QED
  BY <1>2, <1>3, <1>4, <1>5, <1>6, <1>7, <1>8, <1>9, <1>10, <1>11, <1>12,
     <1>13, <1>14, <1>15 DEF Serve

\* Every step keeps the types.
LEMMA NextTypeOK == TypeOK /\ [Next]_vars => TypeOK'
<1> SUFFICES ASSUME TypeOK, [Next]_vars PROVE TypeOK'
  OBVIOUS
<1> USE DEF budgetVars, reloadVars, callVars, countVars
<1>1. CASE \E h \in Handlers : Serve(h) \/ ReviewAnswered(h)
  BY <1>1, ServeTypeOK
<1>2. CASE \E h \in Handlers : RefuseToken(h)
  BY <1>2 DEF TypeOK, RefuseToken
<1>3. CASE \E h \in Handlers, s \in Sessions :
             Arrive(h, s, "quota") \/ Arrive(h, s, "outbound")
  <2>1. PICK h \in Handlers, s \in Sessions, stage \in {"quota", "outbound"} :
          Arrive(h, s, stage)
    BY <1>3
  <2> QED BY <2>1, PoliciesAssumption DEF TypeOK, Arrive, Goto, Stage
<1>4. CASE \E s \in Sessions : MinutePasses(s)
  BY <1>4 DEF TypeOK, MinutePasses
<1>5. CASE \E p \in Policies : ReloadBegins(p)
  BY <1>5 DEF TypeOK, ReloadBegins, ReloadStage
<1>6. CASE Reload
  BY <1>6, PoliciesAssumption
     DEF TypeOK, Reload, ReloadStage, PolicyRecord, ReloadBudget, ReloadFails, GiveUp,
         ReloadValidators, SetObserveMode, PublishPolicy
<1>7. CASE UNCHANGED vars
  BY <1>7 DEF TypeOK, vars
<1> QED BY <1>1, <1>2, <1>3, <1>4, <1>5, <1>6, <1>7 DEF Next

\* Type correctness of the pipeline, its budget and its reloads.
THEOREM AdmissionTypeOK == Spec => []TypeOK
BY InitTypeOK, NextTypeOK, PTL DEF Spec

-----------------------------------------------------------------------------
(* The published policy *)

\* Between reloads the validators and the mode are those of the policy that GET
\* /api/pipeline and the audit stamp name.
THEOREM PublishedPolicyIsInForce == Spec => []PublishedPolicyInForce
<1>1. Init => PublishedPolicyInForce
  BY DEF Init, PublishedPolicyInForce
<1>2. TypeOK /\ PublishedPolicyInForce /\ [Next]_vars => PublishedPolicyInForce'
  <2> SUFFICES ASSUME TypeOK, PublishedPolicyInForce, [Next]_vars
               PROVE  PublishedPolicyInForce'
    OBVIOUS
  <2>1. CASE UNCHANGED <<pipeline, observe, current, reload, target>>
    BY <2>1 DEF PublishedPolicyInForce
  <2>2. CASE \E p \in Policies : ReloadBegins(p)
    BY <2>2 DEF PublishedPolicyInForce, ReloadBegins
  <2>3. CASE Reload
    BY <2>3 DEF TypeOK, PublishedPolicyInForce, Reload, ReloadBudget, ReloadFails, GiveUp,
                ReloadValidators, SetObserveMode, PublishPolicy
  <2>4. ASSUME \/ \E h \in Handlers : Serve(h) \/ ReviewAnswered(h) \/ RefuseToken(h)
               \/ \E h \in Handlers, s \in Sessions :
                    Arrive(h, s, "quota") \/ Arrive(h, s, "outbound")
               \/ \E s \in Sessions : MinutePasses(s)
               \/ UNCHANGED vars
        PROVE  UNCHANGED <<pipeline, observe, current, reload, target>>
    BY <2>4, PolicyUntouched
  <2> QED BY <2>1, <2>2, <2>3, <2>4 DEF Next
<1> QED BY <1>1, <1>2, AdmissionTypeOK, PTL DEF Spec

-----------------------------------------------------------------------------
(* The call limit *)

\* The calls in flight are finitely many, no more than the handlers.
LEMMA InFlightBound ==
  ASSUME NEW s \in Sessions
  PROVE  /\ IsFiniteSet(InFlight(s))
         /\ Cardinality(InFlight(s)) \in Nat
         /\ Cardinality(Handlers) \in Nat
         /\ Cardinality(InFlight(s)) <= Cardinality(Handlers)
BY HandlersAssumption, FS_Subset, FS_CardinalityType DEF InFlight

\* A call enters the stretch from Check to Record only through Check, and only
\* Record counts it.
LEMMA OnlyCheckAdmits ==
  ASSUME TypeOK, [Next]_vars,
         \A h \in Handlers : ~QuotaPass(h) /\ ~RecordCall(h)
  PROVE  /\ callCount' = callCount
         /\ \A s \in Sessions : InFlight(s)' \subseteq InFlight(s)
<1> USE DEF InFlight, Goto, budgetVars, reloadVars, callVars, countVars
<1>1. CASE \E h \in Handlers : Serve(h) \/ ReviewAnswered(h)
  <2>1. PICK h \in Handlers : Serve(h) \/ ReviewAnswered(h)
    BY <1>1
  <2>2. CASE \/ DepthLimited(h) \/ BudgetExhausted(h) \/ ValidatorsFail(h)
             \/ ReviewTimesOut(h) \/ ReviewAnswered(h) \/ OutboundPass(h)
             \/ OutboundFail(h) \/ ApplyMode(h)
    BY <2>2 DEF TypeOK, DepthLimited, BudgetExhausted, QuotaViolation, QuotaStop, ValidatorsFail, Violated,
                ReviewTimesOut, ReviewAnswered, ReviewEnds, OutboundPass,
                OutboundFail, ApplyMode, Local
  <2>3. CASE ValidatorsPass(h) \/ Mutate(h)
    BY <2>3 DEF TypeOK, ValidatorsPass, Mutate, Local
  <2>4. CASE RecordUsage(h) \/ WriteAudit(h) \/ Reply(h)
    BY <2>4 DEF TypeOK, RecordUsage, Charge, WriteAudit, Reply
  <2> QED BY <2>1, <2>2, <2>3, <2>4 DEF Serve
<1>2. CASE \E h \in Handlers : RefuseToken(h)
  BY <1>2 DEF RefuseToken
<1>3. CASE \E h \in Handlers, s \in Sessions :
             Arrive(h, s, "quota") \/ Arrive(h, s, "outbound")
  BY <1>3 DEF TypeOK, Arrive
<1>4. CASE \E s \in Sessions : MinutePasses(s)
  BY <1>4 DEF MinutePasses
<1>5. CASE (\E p \in Policies : ReloadBegins(p)) \/ Reload
  BY <1>5 DEF ReloadBegins, Reload, ReloadBudget, ReloadFails, GiveUp, ReloadValidators,
              SetObserveMode, PublishPolicy
<1>6. CASE UNCHANGED vars
  BY <1>6 DEF vars
<1> QED BY <1>1, <1>2, <1>3, <1>4, <1>5, <1>6 DEF Next

\* The calls a session was granted pass its limit by less than the number of
\* handlers that can be between Check and Record at once, across any reloads.
THEOREM CallsStayWithinLimit == Spec => []CallsWithinLimit
<1> DEFINE Room(s, p) == callCount[s] + Cardinality(InFlight(s))
                           < CallLimit(s, p) + Cardinality(Handlers)
<1>0. ASSUME NEW s \in Sessions, NEW p \in Policies PROVE CallLimit(s, p) \in Nat
  BY PoliciesAssumption, DelegatedAssumption DEF CallLimit, PolicyRecord
<1>1. Init => CallsWithinLimit
  <2> SUFFICES ASSUME Init, NEW s \in Sessions PROVE Room(s, InitialPolicy)
    BY PoliciesAssumption DEF CallsWithinLimit
  <2>1. InFlight(s) = {}
    BY DEF Init, InFlight
  <2>2. Cardinality(Handlers) \in Nat /\ Cardinality(Handlers) # 0
    BY HandlersAssumption, FS_CardinalityType, FS_EmptySet
  <2>3. CallLimit(s, InitialPolicy) \in Nat
    BY <1>0, PoliciesAssumption
  <2> QED BY <2>1, <2>2, <2>3, FS_EmptySet DEF Init
<1>2. TypeOK /\ CallsWithinLimit /\ [Next]_vars => CallsWithinLimit'
  <2> SUFFICES ASSUME TypeOK, CallsWithinLimit, [Next]_vars, BudgetAlwaysOn,
                      NEW s \in Sessions
               PROVE  \E p \in Policies : Room(s, p)'
    BY DEF CallsWithinLimit, BudgetAlwaysOn
  <2>0. callCount[s] \in Nat
    BY DEF TypeOK
  <2>1. PICK p \in Policies : Room(s, p)
    BY DEF CallsWithinLimit
  <2>2. CallLimit(s, p)' = CallLimit(s, p) /\ CallLimit(s, p) \in Nat
    BY <1>0 DEF CallLimit
  <2>3. CASE \A h \in Handlers : ~QuotaPass(h) /\ ~RecordCall(h)
    <3>1. callCount' = callCount /\ InFlight(s)' \subseteq InFlight(s)
      BY <2>3, OnlyCheckAdmits
    <3>2. /\ Cardinality(InFlight(s)') <= Cardinality(InFlight(s))
          /\ Cardinality(InFlight(s)') \in Nat
          /\ Cardinality(InFlight(s)) \in Nat
          /\ Cardinality(Handlers) \in Nat
      BY <3>1, InFlightBound, FS_Subset, FS_CardinalityType
    <3>3. Room(s, p)'
      BY <2>0, <2>1, <2>2, <3>1, <3>2
    <3> QED BY <3>3
  <2>4. CASE \E h \in Handlers : QuotaPass(h)
    <3>1. PICK h \in Handlers : QuotaPass(h)
      BY <2>4
    <3>2. /\ pc[h] = "quota" /\ pc' = [pc EXCEPT ![h] = "validate"]
          /\ sess' = sess /\ callCount' = callCount
      BY <3>1 DEF QuotaPass, Local, Goto, budgetVars
    <3>3. CASE sess[h] = s
      <4>1. PICK c \in VisibleBudget : ~(callCount[s] >= CallLimit(s, c))
        BY <3>1, <3>3, VisibleBudgetType DEF QuotaPass, Exhausted, BudgetAlwaysOn
      <4>2. c \in Policies /\ CallLimit(s, c) \in Nat /\ CallLimit(s, c)' = CallLimit(s, c)
        BY <4>1, <1>0, VisibleBudgetType DEF CallLimit
      <4>3. InFlight(s)' \subseteq Handlers
        BY DEF InFlight
      <4>4. /\ Cardinality(InFlight(s)') <= Cardinality(Handlers)
            /\ Cardinality(InFlight(s)') \in Nat
            /\ Cardinality(Handlers) \in Nat
        BY <4>3, HandlersAssumption, FS_Subset, FS_CardinalityType
      <4>5. Room(s, c)'
        BY <2>0, <3>2, <4>1, <4>2, <4>4
      <4> QED BY <4>2, <4>5
    <3>4. CASE sess[h] # s
      <4>1. InFlight(s)' = InFlight(s)
        BY <3>2, <3>4 DEF InFlight, TypeOK
      <4>2. Room(s, p)'
        BY <2>1, <2>2, <3>2, <4>1
      <4> QED BY <4>2
    <3> QED BY <3>3, <3>4
  <2>5. CASE \E h \in Handlers : RecordCall(h)
    <3>1. PICK h \in Handlers : RecordCall(h)
      BY <2>5
    <3>2. /\ pc[h] = "record" /\ pc' = [pc EXCEPT ![h] = "mode"]
          /\ sess' = sess
          /\ callCount' = [callCount EXCEPT ![sess[h]] = @ + 1]
      BY <3>1, VisibleBudgetType DEF RecordCall, Goto, callVars, BudgetAlwaysOn
    <3>3. CASE sess[h] = s
      <4>1. h \in InFlight(s) /\ InFlight(s)' = InFlight(s) \ {h}
        BY <3>2, <3>3 DEF InFlight, TypeOK
      <4>2. Cardinality(InFlight(s)') = Cardinality(InFlight(s)) - 1
        BY <4>1, InFlightBound, FS_RemoveElement
      <4>3. callCount'[s] = callCount[s] + 1
        BY <3>2, <3>3 DEF TypeOK
      <4>4. Room(s, p)'
        BY <2>0, <2>1, <2>2, <4>2, <4>3, InFlightBound
      <4> QED BY <4>4
    <3>4. CASE sess[h] # s
      <4>1. InFlight(s)' = InFlight(s) /\ callCount'[s] = callCount[s]
        BY <3>2, <3>4 DEF InFlight, TypeOK
      <4>2. Room(s, p)'
        BY <2>1, <2>2, <4>1
      <4> QED BY <4>2
    <3> QED BY <3>3, <3>4
  <2> QED BY <2>3, <2>4, <2>5
<1> QED BY <1>1, <1>2, AdmissionTypeOK, PTL DEF Spec

-----------------------------------------------------------------------------
(* The spend *)

\* The calls whose spend is outstanding are finitely many.
LEMMA UnspentFinite ==
  ASSUME NEW s \in Sessions
  PROVE  IsFiniteSet(Unspent(s)) /\ Cardinality(Unspent(s)) \in Nat
BY HandlersAssumption, FS_Subset, FS_CardinalityType DEF Unspent

\* A call's spend is outstanding from its arrival to RecordCall or RecordUsage:
\* no other step moves it, whatever the path through the pipeline.
LEMMA OnlyRecordSpends ==
  ASSUME TypeOK, [Next]_vars,
         \A h \in Handlers : /\ ~RecordCall(h) /\ ~RecordUsage(h)
                             /\ \A s \in Sessions : ~Arrive(h, s, "quota")
  PROVE  /\ tokens' = tokens
         /\ entered' = entered
         /\ \A s \in Sessions : Unspent(s)' = Unspent(s)
<1> USE DEF Unspent, Goto, budgetVars, reloadVars, callVars, countVars
<1>1. CASE \E h \in Handlers : Serve(h) \/ ReviewAnswered(h)
  <2>1. PICK h \in Handlers : Serve(h) \/ ReviewAnswered(h)
    BY <1>1
  <2>2. CASE DepthLimited(h) \/ BudgetExhausted(h) \/ QuotaPass(h)
    BY <2>2 DEF TypeOK, DepthLimited, BudgetExhausted, QuotaViolation, QuotaStop, QuotaPass, Local
  <2>3. CASE ValidatorsPass(h) \/ ValidatorsFail(h) \/ Mutate(h)
    BY <2>3 DEF TypeOK, ValidatorsPass, ValidatorsFail, Violated, Mutate, Local
  <2>4. CASE ReviewTimesOut(h) \/ ReviewAnswered(h)
    BY <2>4 DEF TypeOK, ReviewTimesOut, ReviewAnswered, ReviewEnds, Local
  <2>5. CASE OutboundPass(h) \/ OutboundFail(h) \/ ApplyMode(h)
    BY <2>5 DEF TypeOK, OutboundPass, OutboundFail, ApplyMode, Local
  <2>6. CASE WriteAudit(h) \/ Reply(h)
    BY <2>6 DEF TypeOK, WriteAudit, Reply
  <2> QED BY <2>1, <2>2, <2>3, <2>4, <2>5, <2>6 DEF Serve
<1>2. CASE \E h \in Handlers : RefuseToken(h)
  BY <1>2 DEF RefuseToken
<1>3. CASE \E h \in Handlers, s \in Sessions : Arrive(h, s, "outbound")
  BY <1>3 DEF TypeOK, Arrive
<1>4. CASE \E s \in Sessions : MinutePasses(s)
  BY <1>4 DEF MinutePasses
<1>5. CASE (\E p \in Policies : ReloadBegins(p)) \/ Reload
  BY <1>5 DEF ReloadBegins, Reload, ReloadBudget, ReloadFails, GiveUp, ReloadValidators,
              SetObserveMode, PublishPolicy
<1>6. CASE UNCHANGED vars
  BY <1>6 DEF vars
<1> QED BY <1>1, <1>2, <1>3, <1>4, <1>5, <1>6 DEF Next

\* Every call that reached the quota phase is charged to its session exactly
\* once, on every exit path and across any reloads.
THEOREM SpendIsAccounted == Spec => []SpendAccounted
<1> DEFINE Balanced(s) == entered[s] = tokens[s] + Cardinality(Unspent(s))
<1>1. Init => SpendAccounted
  <2> SUFFICES ASSUME Init, NEW s \in Sessions PROVE Balanced(s)
    BY DEF SpendAccounted
  <2>1. Unspent(s) = {}
    BY DEF Init, Unspent
  <2> QED BY <2>1, FS_EmptySet DEF Init
<1>2. TypeOK /\ SpendAccounted /\ [Next]_vars => SpendAccounted'
  <2> SUFFICES ASSUME TypeOK, SpendAccounted, [Next]_vars, BudgetAlwaysOn,
                      NEW s \in Sessions
               PROVE  Balanced(s)'
    BY DEF SpendAccounted, BudgetAlwaysOn
  <2>1. /\ Balanced(s) /\ entered[s] \in Nat /\ tokens[s] \in Nat
        /\ IsFiniteSet(Unspent(s)) /\ Cardinality(Unspent(s)) \in Nat
    BY UnspentFinite DEF SpendAccounted, TypeOK
  <2>2. CASE \A h \in Handlers : /\ ~RecordCall(h) /\ ~RecordUsage(h)
                                 /\ \A r \in Sessions : ~Arrive(h, r, "quota")
    BY <2>1, <2>2, OnlyRecordSpends
  <2>3. CASE \E h \in Handlers : RecordCall(h) \/ RecordUsage(h)
    <3>1. PICK h \in Handlers : RecordCall(h) \/ RecordUsage(h)
      BY <2>3
    <3>2. /\ pc[h] \in {"record", "usage"} /\ pc' = [pc EXCEPT ![h] = "mode"]
          /\ sess' = sess /\ entered' = entered
          /\ tokens' = [tokens EXCEPT ![sess[h]] = @ + 1]
      BY <3>1, VisibleBudgetType DEF RecordCall, RecordUsage, Charge, Goto, callVars, BudgetAlwaysOn
    <3>3. CASE sess[h] = s
      <4>1. h \in Unspent(s) /\ Unspent(s)' = Unspent(s) \ {h}
        BY <3>2, <3>3 DEF Unspent, TypeOK
      <4>2. Cardinality(Unspent(s)') = Cardinality(Unspent(s)) - 1
        BY <2>1, <4>1, FS_RemoveElement
      <4>3. tokens'[s] = tokens[s] + 1
        BY <3>2, <3>3 DEF TypeOK
      <4> QED BY <2>1, <3>2, <4>2, <4>3
    <3>4. CASE sess[h] # s
      <4>1. Unspent(s)' = Unspent(s) /\ tokens'[s] = tokens[s]
        BY <3>2, <3>4 DEF Unspent, TypeOK
      <4> QED BY <2>1, <3>2, <4>1
    <3> QED BY <3>3, <3>4
  <2>4. CASE \E h \in Handlers, r \in Sessions : Arrive(h, r, "quota")
    <3>1. PICK h \in Handlers, r \in Sessions : Arrive(h, r, "quota")
      BY <2>4
    <3>2. /\ pc[h] = "idle" /\ pc' = [pc EXCEPT ![h] = "quota"]
          /\ sess' = [sess EXCEPT ![h] = r] /\ tokens' = tokens
          /\ entered' = [entered EXCEPT ![r] = @ + 1]
      BY <3>1 DEF Arrive, Goto, budgetVars
    <3>3. CASE r = s
      <4>1. h \notin Unspent(s) /\ Unspent(s)' = Unspent(s) \cup {h}
        BY <3>2, <3>3 DEF Unspent, TypeOK
      <4>2. Cardinality(Unspent(s)') = Cardinality(Unspent(s)) + 1
        BY <2>1, <4>1, FS_AddElement
      <4>3. entered'[s] = entered[s] + 1
        BY <3>2, <3>3 DEF TypeOK
      <4> QED BY <2>1, <3>2, <4>2, <4>3
    <3>4. CASE r # s
      <4>1. Unspent(s)' = Unspent(s) /\ entered'[s] = entered[s]
        BY <3>2, <3>4 DEF Unspent, TypeOK
      <4> QED BY <2>1, <3>2, <4>1
    <3> QED BY <3>3, <3>4
  <2> QED BY <2>2, <2>3, <2>4
<1> QED BY <1>1, <1>2, AdmissionTypeOK, PTL DEF Spec

-----------------------------------------------------------------------------
(* The promise of the gate *)

\* What the caller of handler h sees of it, and of the answer it waits for.
PhaseOf(stage) == CASE stage = "idle"  -> "free"
                    [] stage = "reply" -> "recorded"
                    [] OTHER           -> "judging"
Phases  == [h \in Handlers |-> PhaseOf(pc[h])]
Answers == [h \in Handlers |-> IF pc[h] = "reply" THEN decision[h] ELSE "ALLOW"]

\* A step of a handler that holds a call and does not answer it is a stutter of
\* the gate, unless it writes the record.
LEMMA JudgingIsStutter ==
  ASSUME TypeOK, NEW h \in Handlers,
         pc[h] \notin {"idle", "log", "reply"},
         NEW to \in Stage \ {"idle", "reply"},
         pc' = [pc EXCEPT ![h] = to],
         \/ decision' = decision
         \/ \E d : decision' = [decision EXCEPT ![h] = d],
         UNCHANGED <<logged, answered>>
  PROVE  UNCHANGED <<Phases, Answers, logged, answered>>
<1>1. PhaseOf(pc[h]) = "judging" /\ PhaseOf(to) = "judging"
  BY DEF PhaseOf
<1>2. Phases' = Phases
  BY <1>1 DEF Phases, TypeOK
<1>3. Answers' = Answers
  BY DEF Answers, TypeOK
<1> QED BY <1>2, <1>3

\* Every step of the pipeline is a step of the gate or a stutter.
LEMMA StepKeepsPromise ==
  TypeOK /\ [Next]_vars => [Gate!GateNext]_(Gate!gateVars)
<1> SUFFICES ASSUME TypeOK, [Next]_vars
             PROVE  \/ \E h \in Handlers : \/ Gate!Admit(h) \/ Gate!TurnAway(h)
                                           \/ Gate!Commit(h) \/ Gate!Answer(h)
                    \/ UNCHANGED <<Phases, Answers, logged, answered>>
  BY DEF Gate!GateNext, Gate!gateVars, Phases, PhaseOf, Answers
<1> USE DEF Goto, Decide, budgetVars, reloadVars, callVars, countVars
<1>1. ASSUME NEW h \in Handlers, Serve(h) \/ ReviewAnswered(h)
      PROVE  \/ Gate!Commit(h) \/ Gate!Answer(h)
             \/ UNCHANGED <<Phases, Answers, logged, answered>>
  <2> USE <1>1
  <2>1. CASE DepthLimited(h) \/ BudgetExhausted(h) \/ QuotaPass(h)
    BY <2>1, JudgingIsStutter
       DEF Stage, DepthLimited, BudgetExhausted, QuotaViolation, QuotaStop, QuotaPass, Local
  <2>2. CASE ValidatorsPass(h) \/ Mutate(h)
    BY <2>2, JudgingIsStutter DEF Stage, ValidatorsPass, Mutate, Local
  <2>3. CASE ValidatorsFail(h)
    BY <2>3, JudgingIsStutter DEF Stage, ValidatorsFail, Violated, Local
  <2>4. CASE ReviewTimesOut(h) \/ ReviewAnswered(h)
    BY <2>4, JudgingIsStutter
       DEF Stage, ReviewTimesOut, ReviewAnswered, ReviewEnds, Local
  <2>5. CASE RecordCall(h) \/ RecordUsage(h)
    BY <2>5, JudgingIsStutter DEF Stage, RecordCall, RecordUsage, Charge
  <2>6. CASE OutboundPass(h) \/ OutboundFail(h) \/ ApplyMode(h)
    BY <2>6, JudgingIsStutter DEF Stage, OutboundPass, OutboundFail, ApplyMode, Local
  <2>7. CASE WriteAudit(h)
    <3>1. /\ pc[h] = "log" /\ pc' = [pc EXCEPT ![h] = "reply"]
          /\ decision' = decision /\ logged' = logged + 1 /\ answered' = answered
      BY <2>7 DEF WriteAudit
    <3>2. Phases[h] = "judging" /\ Phases' = [Phases EXCEPT ![h] = "recorded"]
      BY <3>1 DEF Phases, PhaseOf, TypeOK
    <3>3. Answers' = [Answers EXCEPT ![h] = decision[h]] /\ decision[h] \in Decision
      BY <3>1 DEF Answers, TypeOK
    <3> QED BY <3>1, <3>2, <3>3 DEF Gate!Commit, Gate!Decision, Decision, Phases, PhaseOf, Answers
  <2>8. CASE Reply(h)
    <3>1. /\ pc[h] = "reply" /\ pc' = [pc EXCEPT ![h] = "idle"]
          /\ decision' = [decision EXCEPT ![h] = "ALLOW"]
          /\ logged' = logged /\ answered' = answered + 1
      BY <2>8 DEF Reply
    <3>2. Phases[h] = "recorded" /\ Phases' = [Phases EXCEPT ![h] = "free"]
      BY <3>1 DEF Phases, PhaseOf, TypeOK
    <3>3. Answers' = [Answers EXCEPT ![h] = "ALLOW"]
      BY <3>1 DEF Answers, TypeOK
    <3> QED BY <3>1, <3>2, <3>3 DEF Gate!Answer, Phases, PhaseOf, Answers
  <2> QED BY <2>1, <2>2, <2>3, <2>4, <2>5, <2>6, <2>7, <2>8 DEF Serve
<1>2. ASSUME NEW h \in Handlers, RefuseToken(h)
      PROVE  Gate!TurnAway(h)
  <2>1. /\ pc[h] = "idle" /\ pc' = pc /\ decision' = decision
        /\ answered' = answered + 1 /\ logged' = logged
    BY <1>2 DEF RefuseToken
  <2>2. Phases[h] = "free" /\ Phases' = Phases /\ Answers' = Answers
    BY <2>1 DEF Phases, PhaseOf, Answers
  <2> QED BY <2>1, <2>2 DEF Gate!TurnAway, Phases, PhaseOf, Answers
<1>3. ASSUME NEW h \in Handlers, NEW s \in Sessions,
             Arrive(h, s, "quota") \/ Arrive(h, s, "outbound")
      PROVE  Gate!Admit(h)
  <2>1. PICK stage \in {"quota", "outbound"} : Arrive(h, s, stage)
    BY <1>3
  <2>2. /\ pc[h] = "idle" /\ pc' = [pc EXCEPT ![h] = stage] /\ decision' = decision
        /\ answered' = answered /\ logged' = logged
    BY <2>1 DEF Arrive
  <2>3. Phases[h] = "free" /\ Phases' = [Phases EXCEPT ![h] = "judging"]
    BY <2>2 DEF Phases, PhaseOf, TypeOK
  <2>4. Answers' = Answers
    BY <2>2 DEF Answers, TypeOK
  <2> QED BY <2>2, <2>3, <2>4 DEF Gate!Admit, Phases, PhaseOf, Answers
<1>4. ASSUME \/ \E s \in Sessions : MinutePasses(s)
             \/ \E p \in Policies : ReloadBegins(p)
             \/ Reload \/ UNCHANGED vars
      PROVE  UNCHANGED <<Phases, Answers, logged, answered>>
  BY <1>4 DEF MinutePasses, ReloadBegins, Reload, ReloadBudget, ReloadFails, GiveUp,
              ReloadValidators, SetObserveMode, PublishPolicy, vars, Phases, Answers
<1> QED BY <1>1, <1>2, <1>3, <1>4 DEF Next

\* The pipeline implements AdmissionGate: every call it takes is recorded once,
\* before it is answered, and answered with the decision of the record.
THEOREM PipelineKeepsGatePromise == Spec => KeepsGatePromise
<1>1. Init => Gate!GateInit
  BY DEF Init, Gate!GateInit
<1> QED BY <1>1, StepKeepsPromise, AdmissionTypeOK, PTL DEF Spec, KeepsGatePromise, Gate!GateSpec

-----------------------------------------------------------------------------
(* Calls no reload overlapped *)

\* The decision of h is one its violations and its reviewer allow.
Honest(h) ==
  /\ found[h] \in Blocking => decision[h] = found[h]
  /\ decision[h] \in {"ALLOW", "MUTATE"} =>
       \/ found[h] = "none"
       \/ found[h] = "HUMAN_REVIEW" /\ reviewed[h] = "approved"

\* What holds of h on its way there: its violations are known from one stage on,
\* and while no reload runs its snapshot is still the pipeline in force.
HandlerInv(h) ==
  /\ pc[h] \in {"idle", "quota", "validate", "mutate", "record", "outbound"}
       => found[h] = "none"
  /\ pc[h] = "review" => found[h] = "HUMAN_REVIEW"
  /\ quiet[h] =>
       /\ reload = "idle" /\ snap[h] = pipeline /\ pc[h] \notin {"idle", "outbound"}
       /\ pc[h] \in {"usage", "mode"} => Honest(h)
       /\ pc[h] \in {"log", "reply"} =>
            IF snap[h].observe THEN decision[h] = "ALLOW" ELSE Honest(h)
       /\ pc[h] = "reply" => stamp[h] = snap[h]

QuietInv == \A h \in Handlers : HandlerInv(h)

\* A handler's own step keeps what holds of it.
LEMMA ServeKeepsHandlerInv ==
  ASSUME TypeOK, PublishedPolicyInForce, NEW h \in Handlers, HandlerInv(h),
         Serve(h) \/ ReviewAnswered(h)
  PROVE  HandlerInv(h)'
<1> USE DEF TypeOK, HandlerInv, Honest, Goto, Decide, budgetVars, reloadVars,
            callVars, countVars, Blocking
<1>1. CASE DepthLimited(h) \/ BudgetExhausted(h) \/ QuotaPass(h)
  BY <1>1 DEF DepthLimited, BudgetExhausted, QuotaViolation, QuotaStop, QuotaPass, Local
<1>2. CASE ValidatorsPass(h) \/ Mutate(h)
  BY <1>2 DEF ValidatorsPass, Mutate, Local
<1>3. CASE ValidatorsFail(h)
  <2>1. PICK candidates \in SUBSET {"HUMAN_REVIEW", "DENY", "TERMINATE"} :
          LET d == ResolveDecision(candidates)
          IN  /\ candidates # {}
              /\ found' = [found EXCEPT ![h] = d]
              /\ Decide(h, d)
              /\ Local(h, "validate", IF d \in {"HUMAN_REVIEW"} /\ ReviewDispatcher
                                      THEN "review" ELSE "usage")
              /\ UNCHANGED reviewed
    BY <1>3 DEF ValidatorsFail, Violated
  <2>2. ResolveDecision(candidates) \in {"HUMAN_REVIEW", "DENY", "TERMINATE"}
    BY <2>1, ResolveDecisionType
  <2> QED BY <2>1, <2>2 DEF Local
<1>4. CASE ReviewTimesOut(h) \/ ReviewAnswered(h)
  BY <1>4 DEF ReviewTimesOut, ReviewAnswered, ReviewEnds, Local
<1>5. CASE RecordCall(h) \/ RecordUsage(h)
  BY <1>5 DEF RecordCall, RecordUsage, Charge
<1>6. CASE OutboundPass(h) \/ OutboundFail(h)
  BY <1>6 DEF OutboundPass, OutboundFail, Local
<1>7. CASE ApplyMode(h)
  BY <1>7 DEF ApplyMode, Local, PublishedPolicyInForce
<1>8. CASE WriteAudit(h)
  BY <1>8 DEF WriteAudit, PublishedPolicyInForce
<1>9. CASE Reply(h)
  BY <1>9 DEF Reply
<1> QED
  BY <1>1, <1>2, <1>3, <1>4, <1>5, <1>6, <1>7, <1>8, <1>9 DEF Serve

\* The step of one handler touches nothing that the others' invariant reads.
LEMMA ServeLeavesOthers ==
  ASSUME TypeOK, NEW h \in Handlers, NEW g \in Handlers \ {h},
         Serve(h) \/ ReviewAnswered(h)
  PROVE  /\ pc'[g] = pc[g] /\ found'[g] = found[g] /\ quiet'[g] = quiet[g]
         /\ snap'[g] = snap[g] /\ decision'[g] = decision[g]
         /\ reviewed'[g] = reviewed[g] /\ stamp'[g] = stamp[g]
         /\ reload' = reload /\ pipeline' = pipeline
<1> USE DEF TypeOK, Goto, Decide, budgetVars, reloadVars, callVars, countVars
<1>1. CASE DepthLimited(h) \/ BudgetExhausted(h) \/ QuotaPass(h)
  BY <1>1 DEF DepthLimited, BudgetExhausted, QuotaViolation, QuotaStop, QuotaPass, Local
<1>2. CASE ValidatorsPass(h) \/ ValidatorsFail(h) \/ Mutate(h)
  BY <1>2 DEF ValidatorsPass, ValidatorsFail, Violated, Mutate, Local
<1>3. CASE ReviewTimesOut(h) \/ ReviewAnswered(h)
  BY <1>3 DEF ReviewTimesOut, ReviewAnswered, ReviewEnds, Local
<1>4. CASE RecordCall(h) \/ RecordUsage(h)
  BY <1>4 DEF RecordCall, RecordUsage, Charge
<1>5. CASE OutboundPass(h) \/ OutboundFail(h) \/ ApplyMode(h)
  BY <1>5 DEF OutboundPass, OutboundFail, ApplyMode, Local
<1>6. CASE WriteAudit(h) \/ Reply(h)
  BY <1>6 DEF WriteAudit, Reply
<1> QED BY <1>1, <1>2, <1>3, <1>4, <1>5, <1>6 DEF Serve

\* A call to /intercept that no reload overlapped is judged, released and stamped
\* under one policy, and released only as its violations and reviewer allow.
THEOREM QuietCallsAreJudgedByOnePolicy == Spec => []QuietCallsSeeOnePolicy
<1>1. Init => QuietInv
  BY DEF Init, QuietInv, HandlerInv
<1>2. TypeOK /\ PublishedPolicyInForce /\ QuietInv /\ [Next]_vars => QuietInv'
  <2> SUFFICES ASSUME TypeOK, PublishedPolicyInForce, QuietInv, [Next]_vars,
                      NEW g \in Handlers
               PROVE  HandlerInv(g)'
    BY DEF QuietInv
  <2>0. HandlerInv(g)
    BY DEF QuietInv
  <2> USE DEF HandlerInv, Honest, budgetVars, reloadVars, callVars, countVars
  <2>1. CASE \E h \in Handlers : Serve(h) \/ ReviewAnswered(h)
    <3>1. PICK h \in Handlers : Serve(h) \/ ReviewAnswered(h)
      BY <2>1
    <3>2. CASE h = g
      BY <2>0, <3>1, <3>2, ServeKeepsHandlerInv
    <3>3. CASE h # g
      BY <2>0, <3>1, <3>3, ServeLeavesOthers
    <3> QED BY <3>2, <3>3
  <2>2. CASE \E h \in Handlers : RefuseToken(h)
    BY <2>0, <2>2 DEF RefuseToken
  <2>3. CASE \E h \in Handlers, s \in Sessions :
               Arrive(h, s, "quota") \/ Arrive(h, s, "outbound")
    BY <2>0, <2>3 DEF TypeOK, Arrive, Goto
  <2>4. CASE \E s \in Sessions : MinutePasses(s)
    BY <2>0, <2>4 DEF MinutePasses
  <2>5. CASE (\E p \in Policies : ReloadBegins(p)) \/ Reload
    BY <2>0, <2>5 DEF TypeOK, ReloadBegins, Reload, ReloadBudget, ReloadFails, GiveUp,
                      ReloadValidators, SetObserveMode, PublishPolicy
  <2>6. CASE UNCHANGED vars
    BY <2>0, <2>6 DEF vars
  <2> QED BY <2>1, <2>2, <2>3, <2>4, <2>5, <2>6 DEF Next
<1>3. QuietInv => QuietCallsSeeOnePolicy
  BY DEF QuietInv, HandlerInv, Honest, QuietCallsSeeOnePolicy
<1> QED
  BY <1>1, <1>2, <1>3, AdmissionTypeOK, PublishedPolicyIsInForce, PTL DEF Spec
=============================================================================
