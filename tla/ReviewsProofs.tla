---------------------------- MODULE ReviewsProofs ----------------------------
(***************************************************************************)
(* Proofs about Reviews, for any number of reviews, waiting hooks, operators *)
(* and dispatches.                                                          *)
(***************************************************************************)
EXTENDS Reviews, FiniteSetTheorems, TLAPS

-----------------------------------------------------------------------------
(* The store's channel *)

\* A channel's contents, of capacity one.
Slot == {<<>>, <<TRUE>>, <<FALSE>>}

\* What the select takes from the channel empties it ...
LEMMA TakeEmpties ==
  ASSUME NEW c \in Slot, c # <<>>
  PROVE  Head(c) \in BOOLEAN /\ Tail(c) = <<>> /\ c = <<Head(c)>>
<1>1. PICK b \in BOOLEAN : c = <<b>>
  BY DEF Slot
<1>2. Head(<<b>>) = b /\ Tail(<<b>>) = <<>>
  OBVIOUS
<1> QED BY <1>1, <1>2

\* ... and what Decide sends to an empty one fills it.
LEMMA SendFills ==
  ASSUME NEW b \in BOOLEAN
  PROVE  Append(<<>>, b) = <<b>> /\ <<b>> \in Slot /\ (<<b>> = <<TRUE>> <=> b)
<1>1. Append(<<>>, b) = <<b>>
  OBVIOUS
<1>2. b = TRUE \/ b = FALSE
  OBVIOUS
<1>3. <<b>> \in Slot
  BY <1>2 DEF Slot
<1>4. <<b>> = <<TRUE>> <=> b
  <2>1. CASE b = TRUE
    BY <2>1
  <2>2. CASE b = FALSE
    BY <2>2
  <2> QED BY <1>2, <2>1, <2>2
<1> QED BY <1>1, <1>3, <1>4

-----------------------------------------------------------------------------
(* Type correctness *)

\* The store's and the dispatcher's steps, disjunct by disjunct: a case analysis for
\* every proof below.
LEMMA NextCases ==
  ASSUME [Next]_vars
  PROVE  \/ \E r \in ReviewIds : Submit(r)
         \/ \E w \in Waiters, r \in Known : BeginWait(w, r)
         \/ \E w \in Waiters : Receive(w)
         \/ \E w \in Waiters : Elapse(w)
         \/ \E w \in Waiters : Remove(w)
         \/ \E o \in Operators, r \in Known, b \in BOOLEAN : BeginDecision(o, r, b)
         \/ \E o \in Operators : LookUp(o)
         \/ \E o \in Operators : Send(o)
         \/ \E o \in Operators : RecordOutcome(o)
         \/ UNCHANGED storeVars
BY DEF Next, vars, Wait, Finish, Decide, Post, Review, Dispatch, PostFails, PostDecided,
       PostAccepted, Tick, PollExpires, NotYet, PollDecided, Decided, DispatchStep

\* The conjuncts of TypeOK about the review store.
StoreTypeOK ==
  /\ pending \subseteq submitted /\ submitted \subseteq ReviewIds
  /\ decideCh \in [ReviewIds -> Slot]
  /\ approval \in [ReviewIds -> {"", "APPROVED", "DENIED"}]
  /\ waiter \in [Waiters -> WaiterState]
  /\ operator \in [Operators -> OperatorState]
  /\ sent \in [ReviewIds -> Seq(BOOLEAN)]
  /\ \A w \in Waiters : waiter[w].at \in {"select", "remove"} => waiter[w].of \in submitted
  /\ \A o \in Operators : operator[o].at \in {"decide", "send", "record", "done", "lost"}
                            => operator[o].of \in submitted

\* The conjuncts of TypeOK about the dispatcher, and the webhook's promise: what the
\* pipeline hears approved, the reviewer approved.
HookOK ==
  /\ dispatch \in [Dispatches -> DispatchState]
  /\ reviewer \in [Dispatches -> {"undecided", "approved", "denied"}]
  /\ \A d \in Dispatches : dispatch[d].result = "approved" => reviewer[d] = "approved"

\* A waiter may go anywhere but to a review that never was.
LEMMA WaiterMoves ==
  ASSUME StoreTypeOK, NEW w \in Waiters, NEW state \in WaiterState,
         state.at \in {"select", "remove"} => state.of \in submitted,
         waiter' = [waiter EXCEPT ![w] = state],
         UNCHANGED <<submitted, approval, operator, sent>>,
         pending' \subseteq submitted, decideCh' \in [ReviewIds -> Slot]
  PROVE  StoreTypeOK'
<1> USE DEF StoreTypeOK
<1>1. waiter' \in [Waiters -> WaiterState']
  BY DEF WaiterState, Ids
<1>2. \A v \in Waiters : waiter'[v].at \in {"select", "remove"} => waiter'[v].of \in submitted'
  OBVIOUS
<1>3. /\ approval' \in [ReviewIds -> {"", "APPROVED", "DENIED"}]
      /\ operator' \in [Operators -> OperatorState']
      /\ sent' \in [ReviewIds -> Seq(BOOLEAN)]
  BY DEF OperatorState, Ids
<1> QED BY <1>1, <1>2, <1>3 DEF Slot

\* Nor may an operator.
LEMMA OperatorMoves ==
  ASSUME StoreTypeOK, NEW o \in Operators, NEW state \in OperatorState,
         state.at \in {"decide", "send", "record", "done", "lost"} => state.of \in submitted,
         operator' = [operator EXCEPT ![o] = state],
         UNCHANGED <<submitted, pending, waiter>>,
         decideCh' \in [ReviewIds -> Slot], sent' \in [ReviewIds -> Seq(BOOLEAN)],
         approval' \in [ReviewIds -> {"", "APPROVED", "DENIED"}]
  PROVE  StoreTypeOK'
<1> USE DEF StoreTypeOK
<1>1. operator' \in [Operators -> OperatorState']
  BY DEF OperatorState, Ids
<1>2. \A p \in Operators : operator'[p].at \in {"decide", "send", "record", "done", "lost"}
                              => operator'[p].of \in submitted'
  OBVIOUS
<1>3. waiter' \in [Waiters -> WaiterState']
  BY DEF WaiterState, Ids
<1> QED BY <1>1, <1>2, <1>3 DEF Slot

\* Hooks and operators keep the store's types.
LEMMA StoreTypeStep ==
  ASSUME StoreTypeOK, [Next]_vars
  PROVE  StoreTypeOK'
<1>0. Known \subseteq Ids /\ submitted \subseteq ReviewIds /\ NoId \notin ReviewIds
  BY ReviewAssumption DEF Known, Ids, StoreTypeOK
<1>1. CASE \E r \in ReviewIds : Submit(r)
  BY <1>1 DEF Submit, StoreTypeOK, Slot, WaiterState, OperatorState, Ids
<1>2. CASE \E w \in Waiters, r \in Known : BeginWait(w, r)
  <2>1. PICK w \in Waiters, r \in Known : BeginWait(w, r)
    BY <1>2
  <2> DEFINE state == [at |-> IF r \in pending THEN "select" ELSE "answered",
                       of |-> r, told |-> "DENY"]
  <2>2. state \in WaiterState /\ (state.at = "select" => r \in submitted)
    BY <1>0 DEF WaiterState, StoreTypeOK
  <2>3. UNCHANGED <<pending, decideCh>>
    BY <2>1 DEF BeginWait
  <2> QED BY <2>1, <2>2, <2>3, WaiterMoves DEF BeginWait, WaitStep, StoreTypeOK
<1>3. CASE \E w \in Waiters : Receive(w)
  <2>1. PICK w \in Waiters : Receive(w)
    BY <1>3
  <2> DEFINE r == waiter[w].of
             state == [at |-> "remove", of |-> r,
                       told |-> IF Head(decideCh[r]) THEN "ALLOW" ELSE "DENY"]
  <2>2. r \in submitted /\ r \in ReviewIds /\ state \in WaiterState
    BY <2>1 DEF Receive, StoreTypeOK, WaiterState, Ids
  <2>3. decideCh' \in [ReviewIds -> Slot]
    <3>1. Tail(decideCh[r]) = <<>>
      BY <2>1, <2>2, TakeEmpties DEF Receive, StoreTypeOK
    <3> QED BY <2>1, <2>2, <3>1 DEF Receive, StoreTypeOK, Slot
  <2> QED BY <2>1, <2>2, <2>3, WaiterMoves DEF Receive, WaitStep, StoreTypeOK
<1>4. CASE \E w \in Waiters : Elapse(w) \/ Remove(w)
  <2>1. PICK w \in Waiters, state \in WaiterState :
          /\ state.of = waiter[w].of /\ (state.at = "remove" => waiter[w].at = "select")
          /\ state.at \in {"remove", "answered"}
          /\ waiter' = [waiter EXCEPT ![w] = state]
          /\ UNCHANGED <<submitted, approval, operator, sent, decideCh>>
          /\ pending' \subseteq pending
    <3>1. ASSUME NEW w \in Waiters, NEW to \in {"remove", "answered"}
          PROVE  /\ [waiter[w] EXCEPT !.at = to] \in WaiterState
                 /\ [waiter[w] EXCEPT !.at = to].of = waiter[w].of
                 /\ [waiter[w] EXCEPT !.at = to].at = to
      BY DEF StoreTypeOK, WaiterState
    <3> QED BY <1>4, <3>1 DEF Elapse, Remove, WaitStep
  <2> QED BY <2>1, WaiterMoves DEF StoreTypeOK
<1>5. CASE \E o \in Operators, r \in Known, b \in BOOLEAN : BeginDecision(o, r, b)
  <2>1. PICK o \in Operators, r \in Known, b \in BOOLEAN : BeginDecision(o, r, b)
    BY <1>5
  <2> DEFINE state == [at |-> IF r \in pending THEN "decide" ELSE "notFound",
                       of |-> r, approves |-> b]
  <2>2. state \in OperatorState /\ (state.at = "decide" => r \in submitted)
    BY <1>0 DEF OperatorState, StoreTypeOK
  <2> QED BY <2>1, <2>2, OperatorMoves DEF BeginDecision, StoreTypeOK
<1>6. ASSUME NEW o \in Operators, NEW from \in {"decide", "send", "record"},
             NEW to \in {"send", "record", "done", "lost", "notFound"}, OperatorStep(o, from, to),
             decideCh' \in [ReviewIds -> Slot], sent' \in [ReviewIds -> Seq(BOOLEAN)],
             approval' \in [ReviewIds -> {"", "APPROVED", "DENIED"}]
      PROVE  StoreTypeOK'
  <2> DEFINE state == [operator[o] EXCEPT !.at = to]
  <2>1. state \in OperatorState /\ state.of = operator[o].of /\ state.at = to
    BY DEF StoreTypeOK, OperatorState
  <2>2. operator[o].of \in submitted
    BY <1>6 DEF StoreTypeOK, OperatorStep
  <2>3. operator' = [operator EXCEPT ![o] = state]
    BY <1>6 DEF OperatorStep
  <2> QED BY <1>6, <2>1, <2>2, <2>3, OperatorMoves DEF OperatorStep
<1>7. CASE \E o \in Operators : LookUp(o)
  BY <1>6, <1>7 DEF LookUp, StoreTypeOK
<1>8. CASE \E o \in Operators : Send(o)
  <2>1. PICK o \in Operators : Send(o)
    BY <1>8
  <2> DEFINE r == operator[o].of
             b == operator[o].approves
  <2>2. /\ OperatorStep(o, "send", "record") /\ UNCHANGED approval
        /\ decideCh[r] = <<>> /\ decideCh' = [decideCh EXCEPT ![r] = Append(@, b)]
        /\ sent' = [sent EXCEPT ![r] = Append(@, b)]
    BY <2>1 DEF Send, SendWhen
  <2>3. r \in ReviewIds /\ b \in BOOLEAN
    BY <2>2 DEF OperatorStep, StoreTypeOK, OperatorState
  <2>4. decideCh' \in [ReviewIds -> Slot]
    BY <2>2, <2>3, SendFills DEF StoreTypeOK
  <2>5. sent' \in [ReviewIds -> Seq(BOOLEAN)]
    <3>1. sent[r] \in Seq(BOOLEAN)
      BY <2>3 DEF StoreTypeOK
    <3>2. Append(sent[r], b) \in Seq(BOOLEAN)
      BY <2>3, <3>1
    <3> QED BY <2>2, <3>2 DEF StoreTypeOK
  <2> QED BY <1>6, <2>2, <2>4, <2>5 DEF StoreTypeOK
<1>9. CASE \E o \in Operators : RecordOutcome(o)
  <2>1. PICK o \in Operators : RecordOutcome(o)
    BY <1>9
  <2>2. PICK to \in {"done", "lost"} : OperatorStep(o, "record", to)
    BY <2>1 DEF RecordOutcome, RecordAs
  <2>3. approval' \in [ReviewIds -> {"", "APPROVED", "DENIED"}] /\ UNCHANGED <<decideCh, sent>>
    BY <2>1 DEF RecordOutcome, RecordAs, Word, StoreTypeOK
  <2> QED BY <1>6, <2>2, <2>3 DEF StoreTypeOK
<1>10. CASE UNCHANGED storeVars
  BY <1>10 DEF storeVars, StoreTypeOK, Slot, WaiterState, OperatorState, Ids
<1> QED BY <1>1, <1>2, <1>3, <1>4, <1>5, <1>7, <1>8, <1>9, <1>10, NextCases

\* Dispatches return "approved" only when the reviewer approved, and he keeps to it.
LEMMA HookStep ==
  ASSUME HookOK, [Next]_vars
  PROVE  HookOK'
<1> USE DEF HookOK, DispatchState
<1>1. CASE \E d \in Dispatches : Review(d)
  BY <1>1 DEF Review
<1>2. CASE \E d \in Dispatches : Post(d) \/ Dispatch(d)
  <2>1. PICK d \in Dispatches : Post(d) \/ Dispatch(d)
    BY <1>2
  <2> DEFINE Goes(state) == dispatch' = [dispatch EXCEPT ![d] = state] /\ UNCHANGED reviewer
  <2>2. CASE \E to \in {"post", "poll", "asking"} : Goes(Going(to))
    BY <2>2 DEF Going
  <2>3. CASE \E result \in {"denied", "timeout", "error"} : Goes(Returned(result))
    BY <2>3 DEF Returned
  <2>4. CASE reviewer[d] # "undecided" /\ Goes(Returned(reviewer[d]))
    BY <2>4 DEF Returned
  <2> HIDE DEF Goes
  <2>5. CASE Post(d) \/ Tick(d) \/ PollExpires(d) \/ NotYet(d)
    BY <2>2, <2>3, <2>5 DEF Post, Tick, PollExpires, NotYet, DispatchStep, Goes
  <2>6. CASE PostFails(d) \/ PostAccepted(d)
    BY <2>2, <2>3, <2>6 DEF PostFails, PostAccepted, DispatchStep, Goes
  <2>7. CASE PostDecided(d) \/ PollDecided(d)
    BY <2>3, <2>4, <2>7 DEF PostDecided, PollDecided, Decided, DispatchStep, Goes
  <2> QED BY <2>1, <2>5, <2>6, <2>7 DEF Dispatch
<1>3. CASE UNCHANGED hookVars
  BY <1>3 DEF hookVars
<1> QED
  BY <1>1, <1>2, <1>3 DEF Next, vars, Submit, Wait, BeginWait, Finish, Receive, Elapse, Remove,
     WaitStep, BeginDecision, Decide, LookUp, Send, SendWhen, RecordOutcome, RecordAs, OperatorStep

\* The initial state is typed.
LEMMA InitStore ==
  ASSUME Init
  PROVE  StoreTypeOK /\ HookOK
<1>1. /\ [at |-> "idle", of |-> NoId, told |-> "DENY"] \in WaiterState
      /\ [at |-> "idle", of |-> NoId, approves |-> FALSE] \in OperatorState
      /\ Going("idle") \in DispatchState /\ Going("idle").result = "none"
  BY DEF WaiterState, OperatorState, DispatchState, Going, Ids
<1>2. waiter \in [Waiters -> WaiterState]
  BY <1>1 DEF Init
<1>3. \A w \in Waiters : waiter[w].at = "idle"
  BY DEF Init
<1>4. operator \in [Operators -> OperatorState]
  BY <1>1 DEF Init
<1>5. \A o \in Operators : operator[o].at = "idle"
  BY DEF Init
<1>6. decideCh \in [ReviewIds -> Slot]
  BY DEF Init, Slot
<1>7. approval \in [ReviewIds -> {"", "APPROVED", "DENIED"}]
  BY DEF Init
<1>8. sent \in [ReviewIds -> Seq(BOOLEAN)]
  <2>1. <<>> \in Seq(BOOLEAN)
    OBVIOUS
  <2> QED BY <2>1 DEF Init
<1>9. HookOK
  <2>1. dispatch \in [Dispatches -> DispatchState]
    BY <1>1 DEF Init
  <2>2. \A d \in Dispatches : dispatch[d].result = "none"
    BY <1>1 DEF Init
  <2>3. reviewer \in [Dispatches -> {"undecided", "approved", "denied"}]
    BY DEF Init
  <2> QED BY <2>1, <2>2, <2>3 DEF HookOK
<1> QED
  BY <1>2, <1>3, <1>4, <1>5, <1>6, <1>7, <1>8, <1>9 DEF Init, StoreTypeOK

\* Type correctness of reviews and dispatches: no second decision in a channel, no use of
\* a review that never was.
THEOREM ReviewsTypeOK == Spec => []TypeOK
<1> DEFINE Inv == StoreTypeOK /\ HookOK
<1>1. Init => Inv
  BY InitStore
<1>2. Inv /\ [Next]_vars => Inv'
  BY StoreTypeStep, HookStep
<1>3. Inv => TypeOK
  BY DEF StoreTypeOK, HookOK, TypeOK, Slot
<1> QED BY <1>1, <1>2, <1>3, PTL DEF Spec

-----------------------------------------------------------------------------
(* An ALLOW needs an approval *)

\* Hooks that took an approval from the channel, and have or will be told ALLOW.
Released(r) == {w \in Waiters : /\ waiter[w].of = r /\ waiter[w].told = "ALLOW"
                                /\ waiter[w].at \in {"remove", "answered"}}

\* Approvals still in the channel.
Unclaimed(r) == IF decideCh[r] = <<TRUE>> THEN 1 ELSE 0

\* Each approval sent on a review is in the channel, taken by one hook, or was lost: none
\* is taken twice.  Nobody has a decision before the select.
ApprovalsAccounted ==
  /\ \A r \in ReviewIds : Cardinality(Released(r)) + Unclaimed(r) <= Cardinality(Approvals(r))
  /\ \A w \in Waiters : waiter[w].at \in {"idle", "select"} => waiter[w].told = "DENY"

\* The sets counted are finite.
LEMMA CountsAreFinite ==
  ASSUME StoreTypeOK, NEW r \in ReviewIds
  PROVE  /\ IsFiniteSet(Released(r)) /\ Cardinality(Released(r)) \in Nat
         /\ IsFiniteSet(Approvals(r)) /\ Cardinality(Approvals(r)) \in Nat
<1>1. Released(r) \subseteq Waiters
  BY DEF Released
<1>2. Approvals(r) \subseteq 1 .. Len(sent[r]) /\ Len(sent[r]) \in Nat
  <2>1. sent[r] \in Seq(BOOLEAN)
    BY DEF StoreTypeOK
  <2> QED BY <2>1 DEF Approvals
<1>3. IsFiniteSet(1 .. Len(sent[r]))
  BY <1>2, FS_Interval
<1> QED BY <1>1, <1>2, <1>3, ReviewAssumption, FS_Subset, FS_CardinalityType

\* Approving adds an approval, denying none.
LEMMA SendingCounts ==
  ASSUME StoreTypeOK, NEW r \in ReviewIds, NEW b \in BOOLEAN,
         sent' = [sent EXCEPT ![r] = Append(@, b)]
  PROVE  /\ Cardinality(Approvals(r)') = Cardinality(Approvals(r)) + (IF b THEN 1 ELSE 0)
         /\ \A q \in ReviewIds \ {r} : Approvals(q)' = Approvals(q)
<1>1. sent[r] \in Seq(BOOLEAN) /\ sent'[r] = Append(sent[r], b)
  BY DEF StoreTypeOK
<1> DEFINE n == Len(sent[r]) + 1
<1>2. /\ n \in Nat /\ DOMAIN sent[r] = 1 .. n - 1 /\ DOMAIN sent'[r] = 1 .. n /\ sent'[r][n] = b
      /\ \A i \in 1 .. n - 1 : sent'[r][i] = sent[r][i]
  BY <1>1
<1>3. Approvals(r)' = IF b THEN Approvals(r) \cup {n} ELSE Approvals(r)
  BY <1>2 DEF Approvals
<1>4. n \notin Approvals(r)
  BY <1>2 DEF Approvals
<1>5. \A q \in ReviewIds \ {r} : Approvals(q)' = Approvals(q)
  BY DEF Approvals, StoreTypeOK
<1>6. IsFiniteSet(Approvals(r)) /\ Cardinality(Approvals(r)) \in Nat
  BY CountsAreFinite
<1>7. Cardinality(Approvals(r) \cup {n}) = Cardinality(Approvals(r)) + 1
  BY <1>4, <1>6, FS_AddElement
<1>8. Cardinality(Approvals(r)') = Cardinality(Approvals(r)) + (IF b THEN 1 ELSE 0)
  BY <1>3, <1>6, <1>7
<1> QED BY <1>5, <1>8

\* No step of anybody's takes an approval twice.
LEMMA AccountStep ==
  ASSUME StoreTypeOK, ApprovalsAccounted, [Next]_vars
  PROVE  ApprovalsAccounted'
<1> DEFINE Accounted(r) == Cardinality(Released(r)) + Unclaimed(r) <= Cardinality(Approvals(r))
           DeniedBefore == \A w \in Waiters : waiter[w].at \in {"idle", "select"}
                                                => waiter[w].told = "DENY"
           Same(r) == Released(r)' = Released(r) /\ decideCh'[r] = decideCh[r]
                        /\ Approvals(r)' = Approvals(r)
<1>0. ASSUME \A r \in ReviewIds : Same(r), DeniedBefore'
      PROVE  ApprovalsAccounted'
  BY <1>0 DEF ApprovalsAccounted, Unclaimed
<1>1. ASSUME UNCHANGED <<waiter, decideCh, sent>>
      PROVE  ApprovalsAccounted'
  BY <1>1 DEF ApprovalsAccounted, Unclaimed, Released, Approvals
<1>2. ASSUME NEW w \in Waiters, NEW state \in WaiterState,
             waiter' = [waiter EXCEPT ![w] = state], UNCHANGED <<decideCh, sent>>,
             state.at \in {"idle", "select"} => state.told = "DENY",
             \A r \in ReviewIds : w \in Released(r)
               <=> state.of = r /\ state.told = "ALLOW" /\ state.at \in {"remove", "answered"}
      PROVE  ApprovalsAccounted'
  <2>1. \A v \in Waiters : waiter'[v] = IF v = w THEN state ELSE waiter[v]
    BY <1>2 DEF StoreTypeOK
  <2>2. \A r \in ReviewIds : Same(r)
    BY <1>2, <2>1 DEF Released, Approvals
  <2>3. DeniedBefore'
    BY <1>2, <2>1 DEF ApprovalsAccounted
  <2> QED BY <1>0, <2>2, <2>3
<1>3. CASE \E w \in Waiters, r \in Known : BeginWait(w, r)
  <2>1. PICK w \in Waiters, r \in Known : BeginWait(w, r)
    BY <1>3
  <2> DEFINE state == [at |-> IF r \in pending THEN "select" ELSE "answered",
                       of |-> r, told |-> "DENY"]
  <2>2. state \in WaiterState
    BY ReviewAssumption DEF WaiterState, Known, Ids, StoreTypeOK
  <2>3. waiter[w].told = "DENY"
    BY <2>1 DEF BeginWait, WaitStep, ApprovalsAccounted
  <2> QED BY <1>2, <2>1, <2>2, <2>3 DEF BeginWait, WaitStep, Released
<1>4. CASE \E w \in Waiters : Elapse(w) \/ Remove(w)
  <2>1. PICK w \in Waiters, to \in {"remove", "answered"} :
          /\ waiter[w].at \in {"select", "remove"}
          /\ waiter' = [waiter EXCEPT ![w] = [waiter[w] EXCEPT !.at = to]]
          /\ UNCHANGED <<decideCh, sent>>
    BY <1>4 DEF Elapse, Remove, WaitStep
  <2> DEFINE state == [waiter[w] EXCEPT !.at = to]
  <2>2. waiter[w] \in WaiterState
    BY DEF StoreTypeOK
  <2>3. /\ state \in WaiterState /\ state.of = waiter[w].of /\ state.told = waiter[w].told
        /\ state.at = to
    BY <2>2 DEF WaiterState
  <2>4. waiter[w].at = "select" => waiter[w].told = "DENY"
    BY DEF ApprovalsAccounted
  <2>5. \A r \in ReviewIds : w \in Released(r)
               <=> state.of = r /\ state.told = "ALLOW" /\ state.at \in {"remove", "answered"}
    BY <2>1, <2>3, <2>4 DEF Released
  <2> QED BY <1>2, <2>1, <2>3, <2>5
<1>5. CASE \E w \in Waiters : Receive(w)
  <2>1. PICK w \in Waiters : Receive(w)
    BY <1>5
  <2>2. PICK r \in ReviewIds : r = waiter[w].of
    BY <2>1 DEF Receive, StoreTypeOK
  <2>3. PICK b \in BOOLEAN : decideCh[r] = <<b>>
    BY <2>1, <2>2, TakeEmpties DEF Receive, StoreTypeOK
  <2> DEFINE told == IF b THEN "ALLOW" ELSE "DENY"
             state == [at |-> "remove", of |-> r, told |-> told]
  <2>4. Head(<<b>>) = b /\ Tail(<<b>>) = <<>> /\ <<b>> # <<>>
    OBVIOUS
  <2>5. /\ waiter[w].at = "select" /\ waiter' = [waiter EXCEPT ![w] = state]
        /\ decideCh' = [decideCh EXCEPT ![r] = <<>>] /\ UNCHANGED sent
    BY <2>1, <2>2, <2>3, <2>4 DEF Receive, WaitStep
  <2>6. waiter[w].told = "DENY"
    BY <2>5 DEF ApprovalsAccounted
  <2>7. \A v \in Waiters : waiter'[v] = IF v = w THEN state ELSE waiter[v]
    BY <2>5 DEF StoreTypeOK
  <2>8. DeniedBefore'
    <3>1. state.at = "remove"
      OBVIOUS
    <3> QED BY <2>7, <3>1 DEF ApprovalsAccounted
  <2>9. \A q \in ReviewIds \ {r} : Accounted(q)'
    <3> SUFFICES ASSUME NEW q \in ReviewIds \ {r}
                 PROVE  Accounted(q)'
      OBVIOUS
    <3>1. Released(q)' = Released(q)
      BY <2>2, <2>7 DEF Released
    <3>2. Approvals(q)' = Approvals(q) /\ Unclaimed(q)' = Unclaimed(q)
      BY <2>5 DEF Approvals, Unclaimed, StoreTypeOK
    <3> QED BY <3>1, <3>2 DEF ApprovalsAccounted
  <2>10. Accounted(r)'
    <3>1. Approvals(r)' = Approvals(r) /\ Unclaimed(r)' = 0
      BY <2>5 DEF Approvals, Unclaimed, StoreTypeOK
    <3>2. Unclaimed(r) = IF b THEN 1 ELSE 0
      BY <2>3, SendFills DEF Unclaimed
    <3>3. w \notin Released(r)
      BY <2>6 DEF Released
    <3>4. Released(r)' = IF b THEN Released(r) \cup {w} ELSE Released(r)
      BY <2>2, <2>6, <2>7 DEF Released
    <3>5. IsFiniteSet(Released(r)) /\ Cardinality(Released(r)) \in Nat
      BY CountsAreFinite
    <3>6. Cardinality(Released(r) \cup {w}) = Cardinality(Released(r)) + 1
      BY <3>3, <3>5, FS_AddElement
    <3>7. Cardinality(Released(r)') = Cardinality(Released(r)) + Unclaimed(r)
      BY <3>2, <3>4, <3>5, <3>6
    <3>8. Cardinality(Released(r)) + Unclaimed(r) <= Cardinality(Approvals(r))
      BY DEF ApprovalsAccounted
    <3>9. Cardinality(Approvals(r)) \in Nat
      BY CountsAreFinite
    <3>10. Cardinality(Released(r)') + Unclaimed(r)' <= Cardinality(Approvals(r)')
      BY <3>1, <3>2, <3>5, <3>7, <3>8, <3>9
    <3> QED BY <3>10
  <2> QED BY <2>8, <2>9, <2>10 DEF ApprovalsAccounted
<1>6. CASE \E o \in Operators : Send(o)
  <2>1. PICK o \in Operators : Send(o)
    BY <1>6
  <2>2. PICK r \in ReviewIds, b \in BOOLEAN : r = operator[o].of /\ b = operator[o].approves
    BY <2>1 DEF Send, SendWhen, OperatorStep, StoreTypeOK, OperatorState
  <2>3. /\ UNCHANGED waiter /\ decideCh[r] = <<>>
        /\ decideCh' = [decideCh EXCEPT ![r] = <<b>>]
        /\ sent' = [sent EXCEPT ![r] = Append(@, b)]
    BY <2>1, <2>2, SendFills DEF Send, SendWhen, OperatorStep
  <2>4. DeniedBefore' /\ \A q \in ReviewIds : Released(q)' = Released(q)
    BY <2>3 DEF ApprovalsAccounted, Released
  <2>5. /\ Cardinality(Approvals(r)') = Cardinality(Approvals(r)) + (IF b THEN 1 ELSE 0)
        /\ \A q \in ReviewIds \ {r} : Approvals(q)' = Approvals(q)
    BY <2>3, SendingCounts
  <2>6. \A q \in ReviewIds \ {r} : Accounted(q)'
    <3> SUFFICES ASSUME NEW q \in ReviewIds \ {r}
                 PROVE  Accounted(q)'
      OBVIOUS
    <3>1. Unclaimed(q)' = Unclaimed(q)
      BY <2>3 DEF Unclaimed, StoreTypeOK
    <3> QED BY <2>4, <2>5, <3>1 DEF ApprovalsAccounted
  <2>7. Accounted(r)'
    <3>1. Unclaimed(r) = 0
      BY <2>3 DEF Unclaimed
    <3>2. Unclaimed(r)' = IF b THEN 1 ELSE 0
      <4>1. decideCh'[r] = <<b>>
        BY <2>3 DEF StoreTypeOK
      <4> QED BY <4>1, SendFills DEF Unclaimed
    <3>3. Cardinality(Released(r)) \in Nat /\ Cardinality(Approvals(r)) \in Nat
      BY CountsAreFinite
    <3>4. Accounted(r)
      BY DEF ApprovalsAccounted
    <3>5. Released(r)' = Released(r)
      BY <2>4
    <3> HIDE DEF Unclaimed
    <3> QED BY <2>5, <3>1, <3>2, <3>3, <3>4, <3>5
  <2> QED BY <2>4, <2>6, <2>7 DEF ApprovalsAccounted
<1>7. CASE \/ \E r \in ReviewIds : Submit(r)
           \/ \E o \in Operators, r \in Known, b \in BOOLEAN : BeginDecision(o, r, b)
           \/ \E o \in Operators : LookUp(o) \/ RecordOutcome(o)
           \/ UNCHANGED storeVars
  BY <1>1, <1>7 DEF Submit, BeginDecision, LookUp, RecordOutcome, RecordAs, OperatorStep, storeVars
<1> QED BY <1>3, <1>4, <1>5, <1>6, <1>7, NextCases

\* Initially nobody was asked, nobody answered.
LEMMA InitAccounted ==
  ASSUME Init
  PROVE  ApprovalsAccounted
<1>1. \A w \in Waiters : waiter[w].at = "idle" /\ waiter[w].told = "DENY"
  BY DEF Init
<1> SUFFICES ASSUME NEW r \in ReviewIds
             PROVE  Cardinality(Released(r)) + Unclaimed(r) <= Cardinality(Approvals(r))
  BY <1>1 DEF ApprovalsAccounted
<1>2. Released(r) = {}
  BY <1>1 DEF Released
<1>3. sent[r] = <<>> /\ decideCh[r] = <<>>
  BY DEF Init
<1>4. Approvals(r) = {}
  BY <1>3 DEF Approvals
<1>5. Unclaimed(r) = 0
  BY <1>3 DEF Unclaimed
<1>6. Cardinality(Released(r)) = 0 /\ Cardinality(Approvals(r)) = 0
  BY <1>2, <1>4, FS_EmptySet
<1> QED BY <1>5, <1>6

\* Those told ALLOW are among the released.
LEMMA ToldWasReleased ==
  ASSUME StoreTypeOK, ApprovalsAccounted, NEW r \in ReviewIds
  PROVE  Cardinality(Told(r, "ALLOW")) <= Cardinality(Approvals(r))
<1>1. Told(r, "ALLOW") \subseteq Released(r)
  BY DEF Told, Released
<1>2. /\ IsFiniteSet(Released(r)) /\ Cardinality(Released(r)) \in Nat
      /\ Cardinality(Approvals(r)) \in Nat
  BY CountsAreFinite
<1>3. /\ Cardinality(Told(r, "ALLOW")) \in Nat
      /\ Cardinality(Told(r, "ALLOW")) <= Cardinality(Released(r))
  BY <1>1, <1>2, FS_Subset, FS_CardinalityType
<1>4. Cardinality(Released(r)) + Unclaimed(r) <= Cardinality(Approvals(r)) /\ Unclaimed(r) \in Nat
  BY DEF ApprovalsAccounted, Unclaimed
<1> QED BY <1>2, <1>3, <1>4

\* No hook is told ALLOW, and the pipeline hears no approval, without an approval of its
\* own: however many hooks wait on a review and however late they come.
THEOREM ReviewsAllowNeedsApproval == Spec => []AllowNeedsApproval
<1> DEFINE Inv == StoreTypeOK /\ HookOK /\ ApprovalsAccounted
<1>1. Init => Inv
  BY InitStore, InitAccounted
<1>2. Inv /\ [Next]_vars => Inv'
  BY StoreTypeStep, HookStep, AccountStep
<1>3. Inv => AllowNeedsApproval
  BY ToldWasReleased DEF HookOK, AllowNeedsApproval
<1> QED BY <1>1, <1>2, <1>3, PTL DEF Spec

-----------------------------------------------------------------------------
(* The record matches the answer *)

\* Past the send.
Sent(o) == operator[o].at \in {"record", "done", "lost"}

\* Only who sent a decision is past the send, and the one decision sent is his.
SendersOf(r) ==
  /\ sent[r] = <<>> => \A o \in Operators : operator[o].of = r => ~Sent(o)
  /\ Len(sent[r]) = 1 => \A o \in Operators :
       operator[o].of = r /\ Sent(o) => operator[o].approves = sent[r][1]

\* One decision that was sent is being recorded, is recorded or was lost.
RowFollows(r) ==
  r \in Traceable /\ Len(sent[r]) = 1
    => \/ approval[r] = Word(sent[r][1])
       \/ /\ approval[r] = ""
          /\ \E o \in Operators : operator[o].of = r /\ operator[o].at \in {"record", "lost"}

\* What is on record, somebody answered 204 decided.
RowDecided(r) ==
  approval[r] # "" => \E o \in Operators : /\ operator[o].of = r /\ operator[o].at = "done"
                                           /\ approval[r] = Word(operator[o].approves)

RecordFollows == \A r \in ReviewIds : SendersOf(r) /\ RowFollows(r) /\ RowDecided(r)

\* An operator's step changes where he is, and nobody else.
LEMMA OperatorFields ==
  ASSUME StoreTypeOK, NEW o \in Operators, NEW from \in {"decide", "send", "record"},
         NEW to \in {"send", "record", "done", "lost", "notFound"}, OperatorStep(o, from, to)
  PROVE  /\ operator[o].at = from /\ operator'[o].at = to
         /\ operator'[o].of = operator[o].of /\ operator'[o].approves = operator[o].approves
         /\ \A p \in Operators \ {o} : operator'[p] = operator[p]
<1>1. operator[o] \in OperatorState
  BY DEF StoreTypeOK
<1> DEFINE state == [operator[o] EXCEPT !.at = to]
<1>2. state.at = to /\ state.of = operator[o].of /\ state.approves = operator[o].approves
  BY <1>1 DEF OperatorState
<1>3. operator' = [operator EXCEPT ![o] = state] /\ operator[o].at = from
  BY DEF OperatorStep
<1>4. operator'[o] = state /\ \A p \in Operators \ {o} : operator'[p] = operator[p]
  BY <1>3 DEF StoreTypeOK
<1> QED BY <1>2, <1>3, <1>4

\* A review keeps its record while nobody sends or records a decision on it.
LEMMA RecordStays ==
  ASSUME NEW r, SendersOf(r), RowFollows(r), RowDecided(r),
         sent'[r] = sent[r], approval'[r] = approval[r],
         \A p \in Operators : \/ operator'[p] = operator[p]
                              \/ (~Sent(p) /\ ~Sent(p)')
                              \/ (operator[p].of # r /\ operator'[p].of # r)
  PROVE  SendersOf(r)' /\ RowFollows(r)' /\ RowDecided(r)'
<1>1. SendersOf(r)'
  BY DEF SendersOf, Sent
<1>2. RowFollows(r)'
  BY DEF RowFollows, Sent
<1>3. RowDecided(r)'
  BY DEF RowDecided, Sent
<1> QED BY <1>1, <1>2, <1>3

\* Every step keeps the record and the decision together.
LEMMA RecordStep ==
  ASSUME StoreTypeOK, RecordFollows, [Next]_vars
  PROVE  RecordFollows'
<1>1. ASSUME UNCHANGED <<sent, approval>>,
             \A p \in Operators : \/ operator'[p] = operator[p]
                                  \/ (~Sent(p) /\ ~Sent(p)')
      PROVE  RecordFollows'
  BY <1>1, RecordStays DEF RecordFollows
<1>2. CASE \E o \in Operators, r \in Known, b \in BOOLEAN : BeginDecision(o, r, b)
  <2>1. PICK o \in Operators, r \in Known, b \in BOOLEAN : BeginDecision(o, r, b)
    BY <1>2
  <2>2. operator[o].at = "idle" /\ UNCHANGED <<sent, approval>>
    BY <2>1 DEF BeginDecision
  <2>3. \A p \in Operators \ {o} : operator'[p] = operator[p]
    BY <2>1 DEF BeginDecision, StoreTypeOK
  <2>4. operator'[o].at \in {"decide", "notFound"}
    BY <2>1 DEF BeginDecision, StoreTypeOK
  <2> QED BY <1>1, <2>2, <2>3, <2>4 DEF Sent
<1>3. CASE \E o \in Operators : LookUp(o)
  <2>1. PICK o \in Operators, to \in {"send", "notFound"} :
          OperatorStep(o, "decide", to) /\ UNCHANGED <<sent, approval>>
    BY <1>3 DEF LookUp
  <2>2. /\ operator[o].at = "decide" /\ operator'[o].at = to
        /\ \A p \in Operators \ {o} : operator'[p] = operator[p]
    BY <2>1, OperatorFields
  <2> QED BY <1>1, <2>1, <2>2 DEF Sent
<1>4. CASE \E o \in Operators : Send(o)
  <2>1. PICK o \in Operators : Send(o)
    BY <1>4
  <2>2. PICK r \in ReviewIds, b \in BOOLEAN : r = operator[o].of /\ b = operator[o].approves
    BY <2>1 DEF Send, SendWhen, OperatorStep, StoreTypeOK, OperatorState
  <2>3. /\ OperatorStep(o, "send", "record") /\ UNCHANGED approval
        /\ sent' = [sent EXCEPT ![r] = Append(@, b)]
    BY <2>1, <2>2 DEF Send, SendWhen
  <2>4. /\ operator[o].at = "send" /\ operator'[o].at = "record"
        /\ operator'[o].of = r /\ operator'[o].approves = b
        /\ \A p \in Operators \ {o} : operator'[p] = operator[p]
    BY <2>2, <2>3, OperatorFields
  <2>5. sent[r] \in Seq(BOOLEAN) /\ sent'[r] = Append(sent[r], b)
    BY <2>3 DEF StoreTypeOK
  <2>6. /\ sent'[r] # <<>>
        /\ Len(sent'[r]) = 1 => sent[r] = <<>> /\ sent'[r][1] = b
    BY <2>5
  <2>7. \A q \in ReviewIds \ {r} : sent'[q] = sent[q]
    BY <2>3 DEF StoreTypeOK
  <2>8. SendersOf(r)'
    <3>1. Len(sent'[r]) = 1 => \A p \in Operators \ {o} : operator[p].of = r => ~Sent(p)
      BY <2>2, <2>6 DEF RecordFollows, SendersOf
    <3>2. Len(sent'[r]) = 1 => \A p \in Operators :
            operator'[p].of = r /\ Sent(p)' => operator'[p].approves = sent'[r][1]
      BY <2>4, <2>6, <3>1 DEF Sent
    <3> QED BY <2>6, <3>2 DEF SendersOf
  <2>9. RowDecided(r)'
    <3>1. ASSUME approval'[r] # ""
          PROVE  \E p \in Operators : /\ operator'[p].of = r /\ operator'[p].at = "done"
                                      /\ approval'[r] = Word(operator'[p].approves)
      <4>1. PICK p \in Operators : /\ operator[p].of = r /\ operator[p].at = "done"
                                   /\ approval[r] = Word(operator[p].approves)
        BY <2>2, <2>3, <3>1 DEF RecordFollows, RowDecided
      <4>2. operator'[p] = operator[p]
        BY <2>4, <4>1
      <4> QED BY <2>3, <4>1, <4>2
    <3> QED BY <3>1 DEF RowDecided
  <2>10. RowFollows(r)'
    <3>1. ASSUME Len(sent'[r]) = 1
          PROVE  approval'[r] = ""
      <4>1. \A p \in Operators : operator[p].of = r => operator[p].at # "done"
        BY <2>2, <2>6, <3>1 DEF RecordFollows, SendersOf, Sent
      <4> QED BY <2>2, <2>3, <4>1 DEF RecordFollows, RowDecided
    <3> QED BY <2>4, <3>1 DEF RowFollows
  <2>11. ASSUME NEW q \in ReviewIds \ {r}
         PROVE  SendersOf(q)' /\ RowFollows(q)' /\ RowDecided(q)'
    <3>1. \A p \in Operators : \/ operator'[p] = operator[p]
                               \/ (operator[p].of # q /\ operator'[p].of # q)
      BY <2>2, <2>4
    <3> QED BY <2>3, <2>7, <3>1, RecordStays DEF RecordFollows
  <2> QED BY <2>8, <2>9, <2>10, <2>11 DEF RecordFollows
<1>5. CASE \E o \in Operators : RecordOutcome(o)
  <2>1. PICK o \in Operators : RecordOutcome(o)
    BY <1>5
  <2>2. PICK r \in ReviewIds, b \in BOOLEAN : r = operator[o].of /\ b = operator[o].approves
    BY <2>1 DEF RecordOutcome, RecordAs, OperatorStep, StoreTypeOK, OperatorState
  <2>3. PICK to \in {"done", "lost"} :
          /\ OperatorStep(o, "record", to) /\ UNCHANGED sent
          /\ to = "done" /\ r \in Traceable => approval' = [approval EXCEPT ![r] = Word(b)]
          /\ to = "lost" \/ r \notin Traceable => approval' = approval
    BY <2>1, <2>2 DEF RecordOutcome, RecordAs
  <2>4. /\ operator[o].at = "record" /\ operator'[o].at = to
        /\ operator'[o].of = r /\ operator'[o].approves = b
        /\ \A p \in Operators \ {o} : operator'[p] = operator[p]
    BY <2>2, <2>3, OperatorFields
  <2>5. /\ \A q \in ReviewIds \ {r} : approval'[q] = approval[q]
        /\ to = "done" /\ r \in Traceable => approval'[r] = Word(b)
        /\ to = "lost" \/ r \notin Traceable => approval'[r] = approval[r]
    BY <2>3 DEF StoreTypeOK
  <2>6. Sent(o) /\ sent'[r] = sent[r] /\ SendersOf(r) /\ RowFollows(r) /\ RowDecided(r)
    BY <2>2, <2>3, <2>4 DEF RecordFollows, Sent
  <2>7. sent[r] # <<>> /\ (Len(sent[r]) = 1 => b = sent[r][1])
    BY <2>2, <2>6 DEF SendersOf
  <2>8. SendersOf(r)'
    <3>1. Len(sent[r]) = 1 => \A p \in Operators :
            operator'[p].of = r /\ Sent(p)' => operator'[p].approves = sent[r][1]
      BY <2>4, <2>6, <2>7 DEF SendersOf, Sent
    <3> QED BY <2>6, <2>7, <3>1 DEF SendersOf
  <2>9. RowFollows(r)'
    <3>1. CASE to = "done"
      BY <2>5, <2>6, <2>7, <3>1 DEF RowFollows
    <3>2. CASE to = "lost"
      BY <2>4, <2>5, <2>6, <3>2 DEF RowFollows
    <3> QED BY <3>1, <3>2
  <2>10. RowDecided(r)'
    <3>1. CASE to = "done" /\ r \in Traceable
      BY <2>4, <2>5, <3>1 DEF RowDecided
    <3>2. ASSUME ~(to = "done" /\ r \in Traceable), approval'[r] # ""
          PROVE  \E p \in Operators : /\ operator'[p].of = r /\ operator'[p].at = "done"
                                      /\ approval'[r] = Word(operator'[p].approves)
      <4>1. PICK p \in Operators : /\ operator[p].of = r /\ operator[p].at = "done"
                                   /\ approval[r] = Word(operator[p].approves)
        BY <2>5, <2>6, <3>2 DEF RowDecided
      <4>2. operator'[p] = operator[p]
        BY <2>4, <4>1
      <4> QED BY <2>5, <3>2, <4>1, <4>2
    <3> QED BY <3>1, <3>2 DEF RowDecided
  <2>11. ASSUME NEW q \in ReviewIds \ {r}
         PROVE  SendersOf(q)' /\ RowFollows(q)' /\ RowDecided(q)'
    <3>1. \A p \in Operators : \/ operator'[p] = operator[p]
                               \/ (operator[p].of # q /\ operator'[p].of # q)
      BY <2>2, <2>4
    <3> QED BY <2>3, <2>5, <3>1, RecordStays DEF RecordFollows
  <2> QED BY <2>8, <2>9, <2>10, <2>11 DEF RecordFollows
<1>6. CASE \/ \E r \in ReviewIds : Submit(r)
           \/ \E w \in Waiters, r \in Known : BeginWait(w, r)
           \/ \E w \in Waiters : Receive(w) \/ Elapse(w) \/ Remove(w)
           \/ UNCHANGED storeVars
  BY <1>1, <1>6 DEF Submit, BeginWait, Receive, Elapse, Remove, WaitStep, storeVars
<1> QED BY <1>2, <1>3, <1>4, <1>5, <1>6, NextCases

\* Operators of a review at a stage.
On(r, stage) == {o \in Operators : operator[o].of = r /\ operator[o].at = stage}

\* No row says what nobody decided, and with one decision sent the row says that one or, if
\* its statement was lost, nothing: never DENIED of a call a hook was told to let through.
THEOREM ReviewsRecordMatchesAnswer == Spec => []RecordMatchesAnswer
<1> DEFINE Inv == StoreTypeOK /\ HookOK /\ ApprovalsAccounted /\ RecordFollows
<1>1. Init => Inv
  <2>1. Init => RecordFollows
    <3> SUFFICES ASSUME Init PROVE RecordFollows
      OBVIOUS
    <3>1. \A r \in ReviewIds : sent[r] = <<>> /\ Len(sent[r]) = 0
      BY DEF Init
    <3>2. \A o \in Operators : operator[o].at = "idle"
      BY DEF Init
    <3>3. \A r \in ReviewIds : approval[r] = ""
      BY DEF Init
    <3>4. \A r \in ReviewIds : SendersOf(r)
      BY <3>1, <3>2 DEF SendersOf, Sent
    <3>5. ASSUME NEW r \in ReviewIds
          PROVE  RowFollows(r)
      <4>1. Len(sent[r]) # 1
        BY <3>1
      <4> QED BY <4>1, Zenon DEF RowFollows
    <3>6. \A r \in ReviewIds : RowDecided(r)
      BY <3>3 DEF RowDecided
    <3> QED BY <3>4, <3>5, <3>6 DEF RecordFollows
  <2> QED BY <2>1, InitStore, InitAccounted
<1>2. Inv /\ [Next]_vars => Inv'
  BY StoreTypeStep, HookStep, AccountStep, RecordStep
<1>3. Inv => RecordMatchesAnswer
  <2> SUFFICES ASSUME Inv, NEW r \in Traceable
               PROVE  /\ RowDecided(r)
                      /\ On(r, "record") = {} /\ Len(sent[r]) = 1
                         => /\ approval[r] = Word(sent[r][1]) \/ (approval[r] = "" /\ On(r, "lost") # {})
                            /\ Told(r, "ALLOW") # {} => approval[r] # "DENIED"
    <3>1. \A q \in Traceable :
            RowDecided(q) <=> (approval[q] # ""
              => \E o \in On(q, "done") : approval[q] = Word(operator[o].approves))
      BY DEF RowDecided, On
    <3> QED BY <3>1 DEF RecordMatchesAnswer, On
  <2>0. r \in ReviewIds /\ RowDecided(r) /\ RowFollows(r)
    BY ReviewAssumption DEF RecordFollows
  <2> SUFFICES ASSUME Len(sent[r]) = 1, On(r, "record") = {}
               PROVE  /\ approval[r] = Word(sent[r][1]) \/ (approval[r] = "" /\ On(r, "lost") # {})
                      /\ Told(r, "ALLOW") # {} => approval[r] # "DENIED"
    BY <2>0
  <2>1. approval[r] = Word(sent[r][1]) \/ (approval[r] = "" /\ On(r, "lost") # {})
    BY <2>0 DEF RowFollows, On
  <2>2. ASSUME Told(r, "ALLOW") # {}
        PROVE  sent[r][1]
    <3>1. Cardinality(Told(r, "ALLOW")) <= Cardinality(Approvals(r))
      BY <2>0, ToldWasReleased
    <3>2. IsFiniteSet(Told(r, "ALLOW")) /\ Cardinality(Told(r, "ALLOW")) \in Nat
      <4>1. Told(r, "ALLOW") \subseteq Waiters
        BY DEF Told
      <4> QED BY <4>1, ReviewAssumption, FS_Subset, FS_CardinalityType
    <3>3. Cardinality(Told(r, "ALLOW")) # 0
      BY <2>2, <3>2, FS_EmptySet
    <3>4. Approvals(r) # {}
      BY <3>1, <3>2, <3>3, FS_EmptySet
    <3>5. sent[r] \in Seq(BOOLEAN)
      BY <2>0 DEF StoreTypeOK
    <3>6. DOMAIN sent[r] = {1}
      BY <3>5
    <3> QED BY <3>4, <3>6 DEF Approvals
  <2> QED BY <2>1, <2>2 DEF Word
<1> QED BY <1>1, <1>2, <1>3, PTL DEF Spec

=============================================================================
