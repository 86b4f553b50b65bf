------------------------------- MODULE Reviews -------------------------------
(***************************************************************************)
(* Human review, both ways the server has of asking a person.               *)
(*                                                                          *)
(* The review store (pkg/review, pkg/api/review.go): a hook POSTs a review  *)
(* and long-polls its outcome; an operator approves or denies it.  Waiters  *)
(* and operators are requests, each on a goroutine of its own, and none     *)
(* keeps the store's lock from its lookup to what it does with the result:  *)
(*                                                                          *)
(*   waiter    idle -> select -> remove -> answered                         *)
(*   operator  idle -> decide -> send -> record -> done     (or notFound)   *)
(*                                               -> lost                    *)
(*                                                                          *)
(* "done" and "lost" are both a 204: the error of MarkReviewed is dropped,  *)
(* and an UPDATE that finds no row is none.                                 *)
(*                                                                          *)
(* The dispatcher (pkg/humanreview): the pipeline POSTs a request to the    *)
(* configured webhook, which answers at once or asks to be polled.          *)
(*                                                                          *)
(*   dispatch  idle -> post -> (poll -> asking -> poll ...) -> returned     *)
(*                                                                          *)
(* The webhook is not ours: it answers anything, except that an approval is *)
(* the decision of its reviewer.                                            *)
(***************************************************************************)
EXTENDS Integers, Sequences, FiniteSets

CONSTANTS
  ReviewIds,    \* reviews hooks may submit
  Traceable,    \* those with a RequestUID, on a server with a decision store
  Waiters,      \* bound: GET /api/review/{id}/wait requests
  Operators,    \* bound: approve and deny requests
  Dispatches,   \* bound: HUMAN_REVIEW decisions sent to the webhook
  PollURL,      \* is a statusPollURL configured?
  NoId          \* an id no review has

ASSUME ReviewAssumption ==
  /\ Traceable \subseteq ReviewIds /\ NoId \notin ReviewIds /\ PollURL \in BOOLEAN
  /\ IsFiniteSet(Waiters)

VARIABLES
  submitted,  \* reviews that were ever submitted
  pending,    \* Store.pending
  decideCh,   \* PendingReview.decideCh, a channel of capacity 1
  approval,   \* approval_status of the decision's row in SQLite
  waiter,     \* [at, of, told] of each waiter
  operator,   \* [at, of, approves] of each operator request
  dispatch,   \* [at, result] of each dispatch
  reviewer,   \* what the webhook's reviewer decided on a dispatch
  sent        \* ghost: the decisions sent on each review, in order

storeVars == <<submitted, pending, decideCh, approval, waiter, operator, sent>>
hookVars  == <<dispatch, reviewer>>
vars      == <<storeVars, hookVars>>

Ids == ReviewIds \cup {NoId}

-----------------------------------------------------------------------------
(* The hook: submitReview and waitReview *)

Submit(r) ==
  /\ r \notin submitted
  /\ submitted' = submitted \cup {r}
  /\ pending' = pending \cup {r}
  /\ UNCHANGED <<decideCh, approval, waiter, operator, sent, hookVars>>

WaitStep(w, from, state) ==
  /\ waiter[w].at = from
  /\ waiter' = [waiter EXCEPT ![w] = state]
  /\ UNCHANGED <<submitted, approval, operator, sent, hookVars>>

\* Wait looks the review up; one that is not there is answered at once.
BeginWait(w, r) ==
  /\ WaitStep(w, "idle", [at |-> IF r \in pending THEN "select" ELSE "answered",
                          of |-> r, told |-> "DENY"])
  /\ UNCHANGED <<pending, decideCh>>

\* The select takes the decision ...
Receive(w) ==
  LET r == waiter[w].of
  IN  /\ waiter[w].at = "select" /\ decideCh[r] # <<>>
      /\ WaitStep(w, "select",
                  [at |-> "remove", of |-> r,
                   told |-> IF Head(decideCh[r]) THEN "ALLOW" ELSE "DENY"])
      /\ decideCh' = [decideCh EXCEPT ![r] = Tail(@)]
      /\ UNCHANGED pending

\* Mutant of Elapse: the timeout lets the call through.
ElapseOpen(w) ==
  /\ WaitStep(w, "select", [waiter[w] EXCEPT !.at = "remove", !.told = "ALLOW"])
  /\ UNCHANGED <<pending, decideCh>>

\* ... or the timer, whichever is ready; when both are, either.
Elapse(w) ==
  /\ WaitStep(w, "select", [waiter[w] EXCEPT !.at = "remove"])
  /\ UNCHANGED <<pending, decideCh>>

Remove(w) ==
  /\ WaitStep(w, "remove", [waiter[w] EXCEPT !.at = "answered"])
  /\ pending' = pending \ {waiter[w].of}
  /\ UNCHANGED decideCh

-----------------------------------------------------------------------------
(* The operator: approveReview and denyReview *)

OperatorStep(o, from, to) ==
  /\ operator[o].at = from
  /\ operator' = [operator EXCEPT ![o].at = to]
  /\ UNCHANGED <<submitted, pending, waiter, hookVars>>

\* reviewStore.Get
BeginDecision(o, r, approves) ==
  /\ operator[o].at = "idle"
  /\ operator' = [operator EXCEPT ![o] =
       [at |-> IF r \in pending THEN "decide" ELSE "notFound",
        of |-> r, approves |-> approves]]
  /\ UNCHANGED <<submitted, pending, decideCh, approval, waiter, sent, hookVars>>

\* Decide looks again, lets go of the lock and sends.
LookUp(o) ==
  /\ OperatorStep(o, "decide", IF operator[o].of \in pending
                               THEN "send" ELSE "notFound")
  /\ UNCHANGED <<decideCh, approval, sent>>

SendWhen(o, Ready(_)) ==
  LET r == operator[o].of
  IN  /\ OperatorStep(o, "send", "record")
      /\ Ready(r)
      /\ decideCh' = [decideCh EXCEPT ![r] = Append(@, operator[o].approves)]
      /\ sent' = [sent EXCEPT ![r] = Append(@, operator[o].approves)]
      /\ UNCHANGED approval

\* Mutants of Send: a channel that never fills; one without a buffer.
SendAnyway(o) ==
  LET Always(r) == TRUE
  IN  SendWhen(o, Always)
SendUnbuffered(o) ==
  LET Met(r) == decideCh[r] = <<>> /\ \E w \in Waiters : waiter[w].at = "select"
                                                      /\ waiter[w].of = r
  IN  SendWhen(o, Met)

\* Blocks while the one slot is full.
Send(o) ==
  LET HasRoom(r) == decideCh[r] = <<>>
  IN  SendWhen(o, HasRoom)

Word(approved) == IF approved THEN "APPROVED" ELSE "DENIED"

\* Statements may fail and rows may never have been inserted.
RecordAs(o, approved) ==
  LET r == operator[o].of
  IN  /\ \/ /\ OperatorStep(o, "record", "done")
            /\ approval' = IF r \in Traceable
                           THEN [approval EXCEPT ![r] = Word(approved)]
                           ELSE approval
         \/ /\ r \in Traceable
            /\ OperatorStep(o, "record", "lost")
            /\ UNCHANGED approval
      /\ UNCHANGED <<decideCh, sent>>

\* Mutant of RecordOutcome: denyReview records what approveReview does.
RecordApproved(o) == RecordAs(o, TRUE)

\* recordReviewOutcome, then 204 whatever became of the row.
RecordOutcome(o) == RecordAs(o, operator[o].approves)

-----------------------------------------------------------------------------
(* Dispatcher.Dispatch, poll and checkStatus, and the webhook *)

\* External: the webhook's reviewer makes up his mind.
Review(d) ==
  /\ reviewer[d] = "undecided"
  /\ \E verdict \in {"approved", "denied"} :
       reviewer' = [reviewer EXCEPT ![d] = verdict]
  /\ UNCHANGED <<storeVars, dispatch>>

DispatchStep(d, from, state) ==
  /\ dispatch[d].at = from
  /\ dispatch' = [dispatch EXCEPT ![d] = state]
  /\ UNCHANGED <<storeVars, reviewer>>

Returned(result) == [at |-> "returned", result |-> result]
Going(to) == [at |-> to, result |-> "none"]

Post(d) == DispatchStep(d, "idle", Going("post"))

\* The deadline, a transport error, or a status that is none of 200 and 202.
PostFails(d) ==
  \E result \in {"timeout", "error"} : DispatchStep(d, "post", Returned(result))

\* A body that decodes: the reviewer's decision, or JSON without one, whose
\* Approved is the zero value.
Decided(d, from) ==
  \/ reviewer[d] # "undecided" /\ DispatchStep(d, from, Returned(reviewer[d]))
  \/ DispatchStep(d, from, Returned("denied"))

\* 200: the decision is in the body, or the body does not decode.
PostDecided(d) ==
  \/ Decided(d, "post")
  \/ DispatchStep(d, "post", Returned("error"))

\* 202: poll, if there is an URL to poll.
PostAccepted(d) ==
  DispatchStep(d, "post", IF PollURL THEN Going("poll") ELSE Returned("error"))

Tick(d) == DispatchStep(d, "poll", Going("asking"))

\* The timer or the context's deadline, seen between two requests.
PollExpires(d) == DispatchStep(d, "poll", Returned("timeout"))

\* A request under way when the deadline passes ends in an error, like any
\* other that fails; so does an answer that cannot be decoded.  202 and 404
\* mean not yet.
NotYet(d) == DispatchStep(d, "asking", Going("poll"))

PollDecided(d) == Decided(d, "asking")

-----------------------------------------------------------------------------
Init ==
  /\ submitted = {} /\ pending = {}
  /\ decideCh = [r \in ReviewIds |-> <<>>]
  /\ approval = [r \in ReviewIds |-> ""]
  /\ waiter = [w \in Waiters |-> [at |-> "idle", of |-> NoId, told |-> "DENY"]]
  /\ operator = [o \in Operators |-> [at |-> "idle", of |-> NoId, approves |-> FALSE]]
  /\ dispatch = [d \in Dispatches |-> Going("idle")]
  /\ reviewer = [d \in Dispatches |-> "undecided"]
  /\ sent = [r \in ReviewIds |-> <<>>]

\* An id that was never answered to a hook is as unknown as NoId.
Known == submitted \cup {NoId}

Wait(w) == \E r \in Known : BeginWait(w, r)
Finish(w) == Receive(w) \/ Elapse(w) \/ Remove(w)
Decide(o) == LookUp(o) \/ Send(o) \/ RecordOutcome(o)
Dispatch(d) == PostFails(d) \/ PostDecided(d) \/ PostAccepted(d)
               \/ Tick(d) \/ PollExpires(d) \/ NotYet(d) \/ PollDecided(d)

Next ==
  \/ \E r \in ReviewIds : Submit(r)
  \/ \E w \in Waiters : Wait(w) \/ Finish(w)
  \/ \E o \in Operators : (\E r \in Known, b \in BOOLEAN : BeginDecision(o, r, b))
                          \/ Decide(o)
  \/ \E d \in Dispatches : Post(d) \/ Review(d) \/ Dispatch(d)

Spec == Init /\ [][Next]_vars

\* Timers fire and goroutines are scheduled.  The poll loop has a select that
\* chooses among ready cases at random, so the deadline is taken in the end.
FairSpec ==
  /\ Spec
  /\ \A w \in Waiters : WF_vars(Finish(w))
  /\ \A o \in Operators : WF_vars(Decide(o))
  /\ \A d \in Dispatches : WF_vars(Dispatch(d)) /\ SF_vars(PollExpires(d))

-----------------------------------------------------------------------------
(* Properties *)

WaiterState == [at : {"idle", "select", "remove", "answered"}, of : Ids,
                told : {"ALLOW", "DENY"}]
OperatorState == [at : {"idle", "decide", "send", "record", "done", "lost", "notFound"},
                  of : Ids, approves : BOOLEAN]
DispatchState == [at : {"idle", "post", "poll", "asking", "returned"},
                  result : {"none", "approved", "denied", "timeout", "error"}]

\* Every variable stays within its type; no goroutine uses a review that never
\* was, and no channel ever holds a second decision.
TypeOK ==
  /\ pending \subseteq submitted /\ submitted \subseteq ReviewIds
  /\ decideCh \in [ReviewIds -> {<<>>, <<TRUE>>, <<FALSE>>}]
  /\ approval \in [ReviewIds -> {"", "APPROVED", "DENIED"}]
  /\ waiter \in [Waiters -> WaiterState]
  /\ operator \in [Operators -> OperatorState]
  /\ dispatch \in [Dispatches -> DispatchState]
  /\ reviewer \in [Dispatches -> {"undecided", "approved", "denied"}]
  /\ sent \in [ReviewIds -> Seq(BOOLEAN)]
  /\ \A w \in Waiters : waiter[w].at \in {"select", "remove"} => waiter[w].of \in submitted
  /\ \A o \in Operators : operator[o].at \in {"decide", "send", "record", "done", "lost"}
                            => operator[o].of \in submitted

Told(r, answer) ==
  {w \in Waiters : waiter[w].of = r /\ waiter[w].at = "answered"
                                    /\ waiter[w].told = answer}
Approvals(r) == {i \in DOMAIN sent[r] : sent[r][i]}

\* Every hook told ALLOW consumed an operator's approval of that very review: no
\* timeout, no unknown id and no second waiter lets a call through.  Nor does an error
\* or a late poll of the webhook: what the pipeline hears approved, its reviewer did.
AllowNeedsApproval ==
  /\ \A r \in ReviewIds : Cardinality(Told(r, "ALLOW")) <= Cardinality(Approvals(r))
  /\ \A d \in Dispatches : dispatch[d].result = "approved" => reviewer[d] = "approved"

\* A row says nothing that no operator decided who was answered 204.  When one operator
\* decided on a review, its row says what he decided or, if that statement was lost,
\* nothing; and no hook was let through on a review whose row says DENIED.
RecordMatchesAnswer ==
  \A r \in Traceable :
    LET On(stage) == {o \in Operators : operator[o].of = r /\ operator[o].at = stage}
    IN  /\ approval[r] # "" => \E o \in On("done") : approval[r] = Word(operator[o].approves)
        /\ Len(sent[r]) = 1 /\ On("record") = {}
           => /\ approval[r] = Word(sent[r][1]) \/ (approval[r] = "" /\ On("lost") # {})
              /\ Told(r, "ALLOW") # {} => approval[r] # "DENIED"

\* Every hook that waits is answered, whatever the operators do.
WaitersAreAnswered ==
  \A w \in Waiters : waiter[w].at = "select" ~> waiter[w].at = "answered"

\* An operator who decides first is answered, even if no hook ever waits.
FirstDecisionReturns ==
  \A o \in Operators, r \in ReviewIds :
    (operator[o].at = "send" /\ operator[o].of = r /\ sent[r] = <<>>)
      ~> (operator[o].at \in {"done", "lost"} \/ sent[r] # <<>>)

\* A dispatch comes back, whatever the webhook does.
DispatchReturns ==
  \A d \in Dispatches : dispatch[d].at = "post" ~> dispatch[d].at = "returned"

\* Nobody hangs: neither a hook nor an operator nor the pipeline, each behind a
\* channel, a timer or a webhook of its own.
EveryoneIsAnswered == WaitersAreAnswered /\ FirstDecisionReturns /\ DispatchReturns
=============================================================================
