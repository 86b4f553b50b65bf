-------------------------------- MODULE Agents --------------------------------
(***************************************************************************)
(* Agents built with the Python SDK, as the nodes of a LangGraph: a node     *)
(* registers a session, below that of the node that handed itself on last,  *)
(* runs the governed loop in it and evicts it - unless children are to come. *)
(*                                                                          *)
(*   node   waiting -> register -> ask -> intercept -> run -> validate -> ask *)
(*          -> leave -> done        (any request may fail: -> abort -> failed) *)
(*                                                                          *)
(* A step is one HTTP request with its answer.  A request that raises may    *)
(* have reached the server all the same: the client waits 10 s, a reviewer  *)
(* has a minute.  The server is modelled by what it may answer; Sessions and *)
(* Admission say when it does.                                              *)
(***************************************************************************)
EXTENDS Integers, Sequences

CONSTANTS
  MaxTurns,  \* max_iterations
  MaxBlocks  \* bound: tool calls the model asks for in one turn

ASSUME AgentBounds == MaxTurns \in Nat \ {0} /\ MaxBlocks \in Nat \ {0}

\* The claim-review graph, in super-steps, and the nodes that hand themselves on.
Graph == << {"intake"}, {"investigator", "compliance"}, {"approver"}, {"notifier"} >>
Nodes == UNION {Graph[i] : i \in DOMAIN Graph}
HandsOn == {"intake", "approver"}
Nobody == "nobody"

VARIABLES
  graph,    \* super-step, governance_parent, whether evict() has an api_key
  node,     \* of each node: where it is in the loop and in its current call
  session,  \* of each node, at the server: "none", "live", "evicted" or "ended" without it
  below,    \* of each registered session: its parent
  stuck     \* nodes whose registration or eviction failed on the way or was refused

agentVars == <<graph, node, session, below, stuck>>

Fresh == [at |-> "waiting", turn |-> 0, block |-> 0, asked |-> 0,
          judged |-> 0, reported |-> 0, verdict |-> "none", ran |-> "no", output |-> "none"]

NodeStep(n, from, state) == node[n].at = from /\ node' = [node EXCEPT ![n] = state]
Go(n, to) == [node[n] EXCEPT !.at = to]

-----------------------------------------------------------------------------
(* Sessions *)

\* The token of the parent in the graph's state is the proof; a parent that is gone
\* proves nothing, and whatever is not a 201 in time raises, before there is a try.
Register(n) ==
  LET parent == graph.parent
      valid == IF parent = Nobody THEN TRUE ELSE session[parent] = "live"
  IN /\ n \in Graph[graph.step]
     /\ \/ /\ NodeStep(n, "waiting", Go(n, "failed"))
           /\ UNCHANGED <<session, below, stuck>>
        \/ /\ valid
           /\ session' = [session EXCEPT ![n] = "live"]
           /\ below' = [below EXCEPT ![n] = parent]
           /\ \/ NodeStep(n, "waiting", Go(n, "ask")) /\ UNCHANGED stuck
              \/ NodeStep(n, "waiting", Go(n, "failed")) /\ stuck' = stuck \cup {n}
     /\ UNCHANGED graph

Deleted(n) == session' = [session EXCEPT ![n] = IF @ = "live" THEN "evicted" ELSE @]

\* evict(best_effort=True) never raises: without a key it warns; with one the server may
\* refuse it, or be out of reach before or after it deleted the session.
Evicted(n) ==
  \/ graph.key /\ Deleted(n) /\ UNCHANGED stuck
  \/ UNCHANGED session /\ stuck' = stuck \cup {n}

\* Mutant of Leave: a node that hands itself on is evicted with the others.
LeaveAlways(n) ==
  /\ NodeStep(n, "leave", [Fresh EXCEPT !.at = "done"])
  /\ Evicted(n)
  /\ UNCHANGED <<graph, below>>

Leave(n) ==
  /\ NodeStep(n, "leave", [Fresh EXCEPT !.at = "done"])
  /\ IF n \in HandsOn THEN UNCHANGED <<session, stuck>> ELSE Evicted(n)
  /\ UNCHANGED <<graph, below>>

\* An exception in the loop: evict, raise again.
Abort(n) ==
  /\ NodeStep(n, "abort", [Fresh EXCEPT !.at = "failed"])
  /\ Evicted(n)
  /\ UNCHANGED <<graph, below>>

-----------------------------------------------------------------------------
(* The governed loop *)

LoopStep(n, from, state) == NodeStep(n, from, state) /\ UNCHANGED <<graph, session, below, stuck>>

\* The model's turn: an answer, or tool calls - until max_iterations.  Its request may
\* raise.
AskModel(n) ==
  LET s == node[n] IN
  \/ LoopStep(n, "ask", [Fresh EXCEPT !.at = "leave"])
  \/ s.turn < MaxTurns /\ LoopStep(n, "ask", Go(n, "abort"))
  \/ /\ s.turn < MaxTurns
     /\ \E k \in 1 .. MaxBlocks :
          LoopStep(n, "ask", [Fresh EXCEPT !.at = "intercept", !.turn = s.turn + 1,
                                           !.asked = k, !.block = 1])

\* The server judges a call, and counts the tokens that come with it.
Judged(s, v, usage) ==
  [s EXCEPT !.judged = @ + 1, !.reported = @ + usage, !.verdict = v, !.ran = "no",
            !.output = "none"]

\* The tokens of a turn go with its first call.
Usage(s) == IF s.block = 1 THEN 1 ELSE 0

\* DENY stands for TERMINATE too; only these two are "blocked".
Intercepted(n) ==
  LET s == node[n] IN
  \E v \in {"ALLOW", "MUTATE", "DENY", "HUMAN_REVIEW"} :
    LET judged == Judged(s, v, Usage(s)) IN
    \/ LoopStep(n, "intercept", [judged EXCEPT !.at = IF v = "DENY" THEN "result" ELSE "run",
                                   !.output = IF v = "DENY" THEN "blocked" ELSE @])
    \/ LoopStep(n, "intercept", [judged EXCEPT !.at = "abort"])

\* Out of reach, or an answer that is neither 200 nor 403.
InterceptFails(n) == LoopStep(n, "intercept", Go(n, "abort"))

\* A tool may raise when it has run.  Empty parameters in an answer would count as none:
\* no mutator returns any for parameters that are not.
RunTool(n) ==
  \E to \in {"validate", "abort"} :
    LoopStep(n, "run",
      [node[n] EXCEPT !.at = to,
                      !.ran = IF node[n].verdict = "MUTATE" THEN "mutated" ELSE "asked"])

\* The output's verdict.  A sanitized output that is empty counts as none: the raw one
\* is used.
ValidateOutput(n) ==
  \/ LoopStep(n, "validate", Go(n, "abort"))
  \/ \E out \in {"raw", "sanitized", "blocked"} :
       LoopStep(n, "validate", [Go(n, "result") EXCEPT !.output = out])

\* The call's result is kept; the next of the turn, or the model again.
Result(n) ==
  LET s == node[n] IN
  LoopStep(n, "result",
    IF s.block < s.asked
    THEN [s EXCEPT !.at = "intercept", !.block = @ + 1, !.verdict = "none", !.ran = "no",
                   !.output = "none"]
    ELSE [Fresh EXCEPT !.at = "ask", !.turn = s.turn])

-----------------------------------------------------------------------------
(* The graph and the server *)

\* A super-step ends when all its nodes have: what they return is merged, and one that
\* failed ends the run.
NextSuperStep ==
  /\ graph.step < Len(Graph)
  /\ \A n \in Graph[graph.step] : node[n].at = "done"
  /\ graph' = [graph EXCEPT !.step = @ + 1,
                 !.parent = IF Graph[graph.step] \cap HandsOn = {} THEN @
                            ELSE CHOOSE n \in Graph[graph.step] \cap HandsOn : TRUE]
  /\ UNCHANGED <<node, session, below, stuck>>

\* The reaper, or an operator.
SessionEnds(n) ==
  /\ session[n] = "live"
  /\ session' = [session EXCEPT ![n] = "ended"]
  /\ UNCHANGED <<graph, node, below, stuck>>

AgentsRest ==
  /\ node = [n \in Nodes |-> Fresh]
  /\ session = [n \in Nodes |-> "none"]
  /\ below = [n \in Nodes |-> Nobody]
  /\ stuck = {}

AgentsInit ==
  /\ AgentsRest
  /\ graph \in [step : {1}, parent : {Nobody}, key : BOOLEAN]

Loop(n) ==
  \/ AskModel(n) \/ Intercepted(n) \/ InterceptFails(n) \/ RunTool(n)
  \/ ValidateOutput(n) \/ Result(n)

AgentsNext ==
  \/ \E n \in Nodes : Register(n) \/ Loop(n) \/ Leave(n) \/ Abort(n) \/ SessionEnds(n)
  \/ NextSuperStep

-----------------------------------------------------------------------------
(* Properties *)

AgentsTypeOK ==
  /\ graph \in [step : DOMAIN Graph, parent : HandsOn \cup {Nobody}, key : BOOLEAN]
  /\ node \in [Nodes -> [at : {"waiting", "ask", "intercept", "run", "validate", "result",
                                "leave", "abort", "done", "failed"},
                          turn : 0 .. MaxTurns, block : 0 .. MaxBlocks, asked : 0 .. MaxBlocks,
                          judged : 0 .. MaxBlocks, reported : 0 .. MaxBlocks,
                          verdict : {"none", "ALLOW", "MUTATE", "DENY", "HUMAN_REVIEW"},
                          ran : {"no", "asked", "mutated"},
                          output : {"none", "raw", "sanitized", "blocked"}]]
  /\ session \in [Nodes -> {"none", "live", "evicted", "ended"}]
  /\ below \in [Nodes -> HandsOn \cup {Nobody}]
  /\ stuck \subseteq Nodes

\* The calls of a turn share one answer of the model and its tokens: the server counts
\* them once if it judged any of the calls.  A tool has run only if its own call was
\* judged and not blocked - with the changed parameters when there were some - and what
\* the model is told of a blocked call comes from no tool.
LoopFollowsTheGuard ==
  \A n \in Nodes :
    LET s == node[n] IN
    /\ s.reported = (IF s.judged > 0 THEN 1 ELSE 0)
    /\ s.ran # "no" => /\ s.judged >= s.block /\ s.verdict \notin {"none", "DENY"}
                       /\ s.ran = "mutated" <=> s.verdict = "MUTATE"
    /\ s.at = "result" => (s.ran = "no") = (s.verdict = "DENY")

\* Nodes run side by side, fail, are evicted by the server or lose its answers.  What is
\* handed on is never a session its own client evicted, each session is below one that a
\* finished node handed on before, and one that outlives its node is such a parent or a
\* stuck one.
OnlyParentsStay ==
  /\ graph.parent # Nobody => session[graph.parent] # "evicted"
  /\ \A n \in Nodes :
       /\ below[n] # Nobody => node[below[n]].at = "done"
       /\ node[n].at \in {"done", "failed"} /\ session[n] = "live" =>
            n \in stuck \/ (n \in HandsOn /\ node[n].at = "done")

\* The loop of each node and the tree of their sessions.
AgentsActOnAnswers == LoopFollowsTheGuard /\ OnlyParentsStay
=============================================================================
