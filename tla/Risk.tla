--------------------------------- MODULE Risk ---------------------------------
(***************************************************************************)
(* SessionAgent.Evaluate: handlers of one session's calls add to its risk    *)
(* and judge by it.  Only the accumulator has a lock; the state in the store *)
(* and the guard of the velocity check are shared without one.              *)
(*                                                                          *)
(*   call   new -> append -> chain -> velocity -> (flag) -> persist -> store  *)
(*          -> peak -> judge -> log -> done                                 *)
(*                                                                          *)
(* What a signal adds is in hundredths.  The score is a float64, kept here   *)
(* in thousandths: ten for each hundredth of the sum, and one less when that is *)
(* a threshold and the additions were rounded to something below it, as 0.3  *)
(* three times is to 0.8999999999999999.  Any other rounding no comparison   *)
(* can tell.  Time passes in spans of one velocity window.                   *)
(***************************************************************************)
EXTENDS Chains, FiniteSets, FiniteSetsExt

CONSTANTS
  SessionCalls,    \* calls of the session
  ThresholdCalls,  \* of the velocity check
  RiskContribution,
  MaxSpans         \* bound: spans of time

ASSUME RiskBounds == ThresholdCalls \in Nat \ {0} /\ RiskContribution \in 1 .. 100 /\ MaxSpans \in Nat \ {0}

\* Of the drift scores a policy tells apart: below its threshold, above it, unrelated.
Drifts == {0, 50, 100}
DriftThreshold == 40
MaxAvgDrift == 30
Chain == <<"recon", "exfiltrate">>
Review == 700
Terminate == 900

VARIABLES
  score,   \* RiskAccumulator
  signals, \* whether an intent baseline is set, span of the last velocity flag (0: none), now
  stored,  \* SessionState: events, risk, peak
  call     \* of each call: where it is, its stage and drift, what it read, added and was
           \* told, which calls were over when it began, and whether none was going on

riskVars == <<score, signals, stored, call>>

Busy(c) == call[c].at \notin {"new", "done"}
CallMoves(c, from, state) == call[c].at = from /\ call' = [call EXCEPT ![c] = state]
To(c, at) == [call[c] EXCEPT !.at = at]
Adding(c, at, points) == [call[c] EXCEPT !.at = at, !.added = @ + points]

\* What the score may be once points are added to it: of what rounding does, only that
\* it misses a threshold can be told.
Charged(points) ==
  LET total == 10 * ((score + 1) \div 10 + points)
  IN IF points = 0 THEN {score}
     ELSE IF total \in {Review, Terminate} THEN {total, total - 1}
     ELSE {IF total > 1000 THEN 1000 ELSE total}

\* Mutant of Charge: without the lock the other of two that overlap may win.
ChargeUnlocked(points) == score' \in {score} \cup Charged(points)

\* RiskAccumulator.Add
Charge(points) == score' \in Charged(points)

\* The first intent that is stated is the baseline; without one nothing drifts.
BeginCall(c) ==
  \E intent \in BOOLEAN, stage \in {"recon", "exfiltrate"}, drift \in Drifts :
    LET based == signals.based \/ intent
        points == IF drift > DriftThreshold THEN (drift * 3) \div 10 ELSE 0
    IN /\ based \/ drift = 0
       /\ signals' = [signals EXCEPT !.based = based]
       /\ Charge(points)
       /\ CallMoves(c, "new",
            [call[c] EXCEPT !.at = "append", !.stage = stage, !.drift = drift,
                            !.events = stored.events, !.added = points,
                            !.before = {d \in SessionCalls : call[d].at = "done"},
                            !.alone = \A d \in SessionCalls : ~Busy(d)])
       /\ UNCHANGED stored

\* Appending to a list two others may append to as well: of two events for one place
\* either is kept, and what came behind it is gone.
AppendEvent(c) ==
  LET old == call[c].events
      event == [call |-> c, stage |-> call[c].stage, drift |-> call[c].drift, span |-> signals.now]
  IN /\ CallMoves(c, "append", [call[c] EXCEPT !.at = "chain", !.events = <<>>])
     /\ stored' \in {[stored EXCEPT !.events = Append(old, event)]} \cup
          (IF Len(stored.events) > Len(old)
           THEN {[stored EXCEPT !.events = SubSeq(@, 1, Len(old) + 1)]} ELSE {})
     /\ UNCHANGED <<score, signals>>

StagesOf(events) == [i \in DOMAIN events |-> events[i].stage]

AddChain(c) ==
  LET points == IF DetectChain(StagesOf(stored.events), 10, {Chain}) THEN 35 ELSE 0 IN
  /\ CallMoves(c, "chain", Adding(c, "velocity", points))
  /\ Charge(points)
  /\ UNCHANGED <<signals, stored>>

\* The latest events, back to the first that is older than the window.
InWindow ==
  LET old == {i \in DOMAIN stored.events : stored.events[i].span # signals.now}
  IN (IF old = {} THEN 0 ELSE Max(old)) + 1 .. Len(stored.events)

Probing ==
  /\ signals.flagged # signals.now
  /\ Cardinality(InWindow) >= ThresholdCalls
  /\ MapThenSumSet(LAMBDA i : stored.events[i].drift, InWindow) < MaxAvgDrift * Cardinality(InWindow)

CheckVelocity(c) ==
  /\ CallMoves(c, "velocity", To(c, IF Probing THEN "flag" ELSE "persist"))
  /\ UNCHANGED <<score, signals, stored>>

FlagVelocity(c) ==
  /\ CallMoves(c, "flag", [Adding(c, "persist", RiskContribution) EXCEPT !.flagged = signals.now])
  /\ signals' = [signals EXCEPT !.flagged = signals.now]
  /\ Charge(RiskContribution)
  /\ UNCHANGED stored

ReadScore(c) ==
  /\ CallMoves(c, "persist", [To(c, "store") EXCEPT !.score = score])
  /\ UNCHANGED <<score, signals, stored>>

StoreScore(c) ==
  /\ CallMoves(c, "store", [To(c, "peak") EXCEPT !.score = 0])
  /\ stored' = [stored EXCEPT !.risk = call[c].score]
  /\ UNCHANGED <<score, signals>>

StorePeak(c) ==
  /\ CallMoves(c, "peak", To(c, "judge"))
  /\ stored' = [stored EXCEPT !.peak = IF stored.risk > @ THEN stored.risk ELSE @]
  /\ UNCHANGED <<score, signals>>

Level(points) == IF points >= Terminate THEN 2 ELSE IF points >= Review THEN 1 ELSE 0

JudgeRisk(c) ==
  /\ CallMoves(c, "judge", [To(c, "log") EXCEPT !.verdict = Level(score)])
  /\ UNCHANGED <<score, signals, stored>>

\* The audit record takes the last event's drift for this call's.
LogDrift(c) ==
  /\ CallMoves(c, "log", [To(c, "done") EXCEPT !.logged = Last(stored.events).drift])
  /\ UNCHANGED <<score, signals, stored>>

SpanPasses ==
  /\ signals.now < MaxSpans
  /\ signals' = [signals EXCEPT !.now = @ + 1]
  /\ UNCHANGED <<score, stored, call>>

RiskInit ==
  /\ score = 0
  /\ signals = [based |-> FALSE, flagged |-> 0, now |-> 1]
  /\ stored = [events |-> <<>>, risk |-> 0, peak |-> 0]
  /\ call = [c \in SessionCalls |->
               [at |-> "new", stage |-> "recon", drift |-> 0, events |-> <<>>, added |-> 0,
                flagged |-> 0, score |-> 0, verdict |-> 0, logged |-> 0, before |-> {}, alone |-> FALSE]]

RiskNext ==
  \/ \E c \in SessionCalls :
       \/ BeginCall(c) \/ AppendEvent(c) \/ AddChain(c) \/ CheckVelocity(c)
       \/ FlagVelocity(c) \/ ReadScore(c) \/ StoreScore(c) \/ StorePeak(c)
       \/ JudgeRisk(c) \/ LogDrift(c)
  \/ SpanPasses

-----------------------------------------------------------------------------
(* Properties *)

RiskTypeOK ==
  /\ score \in 0 .. 1000
  /\ signals \in [based : BOOLEAN, flagged : 0 .. MaxSpans, now : 1 .. MaxSpans]
  /\ stored.risk \in 0 .. 1000 /\ stored.peak \in 0 .. 1000
  /\ \A e \in Range(stored.events) : e.call \in SessionCalls /\ e.drift \in Drifts
  /\ \A c \in SessionCalls :
       /\ call[c].at \in {"new", "append", "chain", "velocity", "flag", "persist", "store",
                         "peak", "judge", "log", "done"}
       /\ call[c].verdict \in 0 .. 2 /\ call[c].drift \in Drifts /\ call[c].score \in 0 .. 1000
       /\ call[c].before \subseteq SessionCalls

JudgedCalls == {c \in SessionCalls : call[c].at \in {"log", "done"}}
\* What the calls of a set added, point by point; all risk ends at 100.
PointsOf(S) == UNION {{c} \X (1 .. call[c].added) : c \in S}
Sum100(S) == LET sum == Cardinality(PointsOf(S)) IN IF sum > 100 THEN 100 ELSE sum

\* Handlers of one session interleave, and all but the accumulator is shared without a
\* lock.  What any of them added still counts: a call is judged by at least its own risk
\* and that of every call that was over when it began, and never more mildly than these.
\* Only a sum of just a threshold may be judged as one below it, as rounding has it.
RiskAddsUp ==
  /\ score \in {10 * Sum100(SessionCalls), 10 * Sum100(SessionCalls) - 1}
  /\ \A c \in JudgedCalls :
       /\ call[c].verdict >= Level(10 * Sum100(call[c].before \cup {c}) - 1)
       /\ \A d \in call[c].before : call[c].verdict >= call[d].verdict

\* As long as the calls come one at a time, what is reported of the session is exact:
\* each event, each drift, the risk and its peak - and probing is charged once a window.
AloneIsExact ==
  (\A c \in SessionCalls : call[c].at # "new" => call[c].alone) =>
    /\ \A c \in SessionCalls : call[c].at = "done" =>
         /\ call[c].logged = call[c].drift
         /\ \E e \in Range(stored.events) : e.call = c
    /\ (\A c \in SessionCalls : ~Busy(c)) => stored.risk = score /\ stored.peak = score
    /\ \A c, d \in SessionCalls :
         c # d /\ call[c].flagged # 0 => call[d].flagged # call[c].flagged

RiskIsNeverForgotten == RiskAddsUp /\ AloneIsExact
=============================================================================
