--------------------------------- MODULE Hook ---------------------------------
(***************************************************************************)
(* The Claude Code hook: a process per tool call, before the tool and after  *)
(* it.  It asks the server when one is up, judges by itself when none is or *)
(* none answers, and tells by its exit code whether the tool runs.          *)
(*                                                                          *)
(*   call     asked -> probe -> post -> wait -> (evaluate) -> ran or blocked *)
(*            ran -> scan -> done                                           *)
(*   server   judges what was posted, in its own time, asked for or not     *)
(*                                                                          *)
(* Its own evaluation has the guard's pipeline without the fleet, lineage  *)
(* and earlier calls' budgets, so the two may differ on any call.  What      *)
(* MUTATE changes is printed nowhere: the tool runs as asked.               *)
(***************************************************************************)
EXTENDS Integers

CONSTANTS
  HookCalls,      \* tool calls
  MaxServerDeaths \* bound: times the server dies

ASSUME HookBounds == MaxServerDeaths \in Nat

VARIABLES
  disk,     \* the policy on disk: "none", "broken" or "good"
  guard,    \* the server: whether it is up, and how often it died
  hooked,   \* of each call: where it is, whether input or answer was unreadable,
            \* whether the hook gave the server up
  asked,    \* calls the server is at work on
  verdicts  \* [call, by, stage, verdict, kept]: made by whom on what, and whether its
            \* row is in the database

hookVars == <<disk, guard, hooked, asked, verdicts>>

\* MUTATE ends as ALLOW does, TERMINATE as DENY.
HookVerdicts == {"ALLOW", "DENY", "HUMAN_REVIEW"}
Stopping == {"DENY", "HUMAN_REVIEW"}

HookStep(c, from, state) == hooked[c].at = from /\ hooked' = [hooked EXCEPT ![c] = state]
At(c, to) == [hooked[c] EXCEPT !.at = to]
Unread(c) == [At(c, "ran") EXCEPT !.unread = TRUE]

\* exitFromDecision: 2 or 0.
Exit(c, v) == At(c, IF v \in Stopping THEN "blocked" ELSE "ran")

\* A verdict and its row.  Server and hooks write to one database, whose open and whose
\* statements may fail or find it locked; nobody looks at the error.
Logged(c, by, stage, v, kept) ==
  [call |-> c, by |-> by, stage |-> stage, verdict |-> v, kept |-> kept]
Judge(c, by, stage, v) ==
  \E kept \in BOOLEAN : verdicts' = verdicts \cup {Logged(c, by, stage, v, kept)}

\* No input, malformed input or no tool name: exit 0.
ReadInput(c) ==
  /\ \/ HookStep(c, "asked", At(c, "probe"))
     \/ HookStep(c, "asked", Unread(c))
  /\ UNCHANGED <<disk, guard, asked, verdicts>>

\* GET /healthz: a server that is up may take more than 200 ms.
ServerIsUp(c) ==
  /\ \/ guard.up /\ HookStep(c, "probe", At(c, "post"))
     \/ HookStep(c, "probe", At(c, "evaluate"))
  /\ UNCHANGED <<disk, guard, asked, verdicts>>

\* POST /intercept, or nobody listens any more.
Post(c) ==
  /\ IF guard.up THEN /\ HookStep(c, "post", At(c, "wait"))
                       /\ asked' = asked \cup {c}
     ELSE /\ HookStep(c, "post", At(c, "evaluate"))
          /\ UNCHANGED asked
  /\ UNCHANGED <<disk, guard, verdicts>>

\* The server decides, at once or after a person did, and records before it answers.
ServerJudges(c) ==
  /\ guard.up /\ c \in asked
  /\ asked' = asked \ {c}
  /\ \E v \in HookVerdicts : Judge(c, "server", "before", v)
  /\ UNCHANGED <<disk, guard, hooked>>

\* A body over 1 MiB: 400 in plain text, unjudged, and no JSON to whoever still waits.
TooLarge(c) ==
  /\ guard.up /\ c \in asked
  /\ asked' = asked \ {c}
  /\ \/ HookStep(c, "wait", Unread(c))
     \/ hooked[c].at # "wait" /\ UNCHANGED hooked
  /\ UNCHANGED <<disk, guard, verdicts>>

Answers(c) == {r \in verdicts : r.call = c /\ r.by = "server"}

\* The whole answer arrives.
ReadAnswer(c) ==
  /\ \E r \in Answers(c) : HookStep(c, "wait", Exit(c, r.verdict))
  /\ UNCHANGED <<disk, guard, asked, verdicts>>

\* The server died while it wrote, or the 60 s were over while the body was read: what
\* came cannot be decoded.
CutAnswer(c) ==
  /\ Answers(c) # {} /\ HookStep(c, "wait", Unread(c))
  /\ UNCHANGED <<disk, guard, asked, verdicts>>

\* Mutant of GiveUp: an error is no reason to block.
GiveUpOpen(c) ==
  /\ HookStep(c, "wait", [At(c, "ran") EXCEPT !.gaveUp = TRUE])
  /\ UNCHANGED <<disk, guard, asked, verdicts>>

\* The server is gone before it answers, or 60 s have passed; it may be deciding still.
GiveUp(c) ==
  /\ HookStep(c, "wait", [At(c, "evaluate") EXCEPT !.gaveUp = TRUE])
  /\ UNCHANGED <<disk, guard, asked, verdicts>>

\* runHookInProcess: no policy, or one that does not load, lets the call through.
Evaluate(c) ==
  /\ IF disk # "good"
     THEN HookStep(c, "evaluate", At(c, "ran")) /\ UNCHANGED verdicts
     ELSE \E v \in HookVerdicts : /\ HookStep(c, "evaluate", Exit(c, v))
                              /\ Judge(c, "hook", "before", v)
  /\ UNCHANGED <<disk, guard, asked>>

\* PostToolUse never asks the server: the output is not scanned when there is none or
\* no policy, and a change to it is lost.
ScanToolOutput(c) ==
  /\ HookStep(c, "ran", At(c, "done"))
  /\ \/ UNCHANGED verdicts
     \/ /\ disk = "good"
        /\ \E v \in HookVerdicts \ {"HUMAN_REVIEW"} : Judge(c, "hook", "after", v)
  /\ UNCHANGED <<disk, guard, asked>>

ServerDies ==
  /\ guard.up /\ guard.deaths < MaxServerDeaths
  /\ guard' = [up |-> FALSE, deaths |-> guard.deaths + 1]
  /\ asked' = {}
  /\ UNCHANGED <<disk, hooked, verdicts>>

ServerStarts ==
  /\ ~guard.up
  /\ guard' = [guard EXCEPT !.up = TRUE]
  /\ UNCHANGED <<disk, hooked, asked, verdicts>>

HookRest ==
  /\ guard = [up |-> FALSE, deaths |-> 0]
  /\ hooked = [c \in HookCalls |-> [at |-> "asked", unread |-> FALSE, gaveUp |-> FALSE]]
  /\ asked = {} /\ verdicts = {}

HookInit ==
  /\ HookRest
  /\ disk \in {"none", "broken", "good"}

HookNext ==
  \/ \E c \in HookCalls :
       \/ ReadInput(c) \/ ServerIsUp(c) \/ Post(c) \/ ServerJudges(c) \/ TooLarge(c)
       \/ ReadAnswer(c) \/ CutAnswer(c) \/ GiveUp(c) \/ Evaluate(c) \/ ScanToolOutput(c)
  \/ ServerDies \/ ServerStarts

-----------------------------------------------------------------------------
(* Properties *)

HookTypeOK ==
  /\ disk \in {"none", "broken", "good"}
  /\ guard \in [up : BOOLEAN, deaths : 0 .. MaxServerDeaths]
  /\ hooked \in [HookCalls -> [at : {"asked", "probe", "post", "wait", "evaluate",
                                     "ran", "blocked", "done"},
                               unread : BOOLEAN, gaveUp : BOOLEAN]]
  /\ asked \subseteq HookCalls
  /\ verdicts \subseteq [call : HookCalls, by : {"server", "hook"},
                         stage : {"before", "after"}, verdict : HookVerdicts,
                         kept : BOOLEAN]

\* The verdict the hook acts on: its own when it made one, else the guard's.
ActedOn(c) ==
  LET before == {r \in verdicts : r.call = c /\ r.stage = "before"}
      own == {r \in before : r.by = "hook"}
  IN IF own # {} THEN own ELSE before

\* Servers die and start, answers are cut or late, rows are lost, and the hook gives one
\* judge up for the other.  A tool is blocked only on a verdict that says so, and runs only
\* on one that lets it - unless input or answer could not be read, or no policy loads; the
\* server is never overruled by a hook that did not give it up; and of the rows that are in
\* the database, the hook's own, and the server's whom it neither gave up nor misread, say
\* what became of the tool.
HookKeepsToVerdicts ==
  \A c \in HookCalls :
    LET blocked == hooked[c].at = "blocked"
        passed == hooked[c].at \in {"ran", "done"}
        before == {r \in verdicts : r.call = c /\ r.stage = "before"}
    IN /\ blocked => \E r \in ActedOn(c) : r.verdict \in Stopping
       /\ passed /\ ~hooked[c].unread /\ disk = "good"
            => \E r \in ActedOn(c) : r.verdict \notin Stopping
       /\ (\E r, q \in before : r.by = "server" /\ q.by = "hook") => hooked[c].gaveUp
       /\ \A r \in before :
            /\ r.kept /\ (blocked \/ passed)
            /\ r.by = "hook" \/ ~(hooked[c].gaveUp \/ hooked[c].unread)
            => (r.verdict \in Stopping <=> blocked)
=============================================================================
