----------------------------- MODULE PartsProofs -----------------------------
(***************************************************************************)
(* What is proved of the components that share no variable with others, as   *)
(* the behaviours of Parts run them: each behaves as its own specification   *)
(* says, whichever of them is at work.                                      *)
(***************************************************************************)
EXTENDS Parts, StoresProofs, CallsProofs

-----------------------------------------------------------------------------
(* Side by side *)

LEMMA PartsRunLineage == Spec => LineageSpec
<1>1. Init => LineageInit BY DEF Init
<1>2. [Next]_partVars => [LineageNext]_lineageVars
  BY DEF Next, partVars, sessions
<1> QED BY <1>1, <1>2, PTL DEF Spec, LineageSpec

LEMMA PartsRunProxy == Spec /\ part = "proxy" => ProxySpec
<1>1. Init /\ part = "proxy" => ProxyInit BY DEF Init
<1>2. [Next]_partVars => [ProxyNext]_proxyVars
  BY DEF Next, partVars, calls
<1> QED BY <1>1, <1>2, PTL DEF Spec, ProxySpec

LEMMA PartsRunHook == Spec => HookInit /\ [][HookNext]_hookVars
<1>1. Init => HookInit
  <2>1. Init => HookInit \/ NoHook BY DEF Init
  <2>2. NoHook => HookInit BY DEF NoHook, HookInit
  <2> QED BY <2>1, <2>2
<1>2. [Next]_partVars => [HookNext]_hookVars
  BY DEF Next, partVars, calls
<1> QED BY <1>1, <1>2, PTL DEF Spec

LEMMA PartsRunAgents == Spec => AgentsInit /\ [][AgentsNext]_agentVars
<1>1. Init => AgentsInit
  <2>1. Init => AgentsInit \/ NoAgents BY DEF Init
  <2>2. NoAgents => AgentsInit BY DEF NoAgents, AgentsInit
  <2> QED BY <2>1, <2>2
<1>2. [Next]_partVars => [AgentsNext]_agentVars
  BY DEF Next, partVars, calls
<1> QED BY <1>1, <1>2, PTL DEF Spec

LEMMA PartsRunWrap == Spec => WrapInit /\ [][WrapNext]_wrapVars
<1>1. Init => WrapInit
  BY DEF Init, WrapRest, WrapInit, Absent
<1>2. [Next]_partVars => [WrapNext]_wrapVars
  BY DEF Next, partVars, files
<1> QED BY <1>1, <1>2, PTL DEF Spec

LEMMA PartsRunSnapshots == Spec => SnapshotsInit /\ [][SnapshotsNext]_snapshotVars
<1>1. Init => SnapshotsInit BY DEF Init
<1>2. [Next]_partVars => [SnapshotsNext]_snapshotVars
  BY DEF Next, partVars, files
<1> QED BY <1>1, <1>2, PTL DEF Spec

LEMMA PartsRunRisk == Spec => RiskInit /\ [][RiskNext]_riskVars
<1>1. Init => RiskInit BY DEF Init
<1>2. [Next]_partVars => [RiskNext]_riskVars
  BY DEF Next, partVars, sessions
<1> QED BY <1>1, <1>2, PTL DEF Spec

LEMMA PartsRunKeys == Spec => KeysInit /\ [][KeysNext]_keyVars
<1>1. Init => KeysInit BY DEF Init
<1>2. [Next]_partVars => [KeysNext]_keyVars
  BY DEF Next, partVars, sessions
<1> QED BY <1>1, <1>2, PTL DEF Spec

-----------------------------------------------------------------------------
(* The Claude Code hook *)

AHooked == [at : {"asked", "probe", "post", "wait", "evaluate", "ran", "blocked", "done"},
            unread : BOOLEAN, gaveUp : BOOLEAN]
Logs == [call : HookCalls, by : {"server", "hook"}, stage : {"before", "after"},
         verdict : HookVerdicts, kept : BOOLEAN]
Ended == {"ran", "blocked", "done"}

\* Of the records of one call: the hook's own verdict, the server's, those acted on.
OwnIn(records) == {r \in records : r.by = "hook" /\ r.stage = "before"}
ServersIn(records) == {r \in records : r.by = "server"}
ActedIn(records) ==
  IF OwnIn(records) # {} THEN OwnIn(records) ELSE {r \in records : r.stage = "before"}
OfCall(c, records) == {r \in records : r.call = c}

\* Nothing was said that did not come to pass.
SaySo(h, records) == \A r \in records : r.verdict \in Stopping <=> h.at = "blocked"

\* What keeps a call to its verdicts: it is at the server only after it was posted, each
\* of the two judges it once, and the hook when the server never got it or was given up.
CallKept(h, due, records, d) ==
  /\ h.at \in {"asked", "probe", "post"} => ~due /\ records = {}
  /\ h.at \in {"wait", "evaluate"} => OwnIn(records) = {}
  /\ h.at = "evaluate" /\ ~h.gaveUp => ~due /\ ServersIn(records) = {}
  /\ OwnIn(records) # {} => h.gaveUp \/ (~due /\ ServersIn(records) = {})
  /\ \A r \in ServersIn(records) : r.stage = "before"
  /\ due => ServersIn(records) = {}
  /\ \A r, q \in ServersIn(records) : r.verdict = q.verdict
  /\ h.at = "blocked" => \E r \in ActedIn(records) : r.verdict \in Stopping
  /\ h.at \in {"ran", "done"} /\ ~h.unread /\ d = "good" =>
       \E r \in ActedIn(records) : r.verdict \notin Stopping
  /\ h.at \in Ended => SaySo(h, OwnIn(records))
  /\ h.at \in Ended /\ ~h.gaveUp /\ ~h.unread => ~due /\ SaySo(h, ServersIn(records))

CallsKept ==
  \A c \in HookCalls : CallKept(hooked[c], c \in asked, OfCall(c, verdicts), disk)

LEMMA AtIs ==
  ASSUME HookTypeOK, NEW c \in HookCalls, NEW to \in {"probe", "post", "wait", "evaluate", "ran", "blocked", "done"}
  PROVE  /\ At(c, to) \in AHooked /\ At(c, to).at = to
         /\ At(c, to).unread = hooked[c].unread /\ At(c, to).gaveUp = hooked[c].gaveUp
BY DEF At, HookTypeOK, AHooked

LEMMA UnreadIs ==
  ASSUME HookTypeOK, NEW c \in HookCalls
  PROVE  /\ Unread(c) \in AHooked /\ Unread(c).at = "ran" /\ Unread(c).unread
         /\ Unread(c).gaveUp = hooked[c].gaveUp
BY AtIs DEF Unread, AHooked

LEMMA HookStepDoes ==
  ASSUME HookTypeOK, NEW c \in HookCalls, NEW from, NEW state \in AHooked, HookStep(c, from, state)
  PROVE  /\ hooked[c].at = from /\ hooked'[c] = state
         /\ hooked' \in [HookCalls -> AHooked]
         /\ \A d \in HookCalls : d # c => hooked'[d] = hooked[d]
BY DEF HookStep, HookTypeOK, AHooked

\* What one record more does to what is acted on.
LEMMA OneOfServers ==
  ASSUME NEW records, NEW r, r.by = "server"
  PROVE  /\ OwnIn(records \cup {r}) = OwnIn(records)
         /\ ServersIn(records \cup {r}) = ServersIn(records) \cup {r}
         /\ ActedIn(records) \subseteq ActedIn(records \cup {r})
<1>1. OwnIn(records \cup {r}) = OwnIn(records) BY DEF OwnIn
<1>2. ServersIn(records \cup {r}) = ServersIn(records) \cup {r} BY DEF ServersIn
<1> QED BY <1>1, <1>2 DEF ActedIn

LEMMA OneBefore ==
  ASSUME NEW records, NEW r, r.by = "hook", r.stage = "before"
  PROVE  /\ ServersIn(records \cup {r}) = ServersIn(records)
         /\ OwnIn(records \cup {r}) = OwnIn(records) \cup {r} /\ r \in ActedIn(records \cup {r})
<1>1. ServersIn(records \cup {r}) = ServersIn(records) BY DEF ServersIn
<1>2. OwnIn(records \cup {r}) = OwnIn(records) \cup {r} BY DEF OwnIn
<1> QED BY <1>1, <1>2 DEF ActedIn

LEMMA OneAfter ==
  ASSUME NEW records, NEW r, r.by = "hook", r.stage = "after"
  PROVE  /\ ServersIn(records \cup {r}) = ServersIn(records)
         /\ OwnIn(records \cup {r}) = OwnIn(records)
         /\ ActedIn(records \cup {r}) = ActedIn(records)
<1>1. ServersIn(records \cup {r}) = ServersIn(records) BY DEF ServersIn
<1>2. OwnIn(records \cup {r}) = OwnIn(records) BY DEF OwnIn
<1>3. {q \in records \cup {r} : q.stage = "before"} = {q \in records : q.stage = "before"}
  OBVIOUS
<1> QED BY <1>1, <1>2, <1>3 DEF ActedIn

LEMMA LoggedIs ==
  ASSUME NEW c \in HookCalls, NEW by \in {"server", "hook"}, NEW stage \in {"before", "after"},
         NEW v \in HookVerdicts, Judge(c, by, stage, v)
  PROVE  \E r \in Logs : /\ verdicts' = verdicts \cup {r}
                         /\ r.call = c /\ r.by = by /\ r.stage = stage /\ r.verdict = v
<1>1. PICK kept \in BOOLEAN : verdicts' = verdicts \cup {Logged(c, by, stage, v, kept)}
  BY DEF Judge
<1>2. /\ Logged(c, by, stage, v, kept) \in Logs
      /\ Logged(c, by, stage, v, kept).call = c /\ Logged(c, by, stage, v, kept).by = by
      /\ Logged(c, by, stage, v, kept).stage = stage
      /\ Logged(c, by, stage, v, kept).verdict = v
  BY DEF Logged, Logs
<1> QED BY <1>1, <1>2

LEMMA OneLog ==
  ASSUME NEW r
  PROVE  /\ OfCall(r.call, verdicts \cup {r}) = OfCall(r.call, verdicts) \cup {r}
         /\ \A d : d # r.call => OfCall(d, verdicts \cup {r}) = OfCall(d, verdicts)
BY DEF OfCall

\* A step of one call leaves the others alone.
LEMMA OneCallMoves ==
  ASSUME HookTypeOK, CallsKept, NEW c \in HookCalls, disk' = disk,
         hooked' \in [HookCalls -> AHooked], asked' \subseteq HookCalls, verdicts' \subseteq Logs,
         guard' = guard,
         \A d \in HookCalls : d # c => /\ hooked'[d] = hooked[d] /\ (d \in asked' <=> d \in asked)
                                       /\ OfCall(d, verdicts') = OfCall(d, verdicts),
         CallKept(hooked'[c], c \in asked', OfCall(c, verdicts'), disk)
  PROVE  HookTypeOK' /\ CallsKept'
<1>1. HookTypeOK' BY DEF HookTypeOK, AHooked, Logs, HookVerdicts
<1>2. ASSUME NEW d \in HookCalls
      PROVE  CallKept(hooked'[d], d \in asked', OfCall(d, verdicts'), disk')
  <2>1. CASE d = c BY <2>1
  <2>2. CASE d # c
    <3>1. CallKept(hooked[d], d \in asked, OfCall(d, verdicts), disk) BY DEF CallsKept
    <3> QED BY <2>2, <3>1 DEF CallKept
  <2> QED BY <2>1, <2>2
<1>3. CallsKept' BY <1>2 DEF CallsKept
<1> QED BY <1>1, <1>3

LEMMA NoRecords == OwnIn({}) = {} /\ ServersIn({}) = {}
BY DEF OwnIn, ServersIn

\* What is acted on when the hook did not judge: what the server said.
LEMMA ServerActedOn ==
  ASSUME NEW records, OwnIn(records) = {}, NEW r \in ServersIn(records), r.stage = "before"
  PROVE  r \in ActedIn(records)
BY DEF ActedIn, ServersIn

LEMMA HookStepKeeps ==
  HookTypeOK /\ CallsKept /\ [HookNext]_hookVars => HookTypeOK' /\ CallsKept'
<1> SUFFICES ASSUME HookTypeOK, CallsKept, [HookNext]_hookVars PROVE HookTypeOK' /\ CallsKept'
  OBVIOUS
<1> DEFINE Is(c, h, due, records) == CallKept(h, due, records, disk)
<1>a. /\ hooked \in [HookCalls -> AHooked] /\ asked \subseteq HookCalls
      /\ verdicts \subseteq Logs
  BY DEF HookTypeOK, AHooked, Logs, HookVerdicts
<1>b. ASSUME NEW c \in HookCalls
      PROVE  Is(c, hooked[c], c \in asked, OfCall(c, verdicts))
  BY DEF CallsKept
<1>1. ASSUME NEW c \in HookCalls, ReadInput(c) PROVE HookTypeOK' /\ CallsKept'
  <2> DEFINE blind == Unread(c)
  <2>1. At(c, "probe") \in AHooked /\ At(c, "probe").at = "probe"
        /\ At(c, "probe").gaveUp = hooked[c].gaveUp
    BY AtIs
  <2>2. blind \in AHooked /\ blind.at = "ran" /\ blind.unread /\ blind.gaveUp = hooked[c].gaveUp
    BY UnreadIs
  <2> HIDE DEF blind
  <2>3. PICK h \in {At(c, "probe"), blind} : HookStep(c, "asked", h)
    BY <1>1 DEF ReadInput, blind
  <2>4. h \in AHooked BY <2>1, <2>2, <2>3
  <2>5. /\ hooked[c].at = "asked" /\ hooked'[c] = h /\ hooked' \in [HookCalls -> AHooked]
        /\ \A d \in HookCalls : d # c => hooked'[d] = hooked[d]
    BY <2>3, <2>4, HookStepDoes
  <2>6. UNCHANGED <<disk, guard, asked, verdicts>> BY <1>1 DEF ReadInput
  <2>7. c \notin asked /\ OfCall(c, verdicts) = {}
    BY <1>b, <2>5 DEF CallKept
  <2>8. CallKept(h, c \in asked, OfCall(c, verdicts), disk)
    BY <2>1, <2>2, <2>3, <2>7, NoRecords DEF CallKept, SaySo, Ended
  <2> QED BY <1>a, <2>5, <2>6, <2>8, OneCallMoves
<1>2. ASSUME NEW c \in HookCalls, ServerIsUp(c) PROVE HookTypeOK' /\ CallsKept'
  <2>1. PICK to \in {"post", "evaluate"} : HookStep(c, "probe", At(c, to))
    BY <1>2 DEF ServerIsUp
  <2>2. At(c, to) \in AHooked /\ At(c, to).at = to /\ At(c, to).gaveUp = hooked[c].gaveUp
    BY <2>1, AtIs
  <2>5. /\ hooked[c].at = "probe" /\ hooked'[c] = At(c, to) /\ hooked' \in [HookCalls -> AHooked]
        /\ \A d \in HookCalls : d # c => hooked'[d] = hooked[d]
    BY <2>1, <2>2, HookStepDoes
  <2>6. UNCHANGED <<disk, guard, asked, verdicts>> BY <1>2 DEF ServerIsUp
  <2>7. c \notin asked /\ OfCall(c, verdicts) = {}
    BY <1>b, <2>5 DEF CallKept
  <2>8. CallKept(At(c, to), c \in asked, OfCall(c, verdicts), disk)
    BY <2>1, <2>2, <2>7, NoRecords DEF CallKept, Ended
  <2> QED BY <1>a, <2>5, <2>6, <2>8, OneCallMoves
<1>3. ASSUME NEW c \in HookCalls, Post(c) PROVE HookTypeOK' /\ CallsKept'
  <2>1. PICK to \in {"wait", "evaluate"} : HookStep(c, "post", At(c, to))
                                           /\ asked' = IF to = "wait" THEN asked \cup {c} ELSE asked
    BY <1>3 DEF Post
  <2>2. At(c, to) \in AHooked /\ At(c, to).at = to /\ At(c, to).gaveUp = hooked[c].gaveUp
    BY <2>1, AtIs
  <2>5. /\ hooked[c].at = "post" /\ hooked'[c] = At(c, to) /\ hooked' \in [HookCalls -> AHooked]
        /\ \A d \in HookCalls : d # c => hooked'[d] = hooked[d]
    BY <2>1, <2>2, HookStepDoes
  <2>6. UNCHANGED <<disk, guard, verdicts>> BY <1>3 DEF Post
  <2>7. c \notin asked /\ OfCall(c, verdicts) = {}
    BY <1>b, <2>5 DEF CallKept
  <2>8. CallKept(At(c, to), c \in asked', OfCall(c, verdicts), disk)
    BY <2>1, <2>2, <2>7, NoRecords DEF CallKept, Ended
  <2>9. asked' \subseteq HookCalls /\ \A d \in HookCalls : d # c => (d \in asked' <=> d \in asked)
    BY <1>a, <2>1
  <2> QED BY <1>a, <2>5, <2>6, <2>8, <2>9, OneCallMoves
<1>4. ASSUME NEW c \in HookCalls, ServerJudges(c) PROVE HookTypeOK' /\ CallsKept'
  <2>1. PICK v \in HookVerdicts : Judge(c, "server", "before", v)
    BY <1>4 DEF ServerJudges
  <2>2. PICK r \in Logs : /\ verdicts' = verdicts \cup {r}
                          /\ r.by = "server" /\ r.stage = "before" /\ r.call = c
    BY <2>1, LoggedIs
  <2> DEFINE old == OfCall(c, verdicts)
  <2>3. /\ OfCall(c, verdicts') = old \cup {r}
        /\ \A d \in HookCalls : d # c => OfCall(d, verdicts') = OfCall(d, verdicts)
    BY <2>2, OneLog
  <2> HIDE DEF old
  <2>4. /\ OwnIn(old \cup {r}) = OwnIn(old) /\ ServersIn(old \cup {r}) = ServersIn(old) \cup {r}
        /\ ActedIn(old) \subseteq ActedIn(old \cup {r})
    BY <2>2, OneOfServers
  <2>5. c \in asked /\ asked' = asked \ {c} /\ UNCHANGED <<disk, guard, hooked>>
    BY <1>4 DEF ServerJudges
  <2>6. CallKept(hooked[c], TRUE, old, disk) BY <1>b, <2>5 DEF CallKept, old
  <2>7. CallKept(hooked[c], FALSE, old \cup {r}, disk)
    BY <2>2, <2>4, <2>6 DEF CallKept
  <2>8. verdicts' \subseteq Logs BY <1>a, <2>2
  <2>9. /\ c \notin asked' /\ asked' \subseteq HookCalls
        /\ \A d \in HookCalls : d # c => (d \in asked' <=> d \in asked)
    BY <1>a, <2>5
  <2>10. CallKept(hooked'[c], c \in asked', OfCall(c, verdicts'), disk)
    BY <2>3, <2>5, <2>7, <2>9 DEF CallKept
  <2> QED BY <1>a, <2>3, <2>5, <2>8, <2>9, <2>10, OneCallMoves
<1>5. ASSUME NEW c \in HookCalls, ReadAnswer(c) PROVE HookTypeOK' /\ CallsKept'
  <2>1. PICK r \in Answers(c) : HookStep(c, "wait", Exit(c, r.verdict)) BY <1>5 DEF ReadAnswer
  <2>2. r \in ServersIn(OfCall(c, verdicts)) BY <2>1 DEF Answers, ServersIn, OfCall
  <2> DEFINE to == IF r.verdict \in Stopping THEN "blocked" ELSE "ran"
  <2>3. Exit(c, r.verdict) = At(c, to) BY DEF Exit
  <2>4. to \in {"blocked", "ran"} /\ (to = "blocked" <=> r.verdict \in Stopping) OBVIOUS
  <2> HIDE DEF to
  <2>5. At(c, to) \in AHooked /\ At(c, to).at = to /\ At(c, to).gaveUp = hooked[c].gaveUp
    BY <2>4, AtIs
  <2>6. /\ hooked[c].at = "wait" /\ hooked'[c] = At(c, to) /\ hooked' \in [HookCalls -> AHooked]
        /\ \A d \in HookCalls : d # c => hooked'[d] = hooked[d]
    BY <2>1, <2>3, <2>5, HookStepDoes
  <2>7. UNCHANGED <<disk, guard, asked, verdicts>> BY <1>5 DEF ReadAnswer
  <2>8. /\ OwnIn(OfCall(c, verdicts)) = {} /\ c \notin asked
        /\ \A q \in ServersIn(OfCall(c, verdicts)) : q.stage = "before" /\ q.verdict = r.verdict
        /\ \A q, p \in ServersIn(OfCall(c, verdicts)) : q.verdict = p.verdict
    BY <1>b, <2>2, <2>6 DEF CallKept
  <2>9. r \in ActedIn(OfCall(c, verdicts)) BY <2>2, <2>8, ServerActedOn
  <2>10. CallKept(At(c, to), c \in asked, OfCall(c, verdicts), disk)
    BY <2>4, <2>5, <2>8, <2>9 DEF CallKept, SaySo, Ended
  <2> QED BY <1>a, <2>6, <2>7, <2>10, OneCallMoves
<1>6. ASSUME NEW c \in HookCalls, CutAnswer(c) PROVE HookTypeOK' /\ CallsKept'
  <2>1. HookStep(c, "wait", Unread(c)) /\ UNCHANGED <<disk, guard, asked, verdicts>>
    BY <1>6 DEF CutAnswer
  <2>2. /\ hooked[c].at = "wait" /\ hooked'[c] = Unread(c) /\ hooked' \in [HookCalls -> AHooked]
        /\ \A d \in HookCalls : d # c => hooked'[d] = hooked[d]
    BY <2>1, UnreadIs, HookStepDoes
  <2>3. CallKept(Unread(c), c \in asked, OfCall(c, verdicts), disk)
    BY <1>b, <2>2, UnreadIs DEF CallKept, SaySo, Ended
  <2> QED BY <1>a, <2>1, <2>2, <2>3, OneCallMoves
<1>13. ASSUME NEW c \in HookCalls, TooLarge(c) PROVE HookTypeOK' /\ CallsKept'
  <2>1. /\ UNCHANGED <<disk, guard, verdicts>> /\ c \notin asked' /\ asked' \subseteq HookCalls
        /\ \A d \in HookCalls : d # c => (d \in asked' <=> d \in asked)
    BY <1>13, <1>a DEF TooLarge
  <2>2. CASE HookStep(c, "wait", Unread(c))
    <3>1. /\ hooked[c].at = "wait" /\ hooked'[c] = Unread(c) /\ hooked' \in [HookCalls -> AHooked]
          /\ \A d \in HookCalls : d # c => hooked'[d] = hooked[d]
      BY <2>2, UnreadIs, HookStepDoes
    <3>2. CallKept(Unread(c), FALSE, OfCall(c, verdicts), disk)
      BY <1>b, <3>1, UnreadIs DEF CallKept, SaySo, Ended
    <3>3. CallKept(hooked'[c], c \in asked', OfCall(c, verdicts'), disk)
      BY <2>1, <3>1, <3>2 DEF CallKept
    <3> QED BY <1>a, <2>1, <3>1, <3>3, OneCallMoves
  <2>3. CASE UNCHANGED hooked
    <3>1. CallKept(hooked[c], FALSE, OfCall(c, verdicts), disk)
      BY <1>b DEF CallKept
    <3>2. CallKept(hooked'[c], c \in asked', OfCall(c, verdicts'), disk)
      BY <2>1, <2>3, <3>1 DEF CallKept
    <3> QED BY <1>a, <2>1, <2>3, <3>2, OneCallMoves
  <2> QED BY <1>13, <2>2, <2>3 DEF TooLarge
<1>7. ASSUME NEW c \in HookCalls, GiveUp(c) PROVE HookTypeOK' /\ CallsKept'
  <2> DEFINE alone == [At(c, "evaluate") EXCEPT !.gaveUp = TRUE]
  <2>2. alone \in AHooked /\ alone.at = "evaluate" /\ alone.gaveUp
    BY AtIs DEF AHooked
  <2>3. HookStep(c, "wait", alone) /\ UNCHANGED <<disk, guard, asked, verdicts>>
    BY <1>7 DEF GiveUp
  <2> HIDE DEF alone
  <2>5. /\ hooked[c].at = "wait" /\ hooked'[c] = alone /\ hooked' \in [HookCalls -> AHooked]
        /\ \A d \in HookCalls : d # c => hooked'[d] = hooked[d]
    BY <2>2, <2>3, HookStepDoes
  <2>8. CallKept(alone, c \in asked, OfCall(c, verdicts), disk)
    BY <1>b, <2>2, <2>5 DEF CallKept, Ended
  <2> QED BY <1>a, <2>3, <2>5, <2>8, OneCallMoves
<1>8. ASSUME NEW c \in HookCalls, Evaluate(c) PROVE HookTypeOK' /\ CallsKept'
  <2>0. UNCHANGED <<disk, guard, asked>> BY <1>8 DEF Evaluate
  <2>1. CASE disk # "good"
    <3>1. HookStep(c, "evaluate", At(c, "ran")) /\ UNCHANGED verdicts
      BY <1>8, <2>1 DEF Evaluate
    <3>2. At(c, "ran") \in AHooked /\ At(c, "ran").at = "ran"
          /\ At(c, "ran").gaveUp = hooked[c].gaveUp
      BY AtIs
    <3>3. /\ hooked[c].at = "evaluate" /\ hooked'[c] = At(c, "ran")
          /\ hooked' \in [HookCalls -> AHooked]
          /\ \A d \in HookCalls : d # c => hooked'[d] = hooked[d]
      BY <3>1, <3>2, HookStepDoes
    <3>4. CallKept(At(c, "ran"), c \in asked, OfCall(c, verdicts), disk)
      BY <1>b, <2>1, <3>2, <3>3 DEF CallKept, SaySo, Ended
    <3> QED BY <1>a, <2>0, <3>1, <3>3, <3>4, OneCallMoves
  <2>2. CASE disk = "good"
    <3>1. PICK v \in HookVerdicts : /\ HookStep(c, "evaluate", Exit(c, v))
                                    /\ Judge(c, "hook", "before", v)
      BY <1>8, <2>2 DEF Evaluate
    <3>2. PICK r \in Logs : /\ verdicts' = verdicts \cup {r} /\ r.verdict = v
                            /\ r.by = "hook" /\ r.stage = "before" /\ r.call = c
      BY <3>1, LoggedIs
    <3> DEFINE to == IF v \in Stopping THEN "blocked" ELSE "ran"
               old == OfCall(c, verdicts)
    <3>3. Exit(c, v) = At(c, to) BY DEF Exit
    <3>4. to \in {"blocked", "ran"} /\ (to = "blocked" <=> v \in Stopping) OBVIOUS
    <3> HIDE DEF to
    <3>5. /\ At(c, to) \in AHooked /\ At(c, to).at = to
          /\ At(c, to).gaveUp = hooked[c].gaveUp /\ At(c, to).unread = hooked[c].unread
      BY <3>4, AtIs
    <3>6. /\ hooked[c].at = "evaluate" /\ hooked'[c] = At(c, to)
          /\ hooked' \in [HookCalls -> AHooked]
          /\ \A d \in HookCalls : d # c => hooked'[d] = hooked[d]
      BY <3>1, <3>3, <3>5, HookStepDoes
    <3>7. CallKept(hooked[c], c \in asked, old, disk) BY <1>b
    <3>8. /\ OfCall(c, verdicts') = old \cup {r}
          /\ \A d \in HookCalls : d # c => OfCall(d, verdicts') = OfCall(d, verdicts)
      BY <3>2, OneLog
    <3> HIDE DEF old
    <3>9. /\ ServersIn(old \cup {r}) = ServersIn(old) /\ r \in ActedIn(old \cup {r})
          /\ OwnIn(old \cup {r}) = {r}
      BY <3>2, <3>6, <3>7, OneBefore DEF CallKept
    <3>10. /\ SaySo(At(c, to), OwnIn(old \cup {r}))
           /\ ~hooked[c].gaveUp => c \notin asked /\ SaySo(At(c, to), ServersIn(old \cup {r}))
      BY <3>2, <3>4, <3>5, <3>6, <3>7, <3>9 DEF CallKept, SaySo
    <3>11. CallKept(At(c, to), c \in asked, old \cup {r}, disk)
      BY <3>2, <3>4, <3>5, <3>6, <3>7, <3>9, <3>10 DEF CallKept
    <3>12. verdicts' \subseteq Logs BY <1>a, <3>2
    <3> QED BY <1>a, <2>0, <3>6, <3>8, <3>11, <3>12, OneCallMoves
  <2> QED BY <2>1, <2>2
<1>9. ASSUME NEW c \in HookCalls, ScanToolOutput(c) PROVE HookTypeOK' /\ CallsKept'
  <2>0. UNCHANGED <<disk, guard, asked>> BY <1>9 DEF ScanToolOutput
  <2>1. /\ At(c, "done") \in AHooked /\ At(c, "done").at = "done"
        /\ At(c, "done").gaveUp = hooked[c].gaveUp /\ At(c, "done").unread = hooked[c].unread
    BY AtIs
  <2>2. /\ hooked[c].at = "ran" /\ hooked'[c] = At(c, "done")
        /\ hooked' \in [HookCalls -> AHooked]
        /\ \A d \in HookCalls : d # c => hooked'[d] = hooked[d]
    BY <1>9, <2>1, HookStepDoes DEF ScanToolOutput
  <2>3. CallKept(At(c, "done"), c \in asked, OfCall(c, verdicts), disk)
    BY <1>b, <2>1, <2>2 DEF CallKept, SaySo, Ended
  <2>4. CASE verdicts' = verdicts
    BY <1>a, <2>0, <2>2, <2>3, <2>4, OneCallMoves
  <2>5. CASE \E v \in HookVerdicts : Judge(c, "hook", "after", v)
    <3>1. PICK v \in HookVerdicts : Judge(c, "hook", "after", v)
      BY <2>5
    <3>2. PICK r \in Logs : /\ verdicts' = verdicts \cup {r}
                            /\ r.by = "hook" /\ r.stage = "after" /\ r.call = c
      BY <3>1, LoggedIs
    <3> DEFINE old == OfCall(c, verdicts)
    <3>3. /\ OfCall(c, verdicts') = old \cup {r}
          /\ \A d \in HookCalls : d # c => OfCall(d, verdicts') = OfCall(d, verdicts)
      BY <3>2, OneLog
    <3> HIDE DEF old
    <3>4. /\ ServersIn(old \cup {r}) = ServersIn(old) /\ OwnIn(old \cup {r}) = OwnIn(old)
          /\ ActedIn(old \cup {r}) = ActedIn(old)
      BY <3>2, OneAfter
    <3>5. CallKept(At(c, "done"), c \in asked, old \cup {r}, disk)
      BY <2>1, <2>3, <3>4 DEF CallKept, old
    <3>6. verdicts' \subseteq Logs BY <1>a, <3>2
    <3> QED BY <1>a, <2>0, <2>2, <3>3, <3>5, <3>6, OneCallMoves
  <2> QED BY <1>9, <2>4, <2>5 DEF ScanToolOutput
<1>10. ASSUME ServerDies PROVE HookTypeOK' /\ CallsKept'
  <2>1. /\ asked' = {} /\ UNCHANGED <<disk, hooked, verdicts>>
        /\ guard' = [up |-> FALSE, deaths |-> guard.deaths + 1] /\ guard.deaths < MaxServerDeaths
    BY <1>10 DEF ServerDies
  <2>2. guard' \in [up : BOOLEAN, deaths : 0 .. MaxServerDeaths]
    BY <2>1, HookBounds DEF HookTypeOK
  <2>3. HookTypeOK' BY <2>1, <2>2 DEF HookTypeOK
  <2>4. \A c \in HookCalls : CallKept(hooked[c], FALSE, OfCall(c, verdicts), disk)
    BY <1>b DEF CallKept
  <2>5. CallsKept' BY <2>1, <2>4 DEF CallsKept, CallKept
  <2> QED BY <2>3, <2>5
<1>11. ASSUME ServerStarts PROVE HookTypeOK' /\ CallsKept'
  <2>1. guard' = [guard EXCEPT !.up = TRUE] /\ UNCHANGED <<disk, hooked, asked, verdicts>>
    BY <1>11 DEF ServerStarts
  <2>2. guard' \in [up : BOOLEAN, deaths : 0 .. MaxServerDeaths] BY <2>1 DEF HookTypeOK
  <2>3. HookTypeOK' BY <2>1, <2>2 DEF HookTypeOK
  <2>4. CallsKept' BY <2>1 DEF CallsKept
  <2> QED BY <2>3, <2>4
<1>12. ASSUME UNCHANGED hookVars PROVE HookTypeOK' /\ CallsKept'
  BY <1>12 DEF HookTypeOK, CallsKept, hookVars
<1> QED BY <1>1, <1>2, <1>3, <1>4, <1>5, <1>6, <1>7, <1>8, <1>9, <1>10, <1>11, <1>12, <1>13 DEF HookNext

\* However often the server dies and starts, cut or late as its answers may be and whatever
\* rows are lost, the tool runs or is blocked as one verdict says, the hook does not overrule
\* a server it did not give up, and the rows there are tell what became of the tool.
THEOREM PartsHookKeepsToVerdicts == Spec => [](HookTypeOK /\ HookKeepsToVerdicts)
<1>1. HookInit => HookTypeOK /\ CallsKept
  <2> SUFFICES ASSUME HookInit PROVE HookTypeOK /\ CallsKept
    OBVIOUS
  <2>1. HookTypeOK BY HookBounds DEF HookInit, HookRest, HookTypeOK
  <2>2. ASSUME NEW c \in HookCalls
        PROVE  CallKept(hooked[c], c \in asked, OfCall(c, verdicts), disk)
    <3>1. hooked[c].at = "asked" /\ c \notin asked BY DEF HookInit, HookRest
    <3>2. OfCall(c, verdicts) = {} BY DEF HookInit, HookRest, OfCall
    <3> QED BY <3>1, <3>2, NoRecords DEF CallKept, Ended
  <2> QED BY <2>1, <2>2 DEF CallsKept
<1>2. HookTypeOK /\ CallsKept => HookKeepsToVerdicts
  <2> SUFFICES ASSUME HookTypeOK, CallsKept, NEW c \in HookCalls
               PROVE  LET blocked == hooked[c].at = "blocked"
                          passed == hooked[c].at \in {"ran", "done"}
                          before == {r \in verdicts : r.call = c /\ r.stage = "before"}
                      IN /\ blocked => \E r \in ActedOn(c) : r.verdict \in Stopping
                         /\ passed /\ ~hooked[c].unread /\ disk = "good"
                              => \E r \in ActedOn(c) : r.verdict \notin Stopping
                         /\ (\E r, q \in before : r.by = "server" /\ q.by = "hook")
                              => hooked[c].gaveUp
                         /\ \A r \in before :
                              /\ r.kept /\ (blocked \/ passed)
                              /\ r.by = "hook" \/ ~(hooked[c].gaveUp \/ hooked[c].unread)
                              => (r.verdict \in Stopping <=> blocked)
    BY DEF HookKeepsToVerdicts
  <2> DEFINE records == OfCall(c, verdicts)
             before == {r \in verdicts : r.call = c /\ r.stage = "before"}
  <2>1. CallKept(hooked[c], c \in asked, records, disk) BY DEF CallsKept
  <2>2. ActedOn(c) = ActedIn(records)
    <3>1. before = {r \in records : r.stage = "before"} BY DEF OfCall
    <3>2. {r \in before : r.by = "hook"} = OwnIn(records) BY DEF OwnIn, OfCall
    <3> QED BY <3>1, <3>2 DEF ActedOn, ActedIn
  <2>3. \A r \in before : \/ r.by = "server" /\ r \in ServersIn(records)
                          \/ r.by = "hook" /\ r \in OwnIn(records)
    BY DEF ServersIn, OwnIn, OfCall, HookTypeOK
  <2> HIDE DEF records, before
  <2>4. ASSUME NEW r \in before, NEW q \in before, r.by = "server", q.by = "hook"
        PROVE  hooked[c].gaveUp
    <3>1. r \in ServersIn(records) /\ q \in OwnIn(records) BY <2>3, <2>4
    <3> QED BY <2>1, <3>1 DEF CallKept
  <2>5. ASSUME NEW r \in before, hooked[c].at \in Ended,
               r.by = "hook" \/ ~(hooked[c].gaveUp \/ hooked[c].unread)
        PROVE  r.verdict \in Stopping <=> hooked[c].at = "blocked"
    <3>1. CASE r.by = "hook"
      BY <2>1, <2>3, <2>5, <3>1 DEF CallKept, SaySo
    <3>2. CASE r.by = "server"
      BY <2>1, <2>3, <2>5, <3>2 DEF CallKept, SaySo
    <3> QED BY <2>3, <3>1, <3>2
  <2>6. /\ hooked[c].at = "blocked" => \E r \in ActedOn(c) : r.verdict \in Stopping
        /\ hooked[c].at \in {"ran", "done"} /\ ~hooked[c].unread /\ disk = "good"
             => \E r \in ActedOn(c) : r.verdict \notin Stopping
    BY <2>1, <2>2 DEF CallKept
  <2> QED BY <2>4, <2>5, <2>6 DEF Ended, before
<1>3. HookInit /\ [][HookNext]_hookVars => [](HookTypeOK /\ CallsKept)
  BY <1>1, HookStepKeeps, PTL
<1> QED BY <1>2, <1>3, PartsRunHook, PTL

-----------------------------------------------------------------------------
(* Config files *)

ALife == [at : {"off", "reading", "seen", "writing", "patched", "armed", "serving", "restoring",
                "dead"},
          mode : Modes, port : Ports \cup {0}, raw : Contents, seen : Contents]

\* A process that has the file in hand.
HasInHand(s, f) ==
  /\ s.at \notin {"off", "dead"}
  /\ s.mode = "uninstall" => s.at \notin {"patched", "armed", "serving"}
  /\ FileOf(s.mode) = f

\* As the user wants it: nobody's routes or hooks in it, and the last of the edits.
Intact(content, edit) ==
  content.form # "torn" /\ content.way = "own" /\ content.edit = edit

\* What the one process that has a file in hand knows of it, and left in it.
HeldWell(s, content, edit) ==
  /\ Intact(s.raw, edit) /\ (s.mode = "wrap" => s.raw.form = "whole")
  /\ s.at \in {"reading", "seen"} => s.raw = content
  /\ s.at \in {"seen", "writing"} => s.seen = s.raw
  /\ s.at \in {"writing", "restoring"} => content.form = "torn"
  /\ s.at \in {"patched", "armed", "serving"} =>
       /\ content.form = "whole" /\ content.way = "guarded"
       /\ s.mode = "wrap" => content.port = s.port

FileKept(f, content, edit, lives, blamed) ==
  blamed = {} =>
    /\ \A l, k \in Lives : HasInHand(lives[l], f) /\ HasInHand(lives[k], f) => l = k
    /\ (\A l \in Lives : ~HasInHand(lives[l], f)) => Intact(content, edit)
    /\ \A l \in Lives : HasInHand(lives[l], f) => HeldWell(lives[l], content, edit)

\* Whatever went wrong: wrap and uninstall rewrite only what they could read, and what is
\* restored was there.
LifeSane(s) ==
  /\ s.at = "off" => s.mode = "wrap"
  /\ s.at = "reading" => s.mode = "init"
  /\ s.at \in {"seen", "writing"} /\ s.mode # "init" => s.seen.form = "whole"
  /\ s.at = "restoring" => s.mode # "uninstall" /\ s.raw.form # "absent"

FilesKept ==
  /\ \A f \in Files : FileKept(f, file[f], edits[f], life, trouble[f])
  /\ \A l \in Lives : LifeSane(life[l])
  /\ \A f \in Files : file[f].form = "absent" => file[f].edit = 0 /\ file[f].way = "own"

LEMMA AbsentIs ==
  /\ Absent \in Contents /\ Absent.form = "absent" /\ Absent.edit = 0 /\ Absent.way = "own"
  /\ Torn \in Contents /\ Torn.form = "torn"
  /\ [Absent EXCEPT !.form = "whole"] \in Contents
  /\ Intact([Absent EXCEPT !.form = "whole"], 0)
  /\ [Absent EXCEPT !.form = "whole"].form = "whole"
BY WrapBounds DEF Absent, Torn, Contents, Intact

LEMMA LifeDoes ==
  ASSUME WrapTypeOK, NEW l \in Lives, NEW from, NEW s \in ALife, LifeStep(l, from, s)
  PROVE  /\ life[l].at \in from /\ life' \in [Lives -> ALife] /\ life'[l] = s
         /\ \A k \in Lives : k # l => life'[k] = life[k]
BY DEF LifeStep, WrapTypeOK, ALife

LEMMA MovesIs ==
  ASSUME WrapTypeOK, NEW l \in Lives,
         NEW to \in {"writing", "patched", "armed", "serving", "restoring", "dead"}
  PROVE  /\ Moves(l, to) \in ALife /\ Moves(l, to).at = to /\ Moves(l, to).mode = life[l].mode
         /\ Moves(l, to).port = life[l].port /\ Moves(l, to).raw = life[l].raw
         /\ Moves(l, to).seen = life[l].seen
BY DEF Moves, WrapTypeOK, ALife

LEMMA PutDoes ==
  ASSUME WrapTypeOK, NEW f \in Files, NEW content \in Contents, Put(f, content)
  PROVE  /\ file' \in [Files -> Contents] /\ file'[f] = content
         /\ \A g \in Files : g # f => file'[g] = file[g]
BY DEF Put, WrapTypeOK

LEMMA BlameDoes ==
  ASSUME WrapTypeOK, NEW f \in Files, NEW what \in {"overlap", "killed", "was absent", "edited"},
         Blame(f, what)
  PROVE  /\ trouble' \in [Files -> SUBSET {"overlap", "killed", "was absent", "edited"}]
         /\ trouble'[f] # {}
         /\ \A g \in Files : g # f => trouble'[g] = trouble[g]
BY DEF Blame, WrapTypeOK

LEMMA HoldersAre ==
  ASSUME NEW f
  PROVE  \A l \in Lives : /\ l \in Holders(f) <=> HasInHand(life[l], f)
                          /\ (InHand(l) /\ FileOf(life[l].mode) = f) <=> HasInHand(life[l], f)
BY DEF Holders, InHand, HasInHand

LEMMA ModeFile == \A mode \in Modes : FileOf(mode) \in Files
BY DEF Modes, FileOf, Files

\* A file whose only holder, if any, moves.
LEMMA FileMoves ==
  ASSUME NEW f, NEW l \in Lives, NEW lives, NEW s, NEW moved,
         moved[l] = s, \A k \in Lives : k # l => moved[k] = lives[k],
         NEW content, NEW edit, NEW blamed,
         blamed = {} => \A k \in Lives : k # l => ~HasInHand(lives[k], f),
         blamed = {} /\ HasInHand(s, f) => HeldWell(s, content, edit),
         blamed = {} /\ ~HasInHand(s, f) => Intact(content, edit)
  PROVE  FileKept(f, content, edit, moved, blamed)
<1> SUFFICES ASSUME blamed = {}
             PROVE  /\ \A m, k \in Lives : HasInHand(moved[m], f) /\ HasInHand(moved[k], f) => m = k
                    /\ (\A k \in Lives : ~HasInHand(moved[k], f)) => Intact(content, edit)
                    /\ \A k \in Lives : HasInHand(moved[k], f) => HeldWell(moved[k], content, edit)
  BY DEF FileKept
<1>1. \A k \in Lives : HasInHand(moved[k], f) => k = l OBVIOUS
<1> QED BY <1>1

\* A file that the process that moves does not have in hand, before or after.
LEMMA FileRests ==
  ASSUME NEW f, NEW l \in Lives, NEW lives, NEW moved,
         \A k \in Lives : k # l => moved[k] = lives[k],
         ~HasInHand(lives[l], f), ~HasInHand(moved[l], f),
         NEW content, NEW edit, NEW blamed,
         FileKept(f, content, edit, lives, blamed)
  PROVE  FileKept(f, content, edit, moved, blamed)
<1> SUFFICES ASSUME blamed = {}
             PROVE  /\ \A m, k \in Lives : HasInHand(moved[m], f) /\ HasInHand(moved[k], f) => m = k
                    /\ (\A k \in Lives : ~HasInHand(moved[k], f)) => Intact(content, edit)
                    /\ \A k \in Lives : HasInHand(moved[k], f) => HeldWell(moved[k], content, edit)
  BY DEF FileKept
<1>1. \A k \in Lives : /\ HasInHand(moved[k], f) <=> HasInHand(lives[k], f)
                       /\ HasInHand(moved[k], f) => moved[k] = lives[k]
  OBVIOUS
<1>2. /\ \A m, k \in Lives : HasInHand(lives[m], f) /\ HasInHand(lives[k], f) => m = k
      /\ (\A k \in Lives : ~HasInHand(lives[k], f)) => Intact(content, edit)
      /\ \A k \in Lives : HasInHand(lives[k], f) => HeldWell(lives[k], content, edit)
  BY DEF FileKept
<1> QED BY <1>1, <1>2

\* A process's step touches its own file only; what is left to show is about that one.
LEMMA OneFileMoves ==
  ASSUME WrapTypeOK, FilesKept, NEW l \in Lives, NEW s \in ALife, NEW from, NEW f \in Files,
         LifeStep(l, from, s), FileOf(s.mode) = f,
         life[l].at = "off" \/ s.mode = life[l].mode,
         LifeSane(s), edits' = edits,
         file' \in [Files -> Contents], \A g \in Files : g # f => file'[g] = file[g],
         trouble' \in [Files -> SUBSET {"overlap", "killed", "was absent", "edited"}],
         \A g \in Files : g # f => trouble'[g] = trouble[g],
         FileKept(f, file'[f], edits[f], life', trouble'[f]),
         file'[f].form = "absent" => file'[f].edit = 0 /\ file'[f].way = "own"
  PROVE  WrapTypeOK' /\ FilesKept'
<1>1. /\ life' \in [Lives -> ALife] /\ life'[l] = s
      /\ \A k \in Lives : k # l => life'[k] = life[k]
  BY LifeDoes
<1>2. WrapTypeOK' BY <1>1 DEF WrapTypeOK, ALife
<1>3. ASSUME NEW g \in Files PROVE FileKept(g, file'[g], edits'[g], life', trouble'[g])
  <2>1. CASE g = f BY <2>1
  <2>2. CASE g # f
    <3>1. ~HasInHand(life[l], g) /\ ~HasInHand(life'[l], g) BY <1>1, <2>2 DEF HasInHand
    <3>2. FileKept(g, file[g], edits[g], life, trouble[g]) BY DEF FilesKept
    <3>a. \A k \in Lives : k # l => life'[k] = life[k] BY <1>1
    <3>3. FileKept(g, file[g], edits[g], life', trouble[g]) BY <3>a, <3>1, <3>2, FileRests
    <3>4. file'[g] = file[g] /\ edits'[g] = edits[g] /\ trouble'[g] = trouble[g] BY <2>2
    <3> QED BY <3>3, <3>4
  <2> QED BY <2>1, <2>2
<1>4. \A k \in Lives : LifeSane(life'[k]) BY <1>1 DEF FilesKept
<1>5. \A g \in Files : file'[g].form = "absent" => file'[g].edit = 0 /\ file'[g].way = "own"
  BY DEF FilesKept
<1> QED BY <1>2, <1>3, <1>4, <1>5 DEF FilesKept

\* Of a process that has the file in hand, alone as long as nothing happened to the file.
LEMMA HolderHas ==
  ASSUME WrapTypeOK, FilesKept, NEW l \in Lives, NEW f \in Files, HasInHand(life[l], f),
         trouble[f] = {}
  PROVE  /\ HeldWell(life[l], file[f], edits[f])
         /\ \A k \in Lives : k # l => ~HasInHand(life[k], f)
BY DEF FilesKept, FileKept

LEMMA PatchedIs ==
  ASSUME WrapTypeOK, NEW l \in Lives
  PROVE  /\ Patched(l) \in Contents
         /\ life[l].mode = "wrap" => /\ Patched(l).form = life[l].seen.form
                                     /\ Patched(l).port = life[l].port
                                     /\ life[l].seen.way = "own" => Patched(l).way = "guarded"
         /\ life[l].mode = "init" => Patched(l).form = "whole" /\ Patched(l).way = "guarded"
         /\ life[l].mode = "uninstall" => /\ Patched(l).form = life[l].seen.form
                                          /\ Patched(l).way = "own"
                                          /\ Patched(l).edit = life[l].seen.edit
<1>1. life[l].seen \in Contents /\ life[l].mode \in Modes /\ life[l].port \in Ports \cup {0}
  BY DEF WrapTypeOK
<1>2. CASE life[l].mode = "wrap"
  <2>1. Patched(l) = Routed(life[l].seen, life[l].port) BY <1>2 DEF Patched
  <2> QED BY <1>1, <1>2, <2>1 DEF Routed, Contents
<1>3. CASE life[l].mode = "init"
  <2>1. Patched(l) = Hooks(life[l].seen) BY <1>3 DEF Patched
  <2> QED BY <1>1, <1>3, <2>1 DEF Hooks, Contents
<1>4. CASE life[l].mode = "uninstall"
  <2>1. Patched(l) = Unhooked(life[l].seen) BY <1>4 DEF Patched
  <2> QED BY <1>1, <1>4, <2>1 DEF Unhooked, Contents
<1> QED BY <1>1, <1>2, <1>3, <1>4 DEF Modes

LEMMA WrapReads ==
  ASSUME WrapTypeOK, FilesKept, NEW l \in Lives, Scaffold(l) \/ Read(l) \/ ReadAgain(l)
  PROVE  WrapTypeOK' /\ FilesKept'
<1>a. /\ file \in [Files -> Contents] /\ life \in [Lives -> ALife]
      /\ trouble \in [Files -> SUBSET {"overlap", "killed", "was absent", "edited"}]
  BY DEF WrapTypeOK, ALife
<1>1. CASE Scaffold(l)
  <2> DEFINE f == "mcp.json"
             s == Moves(l, "dead")
             whole == [Absent EXCEPT !.form = "whole"]
  <2>1. /\ LifeStep(l, {"off"}, s) /\ Put(f, whole) /\ file[f].form = "absent"
        /\ UNCHANGED <<edits, trouble>>
    BY <1>1 DEF Scaffold, Moves
  <2>2. s \in ALife /\ s.at = "dead" /\ s.mode = life[l].mode BY MovesIs
  <2>3. life[l].at = "off" /\ life[l].mode = "wrap" /\ f \in Files /\ FileOf("wrap") = f
    BY <2>1, <2>2, LifeDoes DEF FilesKept, LifeSane, FileOf, Files
  <2>4. whole \in Contents /\ whole.form = "whole" /\ Intact(whole, 0) BY AbsentIs
  <2> HIDE DEF s, whole, f
  <2>5. ASSUME trouble[f] = {}, NEW k \in Lives, HasInHand(life[k], f) PROVE FALSE
    <3>1. HeldWell(life[k], file[f], edits[f]) BY <2>3, <2>5, HolderHas
    <3>2. life[k].mode = "wrap" /\ life[k].at \notin {"off", "dead"} /\ life[k] \in ALife
      BY <1>a, <2>3, <2>5 DEF HasInHand, FileOf, f
    <3> QED BY <2>1, <3>1, <3>2 DEF HeldWell, ALife
  <2>6. trouble[f] = {} => edits[f] = 0
    BY <2>1, <2>3, <2>5 DEF FilesKept, FileKept, Intact
  <2>7. file' \in [Files -> Contents] /\ file'[f] = whole
        /\ \A g \in Files : g # f => file'[g] = file[g]
    BY <2>1, <2>3, <2>4, PutDoes
  <2>8. life'[l] = s /\ \A k \in Lives : k # l => life'[k] = life[k]
    BY <2>1, <2>2, LifeDoes
  <2>9. ~HasInHand(s, f) /\ LifeSane(s) BY <2>2 DEF HasInHand, LifeSane
  <2>10. trouble[f] = {} => Intact(whole, edits[f]) BY <2>4, <2>6
  <2>11. FileKept(f, whole, edits[f], life', trouble[f])
    BY <2>5, <2>8, <2>9, <2>10, FileMoves
  <2> QED BY <1>a, <2>1, <2>2, <2>3, <2>4, <2>7, <2>9, <2>11, OneFileMoves
<1>2. CASE Read(l)
  <2>1. PICK mode \in Modes, port \in Ports :
          LET f == FileOf(mode)
              now == file[f]
              gone == now.form # "whole" /\ mode # "init"
              next == CASE gone /\ mode = "wrap" -> "dead"
                        [] gone /\ mode = "uninstall" -> "patched"
                        [] mode = "init" -> "reading"
                        [] OTHER -> "seen"
          IN /\ ~(mode = "wrap" /\ now.form = "absent")
             /\ LifeStep(l, {"off"}, [at |-> next, mode |-> mode, port |-> port, raw |-> now,
                                      seen |-> now])
             /\ IF Holders(f) # {} /\ ~gone THEN Blame(f, "overlap") ELSE UNCHANGED trouble
             /\ UNCHANGED <<file, edits>>
    BY <1>2 DEF Read
  <2> DEFINE f == FileOf(mode)
             now == file[f]
             gone == now.form # "whole" /\ mode # "init"
             next == CASE gone /\ mode = "wrap" -> "dead"
                       [] gone /\ mode = "uninstall" -> "patched"
                       [] mode = "init" -> "reading"
                       [] OTHER -> "seen"
             s == [at |-> next, mode |-> mode, port |-> port, raw |-> now, seen |-> now]
  <2>2. f \in Files /\ now \in Contents BY <1>a, ModeFile
  <2>3. /\ next \in {"dead", "patched", "reading", "seen"}
        /\ next = "reading" <=> mode = "init"
        /\ gone => (next = "dead" \/ (next = "patched" /\ mode = "uninstall"))
        /\ ~gone => next \in {"reading", "seen"}
    BY DEF Modes
  <2>4. /\ LifeStep(l, {"off"}, s) /\ UNCHANGED <<file, edits>>
        /\ IF Holders(f) # {} /\ ~gone THEN Blame(f, "overlap") ELSE UNCHANGED trouble
    BY <2>1
  <2>5. mode # "init" /\ ~gone => now.form = "whole" OBVIOUS
  <2> HIDE DEF f, now, gone, next
  <2>6. /\ s \in ALife /\ s.at = next /\ s.mode = mode /\ s.raw = now /\ s.seen = now
        /\ s.port = port
    BY <2>2, <2>3 DEF ALife
  <2> HIDE DEF s
  <2>7. FileOf(s.mode) = f BY <2>6 DEF f
  <2>8. /\ life[l].at = "off" /\ life'[l] = s /\ \A k \in Lives : k # l => life'[k] = life[k]
    BY <2>4, <2>6, LifeDoes
  <2>9. LifeSane(s) BY <2>3, <2>5, <2>6 DEF LifeSane
  <2>10. /\ trouble' \in [Files -> SUBSET {"overlap", "killed", "was absent", "edited"}]
         /\ \A g \in Files : g # f => trouble'[g] = trouble[g]
         /\ trouble'[f] = {} => trouble[f] = {} /\ (gone \/ Holders(f) = {})
         /\ gone => trouble' = trouble
    <3>1. CASE Holders(f) # {} /\ ~gone BY <2>2, <2>4, <3>1, BlameDoes
    <3>2. CASE ~(Holders(f) # {} /\ ~gone) BY <1>a, <2>4, <3>2
    <3> QED BY <3>1, <3>2
  <2>11. FileKept(f, now, edits[f], life, trouble[f]) BY <2>2 DEF FilesKept, now
  <2>12. FileKept(f, now, edits[f], life', trouble'[f])
    <3>1. CASE gone
      <4>1. ~HasInHand(life[l], f) /\ ~HasInHand(s, f)
        BY <2>3, <2>6, <2>8, <3>1 DEF HasInHand
      <4>2. FileKept(f, now, edits[f], life', trouble[f])
        BY <2>8, <2>11, <4>1, FileRests
      <4> QED BY <2>10, <3>1, <4>2
    <3>2. CASE ~gone
      <4>1. trouble'[f] = {} => \A k \in Lives : ~HasInHand(life[k], f)
        BY <2>10, <3>2, HoldersAre
      <4>2. trouble'[f] = {} => Intact(now, edits[f])
        BY <2>10, <2>11, <4>1 DEF FileKept
      <4>3. trouble'[f] = {} => HeldWell(s, now, edits[f])
        BY <2>3, <2>5, <2>6, <3>2, <4>2 DEF HeldWell
      <4> QED BY <2>8, <4>1, <4>2, <4>3, FileMoves
    <3> QED BY <3>1, <3>2
  <2>13. file'[f] = now /\ file' = file BY <2>4 DEF now
  <2>14. file'[f].form = "absent" => file'[f].edit = 0 /\ file'[f].way = "own"
    BY <2>2, <2>4 DEF FilesKept
  <2>15. FileKept(f, file'[f], edits[f], life', trouble'[f]) BY <2>12, <2>13
  <2>16. file' \in [Files -> Contents] /\ \A g \in Files : g # f => file'[g] = file[g]
    BY <1>a, <2>4
  <2> QED BY <2>2, <2>4, <2>6, <2>7, <2>8, <2>9, <2>10, <2>14, <2>15, <2>16, OneFileMoves
<1>3. CASE ReadAgain(l)
  <2> DEFINE f == "settings.json"
             now == file[f]
             to == IF now.form = "torn" THEN "patched" ELSE "seen"
             s == [life[l] EXCEPT !.at = to, !.seen = now]
  <2>1. LifeStep(l, {"reading"}, s) /\ UNCHANGED <<file, edits, trouble>>
    BY <1>3 DEF ReadAgain
  <2>2. f \in Files /\ now \in Contents /\ to \in {"patched", "seen"} BY <1>a DEF Files
  <2>2a. to = "seen" <=> now.form # "torn" OBVIOUS
  <2> HIDE DEF f, now, to
  <2>3. /\ s \in ALife /\ s.at = to /\ s.mode = life[l].mode /\ s.raw = life[l].raw
        /\ s.seen = now
    BY <1>a, <2>2 DEF ALife
  <2> HIDE DEF s
  <2>4. /\ life[l].at = "reading" /\ life'[l] = s
        /\ \A k \in Lives : k # l => life'[k] = life[k]
    BY <2>1, <2>3, LifeDoes
  <2>5. life[l].mode = "init" BY <2>4 DEF FilesKept, LifeSane
  <2>6. FileOf(s.mode) = f /\ HasInHand(life[l], f)
    BY <2>3, <2>4, <2>5 DEF FileOf, HasInHand, f
  <2>7. LifeSane(s) BY <2>2, <2>3, <2>5 DEF LifeSane
  <2>8. HasInHand(s, f) BY <2>2, <2>3, <2>5, <2>6 DEF HasInHand
  <2>9. trouble[f] = {} => /\ HeldWell(life[l], now, edits[f])
                           /\ \A k \in Lives : k # l => ~HasInHand(life[k], f)
    BY <2>2, <2>6, HolderHas DEF now
  <2>10. trouble[f] = {} => HeldWell(s, now, edits[f])
    BY <2>2, <2>2a, <2>3, <2>4, <2>5, <2>9 DEF HeldWell, Intact
  <2>11. FileKept(f, now, edits[f], life', trouble[f])
    BY <2>4, <2>8, <2>9, <2>10, FileMoves
  <2>12. file'[f].form = "absent" => file'[f].edit = 0 /\ file'[f].way = "own"
    BY <2>1, <2>2 DEF FilesKept
  <2> QED BY <1>a, <2>1, <2>2, <2>3, <2>4, <2>6, <2>7, <2>11, <2>12, OneFileMoves DEF now
<1> QED BY <1>1, <1>2, <1>3

\* A step of one that has the file in hand and keeps it, or lets go of it.
LEMMA HolderMoves ==
  ASSUME WrapTypeOK, FilesKept, NEW l \in Lives, NEW s \in ALife, NEW from, NEW f \in Files,
         LifeStep(l, from, s), FileOf(s.mode) = f, s.mode = life[l].mode,
         LifeSane(s), edits' = edits, HasInHand(life[l], f),
         file' \in [Files -> Contents], \A g \in Files : g # f => file'[g] = file[g],
         trouble' \in [Files -> SUBSET {"overlap", "killed", "was absent", "edited"}],
         \A g \in Files : g # f => trouble'[g] = trouble[g],
         trouble'[f] = {} => trouble[f] = {},
         trouble'[f] = {} /\ HeldWell(life[l], file[f], edits[f]) =>
           IF HasInHand(s, f) THEN HeldWell(s, file'[f], edits[f]) ELSE Intact(file'[f], edits[f]),
         file'[f].form = "absent" => file'[f].edit = 0 /\ file'[f].way = "own"
  PROVE  WrapTypeOK' /\ FilesKept'
<1>1. life'[l] = s /\ \A k \in Lives : k # l => life'[k] = life[k]
  BY ONLY WrapTypeOK, LifeStep(l, from, s), l \in Lives, s \in ALife, LifeDoes
<1>2. trouble[f] = {} => /\ HeldWell(life[l], file[f], edits[f])
                         /\ \A k \in Lives : k # l => ~HasInHand(life[k], f)
  BY ONLY WrapTypeOK, FilesKept, HasInHand(life[l], f), l \in Lives, f \in Files, HolderHas
<1>3. FileKept(f, file'[f], edits[f], life', trouble'[f])
  <2>1. trouble'[f] = {} => \A k \in Lives : k # l => ~HasInHand(life[k], f)
    BY <1>2
  <2>2. /\ trouble'[f] = {} /\ HasInHand(s, f) => HeldWell(s, file'[f], edits[f])
        /\ trouble'[f] = {} /\ ~HasInHand(s, f) => Intact(file'[f], edits[f])
    BY <1>2
  <2> QED BY ONLY <1>1, <2>1, <2>2, l \in Lives, FileMoves
<1> QED BY <1>3, OneFileMoves

\* A step of one that has no file in hand, before or after, and leaves them all alone.
LEMMA OtherMoves ==
  ASSUME WrapTypeOK, FilesKept, NEW l \in Lives, NEW s \in ALife, NEW from,
         LifeStep(l, from, s), s.mode = life[l].mode, LifeSane(s),
         ~HasInHand(life[l], FileOf(s.mode)), ~HasInHand(s, FileOf(s.mode)),
         UNCHANGED <<file, edits, trouble>>
  PROVE  WrapTypeOK' /\ FilesKept'
<1> DEFINE f == FileOf(s.mode)
<1>1. f \in Files BY ModeFile DEF ALife
<1> HIDE DEF f
<1>2. \A k \in Lives : k # l => life'[k] = life[k] BY LifeDoes
<1>3. ~HasInHand(life[l], f) /\ ~HasInHand(life'[l], f) BY LifeDoes DEF f
<1>4. FileKept(f, file[f], edits[f], life, trouble[f]) BY <1>1 DEF FilesKept
<1>5. FileKept(f, file[f], edits[f], life', trouble[f]) BY <1>2, <1>3, <1>4, FileRests
<1>6. /\ file \in [Files -> Contents]
      /\ trouble \in [Files -> SUBSET {"overlap", "killed", "was absent", "edited"}]
  BY DEF WrapTypeOK
<1>7. file[f].form = "absent" => file[f].edit = 0 /\ file[f].way = "own"
  BY <1>1 DEF FilesKept
<1> QED BY <1>1, <1>5, <1>6, <1>7, OneFileMoves DEF f

LEMMA WrapWrites ==
  ASSUME WrapTypeOK, FilesKept, NEW l \in Lives,
         Truncate(l) \/ WritePatched(l) \/ CatchSignals(l) \/ Listen(l)
  PROVE  WrapTypeOK' /\ FilesKept'
<1> DEFINE f == FileOf(life[l].mode)
<1>a. /\ file \in [Files -> Contents] /\ life[l] \in ALife
      /\ trouble \in [Files -> SUBSET {"overlap", "killed", "was absent", "edited"}]
      /\ f \in Files /\ life[l].mode \in Modes
  BY ModeFile DEF WrapTypeOK, ALife
<1>b. LifeSane(life[l]) BY DEF FilesKept
<1>c. file[f].form = "absent" => file[f].edit = 0 /\ file[f].way = "own"
  BY <1>a DEF FilesKept
<1>1. CASE Truncate(l)
  <2>1. /\ LifeStep(l, {"seen"}, Moves(l, "writing")) /\ Put(f, Torn) /\ edits' = edits
        /\ trouble' = trouble
    BY <1>1 DEF Truncate
  <2> HIDE DEF f
  <2> DEFINE s == Moves(l, "writing")
  <2>2. /\ s \in ALife /\ s.at = "writing" /\ s.mode = life[l].mode /\ s.raw = life[l].raw
        /\ s.seen = life[l].seen
    BY MovesIs
  <2> HIDE DEF s
  <2>3. life[l].at = "seen" BY <2>1, <2>2, LifeDoes DEF s
  <2>4. FileOf(s.mode) = f BY <2>2 DEF f
  <2>5. HasInHand(life[l], f) /\ HasInHand(s, f)
    BY <2>2, <2>3, <2>4 DEF HasInHand
  <2>6. LifeSane(s) BY <1>b, <2>2, <2>3 DEF LifeSane
  <2>7. /\ file' \in [Files -> Contents] /\ file'[f].form = "torn"
        /\ \A g \in Files : g # f => file'[g] = file[g]
    BY <1>a, <2>1, PutDoes, AbsentIs
  <2>8. HeldWell(life[l], file[f], edits[f]) => HeldWell(s, file'[f], edits[f])
    BY <2>2, <2>3, <2>7 DEF HeldWell
  <2> QED BY <1>a, <2>1, <2>2, <2>4, <2>5, <2>6, <2>7, <2>8, HolderMoves DEF s
<1>2. CASE WritePatched(l)
  <2>1. /\ LifeStep(l, {"writing"}, Moves(l, "patched")) /\ Put(f, Patched(l)) /\ edits' = edits
        /\ trouble' = trouble
    BY <1>2 DEF WritePatched
  <2> HIDE DEF f
  <2> DEFINE s == Moves(l, "patched")
  <2>2. /\ s \in ALife /\ s.at = "patched" /\ s.mode = life[l].mode /\ s.raw = life[l].raw
        /\ s.seen = life[l].seen /\ s.port = life[l].port
    BY MovesIs
  <2> HIDE DEF s
  <2>3. life[l].at = "writing" BY <2>1, <2>2, LifeDoes DEF s
  <2>4. FileOf(s.mode) = f BY <2>2 DEF f
  <2>5. HasInHand(life[l], f) /\ (HasInHand(s, f) <=> s.mode # "uninstall")
    BY <2>2, <2>3, <2>4 DEF HasInHand
  <2>6. LifeSane(s) BY <2>2 DEF LifeSane
  <2>7. /\ file' \in [Files -> Contents] /\ file'[f] = Patched(l)
        /\ \A g \in Files : g # f => file'[g] = file[g]
    BY <1>a, <2>1, PutDoes, PatchedIs
  <2>8. life[l].mode # "init" => life[l].seen.form = "whole"
    BY <1>b, <2>3 DEF LifeSane
  <2>9. Patched(l).form = "whole" BY <1>a, <2>8, PatchedIs DEF Modes
  <2>10. HeldWell(life[l], file[f], edits[f]) =>
           IF HasInHand(s, f) THEN HeldWell(s, Patched(l), edits[f])
           ELSE Intact(Patched(l), edits[f])
    <3> SUFFICES ASSUME HeldWell(life[l], file[f], edits[f])
                 PROVE  IF HasInHand(s, f) THEN HeldWell(s, Patched(l), edits[f])
                        ELSE Intact(Patched(l), edits[f])
      OBVIOUS
    <3>1. life[l].seen = life[l].raw /\ Intact(life[l].seen, edits[f])
      BY <2>3 DEF HeldWell
    <3>2. CASE life[l].mode = "uninstall"
      BY <2>2, <2>5, <2>9, <3>1, <3>2, PatchedIs DEF Intact
    <3>3. CASE life[l].mode # "uninstall"
      <4>1. /\ Patched(l).way = "guarded"
            /\ life[l].mode = "wrap" => Patched(l).port = life[l].port
        BY <1>a, <3>1, <3>3, PatchedIs DEF Intact, Modes
      <4>2. HeldWell(s, Patched(l), edits[f]) BY <2>2, <2>9, <4>1 DEF HeldWell
      <4> QED BY <2>2, <2>5, <3>3, <4>2
    <3> QED BY <3>2, <3>3
  <2> QED BY <1>a, <2>1, <2>2, <2>4, <2>5, <2>6, <2>7, <2>9, <2>10, HolderMoves DEF s
<1>3. CASE CatchSignals(l) \/ Listen(l)
  <2>1. PICK to \in {"armed", "serving"} :
          /\ LifeStep(l, {"patched", "armed"}, Moves(l, to))
          /\ UNCHANGED <<file, edits, trouble>>
    BY <1>3 DEF CatchSignals, Listen, LifeStep
  <2> HIDE DEF f
  <2> DEFINE s == Moves(l, to)
  <2>2. /\ s \in ALife /\ s.at = to /\ s.mode = life[l].mode /\ s.raw = life[l].raw
        /\ s.port = life[l].port
    BY <2>1, MovesIs
  <2> HIDE DEF s
  <2>3. life[l].at \in {"patched", "armed"} BY <2>1, <2>2, LifeDoes DEF s
  <2>4. FileOf(s.mode) = f BY <2>2 DEF f
  <2>5. LifeSane(s) BY <2>1, <2>2 DEF LifeSane
  <2>6. CASE life[l].mode = "uninstall"
    <3>1. ~HasInHand(life[l], f) /\ ~HasInHand(s, f) BY <2>1, <2>2, <2>3, <2>6 DEF HasInHand
    <3> QED BY <2>1, <2>2, <2>4, <2>5, <3>1, OtherMoves DEF s
  <2>7. CASE life[l].mode # "uninstall"
    <3>1. HasInHand(life[l], f) /\ HasInHand(s, f)
      BY <2>1, <2>2, <2>3, <2>4, <2>7 DEF HasInHand
    <3>2. HeldWell(life[l], file[f], edits[f]) => HeldWell(s, file'[f], edits[f])
      BY <2>1, <2>2, <2>3 DEF HeldWell
    <3> QED BY <1>a, <1>c, <2>1, <2>2, <2>4, <2>5, <3>1, <3>2, HolderMoves DEF s
  <2> QED BY <2>6, <2>7
<1> QED BY <1>1, <1>2, <1>3

LEMMA WrapEnds ==
  ASSUME WrapTypeOK, FilesKept, NEW l \in Lives, Fatal(l) \/ Interrupt(l) \/ Restore(l)
  PROVE  WrapTypeOK' /\ FilesKept'
<1> DEFINE f == FileOf(life[l].mode)
<1>a. /\ file \in [Files -> Contents] /\ life[l] \in ALife
      /\ trouble \in [Files -> SUBSET {"overlap", "killed", "was absent", "edited"}]
      /\ f \in Files /\ life[l].mode \in Modes /\ life[l].raw \in Contents
  BY ModeFile DEF WrapTypeOK, ALife
<1>b. LifeSane(life[l]) BY DEF FilesKept
<1>c. file[f].form = "absent" => file[f].edit = 0 /\ file[f].way = "own"
  BY <1>a DEF FilesKept
<1>d. /\ Moves(l, "dead") \in ALife /\ Moves(l, "dead").at = "dead"
      /\ Moves(l, "dead").mode = life[l].mode
  BY MovesIs
<1> DEFINE s == Moves(l, "dead")
<1>e. FileOf(s.mode) = f BY <1>d
<1> HIDE DEF f, s
<1>f. ~HasInHand(s, f) /\ LifeSane(s) BY <1>d DEF HasInHand, LifeSane, s
<1>1. CASE Fatal(l)
  <2>1. /\ LifeStep(l, {"reading", "seen", "writing", "patched", "armed", "serving", "restoring"}, s)
        /\ IF InHand(l) /\ life[l].at \notin {"reading", "seen"} THEN Blame(f, "killed")
           ELSE UNCHANGED trouble
        /\ UNCHANGED <<file, edits>>
    BY <1>1 DEF Fatal, s, f
  <2>2. InHand(l) <=> HasInHand(life[l], f) BY DEF InHand, HasInHand, f
  <2>3. CASE ~HasInHand(life[l], f)
    BY <1>d, <1>e, <1>f, <2>1, <2>2, <2>3, OtherMoves DEF s
  <2>4. CASE HasInHand(life[l], f)
    <3>1. CASE life[l].at \in {"reading", "seen"}
      <4>1. HeldWell(life[l], file[f], edits[f]) => Intact(file[f], edits[f])
        BY <3>1 DEF HeldWell
      <4>2. UNCHANGED <<file, edits, trouble>> BY <2>1, <3>1
      <4> QED BY <1>a, <1>c, <1>d, <1>e, <1>f, <2>1, <2>4, <4>1, <4>2, HolderMoves DEF s
    <3>2. CASE life[l].at \notin {"reading", "seen"}
      <4>1. Blame(f, "killed") BY <2>1, <2>2, <2>4, <3>2
      <4>2. /\ trouble' \in [Files -> SUBSET {"overlap", "killed", "was absent", "edited"}]
            /\ trouble'[f] # {} /\ \A g \in Files : g # f => trouble'[g] = trouble[g]
        BY <1>a, <4>1, BlameDoes
      <4> QED BY <1>a, <1>c, <1>d, <1>e, <1>f, <2>1, <2>4, <4>2, HolderMoves DEF s
    <3> QED BY <3>1, <3>2
  <2> QED BY <2>3, <2>4
<1>2. CASE Interrupt(l)
  <2>0. /\ life[l].at \in {"armed", "serving"} /\ edits' = edits
    BY <1>2 DEF Interrupt
  <2>1. CASE life[l].mode # "uninstall" /\ life[l].raw.form # "absent"
    <3> DEFINE t == Moves(l, "restoring")
    <3>1. LifeStep(l, {"armed", "serving"}, t) /\ Put(f, Torn) /\ UNCHANGED trouble
      BY <1>2, <2>1 DEF Interrupt, f
    <3>2. t \in ALife /\ t.at = "restoring" /\ t.mode = life[l].mode /\ t.raw = life[l].raw
      BY MovesIs
    <3> HIDE DEF t
    <3>3. /\ file' \in [Files -> Contents] /\ file'[f].form = "torn"
          /\ \A g \in Files : g # f => file'[g] = file[g]
      BY <1>a, <3>1, PutDoes, AbsentIs
    <3>4. FileOf(t.mode) = f /\ HasInHand(life[l], f) /\ HasInHand(t, f)
      BY <2>0, <2>1, <3>2 DEF HasInHand, f
    <3>5. LifeSane(t) BY <2>1, <3>2 DEF LifeSane
    <3>6. HeldWell(life[l], file[f], edits[f]) => HeldWell(t, file'[f], edits[f])
      BY <3>2, <3>3 DEF HeldWell
    <3> QED BY <1>a, <2>0, <3>1, <3>2, <3>3, <3>4, <3>5, <3>6, HolderMoves
  <2>2. CASE ~(life[l].mode # "uninstall" /\ life[l].raw.form # "absent")
    <3>1. /\ LifeStep(l, {"armed", "serving"}, s) /\ UNCHANGED file
          /\ IF life[l].mode = "init" THEN Blame(f, "was absent") ELSE UNCHANGED trouble
      BY <1>2, <2>2 DEF Interrupt, f, s
    <3>2. CASE life[l].mode = "uninstall"
      <4>1. ~HasInHand(life[l], f) BY <2>0, <3>2 DEF HasInHand
      <4>2. UNCHANGED trouble BY <3>1, <3>2
      <4> QED BY <1>d, <1>e, <1>f, <2>0, <3>1, <4>1, <4>2, OtherMoves DEF s
    <3>3. CASE life[l].mode # "uninstall"
      <4>1. HasInHand(life[l], f) BY <2>0, <3>3 DEF HasInHand, f
      <4>2. /\ trouble' \in [Files -> SUBSET {"overlap", "killed", "was absent", "edited"}]
            /\ \A g \in Files : g # f => trouble'[g] = trouble[g]
            /\ trouble'[f] = {} => trouble[f] = {} /\ life[l].mode = "wrap"
        <5>1. CASE life[l].mode = "init" BY <1>a, <3>1, <5>1, BlameDoes
        <5>2. CASE life[l].mode = "wrap" BY <1>a, <3>1, <5>2
        <5> QED BY <1>a, <3>3, <5>1, <5>2 DEF Modes
      <4>3. life[l].mode = "wrap" => ~HeldWell(life[l], file[f], edits[f])
        BY <2>2 DEF HeldWell
      <4> QED BY <1>a, <1>c, <1>d, <1>e, <1>f, <2>0, <3>1, <4>1, <4>2, <4>3, HolderMoves DEF s
    <3> QED BY <3>2, <3>3
  <2> QED BY <2>1, <2>2
<1>3. CASE Restore(l)
  <2>1. /\ LifeStep(l, {"restoring"}, s) /\ Put(f, life[l].raw) /\ UNCHANGED <<edits, trouble>>
    BY <1>3 DEF Restore, s, f
  <2>2. /\ file' \in [Files -> Contents] /\ file'[f] = life[l].raw
        /\ \A g \in Files : g # f => file'[g] = file[g]
    BY <1>a, <2>1, PutDoes
  <2>3. life[l].at = "restoring" BY <1>d, <2>1, LifeDoes DEF s
  <2>4. life[l].mode # "uninstall" /\ life[l].raw.form # "absent" BY <1>b, <2>3 DEF LifeSane
  <2>5. HasInHand(life[l], f) BY <2>3, <2>4 DEF HasInHand, f
  <2>6. HeldWell(life[l], file[f], edits[f]) => Intact(file'[f], edits[f])
    BY <2>2 DEF HeldWell
  <2> QED BY <1>a, <1>d, <1>e, <1>f, <2>1, <2>2, <2>4, <2>5, <2>6, HolderMoves DEF s
<1> QED BY <1>1, <1>2, <1>3

LEMMA WrapEdit ==
  ASSUME WrapTypeOK, FilesKept, NEW f \in Files, Edit(f)
  PROVE  WrapTypeOK' /\ FilesKept'
<1> DEFINE content == [file[f] EXCEPT !.edit = edits[f] + 1]
<1>1. /\ file[f].form = "whole" /\ edits[f] < MaxEdits /\ life' = life
      /\ edits' = [edits EXCEPT ![f] = @ + 1] /\ Put(f, content)
      /\ IF Holders(f) # {} THEN Blame(f, "edited") ELSE UNCHANGED trouble
  BY DEF Edit
<1>2. file[f] \in Contents /\ edits[f] \in 0 .. MaxEdits BY DEF WrapTypeOK
<1>3. edits[f] + 1 \in 0 .. MaxEdits BY <1>1, <1>2, WrapBounds
<1>4. /\ content \in Contents /\ content.form = "whole" /\ content.edit = edits[f] + 1
      /\ content.way = file[f].way
  BY <1>1, <1>2, <1>3 DEF Contents
<1> HIDE DEF content
<1>5. /\ file' \in [Files -> Contents] /\ file'[f] = content
      /\ \A g \in Files : g # f => file'[g] = file[g]
  BY <1>1, <1>4, PutDoes
<1>6. /\ edits' \in [Files -> 0 .. MaxEdits] /\ edits'[f] = edits[f] + 1
      /\ \A g \in Files : g # f => edits'[g] = edits[g]
  BY <1>1, <1>3 DEF WrapTypeOK
<1>7. /\ trouble' \in [Files -> SUBSET {"overlap", "killed", "was absent", "edited"}]
      /\ trouble'[f] = {} => trouble[f] = {} /\ Holders(f) = {}
      /\ \A g \in Files : g # f => trouble'[g] = trouble[g]
  <2>1. CASE Holders(f) # {} BY <1>1, <2>1, BlameDoes
  <2>2. CASE Holders(f) = {} BY <1>1, <2>2 DEF WrapTypeOK
  <2> QED BY <2>1, <2>2
<1>8. FileKept(f, content, edits[f] + 1, life, trouble'[f])
  <2> SUFFICES ASSUME trouble'[f] = {}
               PROVE  /\ Intact(content, edits[f] + 1)
                      /\ \A k \in Lives : ~HasInHand(life[k], f)
    BY DEF FileKept
  <2>1. \A k \in Lives : ~HasInHand(life[k], f) BY <1>7, HoldersAre
  <2>2. Intact(file[f], edits[f]) BY <1>7, <2>1 DEF FilesKept, FileKept
  <2>3. Intact(content, edits[f] + 1) BY <1>4, <2>2 DEF Intact
  <2> QED BY <2>1, <2>3
<1>9. ASSUME NEW g \in Files PROVE FileKept(g, file'[g], edits'[g], life', trouble'[g])
  <2>1. CASE g = f BY <1>1, <1>5, <1>6, <1>8, <2>1
  <2>2. CASE g # f
    <3>1. FileKept(g, file[g], edits[g], life, trouble[g]) BY DEF FilesKept
    <3>2. /\ file'[g] = file[g] /\ edits'[g] = edits[g] /\ trouble'[g] = trouble[g]
          /\ life' = life
      BY <1>1, <1>5, <1>6, <1>7, <2>2
    <3> QED BY <3>1, <3>2
  <2> QED BY <2>1, <2>2
<1>10. \A g \in Files : file'[g].form = "absent" => file'[g].edit = 0 /\ file'[g].way = "own"
  BY <1>4, <1>5 DEF FilesKept
<1>11. \A l \in Lives : LifeSane(life'[l]) BY <1>1 DEF FilesKept
<1>12. WrapTypeOK' BY <1>1, <1>5, <1>6, <1>7 DEF WrapTypeOK
<1> QED BY <1>9, <1>10, <1>11, <1>12 DEF FilesKept

\* Guards come and go on both files, crash, are interrupted and edited under: a file that
\* nothing befell which nobody provides for is the user's again, his last edit in it, and
\* leads through the guard while one serves.
THEOREM PartsFilesAreGivenBack == Spec => [](WrapTypeOK /\ FilesAreGivenBack)
<1>1. WrapInit => WrapTypeOK /\ FilesKept
  <2> SUFFICES ASSUME WrapInit PROVE WrapTypeOK /\ FilesKept
    OBVIOUS
  <2>1. /\ file \in [Files -> {Absent, [Absent EXCEPT !.form = "whole"]}]
        /\ life = [l \in Lives |-> [at |-> "off", mode |-> "wrap", port |-> 0, raw |-> Absent,
                                    seen |-> Absent]]
        /\ edits = [f \in Files |-> 0] /\ trouble = [f \in Files |-> {}]
    BY DEF WrapInit, WrapIdle
  <2>2. /\ Absent \in Contents /\ [Absent EXCEPT !.form = "whole"] \in Contents
        /\ Intact(Absent, 0) /\ Intact([Absent EXCEPT !.form = "whole"], 0)
        /\ Absent.edit = 0 /\ Absent.way = "own"
        /\ [Absent EXCEPT !.form = "whole"].form = "whole"
    BY AbsentIs DEF Intact
  <2>3. /\ file \in [Files -> Contents]
        /\ \A f \in Files : Intact(file[f], 0)
        /\ \A f \in Files : file[f].form = "absent" => file[f].edit = 0 /\ file[f].way = "own"
    BY <2>1, <2>2
  <2>4. 0 \in 0 .. MaxEdits BY WrapBounds
  <2>5. WrapTypeOK
    <3>1. life \in [Lives -> ALife] BY <2>1, <2>2 DEF ALife, Modes
    <3> QED BY <2>1, <2>3, <2>4, <3>1 DEF WrapTypeOK, ALife
  <2>6. \A f \in Files, l \in Lives : ~HasInHand(life[l], f) BY <2>1 DEF HasInHand
  <2>7. \A l \in Lives : LifeSane(life[l]) BY <2>1 DEF LifeSane
  <2>8. \A f \in Files : FileKept(f, file[f], edits[f], life, trouble[f])
    BY <2>1, <2>3, <2>6 DEF FileKept
  <2> QED BY <2>3, <2>5, <2>7, <2>8 DEF FilesKept
<1>2. WrapTypeOK /\ FilesKept /\ [WrapNext]_wrapVars => WrapTypeOK' /\ FilesKept'
  <2> SUFFICES ASSUME WrapTypeOK, FilesKept, [WrapNext]_wrapVars
               PROVE  WrapTypeOK' /\ FilesKept'
    OBVIOUS
  <2>1. CASE UNCHANGED wrapVars BY <2>1 DEF WrapTypeOK, FilesKept, wrapVars
  <2>2. CASE WrapNext BY <2>2, WrapReads, WrapWrites, WrapEnds, WrapEdit DEF WrapNext
  <2> QED BY <2>1, <2>2
<1>3. WrapTypeOK /\ FilesKept => FilesAreGivenBack
  <2> SUFFICES ASSUME WrapTypeOK, FilesKept, NEW f \in Files, trouble[f] = {}
               PROVE  /\ Holders(f) = {} =>
                           /\ file[f].form # "torn" /\ file[f].way = "own"
                           /\ file[f].edit = edits[f]
                      /\ \A l \in Holders(f) : life[l].at \in {"armed", "serving"} =>
                           /\ file[f].way = "guarded"
                           /\ life[l].mode = "wrap" => file[f].port = life[l].port
    BY DEF FilesAreGivenBack
  <2>1. /\ (\A l \in Lives : ~HasInHand(life[l], f)) => Intact(file[f], edits[f])
        /\ \A l \in Lives : HasInHand(life[l], f) => HeldWell(life[l], file[f], edits[f])
    BY DEF FilesKept, FileKept
  <2>2. Holders(f) \subseteq Lives BY DEF Holders
  <2> QED BY <2>1, <2>2, HoldersAre DEF Intact, HeldWell
<1>4. WrapInit /\ [][WrapNext]_wrapVars => [](WrapTypeOK /\ FilesKept) BY <1>1, <1>2, PTL
<1> QED BY <1>3, <1>4, PartsRunWrap, PTL

-----------------------------------------------------------------------------
(* Agents *)

ANode == [at : {"waiting", "ask", "intercept", "run", "validate", "result",
                "leave", "abort", "done", "failed"},
          turn : 0 .. MaxTurns, block : 0 .. MaxBlocks, asked : 0 .. MaxBlocks,
          judged : 0 .. MaxBlocks, reported : 0 .. MaxBlocks,
          verdict : {"none", "ALLOW", "MUTATE", "DENY", "HUMAN_REVIEW"},
          ran : {"no", "asked", "mutated"},
          output : {"none", "raw", "sanitized", "blocked"}]

\* A tool ran as its call was judged to.
RanAsJudged(s) ==
  s.verdict \notin {"none", "DENY"} /\ s.ran # "no" /\ (s.ran = "mutated" <=> s.verdict = "MUTATE")

\* Where a node is tells which of its turn's calls were judged, that the turn's tokens were
\* reported with the first of them, and what became of the last.
NodeSane(s) ==
  /\ s.at \in {"waiting", "ask", "leave", "done", "failed"} =>
       s.block = 0 /\ s.judged = 0 /\ s.reported = 0 /\ s.verdict = "none" /\ s.ran = "no"
  /\ s.at = "intercept" =>
       s.block \in 1 .. s.asked /\ s.judged = s.block - 1 /\ s.verdict = "none" /\ s.ran = "no"
  /\ s.at \in {"run", "validate", "result"} => s.block \in 1 .. s.asked /\ s.judged = s.block
  /\ s.at = "run" => s.verdict \notin {"none", "DENY"} /\ s.ran = "no"
  /\ s.at = "validate" => RanAsJudged(s)
  /\ s.at = "result" => RanAsJudged(s) \/ (s.verdict = "DENY" /\ s.ran = "no")
  /\ s.at = "abort" => s.ran = "no" \/ (RanAsJudged(s) /\ s.judged >= s.block)
  /\ s.reported = (IF s.judged > 0 THEN 1 ELSE 0)

\* What a node's session may be: before it is registered there is none; only a node that
\* failed, or has nobody below it, had its own evicted; one left alive is handed on or stuck.
Sits(n, s, its, isStuck) ==
  /\ s.at = "waiting" => its = "none"
  /\ its = "evicted" => s.at = "failed" \/ (s.at = "done" /\ n \notin HandsOn)
  /\ s.at \in {"done", "failed"} /\ its = "live" =>
       isStuck \/ (n \in HandsOn /\ s.at = "done")

TreeKept ==
  /\ \A n \in Nodes : Sits(n, node[n], session[n], n \in stuck)
  /\ graph.parent # Nobody => node[graph.parent].at = "done"
  /\ \A n \in Nodes : below[n] # Nobody => node[below[n]].at = "done"

AgentsKept == (\A n \in Nodes : NodeSane(node[n])) /\ TreeKept

AgentTypes ==
  /\ graph \in [step : DOMAIN Graph, parent : HandsOn \cup {Nobody}, key : BOOLEAN]
  /\ node \in [Nodes -> ANode]
  /\ session \in [Nodes -> {"none", "live", "evicted", "ended"}]
  /\ below \in [Nodes -> HandsOn \cup {Nobody}]
  /\ stuck \subseteq Nodes

LEMMA GraphIs ==
  /\ DOMAIN Graph = 1 .. 4 /\ Len(Graph) = 4
  /\ \A i \in DOMAIN Graph : Graph[i] \subseteq Nodes
  /\ HandsOn \subseteq Nodes /\ Nobody \notin HandsOn
<1>1. DOMAIN Graph = 1 .. 4 /\ Len(Graph) = 4 BY DEF Graph
<1>2. \A i \in DOMAIN Graph : Graph[i] \subseteq Nodes BY DEF Nodes
<1>3. "intake" \in Graph[1] /\ "approver" \in Graph[3] BY DEF Graph
<1>4. HandsOn \subseteq Nodes BY <1>1, <1>2, <1>3 DEF HandsOn
<1> QED BY <1>1, <1>2, <1>4 DEF HandsOn, Nobody

LEMMA NodeStepDoes ==
  ASSUME AgentTypes, NEW n \in Nodes, NEW from, NEW t \in ANode, NodeStep(n, from, t)
  PROVE  /\ node[n].at = from /\ node' \in [Nodes -> ANode] /\ node'[n] = t
         /\ \A m \in Nodes : m # n => node'[m] = node[m]
BY DEF NodeStep, AgentTypes

LEMMA GoIs ==
  ASSUME AgentTypes, NEW n \in Nodes,
         NEW to \in {"ask", "abort", "failed", "result"}
  PROVE  /\ Go(n, to) \in ANode /\ Go(n, to).at = to /\ Go(n, to).turn = node[n].turn
         /\ Go(n, to).block = node[n].block /\ Go(n, to).asked = node[n].asked
         /\ Go(n, to).judged = node[n].judged /\ Go(n, to).reported = node[n].reported
         /\ Go(n, to).verdict = node[n].verdict /\ Go(n, to).ran = node[n].ran
         /\ Go(n, to).output = node[n].output
BY DEF Go, AgentTypes, ANode

LEMMA FreshIs ==
  /\ Fresh \in ANode /\ Fresh.at = "waiting"
  /\ Fresh.turn = 0 /\ Fresh.block = 0 /\ Fresh.asked = 0 /\ Fresh.judged = 0
  /\ Fresh.reported = 0 /\ Fresh.verdict = "none" /\ Fresh.ran = "no"
  /\ \A to \in {"leave", "done", "failed"} :
       /\ [Fresh EXCEPT !.at = to] \in ANode /\ [Fresh EXCEPT !.at = to].at = to
       /\ NodeSane([Fresh EXCEPT !.at = to])
  /\ NodeSane(Fresh)
BY AgentBounds DEF Fresh, ANode, NodeSane

\* A node in its loop moves on in it.
LEMMA LoopMoves ==
  ASSUME AgentTypes, AgentsKept, NEW n \in Nodes, NEW t \in ANode, NEW from,
         LoopStep(n, from, t), NodeSane(t),
         from \notin {"waiting", "done", "failed"}, t.at \notin {"waiting", "done", "failed"}
  PROVE  AgentTypes' /\ AgentsKept'
<1>1. /\ node[n].at = from /\ node' \in [Nodes -> ANode] /\ node'[n] = t
      /\ \A m \in Nodes : m # n => node'[m] = node[m]
  BY NodeStepDoes DEF LoopStep
<1>2. UNCHANGED <<graph, session, below, stuck>> BY DEF LoopStep
<1>3. AgentTypes' BY <1>1, <1>2 DEF AgentTypes
<1>4. ASSUME NEW m \in Nodes
      PROVE  NodeSane(node'[m]) /\ Sits(m, node'[m], session'[m], m \in stuck')
  <2>1. NodeSane(node[m]) /\ Sits(m, node[m], session[m], m \in stuck)
    BY DEF AgentsKept, TreeKept
  <2>2. CASE m = n BY <1>1, <1>2, <2>1, <2>2 DEF Sits
  <2>3. CASE m # n
    <3>1. node'[m] = node[m] BY <1>1, <2>3
    <3> QED BY <1>2, <2>1, <3>1 DEF Sits
  <2> QED BY <2>2, <2>3
<1>5. \A m \in Nodes : node[m].at = "done" => node'[m].at = "done" BY <1>1
<1>6. /\ graph'.parent # Nobody => node'[graph'.parent].at = "done"
      /\ \A m \in Nodes : below'[m] # Nobody => node'[below'[m]].at = "done"
  BY <1>2, <1>5, GraphIs DEF AgentsKept, TreeKept, AgentTypes
<1> QED BY <1>3, <1>4, <1>6 DEF AgentsKept, TreeKept

LEMMA AskMoves ==
  ASSUME AgentTypes, AgentsKept, NEW n \in Nodes, AskModel(n)
  PROVE  AgentTypes' /\ AgentsKept'
<1> DEFINE s == node[n]
<1>a. s \in ANode /\ NodeSane(s) BY DEF AgentTypes, AgentsKept
<1>1. CASE LoopStep(n, "ask", [Fresh EXCEPT !.at = "leave"])
  <2> DEFINE t == [Fresh EXCEPT !.at = "leave"]
  <2>1. LoopStep(n, "ask", t) BY <1>1
  <2>2. t \in ANode /\ t.at = "leave" /\ NodeSane(t) BY FreshIs
  <2> HIDE DEF t
  <2> QED BY <2>1, <2>2, LoopMoves
<1>2. CASE LoopStep(n, "ask", Go(n, "abort"))
  <2>1. s.at = "ask" BY <1>2 DEF LoopStep, NodeStep
  <2>2. Go(n, "abort") \in ANode /\ NodeSane(Go(n, "abort")) /\ Go(n, "abort").at = "abort"
    BY <1>a, <2>1, GoIs DEF NodeSane
  <2> QED BY <1>2, <2>2, LoopMoves
<1>3. CASE s.turn < MaxTurns
           /\ \E k \in 1 .. MaxBlocks :
                LoopStep(n, "ask", [Fresh EXCEPT !.at = "intercept", !.turn = s.turn + 1,
                                                 !.asked = k, !.block = 1])
  <2>1. PICK k \in 1 .. MaxBlocks :
          LoopStep(n, "ask", [Fresh EXCEPT !.at = "intercept", !.turn = s.turn + 1,
                                           !.asked = k, !.block = 1])
    BY <1>3
  <2> DEFINE turn == s.turn + 1
             t == [Fresh EXCEPT !.at = "intercept", !.turn = turn, !.asked = k, !.block = 1]
  <2>2. /\ turn \in 0 .. MaxTurns /\ k \in 0 .. MaxBlocks /\ 1 \in 0 .. MaxBlocks
        /\ 0 \in 0 .. MaxBlocks
    BY <1>a, <1>3, AgentBounds DEF ANode
  <2>4. LoopStep(n, "ask", t) BY <2>1
  <2> HIDE DEF turn
  <2>5. /\ t \in ANode /\ t.at = "intercept" /\ t.block = 1 /\ t.asked = k /\ t.judged = 0
        /\ t.reported = 0 /\ t.verdict = "none" /\ t.ran = "no"
    BY <2>2, FreshIs DEF ANode
  <2> HIDE DEF t
  <2>6. NodeSane(t) BY <2>5 DEF NodeSane
  <2> QED BY <2>4, <2>5, <2>6, LoopMoves
<1> QED BY <1>1, <1>2, <1>3 DEF AskModel

\* A node whose call was judged, where it goes on.
AfterJudging(s, v, at, output) == [Judged(s, v, Usage(s)) EXCEPT !.at = at, !.output = output]

LEMMA JudgedIs ==
  ASSUME NEW s \in ANode, NEW v \in {"ALLOW", "MUTATE", "DENY", "HUMAN_REVIEW"},
         NEW at \in {"result", "run", "abort"}, NEW output \in {"blocked", "none"},
         s.at = "intercept", NodeSane(s)
  PROVE  /\ AfterJudging(s, v, at, output) \in ANode
         /\ AfterJudging(s, v, at, output).at = at
         /\ (at = "result" => v = "DENY") /\ (at = "run" => v # "DENY") =>
              NodeSane(AfterJudging(s, v, at, output))
<1> DEFINE t == AfterJudging(s, v, at, output)
<1> DEFINE judged == s.judged + 1
           reported == s.reported + Usage(s)
<1>1. /\ s.block \in 1 .. s.asked /\ s.judged = s.block - 1
      /\ s.block \in Nat /\ s.asked \in 0 .. MaxBlocks
      /\ s.reported = (IF s.judged > 0 THEN 1 ELSE 0)
  BY DEF NodeSane, ANode
<1>2. judged = s.block /\ judged \in 0 .. MaxBlocks BY <1>1, AgentBounds
<1>3. reported = 1 /\ reported \in 0 .. MaxBlocks BY <1>1, AgentBounds DEF Usage
<1> DEFINE base == [s EXCEPT !.judged = judged, !.reported = reported, !.verdict = v,
                             !.ran = "no", !.output = "none"]
<1>4. t = [base EXCEPT !.at = at, !.output = output] BY DEF Judged, AfterJudging
<1> HIDE DEF judged, reported, t
<1>5. /\ base \in ANode /\ base.block = s.block /\ base.asked = s.asked
      /\ base.judged = judged /\ base.reported = reported /\ base.verdict = v
      /\ base.ran = "no"
  BY <1>2, <1>3 DEF ANode
<1> HIDE DEF base
<1>6. /\ t \in ANode /\ t.at = at /\ t.block = s.block /\ t.asked = s.asked
      /\ t.judged = judged /\ t.reported = reported /\ t.verdict = v /\ t.ran = "no"
  BY <1>4, <1>5 DEF ANode
<1>7. (at = "result" => v = "DENY") /\ (at = "run" => v # "DENY") => NodeSane(t)
  BY <1>1, <1>2, <1>3, <1>6 DEF NodeSane, RanAsJudged
<1> QED BY <1>6, <1>7 DEF t

LEMMA InterceptedMoves ==
  ASSUME AgentTypes, AgentsKept, NEW n \in Nodes, Intercepted(n) \/ InterceptFails(n)
  PROVE  AgentTypes' /\ AgentsKept'
<1> DEFINE s == node[n]
<1>a. s \in ANode /\ NodeSane(s) BY DEF AgentTypes, AgentsKept
<1>1. CASE InterceptFails(n)
  <2>1. s.at = "intercept" BY <1>1 DEF InterceptFails, LoopStep, NodeStep
  <2>2. Go(n, "abort") \in ANode /\ NodeSane(Go(n, "abort")) /\ Go(n, "abort").at = "abort"
    BY <1>a, <2>1, GoIs DEF NodeSane
  <2> QED BY <1>1, <2>2, LoopMoves DEF InterceptFails
<1>2. CASE Intercepted(n)
  <2>1. PICK v \in {"ALLOW", "MUTATE", "DENY", "HUMAN_REVIEW"} :
          LET judged == Judged(s, v, Usage(s)) IN
          \/ LoopStep(n, "intercept",
               [judged EXCEPT !.at = IF v = "DENY" THEN "result" ELSE "run",
                              !.output = IF v = "DENY" THEN "blocked" ELSE @])
          \/ LoopStep(n, "intercept", [judged EXCEPT !.at = "abort"])
    BY <1>2 DEF Intercepted
  <2>2. s.at = "intercept" BY <2>1 DEF LoopStep, NodeStep
  <2> DEFINE judged == Judged(s, v, Usage(s))
  <2>3. ASSUME NEW at
        PROVE  judged.output = "none" /\ [judged EXCEPT !.at = at] = AfterJudging(s, v, at, "none")
    <3>1. judged.output = "none" BY <1>a DEF Judged, ANode
    <3>2. judged = [judged EXCEPT !.output = "none"] BY <1>a, <3>1 DEF Judged, ANode
    <3> QED BY <3>1, <3>2 DEF AfterJudging
  <2>4. PICK at \in {"result", "run", "abort"}, output \in {"blocked", "none"} :
          /\ LoopStep(n, "intercept", AfterJudging(s, v, at, output))
          /\ at = "result" => v = "DENY"
          /\ at = "run" => v # "DENY"
    <3>1. CASE LoopStep(n, "intercept", [judged EXCEPT !.at = "abort"]) BY <2>3, <3>1
    <3>2. CASE LoopStep(n, "intercept",
                 [judged EXCEPT !.at = IF v = "DENY" THEN "result" ELSE "run",
                                !.output = IF v = "DENY" THEN "blocked" ELSE @])
      BY <2>3, <3>2 DEF AfterJudging
    <3> QED BY <2>1, <3>1, <3>2
  <2> HIDE DEF s
  <2>5. /\ AfterJudging(s, v, at, output) \in ANode /\ AfterJudging(s, v, at, output).at = at
        /\ NodeSane(AfterJudging(s, v, at, output))
    BY <1>a, <2>2, <2>4, JudgedIs
  <2> QED BY <2>4, <2>5, LoopMoves
<1> QED BY <1>1, <1>2

LEMMA ToolMoves ==
  ASSUME AgentTypes, AgentsKept, NEW n \in Nodes, RunTool(n) \/ ValidateOutput(n) \/ Result(n)
  PROVE  AgentTypes' /\ AgentsKept'
<1> DEFINE s == node[n]
<1>a. s \in ANode /\ NodeSane(s) BY DEF AgentTypes, AgentsKept
<1>1. CASE RunTool(n)
  <2> DEFINE how == IF s.verdict = "MUTATE" THEN "mutated" ELSE "asked"
  <2>1. PICK to \in {"validate", "abort"} : LoopStep(n, "run", [s EXCEPT !.at = to, !.ran = how])
    BY <1>1 DEF RunTool
  <2> DEFINE t == [s EXCEPT !.at = to, !.ran = how]
  <2>0. LoopStep(n, "run", t) BY <2>1
  <2>2. s.at = "run" BY <2>1 DEF LoopStep, NodeStep
  <2>3. how \in {"asked", "mutated"} /\ (how = "mutated" <=> s.verdict = "MUTATE") OBVIOUS
  <2> HIDE DEF how
  <2>4. /\ t \in ANode /\ t.at = to /\ t.ran = how /\ t.block = s.block /\ t.asked = s.asked
        /\ t.judged = s.judged /\ t.reported = s.reported /\ t.verdict = s.verdict
    BY <1>a, <2>1, <2>3 DEF ANode
  <2> HIDE DEF t
  <2>5. /\ s.block \in 1 .. s.asked /\ s.judged = s.block /\ s.verdict \notin {"none", "DENY"}
        /\ s.reported = (IF s.judged > 0 THEN 1 ELSE 0) /\ s.block \in Nat
    BY <1>a, <2>2 DEF NodeSane, ANode
  <2>6. RanAsJudged(t) /\ t.judged >= t.block BY <2>3, <2>4, <2>5 DEF RanAsJudged
  <2>7. NodeSane(t) BY <2>1, <2>4, <2>5, <2>6 DEF NodeSane
  <2> QED BY <2>0, <2>1, <2>4, <2>7, LoopMoves
<1>2. CASE ValidateOutput(n)
  <2>1. s.at = "validate" BY <1>2 DEF ValidateOutput, LoopStep, NodeStep
  <2>2. /\ s.block \in 1 .. s.asked /\ s.judged = s.block /\ RanAsJudged(s) /\ s.block \in Nat
        /\ s.reported = (IF s.judged > 0 THEN 1 ELSE 0)
    BY <1>a, <2>1 DEF NodeSane, ANode
  <2>3. CASE LoopStep(n, "validate", Go(n, "abort"))
    <3>1. Go(n, "abort") \in ANode /\ NodeSane(Go(n, "abort")) /\ Go(n, "abort").at = "abort"
      BY <2>2, GoIs DEF NodeSane, RanAsJudged
    <3> QED BY <2>3, <3>1, LoopMoves
  <2>4. CASE \E out \in {"raw", "sanitized", "blocked"} :
               LoopStep(n, "validate", [Go(n, "result") EXCEPT !.output = out])
    <3>1. PICK out \in {"raw", "sanitized", "blocked"} :
            LoopStep(n, "validate", [Go(n, "result") EXCEPT !.output = out])
      BY <2>4
    <3> DEFINE t == [Go(n, "result") EXCEPT !.output = out]
    <3>0. LoopStep(n, "validate", t) BY <3>1
    <3>2. /\ t \in ANode /\ t.at = "result" /\ t.block = s.block /\ t.asked = s.asked
          /\ t.judged = s.judged /\ t.reported = s.reported /\ t.verdict = s.verdict
          /\ t.ran = s.ran
      BY <3>1, GoIs DEF ANode
    <3> HIDE DEF t
    <3>3. NodeSane(t) BY <2>2, <3>2 DEF NodeSane, RanAsJudged
    <3> QED BY <3>0, <3>2, <3>3, LoopMoves
  <2> QED BY <1>2, <2>3, <2>4 DEF ValidateOutput
<1>3. CASE Result(n)
  <2>1. s.at = "result" BY <1>3 DEF Result, LoopStep, NodeStep
  <2>2. /\ s.block \in 1 .. s.asked /\ s.judged = s.block /\ s.block \in Nat
        /\ s.reported = (IF s.judged > 0 THEN 1 ELSE 0) /\ s.asked \in 0 .. MaxBlocks
    BY <1>a, <2>1 DEF NodeSane, ANode
  <2>3. CASE s.block < s.asked
    <3> DEFINE block == s.block + 1
               t == [s EXCEPT !.at = "intercept", !.block = block, !.verdict = "none",
                              !.ran = "no", !.output = "none"]
    <3>1. LoopStep(n, "result", t) BY <1>3, <2>3 DEF Result
    <3>2. /\ block \in 0 .. MaxBlocks /\ block \in 1 .. s.asked /\ s.judged = block - 1
          /\ s.judged > 0
      BY <2>2, <2>3, AgentBounds
    <3> HIDE DEF block
    <3>3. /\ t \in ANode /\ t.at = "intercept" /\ t.block = block /\ t.asked = s.asked
          /\ t.judged = s.judged /\ t.reported = s.reported /\ t.verdict = "none"
          /\ t.ran = "no"
      BY <1>a, <3>2 DEF ANode
    <3> HIDE DEF t
    <3>4. NodeSane(t) BY <2>2, <3>2, <3>3 DEF NodeSane
    <3> QED BY <3>1, <3>3, <3>4, LoopMoves
  <2>4. CASE ~(s.block < s.asked)
    <3> DEFINE t == [Fresh EXCEPT !.at = "ask", !.turn = s.turn]
    <3>1. LoopStep(n, "result", t) BY <1>3, <2>4 DEF Result
    <3>2. /\ t \in ANode /\ t.at = "ask" /\ t.block = 0 /\ t.asked = 0 /\ t.judged = 0
          /\ t.reported = 0 /\ t.verdict = "none" /\ t.ran = "no"
      BY <1>a, FreshIs DEF ANode
    <3> HIDE DEF t
    <3>3. NodeSane(t) BY <3>2 DEF NodeSane
    <3> QED BY <3>1, <3>2, <3>3, LoopMoves
  <2> QED BY <2>3, <2>4
<1> QED BY <1>1, <1>2, <1>3

\* A step that touches one node and its session.
LEMMA OneNodeMoves ==
  ASSUME AgentTypes, AgentsKept, NEW n \in Nodes, graph' = graph,
         NEW t \in ANode, NEW from, NodeStep(n, from, t), from # "done", NodeSane(t),
         session' \in [Nodes -> {"none", "live", "evicted", "ended"}],
         \A m \in Nodes : m # n => session'[m] = session[m],
         below' \in [Nodes -> HandsOn \cup {Nobody}],
         \A m \in Nodes : below'[m] \in {below[m], graph.parent},
         stuck' \in {stuck, stuck \cup {n}},
         Sits(n, t, session'[n], n \in stuck')
  PROVE  AgentTypes' /\ AgentsKept'
<1>1. /\ node[n].at = from /\ node' \in [Nodes -> ANode] /\ node'[n] = t
      /\ \A m \in Nodes : m # n => node'[m] = node[m]
  BY NodeStepDoes
<1>2. \A m \in Nodes : node[m].at = "done" => node'[m].at = "done" BY <1>1
<1>3. graph.parent # Nobody => node'[graph.parent].at = "done"
  BY <1>2, GraphIs DEF AgentsKept, TreeKept, AgentTypes
<1>4. ASSUME NEW m \in Nodes
      PROVE  NodeSane(node'[m]) /\ Sits(m, node'[m], session'[m], m \in stuck')
  <2>1. NodeSane(node[m]) /\ Sits(m, node[m], session[m], m \in stuck)
    BY DEF AgentsKept, TreeKept
  <2>2. CASE m = n BY <1>1, <2>2
  <2>3. CASE m # n
    <3>1. node'[m] = node[m] /\ session'[m] = session[m] /\ (m \in stuck' <=> m \in stuck)
      BY <1>1, <2>3
    <3> QED BY <2>1, <3>1 DEF Sits
  <2> QED BY <2>2, <2>3
<1>5. ASSUME NEW m \in Nodes, below'[m] # Nobody PROVE node'[below'[m]].at = "done"
  <2>1. CASE below'[m] = graph.parent BY <1>3, <1>5, <2>1
  <2>2. CASE below'[m] = below[m]
    BY <1>2, <1>5, <2>2, GraphIs DEF AgentsKept, TreeKept, AgentTypes
  <2> QED BY <2>1, <2>2
<1>6. AgentTypes' BY <1>1 DEF AgentTypes
<1> QED BY <1>3, <1>4, <1>5, <1>6 DEF AgentsKept, TreeKept

LEMMA RegisterMoves ==
  ASSUME AgentTypes, AgentsKept, NEW n \in Nodes, Register(n)
  PROVE  AgentTypes' /\ AgentsKept'
<1>a. /\ node[n] \in ANode /\ NodeSane(node[n]) /\ Sits(n, node[n], session[n], n \in stuck)
      /\ graph.parent \in HandsOn \cup {Nobody}
  BY DEF AgentTypes, AgentsKept, TreeKept
<1>b. node[n].at = "waiting" /\ graph' = graph BY DEF Register, NodeStep
<1>c. session[n] = "none" BY <1>a, <1>b DEF Sits
<1>d. /\ Go(n, "failed") \in ANode /\ Go(n, "failed").at = "failed" /\ NodeSane(Go(n, "failed"))
      /\ Go(n, "ask") \in ANode /\ Go(n, "ask").at = "ask" /\ NodeSane(Go(n, "ask"))
  BY <1>a, <1>b, GoIs DEF NodeSane
<1>1. CASE /\ NodeStep(n, "waiting", Go(n, "failed"))
           /\ UNCHANGED <<session, below, stuck>>
  <2>1. Sits(n, Go(n, "failed"), session'[n], n \in stuck') BY <1>1, <1>c, <1>d DEF Sits
  <2>2. session' \in [Nodes -> {"none", "live", "evicted", "ended"}]
        /\ below' \in [Nodes -> HandsOn \cup {Nobody}]
    BY <1>1 DEF AgentTypes
  <2> QED BY <1>1, <1>b, <1>d, <2>1, <2>2, OneNodeMoves
<1>2. CASE /\ session' = [session EXCEPT ![n] = "live"]
           /\ below' = [below EXCEPT ![n] = graph.parent]
           /\ \/ NodeStep(n, "waiting", Go(n, "ask")) /\ UNCHANGED stuck
              \/ NodeStep(n, "waiting", Go(n, "failed")) /\ stuck' = stuck \cup {n}
  <2>1. /\ session' \in [Nodes -> {"none", "live", "evicted", "ended"}] /\ session'[n] = "live"
        /\ \A m \in Nodes : m # n => session'[m] = session[m]
        /\ below' \in [Nodes -> HandsOn \cup {Nobody}]
        /\ \A m \in Nodes : below'[m] \in {below[m], graph.parent}
    BY <1>2, <1>a DEF AgentTypes
  <2>2. CASE NodeStep(n, "waiting", Go(n, "ask")) /\ UNCHANGED stuck
    <3>1. Sits(n, Go(n, "ask"), session'[n], n \in stuck') BY <1>d, <2>1 DEF Sits
    <3> QED BY <1>b, <1>d, <2>1, <2>2, <3>1, OneNodeMoves
  <2>3. CASE NodeStep(n, "waiting", Go(n, "failed")) /\ stuck' = stuck \cup {n}
    <3>1. Sits(n, Go(n, "failed"), session'[n], n \in stuck') BY <1>d, <2>1, <2>3 DEF Sits
    <3> QED BY <1>b, <1>d, <2>1, <2>3, <3>1, OneNodeMoves
  <2> QED BY <1>2, <2>2, <2>3
<1> QED BY <1>1, <1>2 DEF Register

\* What evict() leaves of a session: none of it, or the node is stuck with it.
LEMMA EvictedDoes ==
  ASSUME AgentTypes, NEW n \in Nodes, Evicted(n)
  PROVE  /\ session' \in [Nodes -> {"none", "live", "evicted", "ended"}]
         /\ \A m \in Nodes : m # n => session'[m] = session[m]
         /\ stuck' \in {stuck, stuck \cup {n}}
         /\ session'[n] = "live" => n \in stuck'
<1>1. CASE Deleted(n) /\ UNCHANGED stuck BY <1>1 DEF Deleted, AgentTypes
<1>2. CASE UNCHANGED session /\ stuck' = stuck \cup {n} BY <1>2 DEF AgentTypes
<1> QED BY <1>1, <1>2 DEF Evicted

LEMMA LeavingMoves ==
  ASSUME AgentTypes, AgentsKept, NEW n \in Nodes, Leave(n) \/ Abort(n)
  PROVE  AgentTypes' /\ AgentsKept'
<1>a. /\ node[n] \in ANode /\ NodeSane(node[n]) /\ Sits(n, node[n], session[n], n \in stuck)
  BY DEF AgentTypes, AgentsKept, TreeKept
<1>b. /\ graph' = graph /\ below' = below /\ below' \in [Nodes -> HandsOn \cup {Nobody}]
      /\ node[n].at \in {"leave", "abort"}
  BY DEF Leave, Abort, NodeStep, AgentTypes
<1>c. session[n] # "evicted" BY <1>a, <1>b DEF Sits
<1>1. CASE Abort(n)
  <2> DEFINE t == [Fresh EXCEPT !.at = "failed"]
  <2>1. NodeStep(n, "abort", t) /\ Evicted(n) BY <1>1 DEF Abort
  <2>2. t \in ANode /\ t.at = "failed" /\ NodeSane(t) BY FreshIs
  <2> HIDE DEF t
  <2>3. Sits(n, t, session'[n], n \in stuck') BY <2>1, <2>2, EvictedDoes DEF Sits
  <2> QED BY <1>b, <2>1, <2>2, <2>3, EvictedDoes, OneNodeMoves
<1>2. CASE Leave(n)
  <2> DEFINE t == [Fresh EXCEPT !.at = "done"]
  <2>1. /\ NodeStep(n, "leave", t)
        /\ IF n \in HandsOn THEN UNCHANGED <<session, stuck>> ELSE Evicted(n)
    BY <1>2 DEF Leave
  <2>2. t \in ANode /\ t.at = "done" /\ NodeSane(t) BY FreshIs
  <2> HIDE DEF t
  <2>3. /\ session' \in [Nodes -> {"none", "live", "evicted", "ended"}]
        /\ \A m \in Nodes : m # n => session'[m] = session[m]
        /\ stuck' \in {stuck, stuck \cup {n}}
    BY <2>1, EvictedDoes DEF AgentTypes
  <2>4. Sits(n, t, session'[n], n \in stuck')
    <3>1. CASE n \in HandsOn BY <1>c, <2>1, <2>2, <3>1 DEF Sits
    <3>2. CASE n \notin HandsOn BY <2>1, <2>2, <3>2, EvictedDoes DEF Sits
    <3> QED BY <3>1, <3>2
  <2> QED BY <1>b, <2>1, <2>2, <2>3, <2>4, OneNodeMoves
<1> QED BY <1>1, <1>2

LEMMA SessionEndMoves ==
  ASSUME AgentTypes, AgentsKept, NEW n \in Nodes, SessionEnds(n)
  PROVE  AgentTypes' /\ AgentsKept'
<1>1. /\ session[n] = "live" /\ UNCHANGED <<graph, node, below, stuck>>
      /\ session' \in [Nodes -> {"none", "live", "evicted", "ended"}] /\ session'[n] = "ended"
      /\ \A m \in Nodes : m # n => session'[m] = session[m]
  BY DEF SessionEnds, AgentTypes
<1>2. ASSUME NEW m \in Nodes
      PROVE  NodeSane(node'[m]) /\ Sits(m, node'[m], session'[m], m \in stuck')
  <2>1. NodeSane(node[m]) /\ Sits(m, node[m], session[m], m \in stuck)
    BY DEF AgentsKept, TreeKept
  <2>2. CASE m = n BY <1>1, <2>1, <2>2 DEF Sits
  <2>3. CASE m # n
    <3>1. session'[m] = session[m] BY <1>1, <2>3
    <3> QED BY <1>1, <2>1, <3>1 DEF Sits
  <2> QED BY <2>2, <2>3
<1>3. AgentTypes' BY <1>1 DEF AgentTypes
<1>4. /\ graph'.parent # Nobody => node'[graph'.parent].at = "done"
      /\ \A m \in Nodes : below'[m] # Nobody => node'[below'[m]].at = "done"
  BY <1>1 DEF AgentsKept, TreeKept
<1> QED BY <1>2, <1>3, <1>4 DEF AgentsKept, TreeKept

LEMMA SuperStepMoves ==
  ASSUME AgentTypes, AgentsKept, NextSuperStep
  PROVE  AgentTypes' /\ AgentsKept'
<1> DEFINE ready == Graph[graph.step] \cap HandsOn
           parent == IF ready = {} THEN graph.parent ELSE CHOOSE n \in ready : TRUE
<1>a. /\ graph.step \in 1 .. 4 /\ graph.step < 4 /\ graph.parent \in HandsOn \cup {Nobody}
      /\ \A n \in Graph[graph.step] : n \in Nodes /\ node[n].at = "done"
  BY GraphIs DEF AgentTypes, NextSuperStep
<1>1. UNCHANGED <<node, session, below, stuck>> BY DEF NextSuperStep
<1>2. graph' = [graph EXCEPT !.step = @ + 1, !.parent = parent] BY DEF NextSuperStep
<1>3. /\ parent \in HandsOn \cup {Nobody}
      /\ parent # graph.parent => parent \in Graph[graph.step]
  BY <1>a
<1> HIDE DEF parent
<1>4. /\ graph' \in [step : DOMAIN Graph, parent : HandsOn \cup {Nobody}, key : BOOLEAN]
      /\ graph'.parent = parent
  <2> DEFINE step == graph.step + 1
  <2>1. step \in DOMAIN Graph BY <1>a, GraphIs
  <2>2. graph' = [graph EXCEPT !.step = step, !.parent = parent] BY <1>2
  <2>3. graph \in [step : DOMAIN Graph, parent : HandsOn \cup {Nobody}, key : BOOLEAN]
    BY DEF AgentTypes
  <2> HIDE DEF step
  <2> QED BY <1>3, <2>1, <2>2, <2>3
<1>5. AgentTypes' BY <1>1, <1>4 DEF AgentTypes
<1>6. graph'.parent # Nobody => node'[graph'.parent].at = "done"
  BY <1>a, <1>1, <1>3, <1>4 DEF AgentsKept, TreeKept
<1>7. ASSUME NEW m \in Nodes
      PROVE  NodeSane(node'[m]) /\ Sits(m, node'[m], session'[m], m \in stuck')
  <2>1. NodeSane(node[m]) /\ Sits(m, node[m], session[m], m \in stuck)
    BY DEF AgentsKept, TreeKept
  <2> QED BY <1>1, <2>1 DEF Sits
<1>8. \A m \in Nodes : below'[m] # Nobody => node'[below'[m]].at = "done"
  BY <1>1 DEF AgentsKept, TreeKept
<1> QED BY <1>5, <1>6, <1>7, <1>8 DEF AgentsKept, TreeKept

LEMMA AgentsTurn ==
  ASSUME AgentTypes, AgentsKept, [AgentsNext]_agentVars
  PROVE  AgentTypes' /\ AgentsKept'
<1>1. CASE UNCHANGED agentVars
  <2>1. UNCHANGED <<graph, node, session, below, stuck>> BY <1>1 DEF agentVars
  <2>2. AgentTypes' BY <2>1 DEF AgentTypes
  <2>3. ASSUME NEW m \in Nodes
        PROVE  NodeSane(node'[m]) /\ Sits(m, node'[m], session'[m], m \in stuck')
    <3>1. NodeSane(node[m]) /\ Sits(m, node[m], session[m], m \in stuck)
      BY DEF AgentsKept, TreeKept
    <3> QED BY <2>1, <3>1 DEF Sits
  <2>4. /\ graph'.parent # Nobody => node'[graph'.parent].at = "done"
        /\ \A m \in Nodes : below'[m] # Nobody => node'[below'[m]].at = "done"
    BY <2>1 DEF AgentsKept, TreeKept
  <2> QED BY <2>2, <2>3, <2>4 DEF AgentsKept, TreeKept
<1>2. ASSUME NEW n \in Nodes,
             Register(n) \/ Loop(n) \/ Leave(n) \/ Abort(n) \/ SessionEnds(n)
      PROVE  AgentTypes' /\ AgentsKept'
  <2>1. CASE Loop(n) BY <2>1, AskMoves, InterceptedMoves, ToolMoves DEF Loop
  <2> QED BY <1>2, <2>1, RegisterMoves, LeavingMoves, SessionEndMoves
<1> QED BY <1>1, <1>2, SuperStepMoves DEF AgentsNext

LEMMA AgentsAtRest ==
  ASSUME AgentsInit
  PROVE  AgentTypes /\ AgentsKept
<1>1. /\ \A n \in Nodes : node[n] = Fresh /\ session[n] = "none" /\ below[n] = Nobody
      /\ node \in [Nodes -> ANode] /\ session \in [Nodes -> {"none", "live", "evicted", "ended"}]
      /\ below \in [Nodes -> HandsOn \cup {Nobody}] /\ stuck = {}
  BY FreshIs DEF AgentsInit, AgentsRest
<1>2. /\ graph \in [step : DOMAIN Graph, parent : HandsOn \cup {Nobody}, key : BOOLEAN]
      /\ graph.parent = Nobody
  BY GraphIs DEF AgentsInit
<1>3. AgentTypes BY <1>1, <1>2 DEF AgentTypes
<1>4. \A n \in Nodes : NodeSane(node[n]) BY <1>1, FreshIs
<1>5. \A n \in Nodes : Sits(n, node[n], session[n], n \in stuck) BY <1>1, FreshIs DEF Sits
<1> QED BY <1>1, <1>2, <1>3, <1>4, <1>5 DEF AgentsKept, TreeKept

\* Where its nodes are says what their calls have come to, and where they are in the graph
\* what became of their sessions.
LEMMA AgentsFollow ==
  ASSUME AgentTypes, AgentsKept
  PROVE  AgentsTypeOK /\ AgentsActOnAnswers
<1>1. AgentsTypeOK BY DEF AgentTypes, AgentsTypeOK, ANode
<1>2. ASSUME NEW n \in Nodes
      PROVE  LET s == node[n] IN
             /\ s.reported = (IF s.judged > 0 THEN 1 ELSE 0)
             /\ s.ran # "no" => /\ s.judged >= s.block /\ s.verdict \notin {"none", "DENY"}
                                /\ s.ran = "mutated" <=> s.verdict = "MUTATE"
             /\ s.at = "result" => (s.ran = "no") = (s.verdict = "DENY")
  <2> DEFINE s == node[n]
  <2>1. s \in ANode /\ NodeSane(s) BY DEF AgentTypes, AgentsKept
  <2> HIDE DEF s
  <2>2. s.judged \in Nat /\ s.block \in Nat BY <2>1, AgentBounds DEF ANode
  <2>3. s.at \in {"waiting", "ask", "intercept", "run", "validate", "result", "leave", "abort",
                  "done", "failed"}
    BY <2>1 DEF ANode
  <2>4. s.ran # "no" => RanAsJudged(s) /\ s.judged >= s.block
    BY <2>1, <2>2, <2>3 DEF NodeSane
  <2>5. s.reported = (IF s.judged > 0 THEN 1 ELSE 0) BY <2>1 DEF NodeSane
  <2>6. s.at = "result" => ((s.ran = "no") <=> (s.verdict = "DENY"))
    BY <2>1 DEF NodeSane, RanAsJudged
  <2> QED BY <2>4, <2>5, <2>6 DEF RanAsJudged, s
<1>3. LoopFollowsTheGuard BY <1>2 DEF LoopFollowsTheGuard
<1>4. graph.parent # Nobody => session[graph.parent] # "evicted"
  BY GraphIs DEF AgentTypes, AgentsKept, TreeKept, Sits
<1>5. OnlyParentsStay BY <1>4 DEF OnlyParentsStay, AgentsKept, TreeKept, Sits
<1> QED BY <1>1, <1>3, <1>5 DEF AgentsActOnAnswers

\* Nodes run side by side, their requests fail or are answered late, their sessions end
\* under them: whatever each of them asked and was told, a tool has run only for a call
\* judged fit for it, the turn's tokens are reported once, what is handed on was never
\* evicted by its own client, and a session that outlives its node is a parent or stuck.
THEOREM PartsAgentsActOnAnswers == Spec => [](AgentsTypeOK /\ AgentsActOnAnswers)
<1>1. AgentsInit => AgentTypes /\ AgentsKept BY AgentsAtRest
<1>2. AgentTypes /\ AgentsKept /\ [AgentsNext]_agentVars => AgentTypes' /\ AgentsKept'
  BY AgentsTurn
<1>3. AgentTypes /\ AgentsKept => AgentsTypeOK /\ AgentsActOnAnswers BY AgentsFollow
<1> QED BY <1>1, <1>2, <1>3, PartsRunAgents, PTL

-----------------------------------------------------------------------------
(* Snapshots *)

AFile == [form : {"none", "whole", "torn"}, entries : Seq(Entry)]
ARecord == [at : {"none", "emitted", "read", "copied", "written", "lost"},
            by : Guards \cup {"nobody"}, entries : Seq(Entry)]

SnapshotTypes ==
  /\ history \in AFile /\ copy \in AFile
  /\ record \in [Records -> ARecord]
  /\ editor \in [open : BOOLEAN, entries : Seq(Entry)]
  /\ notes \in 0 .. MaxNotes /\ (editor.open => notes < MaxNotes)
  /\ mixed \in BOOLEAN

Standing(s, stages) == s.at \in stages

\* Entries that hold the records of a set and the notes up to one, once and in order.
HoldsAll(listed, written, n) ==
  /\ \A r \in Records : r \in Range(listed) <=> r \in written
  /\ IsInjective(listed)
  /\ {listed[i].note : i \in NotesOf(listed)} = 1 .. n
  /\ \A i, j \in NotesOf(listed) : i < j => listed[i].note < listed[j].note

WrittenOf(records) == {r \in Records : records[r].at = "written"}

\* Nobody is in the file with another: who rewrites it has read what is still in it.
InOrder(now, spare, records, pen, n) ==
  /\ now.form # "torn"
  /\ HoldsAll(now.entries, WrittenOf(records), n)
  /\ pen.open => /\ pen.entries = now.entries
                 /\ \A r \in Records : ~Standing(records[r], {"read", "copied"})
  /\ \A r, o \in Records :
       Standing(records[r], {"read", "copied"}) /\ Standing(records[o], {"read", "copied"}) => r = o
  /\ \A r \in Records : Standing(records[r], {"read", "copied"}) => records[r].entries = now.entries
  /\ \A r \in Records : Standing(records[r], {"copied"}) => spare = Whole(Append(now.entries, r))

SnapshotsInOrder == mixed \/ InOrder(history, copy, record, editor, notes)

LEMMA FileRecordDoes ==
  ASSUME SnapshotTypes, NEW r \in Records, NEW from, NEW t \in ARecord, RecordStep(r, from, t)
  PROVE  /\ record[r].at = from /\ record' \in [Records -> ARecord] /\ record'[r] = t
         /\ \A o \in Records : o # r => record'[o] = record[o]
<1>1. record \in [Records -> ARecord] BY DEF SnapshotTypes
<1>2. record[r].at = from /\ record' = [record EXCEPT ![r] = t] BY DEF RecordStep
<1> QED BY <1>1, <1>2

LEMMA TurnsIs ==
  ASSUME SnapshotTypes, NEW r \in Records, NEW to \in {"read", "copied", "written", "lost"}
  PROVE  /\ Turns(r, to) \in ARecord /\ Turns(r, to).at = to
         /\ Turns(r, to).entries = record[r].entries
         /\ Ends(r, to) \in ARecord /\ Ends(r, to).at = to
         /\ \A listed \in Seq(Entry) :
              /\ [Turns(r, to) EXCEPT !.entries = listed] \in ARecord
              /\ [Turns(r, to) EXCEPT !.entries = listed].at = to
              /\ [Turns(r, to) EXCEPT !.entries = listed].entries = listed
<1>1. record[r] \in ARecord /\ <<>> \in Seq(Entry) BY DEF SnapshotTypes
<1> QED BY <1>1 DEF Turns, Ends, ARecord

\* Records that only leave the file leave it in order.
LEMMA RecordsLeave ==
  ASSUME NEW now, NEW spare, NEW records, NEW pen, NEW n, NEW spare2, NEW records2,
         InOrder(now, spare, records, pen, n),
         \A r \in Records : Standing(records2[r], {"read", "copied"}) => records2[r] = records[r],
         \A r \in Records : records2[r].at = "written" <=> records[r].at = "written",
         \A r \in Records : Standing(records2[r], {"copied"}) => spare2 = spare
  PROVE  InOrder(now, spare2, records2, pen, n)
<1>1. WrittenOf(records2) = WrittenOf(records) BY DEF WrittenOf
<1> QED BY <1>1 DEF InOrder, Standing

\* One more entry at the end.
LEMMA OneMore ==
  ASSUME NEW listed \in Seq(Entry), NEW e \in Entry, NEW written \in SUBSET Records,
         NEW n \in 0 .. MaxNotes, HoldsAll(listed, written, n),
         \A i \in DOMAIN listed : listed[i] # e,
         NEW written2, NEW n2,
         \/ e \in Records /\ written2 = written \cup {e} /\ n2 = n
         \/ e \in Notes /\ e.note = n + 1 /\ written2 = written /\ n2 = n + 1
  PROVE  HoldsAll(Append(listed, e), written2, n2)
<1> DEFINE more == Append(listed, e)
           m == Len(listed)
<1>1. /\ m \in Nat /\ DOMAIN listed = 1 .. m /\ DOMAIN more = 1 .. (m + 1)
      /\ more[m + 1] = e /\ \A i \in 1 .. m : more[i] = listed[i]
  OBVIOUS
<1> HIDE DEF more, m
<1>2. Range(more) = Range(listed) \cup {e}
  <2>1. \A x \in Range(more) : x \in Range(listed) \cup {e} BY <1>1 DEF Range
  <2>2. \A x \in Range(listed) : x \in Range(more) BY <1>1 DEF Range
  <2>3. e \in Range(more) BY <1>1 DEF Range
  <2> QED BY <2>1, <2>2, <2>3
<1>3. IsInjective(more)
  <2>1. IsInjective(listed) BY DEF HoldsAll
  <2> QED BY <1>1, <2>1 DEF IsInjective
<1>4. \A i \in 1 .. m : i \in NotesOf(more) <=> i \in NotesOf(listed) BY <1>1 DEF NotesOf
<1>5. /\ {listed[i].note : i \in NotesOf(listed)} = 1 .. n
      /\ \A i, j \in NotesOf(listed) : i < j => listed[i].note < listed[j].note
      /\ \A r \in Records : r \in Range(listed) <=> r \in written
  BY DEF HoldsAll
<1>6. NotesOf(listed) \subseteq 1 .. m BY <1>1 DEF NotesOf
<1>7. \A i \in NotesOf(listed) : listed[i].note \in 1 .. n BY <1>5
<1>8. CASE e \in Records
  <2>1. NotesOf(more) = NotesOf(listed) BY <1>1, <1>4, <1>6, <1>8 DEF NotesOf
  <2>2. written2 = written \cup {e} /\ n2 = n BY <1>8, RecordsAreNoNotes
  <2>3. {more[i].note : i \in NotesOf(more)} = {listed[i].note : i \in NotesOf(listed)}
    BY <1>1, <1>6, <2>1
  <2>4. \A r \in Records : r \in Range(more) <=> r \in written2 BY <1>2, <1>5, <2>2
  <2>5. \A i, j \in NotesOf(more) : i < j => more[i].note < more[j].note
    BY <1>1, <1>5, <1>6, <2>1
  <2> QED BY <1>3, <1>5, <2>2, <2>3, <2>4, <2>5 DEF HoldsAll, more
<1>9. CASE e \in Notes /\ e.note = n + 1 /\ written2 = written /\ n2 = n + 1
  <2>1. e \notin Records BY <1>9, RecordsAreNoNotes
  <2>2. NotesOf(more) = NotesOf(listed) \cup {m + 1}
    <3>1. m + 1 \in NotesOf(more) BY <1>1, <2>1 DEF NotesOf
    <3>2. \A i \in NotesOf(more) : i \in 1 .. (m + 1) BY <1>1 DEF NotesOf
    <3>3. \A i \in 1 .. (m + 1) : i = m + 1 \/ i \in 1 .. m BY <1>1
    <3> QED BY <1>4, <1>6, <3>1, <3>2, <3>3
  <2>3. more[m + 1].note = n + 1 /\ \A i \in NotesOf(listed) : more[i].note = listed[i].note
    BY <1>1, <1>6, <1>9
  <2>4. {more[i].note : i \in NotesOf(more)} = 1 .. n2
    <3>1. \A k \in {more[i].note : i \in NotesOf(more)} : k \in 1 .. (n + 1)
      BY <1>7, <2>2, <2>3
    <3>2. \A k \in 1 .. n : \E i \in NotesOf(listed) : listed[i].note = k BY <1>5
    <3>3. \A k \in 1 .. (n + 1) : \E i \in NotesOf(more) : more[i].note = k
      BY <2>2, <2>3, <3>2
    <3> QED BY <1>9, <3>1, <3>3
  <2>5. \A r \in Records : r \in Range(more) <=> r \in written2 BY <1>2, <1>5, <1>9, <2>1
  <2>6. ASSUME NEW i \in NotesOf(more), NEW j \in NotesOf(more), i < j
        PROVE  more[i].note < more[j].note
    <3>0. i \in 1 .. (m + 1) /\ j \in 1 .. (m + 1) BY <1>1, <1>6, <2>2
    <3>1. i \in NotesOf(listed)
      <4>1. i # m + 1 BY <1>1, <2>6, <3>0
      <4> QED BY <2>2, <4>1
    <3>2. CASE j = m + 1
      <4>0. n \in Nat BY SnapshotBounds
      <4>a. more[i].note = listed[i].note /\ listed[i].note \in 1 .. n BY <1>7, <2>3, <3>1
      <4>b. more[j].note = n + 1 BY <2>3, <3>2
      <4>1. more[i].note \in 1 .. n BY <4>a
      <4>2. \A k \in 1 .. n : k < n + 1 BY <4>0
      <4> QED BY <4>1, <4>2, <4>b
    <3>3. CASE j \in NotesOf(listed) BY <1>5, <2>3, <2>6, <3>1, <3>3
    <3> QED BY <2>2, <3>2, <3>3
  <2> QED BY <1>3, <2>4, <2>5, <2>6 DEF HoldsAll, more
<1> QED BY <1>8, <1>9

LEMMA EmitKeeps ==
  ASSUME SnapshotTypes, SnapshotsInOrder, NEW r \in Records, NEW g \in Guards, EmitAsync(r, g)
  PROVE  SnapshotTypes' /\ SnapshotsInOrder'
<1> DEFINE t == [at |-> "emitted", by |-> g, entries |-> <<>>]
<1>1. RecordStep(r, "none", t) /\ UNCHANGED <<history, copy, editor, notes, mixed>>
  BY DEF EmitAsync
<1>2. t \in ARecord /\ t.at = "emitted" BY DEF ARecord
<1> HIDE DEF t
<1>3. /\ record[r].at = "none" /\ record' \in [Records -> ARecord] /\ record'[r] = t
      /\ \A o \in Records : o # r => record'[o] = record[o]
  BY <1>1, <1>2, FileRecordDoes
<1>4. SnapshotTypes' BY <1>1, <1>3 DEF SnapshotTypes
<1>5. /\ \A o \in Records : Standing(record'[o], {"read", "copied"}) => record'[o] = record[o]
      /\ \A o \in Records : record'[o].at = "written" <=> record[o].at = "written"
  BY <1>2, <1>3 DEF Standing
<1>6. InOrder(history, copy, record, editor, notes) =>
        InOrder(history, copy, record', editor, notes)
  BY <1>5, RecordsLeave
<1> QED BY <1>1, <1>4, <1>6 DEF SnapshotsInOrder

LEMMA ReadKeeps ==
  ASSUME SnapshotTypes, SnapshotsInOrder, NEW r \in Records, ReadEntries(r)
  PROVE  SnapshotTypes' /\ SnapshotsInOrder'
<1> DEFINE t == [Turns(r, "read") EXCEPT !.entries = history.entries]
<1>1. /\ RecordStep(r, "emitted", t) /\ UNCHANGED <<history, copy, editor, notes>>
      /\ \A o \in Records : Inside(o) => record[o].by # record[r].by
      /\ mixed' = (mixed \/ editor.open \/ OtherGuardInside(r))
  BY DEF ReadEntries
<1>2. t \in ARecord /\ t.at = "read" /\ t.entries = history.entries
  BY TurnsIs DEF SnapshotTypes, AFile
<1> HIDE DEF t
<1>3. /\ record[r].at = "emitted" /\ record' \in [Records -> ARecord] /\ record'[r] = t
      /\ \A o \in Records : o # r => record'[o] = record[o]
  BY <1>1, <1>2, FileRecordDoes
<1>4. mixed' \in BOOLEAN BY <1>1 DEF SnapshotTypes, OtherGuardInside
<1>5. SnapshotTypes' BY <1>1, <1>3, <1>4 DEF SnapshotTypes
<1>6. ASSUME ~mixed' PROVE InOrder(history, copy, record', editor, notes)
  <2>1. ~mixed /\ ~editor.open /\ \A o \in Records : ~Inside(o)
    BY <1>1, <1>6 DEF OtherGuardInside
  <2>2. InOrder(history, copy, record, editor, notes) BY <2>1 DEF SnapshotsInOrder
  <2>3. \A o \in Records : o # r => ~Standing(record'[o], {"read", "copied"})
    BY <1>3, <2>1 DEF Standing, Inside
  <2>4. WrittenOf(record') = WrittenOf(record) BY <1>2, <1>3 DEF WrittenOf
  <2> QED BY <1>2, <1>3, <2>1, <2>2, <2>3, <2>4 DEF InOrder, Standing
<1> QED BY <1>1, <1>5, <1>6 DEF SnapshotsInOrder

LEMMA CopyKeeps ==
  ASSUME SnapshotTypes, SnapshotsInOrder, NEW r \in Records, WriteCopy(r)
  PROVE  SnapshotTypes' /\ SnapshotsInOrder'
<1> DEFINE t == Turns(r, "copied")
           listed == record[r].entries
<1>1. /\ RecordStep(r, "read", t) /\ UNCHANGED <<history, editor, notes, mixed>>
      /\ copy' = Whole(Append(listed, r))
  BY DEF WriteCopy
<1>2. t \in ARecord /\ t.at = "copied" /\ t.entries = listed BY TurnsIs
<1>a. listed \in Seq(Entry) /\ r \in Entry BY DEF SnapshotTypes, ARecord, Entry
<1> HIDE DEF t, listed
<1>3. /\ record[r].at = "read" /\ record' \in [Records -> ARecord] /\ record'[r] = t
      /\ \A o \in Records : o # r => record'[o] = record[o]
  BY <1>1, <1>2, FileRecordDoes
<1>4. Append(listed, r) \in Seq(Entry) BY <1>a
<1>5. copy' \in AFile BY <1>1, <1>4 DEF Whole, AFile
<1>6. SnapshotTypes' BY <1>1, <1>3, <1>5 DEF SnapshotTypes
<1>7. ASSUME InOrder(history, copy, record, editor, notes)
      PROVE  InOrder(history, copy', record', editor, notes)
  <2>1. listed = history.entries /\ \A o \in Records : o # r => ~Standing(record[o], {"read", "copied"})
    BY <1>3, <1>7 DEF InOrder, Standing, listed
  <2>2. \A o \in Records : o # r => ~Standing(record'[o], {"read", "copied"}) BY <1>3, <2>1
  <2>3. WrittenOf(record') = WrittenOf(record) BY <1>2, <1>3 DEF WrittenOf
  <2>4. ~editor.open BY <1>3, <1>7 DEF InOrder, Standing
  <2>5. \A o \in Records : Standing(record'[o], {"copied"}) => copy' = Whole(Append(history.entries, o))
    BY <1>1, <2>1, <2>2 DEF Standing
  <2>6. \A o \in Records : Standing(record'[o], {"read", "copied"}) => record'[o].entries = history.entries
    BY <1>2, <1>3, <2>1, <2>2
  <2> QED BY <1>7, <2>2, <2>3, <2>4, <2>5, <2>6 DEF InOrder
<1> QED BY <1>1, <1>6, <1>7 DEF SnapshotsInOrder

LEMMA RenameKeeps ==
  ASSUME SnapshotTypes, SnapshotsInOrder, NEW r \in Records, Rename(r)
  PROVE  SnapshotTypes' /\ SnapshotsInOrder'
<1>a. UNCHANGED <<editor, notes, mixed>> /\ Nothing \in AFile BY DEF Rename, Nothing, AFile
<1>1. CASE copy.form = "none"
  <2>1. RecordStep(r, "copied", Ends(r, "lost")) /\ UNCHANGED <<history, copy>>
    BY <1>1 DEF Rename
  <2>2. /\ record[r].at = "copied" /\ record' \in [Records -> ARecord]
        /\ record'[r].at = "lost" /\ \A o \in Records : o # r => record'[o] = record[o]
    BY <2>1, FileRecordDoes, TurnsIs
  <2>3. SnapshotTypes' BY <1>a, <2>1, <2>2 DEF SnapshotTypes
  <2>4. /\ \A o \in Records : Standing(record'[o], {"read", "copied"}) => record'[o] = record[o]
        /\ \A o \in Records : record'[o].at = "written" <=> record[o].at = "written"
    BY <2>2 DEF Standing
  <2>5. InOrder(history, copy, record, editor, notes) =>
          InOrder(history, copy, record', editor, notes)
    BY <2>4, RecordsLeave
  <2> QED BY <1>a, <2>1, <2>3, <2>5 DEF SnapshotsInOrder
<1>2. CASE copy.form # "none"
  <2>1. RecordStep(r, "copied", Ends(r, "written")) /\ history' = copy /\ copy' = Nothing
    BY <1>2 DEF Rename
  <2>2. /\ record[r].at = "copied" /\ record' \in [Records -> ARecord]
        /\ record'[r].at = "written" /\ \A o \in Records : o # r => record'[o] = record[o]
    BY <2>1, FileRecordDoes, TurnsIs
  <2>3. SnapshotTypes' BY <1>a, <2>1, <2>2 DEF SnapshotTypes
  <2>4. ASSUME InOrder(history, copy, record, editor, notes)
        PROVE  InOrder(copy, Nothing, record', editor, notes)
    <3>1. /\ copy = Whole(Append(history.entries, r))
          /\ \A o \in Records : o # r => ~Standing(record[o], {"read", "copied"})
          /\ ~editor.open /\ HoldsAll(history.entries, WrittenOf(record), notes)
      BY <2>2, <2>4 DEF InOrder, Standing
    <3>2. copy.form = "whole" /\ copy.entries = Append(history.entries, r) BY <3>1 DEF Whole
    <3>3. r \notin WrittenOf(record) /\ WrittenOf(record') = WrittenOf(record) \cup {r}
      BY <2>2 DEF WrittenOf
    <3>4. history.entries \in Seq(Entry) /\ r \in Entry /\ notes \in 0 .. MaxNotes
          /\ WrittenOf(record) \in SUBSET Records
      BY DEF SnapshotTypes, AFile, Entry, WrittenOf
    <3>5. \A i \in DOMAIN history.entries : history.entries[i] # r
      BY <3>1, <3>3 DEF HoldsAll, Range
    <3>6. HoldsAll(copy.entries, WrittenOf(record'), notes)
      BY <3>1, <3>2, <3>3, <3>4, <3>5, OneMore
    <3>7. \A o \in Records : ~Standing(record'[o], {"read", "copied"}) /\ ~Standing(record'[o], {"copied"})
      BY <2>2, <3>1 DEF Standing
    <3> QED BY <3>1, <3>2, <3>6, <3>7 DEF InOrder
  <2> QED BY <1>a, <2>1, <2>3, <2>4 DEF SnapshotsInOrder
<1> QED BY <1>1, <1>2

LEMMA FailuresKeep ==
  ASSUME SnapshotTypes, SnapshotsInOrder,
         \/ \E r \in Records : WriteFails(r)
         \/ \E g \in Guards : GuardDies(g)
  PROVE  SnapshotTypes' /\ SnapshotsInOrder'
<1>a. /\ UNCHANGED <<history, editor, notes, mixed>> /\ Broken \in AFile
      /\ copy \in AFile
  BY DEF WriteFails, GuardDies, Broken, AFile, SnapshotTypes
<1> DEFINE Botched ==
      /\ record' \in [Records -> ARecord] /\ copy' \in {copy, Broken}
      /\ \A o \in Records : \/ record'[o] = record[o]
                            \/ record'[o].at = "lost" /\ record[o].at \in {"emitted", "read", "copied"}
      /\ copy' # copy => \E o \in Records : record[o].at = "read" /\ record'[o].at = "lost"
<1>1. Botched
  <2>1. ASSUME NEW r \in Records, WriteFails(r)
        PROVE  Botched
    <3>1. RecordStep(r, "read", Ends(r, "lost")) /\ copy' \in {copy, Broken}
      BY <2>1 DEF WriteFails
    <3>2. /\ record[r].at = "read" /\ record' \in [Records -> ARecord]
          /\ record'[r].at = "lost" /\ \A o \in Records : o # r => record'[o] = record[o]
      BY <3>1, FileRecordDoes, TurnsIs
    <3> QED BY <3>1, <3>2
  <2>2. ASSUME NEW g \in Guards, GuardDies(g)
        PROVE  Botched
    <3> DEFINE its == {r \in Records : record[r].by = g /\ record[r].at \in {"emitted", "read", "copied"}}
    <3>1. /\ record' = [r \in Records |-> IF r \in its THEN Ends(r, "lost") ELSE record[r]]
          /\ copy' \in {copy} \cup (IF \E r \in its : record[r].at = "read" THEN {Broken} ELSE {})
      BY <2>2 DEF GuardDies
    <3>2. record \in [Records -> ARecord] BY DEF SnapshotTypes
    <3>3. \A r \in Records : Ends(r, "lost") \in ARecord /\ Ends(r, "lost").at = "lost"
      BY TurnsIs
    <3> QED BY <3>1, <3>2, <3>3
  <2> QED BY <2>1, <2>2
<1>2. copy' \in AFile BY <1>a, <1>1
<1>3. SnapshotTypes' BY <1>a, <1>1, <1>2 DEF SnapshotTypes
<1>4. ASSUME InOrder(history, copy, record, editor, notes)
      PROVE  InOrder(history, copy', record', editor, notes)
  <2>1. /\ \A o \in Records : Standing(record'[o], {"read", "copied"}) => record'[o] = record[o]
        /\ \A o \in Records : record'[o].at = "written" <=> record[o].at = "written"
    BY <1>1 DEF Standing
  <2>2. ASSUME NEW o \in Records, Standing(record'[o], {"copied"}) PROVE copy' = copy
    <3>1. record'[o] = record[o] /\ record[o].at = "copied" BY <1>1, <2>2 DEF Standing
    <3>2. \A p \in Records : Standing(record[p], {"read", "copied"}) => p = o
      BY <1>4, <3>1 DEF InOrder, Standing
    <3> QED BY <1>1, <3>1, <3>2 DEF Standing
  <2> QED BY <1>4, <2>1, <2>2, RecordsLeave
<1> QED BY <1>a, <1>3, <1>4 DEF SnapshotsInOrder

LEMMA PeopleKeep ==
  ASSUME SnapshotTypes, SnapshotsInOrder, OpenEditor \/ SaveNote
  PROVE  SnapshotTypes' /\ SnapshotsInOrder'
<1>a. /\ history \in AFile /\ editor \in [open : BOOLEAN, entries : Seq(Entry)]
      /\ history.entries \in Seq(Entry) /\ editor.entries \in Seq(Entry)
      /\ notes \in 0 .. MaxNotes /\ notes \in Nat /\ mixed \in BOOLEAN /\ MaxNotes \in Nat
  BY SnapshotBounds DEF SnapshotTypes, AFile
<1>1. CASE OpenEditor
  <2>1. /\ ~editor.open /\ notes < MaxNotes /\ UNCHANGED <<history, copy, record, notes>>
        /\ editor' = [open |-> TRUE, entries |-> history.entries]
        /\ mixed' = (mixed \/ \E r \in Records : Inside(r))
    BY <1>1 DEF OpenEditor
  <2>2. SnapshotTypes' BY <1>a, <2>1 DEF SnapshotTypes
  <2>3. ASSUME ~mixed' PROVE InOrder(history, copy, record, editor', notes)
    <3>1. InOrder(history, copy, record, editor, notes) BY <2>1, <2>3 DEF SnapshotsInOrder
    <3>2. \A r \in Records : ~Standing(record[r], {"read", "copied"}) BY <2>1, <2>3 DEF Inside, Standing
    <3> QED BY <2>1, <3>1, <3>2 DEF InOrder
  <2> QED BY <2>1, <2>2, <2>3 DEF SnapshotsInOrder
<1>2. CASE SaveNote
  <2>1. /\ editor.open /\ editor' = [open |-> FALSE, entries |-> <<>>] /\ notes' = notes + 1
        /\ UNCHANGED <<copy, record>>
    BY <1>2 DEF SaveNote
  <2>2. notes < MaxNotes BY <2>1 DEF SnapshotTypes
  <2>3. notes' \in 0 .. MaxNotes /\ notes + 1 \in 1 .. MaxNotes BY <1>a, <2>1, <2>2
  <2>4. editor' \in [open : BOOLEAN, entries : Seq(Entry)] /\ ~editor'.open
    <3>1. <<>> \in Seq(Entry) OBVIOUS
    <3> QED BY <2>1, <3>1
  <2>5. CASE history' = Broken /\ mixed' = TRUE
    <3>1. history' \in AFile BY <2>5 DEF Broken, AFile
    <3> QED BY <2>1, <2>3, <2>4, <2>5, <3>1 DEF SnapshotTypes, SnapshotsInOrder
  <2>6. CASE /\ \E summary \in BOOLEAN :
                  history' = Whole(Append(editor.entries, Note(notes + 1, summary)))
             /\ UNCHANGED mixed
    <3>1. PICK summary \in BOOLEAN :
            history' = Whole(Append(editor.entries, Note(notes + 1, summary)))
      BY <2>6
    <3> DEFINE e == Note(notes + 1, summary)
    <3>2. e \in Notes /\ e.note = notes + 1 BY <2>3 DEF Note, Notes
    <3> HIDE DEF e
    <3>3. history' = Whole(Append(editor.entries, e)) BY <3>1 DEF e
    <3>4. Append(editor.entries, e) \in Seq(Entry) BY <1>a, <3>2 DEF Entry
    <3>5. /\ history' \in AFile /\ history'.form = "whole"
          /\ history'.entries = Append(editor.entries, e)
      BY <3>3, <3>4 DEF Whole, AFile
    <3>6. SnapshotTypes' BY <2>1, <2>3, <2>4, <2>6, <3>5 DEF SnapshotTypes
    <3>7. ASSUME InOrder(history, copy, record, editor, notes)
          PROVE  InOrder(history', copy, record, editor', notes')
      <4>1. /\ editor.entries = history.entries
            /\ \A r \in Records : ~Standing(record[r], {"read", "copied"})
            /\ HoldsAll(history.entries, WrittenOf(record), notes)
        BY <2>1, <3>7 DEF InOrder
      <4>2. \A i \in DOMAIN history.entries : history.entries[i] # e
        <5> SUFFICES ASSUME NEW i \in DOMAIN history.entries, history.entries[i] = e
                     PROVE  FALSE
          OBVIOUS
        <5>1. i \in NotesOf(history.entries) BY <3>2, RecordsAreNoNotes DEF NotesOf
        <5>2. history.entries[i].note \in 1 .. notes BY <4>1, <5>1 DEF HoldsAll
        <5> QED BY <1>a, <3>2, <5>2
      <4>3. WrittenOf(record) \in SUBSET Records /\ e \in Entry BY <3>2 DEF WrittenOf, Entry
      <4>4. HoldsAll(Append(history.entries, e), WrittenOf(record), notes + 1)
        BY <1>a, <3>2, <4>1, <4>2, <4>3, OneMore
      <4>5. \A r \in Records : ~Standing(record[r], {"copied"}) BY <4>1 DEF Standing
      <4> QED BY <2>1, <2>4, <3>5, <4>1, <4>4, <4>5 DEF InOrder
    <3> QED BY <2>1, <2>6, <3>6, <3>7 DEF SnapshotsInOrder
  <2> QED BY <1>2, <2>5, <2>6 DEF SaveNote
<1> QED BY <1>1, <1>2

\* Of any people's listed, those with fewer than the limit after them are no more than it.
LEMMA LastAreFew ==
  ASSUME NEW people, NEW m \in Nat, people \subseteq 1 .. m, NEW limit \in Nat \ {0}
  PROVE  LET last == {i \in people : Cardinality({j \in people : j > i}) < limit}
         IN IsFiniteSet(last) /\ Cardinality(last) <= limit
<1> DEFINE After(i) == {j \in people : j > i}
           last == {i \in people : Cardinality(After(i)) < limit}
           count == [i \in last |-> Cardinality(After(i))]
<1>1. IsFiniteSet(people)
  <2>1. IsFiniteSet(1 .. m) BY FS_Interval
  <2> QED BY <2>1, FS_Subset
<1>2. IsFiniteSet(last) BY <1>1, FS_Subset
<1>3. \A i \in people : IsFiniteSet(After(i)) /\ Cardinality(After(i)) \in Nat
  <2>1. \A i \in people : IsFiniteSet(After(i)) BY <1>1, FS_Subset
  <2> HIDE DEF After
  <2> QED BY <2>1, FS_CardinalityType
<1>4. ASSUME NEW i \in people, NEW j \in people, i < j
      PROVE  Cardinality(After(i)) # Cardinality(After(j))
  <2>1. After(j) \in SUBSET After(i)
    <3>1. ASSUME NEW k \in people, k > j PROVE k > i
      <4>1. i \in 1 .. m /\ j \in 1 .. m /\ k \in 1 .. m OBVIOUS
      <4> QED BY <1>4, <3>1, <4>1
    <3> QED BY <3>1
  <2>2. j \in After(i) /\ j \notin After(j) BY <1>4
  <2> HIDE DEF After
  <2> QED BY <1>3, <2>1, <2>2, FS_Subset
<1>5. \A i, j \in people : Cardinality(After(i)) = Cardinality(After(j)) => i = j
  <2> SUFFICES ASSUME NEW i \in people, NEW j \in people, Cardinality(After(i)) = Cardinality(After(j))
               PROVE  i = j
    OBVIOUS
  <2>1. i = j \/ i < j \/ j < i OBVIOUS
  <2>2. CASE i < j BY <1>4, <2>2
  <2>3. CASE j < i BY <1>4, <2>3
  <2> QED BY <2>1, <2>2, <2>3
<1> HIDE DEF After
<1>6. count \in [last -> 0 .. (limit - 1)]
  <2>1. ASSUME NEW i \in last PROVE Cardinality(After(i)) \in 0 .. (limit - 1)
    <3>1. Cardinality(After(i)) \in Nat /\ Cardinality(After(i)) < limit BY <1>3
    <3> QED BY <3>1
  <2> QED BY <2>1
<1>7. count \in Injection(last, 0 .. (limit - 1)) BY <1>5, <1>6 DEF Injection, IsInjective
<1>8. IsFiniteSet(0 .. (limit - 1)) /\ Cardinality(0 .. (limit - 1)) = limit
  <2>1. limit - 1 \in Int /\ 0 \in Int /\ ~(0 > limit - 1) /\ (limit - 1) - 0 + 1 = limit OBVIOUS
  <2> QED BY <2>1, FS_Interval
<1> HIDE DEF count, last
<1>9. Cardinality(last) <= limit BY <1>2, <1>7, <1>8, FS_Injection
<1> QED BY <1>2, <1>9 DEF last, After

LEMMA RecentAreFew ==
  ASSUME SnapshotTypes
  PROVE  RecentSnapshots \cap Records = {} /\ Cardinality(RecentSnapshots) <= ContextLimit
<1> DEFINE listed == history.entries
           people == NotesOf(listed)
           last == {i \in people : Cardinality({j \in people : j > i}) < ContextLimit}
           spoken == {j \in last : listed[j].summary}
           image == [i \in spoken |-> listed[i]]
<1>1. listed \in Seq(Entry) BY DEF SnapshotTypes, AFile
<1>2. Len(listed) \in Nat /\ people \subseteq 1 .. Len(listed) BY <1>1 DEF NotesOf
<1>3. \A i \in people : listed[i] \notin Records BY DEF NotesOf
<1>4. RecentSnapshots = {listed[i] : i \in spoken} BY DEF RecentSnapshots
<1> HIDE DEF listed, people
<1>5. IsFiniteSet(last) /\ Cardinality(last) <= ContextLimit
  BY <1>2, LastAreFew, SnapshotBounds
<1>6. last \subseteq people /\ spoken \in SUBSET last OBVIOUS
<1> HIDE DEF last
<1>7. IsFiniteSet(spoken) /\ Cardinality(spoken) <= Cardinality(last) BY <1>5, <1>6, FS_Subset
<1>8. RecentSnapshots \cap Records = {} BY <1>3, <1>4, <1>6
<1> HIDE DEF spoken
<1>9. image \in Surjection(spoken, RecentSnapshots) BY <1>4 DEF Surjection
<1> HIDE DEF image
<1>10. IsFiniteSet(RecentSnapshots) /\ Cardinality(RecentSnapshots) <= Cardinality(spoken)
  BY <1>7, <1>9, FS_Surjection
<1>11. /\ Cardinality(RecentSnapshots) \in Nat /\ Cardinality(spoken) \in Nat
       /\ Cardinality(last) \in Nat /\ ContextLimit \in Nat
  BY <1>5, <1>7, <1>10, FS_CardinalityType, SnapshotBounds
<1> QED BY <1>5, <1>7, <1>8, <1>10, <1>11

LEMMA SnapshotsStart ==
  ASSUME SnapshotsInit
  PROVE  SnapshotTypes /\ SnapshotsInOrder /\ NoFeedback
<1>1. /\ history = Nothing /\ copy = Nothing /\ editor = [open |-> FALSE, entries |-> <<>>]
      /\ record = [r \in Records |-> [at |-> "none", by |-> "nobody", entries |-> <<>>]]
      /\ notes = 0 /\ context = {} /\ mixed = FALSE
  BY DEF SnapshotsInit
<1>2. <<>> \in Seq(Entry) OBVIOUS
<1>3. Nothing \in AFile /\ Nothing.form = "none" /\ Nothing.entries = <<>>
  BY <1>2 DEF Nothing, AFile
<1>4. [at |-> "none", by |-> "nobody", entries |-> <<>>] \in ARecord BY <1>2 DEF ARecord
<1>5. editor \in [open : BOOLEAN, entries : Seq(Entry)] /\ ~editor.open BY <1>1, <1>2
<1>6. \A r \in Records : record[r].at = "none" BY <1>1
<1>7. record \in [Records -> ARecord] BY <1>1, <1>4
<1>8. SnapshotTypes
  <2>1. history \in AFile /\ copy \in AFile BY <1>1, <1>3
  <2>2. notes \in 0 .. MaxNotes BY <1>1, SnapshotBounds
  <2>3. mixed \in BOOLEAN BY <1>1
  <2> QED BY <1>5, <1>7, <2>1, <2>2, <2>3 DEF SnapshotTypes
<1>9. HoldsAll(<<>>, WrittenOf(record), 0)
  <2>1. DOMAIN <<>> = {} OBVIOUS
  <2>2. NotesOf(<<>>) = {} BY <2>1 DEF NotesOf
  <2>3. Range(<<>>) = {} BY <2>1 DEF Range
  <2>4. WrittenOf(record) = {} BY <1>6 DEF WrittenOf
  <2>5. 1 .. 0 = {} OBVIOUS
  <2> QED BY <2>1, <2>2, <2>3, <2>4, <2>5 DEF HoldsAll, IsInjective
<1>10. InOrder(history, copy, record, editor, notes)
  BY <1>1, <1>3, <1>5, <1>6, <1>9 DEF InOrder, Standing
<1>11. NoFeedback
  <2>1. Cardinality(context) = 0 BY <1>1, FS_EmptySet
  <2> QED BY <1>1, <2>1, SnapshotBounds DEF NoFeedback
<1> QED BY <1>8, <1>10, <1>11 DEF SnapshotsInOrder

LEMMA SnapshotsTurn ==
  ASSUME SnapshotTypes, SnapshotsInOrder, NoFeedback, [SnapshotsNext]_snapshotVars
  PROVE  SnapshotTypes' /\ SnapshotsInOrder' /\ NoFeedback'
<1>1. CASE ReadContext
  <2>1. UNCHANGED <<history, copy, record, editor, notes, mixed>> /\ context' = RecentSnapshots
    BY <1>1 DEF ReadContext
  <2>2. NoFeedback' BY <2>1, RecentAreFew DEF NoFeedback
  <2> QED BY <2>1, <2>2 DEF SnapshotTypes, SnapshotsInOrder
<1>2. CASE UNCHANGED snapshotVars
  BY <1>2 DEF snapshotVars, SnapshotTypes, SnapshotsInOrder, NoFeedback
<1>3. CASE SnapshotsNext /\ ~ReadContext
  <2>1. context' = context
    BY <1>3 DEF SnapshotsNext, EmitAsync, ReadEntries, WriteCopy, Rename, WriteFails, GuardDies,
                OpenEditor, SaveNote
  <2>2. SnapshotTypes' /\ SnapshotsInOrder'
    BY <1>3, EmitKeeps, ReadKeeps, CopyKeeps, RenameKeeps, FailuresKeep, PeopleKeep
    DEF SnapshotsNext
  <2> QED BY <2>1, <2>2 DEF NoFeedback
<1> QED BY <1>1, <1>2, <1>3

LEMMA SnapshotsFollow ==
  ASSUME SnapshotTypes, SnapshotsInOrder, NoFeedback
  PROVE  SnapshotsTypeOK /\ SnapshotsAreKept
<1>1. \A listed \in Seq(Entry) : Range(listed) \subseteq Entry BY DEF Range
<1>2. SnapshotsTypeOK BY <1>1 DEF SnapshotTypes, SnapshotsTypeOK, AFile, ARecord
<1>3. HistoryIsKept
  <2> SUFFICES ASSUME ~mixed PROVE HistoryIsKept
    BY DEF HistoryIsKept
  <2>1. history.form # "torn" /\ HoldsAll(history.entries, WrittenOf(record), notes)
    BY DEF SnapshotsInOrder, InOrder
  <2>2. {r \in Records : r \in Range(history.entries)} = WrittenOf(record)
    BY <2>1 DEF HoldsAll, WrittenOf
  <2> QED BY <2>1, <2>2 DEF HistoryIsKept, HoldsAll, WrittenOf
<1> QED BY <1>2, <1>3 DEF SnapshotsAreKept

\* Guards write behind their sessions, fail and die half-way, people write between them: as
\* long as no two are in the file at once it holds each record reported written and each note,
\* once and in order - and no intent is made of the guard's own records, or of too many notes.
THEOREM PartsSnapshotsAreKept == Spec => [](SnapshotsTypeOK /\ SnapshotsAreKept)
<1> DEFINE Inv == SnapshotTypes /\ SnapshotsInOrder /\ NoFeedback
<1>1. SnapshotsInit => Inv BY SnapshotsStart
<1>2. Inv /\ [SnapshotsNext]_snapshotVars => Inv' BY SnapshotsTurn
<1>3. Inv => SnapshotsTypeOK /\ SnapshotsAreKept BY SnapshotsFollow
<1> QED BY <1>1, <1>2, <1>3, PartsRunSnapshots, PTL

-----------------------------------------------------------------------------
(* Lineage, keys, risk and the proxy, in the behaviours of Parts *)

\* The lineage store keeps to its specification whichever component is at work.
THEOREM PartsLineage == Spec => [](LineageTypeOK /\ FlowIsKeptAndHeld /\ InheritedRefsAreReal)
BY PartsRunLineage, LineageTypeCorrect, LineageFlowIsKeptAndHeld, LineageInheritedRefsAreReal, PTL

\* While another component is at work nobody talks to the proxy.
LEMMA PartsProxyRests ==
  Spec /\ ~(part = "proxy") => [](ProxyTypeOK /\ NothingUnjudgedRuns /\ ClientsAreServed)
<1> DEFINE Rests == ~(part = "proxy") /\ NoClient
<1>1. Init /\ ~(part = "proxy") => Rests BY DEF Init
<1>2. Rests /\ [Next]_partVars => Rests'
  <2> SUFFICES ASSUME Rests, [Next]_partVars PROVE Rests'
    OBVIOUS
  <2>1. UNCHANGED <<part, link, proxy, verdict, toServer, fromServer, server, ran, answers>>
    BY DEF Next, partVars, calls, proxyVars
  <2> QED BY <2>1 DEF NoClient, ProxyStart
<1>3. Rests => ProxyTypeOK /\ NothingUnjudgedRuns /\ ClientsAreServed
  <2> SUFFICES ASSUME NoClient PROVE ProxyTypeOK /\ NothingUnjudgedRuns /\ ClientsAreServed
    OBVIOUS
  <2>1. /\ proxy.at = "read" /\ proxy.read = 0 /\ proxy.reply = Reply(0, "empty")
        /\ verdict = [i \in Messages |-> "none"] /\ server = [up |-> TRUE, spoken |-> 0]
        /\ DOMAIN ran = {} /\ DOMAIN answers = {} /\ Len(answers) = 0
    BY DEF NoClient, ProxyStart
  <2>2. /\ Reply(0, "empty") \in [of : 0 .. MaxMessages, body : Bodies]
        /\ server \in [up : BOOLEAN, spoken : 0 .. MaxSpoken]
    BY <2>1, ProxyBounds DEF Reply, Bodies
  <2>3. ProxyTypeOK BY <2>1, <2>2 DEF ProxyTypeOK
  <2>4. NothingUnjudgedRuns BY <2>1 DEF NothingUnjudgedRuns
  <2>5. ClientsAreServed
    BY <2>1 DEF ClientsAreServed, AnswersAreTheirOwn, NobodyWaitsForNothing
  <2> QED BY <2>3, <2>4, <2>5
<1> QED BY <1>1, <1>2, <1>3, PTL DEF Spec

\* And so does the proxy.
THEOREM PartsProxy == Spec => [](ProxyTypeOK /\ NothingUnjudgedRuns /\ ClientsAreServed)
BY PartsRunProxy, PartsProxyRests, ProxyTypeCorrect, ProxyNothingUnjudgedRuns,
   ProxyClientsAreServed, PTL

\* A label has one key, and a live one is somebody's unless its answer was lost.
THEOREM PartsOneKeyPerLabel == Spec => [](KeysTypeOK /\ OneKeyPerLabel)
BY PartsRunKeys, KeysOneKeyPerLabel, PTL

\* Whatever the handlers of a session's calls add counts for each call judged later; one
\* at a time, all that is reported of the session is exact.
THEOREM PartsRiskIsNeverForgotten == Spec => [](RiskTypeOK /\ RiskIsNeverForgotten)
BY PartsRunRisk, RiskNeverForgotten, PTL

\* The input stays one of those RulesInit has, or none.
LEMMA PartsKeepTheirInput == Spec => [](RulesInit \/ NoInput)
<1>1. Init => RulesInit \/ NoInput BY DEF Init
<1>2. [Next]_partVars => UNCHANGED input BY DEF Next, partVars, RulesNext
<1>3. RulesInit /\ UNCHANGED input => RulesInit'
  <2>1. ASSUME CallInput, UNCHANGED input PROVE CallInput'
    <3>1. PICK text \in SeqOf(Words, 2), first \in TriedRules, second \in TriedRules,
               key \in {"command", "query"}, user \in BOOLEAN :
            \E refusedPath \in {FALSE, user} :
              input = [of |-> "call",
                       call |-> [text |-> text, key |-> key, refusedPath |-> refusedPath,
                                 user |-> user],
                       rules |-> <<first, second>>]
      BY <2>1 DEF CallInput
    <3>a. PICK refusedPath \in {FALSE, user} :
            input = [of |-> "call",
                     call |-> [text |-> text, key |-> key, refusedPath |-> refusedPath,
                               user |-> user],
                     rules |-> <<first, second>>]
      BY <3>1
    <3>2. input' = [of |-> "call",
                    call |-> [text |-> text, key |-> key, refusedPath |-> refusedPath,
                              user |-> user],
                    rules |-> <<first, second>>]
      BY <2>1, <3>a
    <3> QED BY ONLY <3>2 DEF CallInput
  <2>2. OutputInput /\ UNCHANGED input => OutputInput' BY DEF OutputInput
  <2>3. GlobInput /\ UNCHANGED input => GlobInput' BY DEF GlobInput
  <2>4. ScopeInput /\ UNCHANGED input => ScopeInput' BY DEF ScopeInput
  <2>5. EgressInput /\ UNCHANGED input => EgressInput' BY DEF EgressInput
  <2>6. ChainInput /\ UNCHANGED input => ChainInput' BY DEF ChainInput
  <2> QED BY <2>1, <2>2, <2>3, <2>4, <2>5, <2>6 DEF RulesInit
<1>4. NoInput /\ UNCHANGED input => NoInput' BY DEF NoInput
<1> QED BY <1>1, <1>2, <1>3, <1>4, PTL DEF Spec

LEMMA PartsRulesHold ==
  RulesInit \/ NoInput
    => ScansMissNothing /\ DelegationGivesNothing /\ NetworkKeepsToTheLists /\ SanitizedPasses
BY RulesHold DEF NoInput

\* The glob scan of a signature and the chain scan of a session's calls find what there
\* is to find and nothing else, for texts, patterns, histories and windows of any length.
THEOREM PartsScansMissNothing == Spec => []ScansMissNothing
BY PartsKeepTheirInput, PartsRulesHold, PTL

\* Of roles with lists, a child whose scope was accepted and who is denied what its parent
\* is denied may make no call its parent may not make.
THEOREM PartsDelegationGivesNothing == Spec => []DelegationGivesNothing
BY PartsKeepTheirInput, PartsRulesHold, PTL

\* What the rendered policy lets through is on the allow list for the validator, and no
\* blocked entry stands for it, for host names of any number of labels.
THEOREM PartsNetworkKeepsToTheLists == Spec => []NetworkKeepsToTheLists
BY PartsKeepTheirInput, PartsRulesHold, PTL

\* A sanitized output passes the validator that refused it, and a sanitized call has the
\* flags its rules ask for and is otherwise as it was.
THEOREM PartsSanitizedPasses == Spec => []SanitizedPasses
BY PartsKeepTheirInput, PartsRulesHold, PTL

\* Every component's state stays what its module says it is.
THEOREM PartsTypeOK == Spec => []TypeOK
<1>1. /\ LineageTypeOK /\ ProxyTypeOK /\ HookTypeOK /\ AgentsTypeOK /\ WrapTypeOK
      /\ SnapshotsTypeOK /\ RiskTypeOK /\ KeysTypeOK
      => TypeOK
  BY DEF TypeOK
<1> QED
  BY <1>1, PartsLineage, PartsProxy, PartsHookKeepsToVerdicts, PartsAgentsActOnAnswers,
     PartsFilesAreGivenBack, PartsSnapshotsAreKept, PartsRiskIsNeverForgotten,
     PartsOneKeyPerLabel, PTL

=============================================================================
