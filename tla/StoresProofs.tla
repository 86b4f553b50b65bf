---------------------------- MODULE StoresProofs -----------------------------
(***************************************************************************)
(* What is proved of what the service keeps in memory by session or by       *)
(* label - lineage graphs, risk, API keys - for any family of sessions, any  *)
(* calls, operators and labels, and any bounds on their numbers.             *)
(***************************************************************************)
EXTENDS Lineage, Risk, Keys, FiniteSetTheorems, SequenceTheorems, TLAPS

-----------------------------------------------------------------------------
(* Lineage: what the actions change *)

LineageStores ==
  /\ graphOf \in [Family -> 0 .. graphs] /\ graphs \in 0 .. MaxGraphs
  /\ origin \in [Graphs -> [Refs -> Family \cup {Unknown}]]
  /\ edges \in [Graphs -> [Refs -> SUBSET Refs]]
  /\ expiries \in [Family -> Nat]

\* Nobody follows a nil graph.
LineageNoNil ==
  /\ \A r \in Requests : request[r].at \in {"check", "add"} => request[r].graph # 0
  /\ \A s \in Family : /\ heir[s].at \in {"verify", "graph", "seed"} => heir[s].graph # 0
                       /\ heir[s].at = "seed" => heir[s].own # 0

LineageTypes ==
  /\ LineageStores
  /\ request \in [Requests -> RequestState]
  /\ heir \in [Family -> HeirState]
  /\ LineageNoNil

LEMMA LineageTypesAre == LineageTypes <=> LineageTypeOK
BY DEF LineageTypes, LineageStores, LineageNoNil, LineageTypeOK

LEMMA FoundOrMade ==
  ASSUME LineageStores, NEW s \in Family
  PROVE  /\ Make(s) => /\ graphs + 1 \in Graphs /\ graphs' = graphs + 1
                       /\ graphOf' \in [Family -> 0 .. graphs']
                       /\ graphOf'[s] = graphs + 1
                       /\ \A t \in Family \ {s} : graphOf'[t] = graphOf[t]
         /\ HasGraph(s) => graphOf[s] \in Graphs
<1>1. MaxGraphs \in Nat
  BY LineageBounds
<1>2. ASSUME Make(s)
      PROVE  /\ graphs + 1 \in Graphs /\ graphs' = graphs + 1
             /\ graphOf' \in [Family -> 0 .. graphs']
             /\ graphOf'[s] = graphs + 1
             /\ \A t \in Family \ {s} : graphOf'[t] = graphOf[t]
  <2>1. graphs' = graphs + 1 /\ graphs \in Nat /\ graphs < MaxGraphs
    BY <1>1, <1>2 DEF LineageStores, Make
  <2>2. graphOf \in [Family -> 0 .. graphs + 1] /\ graphOf' = [graphOf EXCEPT ![s] = graphs + 1]
    BY <1>1, <1>2, <2>1 DEF LineageStores, Make
  <2> QED BY <1>1, <2>1, <2>2 DEF Graphs
<1>3. HasGraph(s) => graphOf[s] \in Graphs
  BY <1>1 DEF LineageStores, HasGraph, Graphs
<1> QED BY <1>2, <1>3

\* A ref once known stays known, and an edge changes only by a call that ends.
LEMMA RecordDoes ==
  ASSUME LineageTypes, NEW r \in Requests, request[r].graph \in Graphs, Add(r)
  PROVE  LET g == request[r].graph IN
         /\ Out(r) \in Refs
         /\ origin' \in [Graphs -> [Refs -> Family \cup {Unknown}]]
         /\ edges' \in [Graphs -> [Refs -> SUBSET Refs]]
         /\ origin'[g][Out(r)] = request[r].of /\ edges'[g][Out(r)] = request[r].refs
         /\ \A h \in Graphs, ref \in Refs :
              h # g \/ ref # Out(r) => /\ origin'[h][ref] = origin[h][ref]
                                      /\ edges'[h][ref] = edges[h][ref]
<1> DEFINE g == request[r].graph
           out == Out(r)
           of == request[r].of
           refs == request[r].refs
<1>1. origin' = [origin EXCEPT ![g][out] = of] /\ edges' = [edges EXCEPT ![g][out] = refs]
  BY DEF Add, Record
<1>2. out \in Refs /\ of \in Family /\ refs \in SUBSET Refs
  BY DEF LineageTypes, RequestState, Out, Refs
<1>3. g \in Graphs
  OBVIOUS
<1> HIDE DEF g, out, of, refs
<1>4. /\ origin' \in [Graphs -> [Refs -> Family \cup {Unknown}]]
      /\ origin'[g][out] = of
      /\ \A h \in Graphs, ref \in Refs : h # g \/ ref # out => origin'[h][ref] = origin[h][ref]
  BY <1>1, <1>2, <1>3 DEF LineageTypes, LineageStores
<1>5. /\ edges' \in [Graphs -> [Refs -> SUBSET Refs]]
      /\ edges'[g][out] = refs
      /\ \A h \in Graphs, ref \in Refs : h # g \/ ref # out => edges'[h][ref] = edges[h][ref]
  BY <1>1, <1>2, <1>3 DEF LineageTypes, LineageStores
<1> QED BY <1>2, <1>4, <1>5 DEF g, out, of, refs

LEMMA SeedDoes ==
  ASSUME LineageTypes, NEW s \in Family, heir[s].at = "seed", SeedRef(s)
  PROVE  LET own == heir[s].own
             from == heir[s].graph
         IN /\ own \in Graphs /\ from \in Graphs /\ heir' \in [Family -> HeirState]
            /\ origin' \in [Graphs -> [Refs -> Family \cup {Unknown}]]
            /\ \E ref \in Refs :
                 /\ ref \in heir[s].todo
                 /\ heir'[s].todo = heir[s].todo \ {ref} /\ heir'[s].refs = heir[s].refs
                 /\ IF heir[s].todo \ {ref} = {} THEN heir'[s].at = "done"
                    ELSE heir'[s].at = "seed" /\ heir'[s].own = own /\ heir'[s].graph = from
                 /\ origin'[own][ref] = IF origin[own][ref] = Unknown THEN origin[from][ref]
                                                                      ELSE origin[own][ref]
                 /\ \A h \in Graphs, q \in Refs : h # own \/ q # ref => origin'[h][q] = origin[h][q]
            /\ \A t \in Family \ {s} : heir'[t] = heir[t]
<1> DEFINE own == heir[s].own
           from == heir[s].graph
<1>1. heir[s] \in HeirState /\ own \in Graphs /\ from \in Graphs
  BY DEF LineageTypes, LineageNoNil, HeirState
<1>2. PICK ref \in heir[s].todo :
        LET rest == heir[s].todo \ {ref}
            last == rest = {}
        IN /\ heir' = [heir EXCEPT ![s] = [heir[s] EXCEPT !.todo = rest,
                         !.at = IF last THEN "done" ELSE "seed",
                         !.graph = IF last THEN 0 ELSE @, !.own = IF last THEN 0 ELSE @]]
           /\ origin' = IF origin[own][ref] = Unknown
                        THEN [origin EXCEPT ![own][ref] = origin[from][ref]] ELSE origin
  BY DEF SeedRef, HeirStep
<1> DEFINE rest == heir[s].todo \ {ref}
           last == rest = {}
           new == [heir[s] EXCEPT !.todo = rest, !.at = IF last THEN "done" ELSE "seed",
                     !.graph = IF last THEN 0 ELSE @, !.own = IF last THEN 0 ELSE @]
<1>3. /\ new \in HeirState /\ new.todo = rest /\ new.refs = heir[s].refs
      /\ IF rest = {} THEN new.at = "done"
         ELSE new.at = "seed" /\ new.own = own /\ new.graph = from
  BY <1>1 DEF HeirState
<1>4. ref \in Refs
  BY <1>1 DEF HeirState
<1>5. heir' = [heir EXCEPT ![s] = new]
  BY <1>2
<1> HIDE DEF own, from, new, rest
<1>6. heir' \in [Family -> HeirState] /\ heir'[s] = new /\ \A t \in Family \ {s} : heir'[t] = heir[t]
  BY <1>3, <1>5 DEF LineageTypes
<1>7. /\ origin' \in [Graphs -> [Refs -> Family \cup {Unknown}]]
      /\ origin'[own][ref] = IF origin[own][ref] = Unknown THEN origin[from][ref]
                                                           ELSE origin[own][ref]
      /\ \A h \in Graphs, q \in Refs : h # own \/ q # ref => origin'[h][q] = origin[h][q]
  BY <1>1, <1>2, <1>4 DEF LineageTypes, LineageStores
<1> QED BY <1>1, <1>3, <1>4, <1>6, <1>7 DEF own, from, rest

LEMMA RequestMoves ==
  ASSUME LineageTypes, NEW r \in Requests, NEW from, NEW state \in RequestState,
         RequestStep(r, from, state)
  PROVE  /\ request' \in [Requests -> RequestState]
         /\ request[r].at = from /\ request'[r] = state
         /\ \A q \in Requests \ {r} : request'[q] = request[q]
         /\ UNCHANGED <<heir, expiries>>
BY DEF RequestStep, LineageTypes

LEMMA HeirMoves ==
  ASSUME LineageTypes, NEW s \in Family, NEW from, NEW state \in HeirState,
         HeirStep(s, from, state)
  PROVE  /\ heir' \in [Family -> HeirState]
         /\ heir[s].at = from /\ heir'[s] = state
         /\ \A t \in Family \ {s} : heir'[t] = heir[t]
         /\ UNCHANGED <<request, expiries>>
BY DEF HeirStep, LineageTypes

\* What a call asked, and when it began.
SameCall(q, p) ==
  /\ q.of = p.of /\ q.uid = p.uid /\ q.refs = p.refs /\ q.external = p.external
  /\ q.since = p.since /\ q.tracked = p.tracked

LEMMA BeginRequestDoes ==
  ASSUME LineageTypes, NEW r \in Requests, NEW s \in Family, NEW uid \in Uids,
         NEW refs \in SUBSET Refs, NEW external \in BOOLEAN,
         BeginRequest(r, s, uid, refs, external)
  PROVE  /\ request' \in [Requests -> RequestState] /\ request[r].at = "new"
         /\ request'[r].at \in {"look", "edge"}
         /\ refs # {} /\ external => request'[r].at = "look"
         /\ request'[r].of = s /\ request'[r].refs = refs /\ request'[r].external = external
         /\ request'[r].since = expiries[s]
         /\ request'[r].tracked <=> \E ref \in refs : Knows(s, ref)
         /\ \A q \in Requests \ {r} : request'[q] = request[q]
         /\ UNCHANGED <<heir, expiries, graphOf, origin, edges, graphs>>
         /\ s = Root \/ heir[s].at = "done"
<1> DEFINE told == \E ref \in refs : Knows(s, ref)
           state == [at |-> IF refs # {} /\ external THEN "look" ELSE "edge",
                     of |-> s, uid |-> uid, refs |-> refs, external |-> external, graph |-> 0,
                     held |-> FALSE, since |-> expiries[s], tracked |-> told]
<1>1. RequestStep(r, "new", state) /\ UNCHANGED <<graphOf, origin, edges, graphs>>
      /\ (s = Root \/ heir[s].at = "done")
  BY DEF BeginRequest
<1>2. told \in BOOLEAN
  OBVIOUS
<1> HIDE DEF told
<1>3. /\ state \in RequestState /\ state.at \in {"look", "edge"}
      /\ refs # {} /\ external => state.at = "look"
      /\ state.of = s /\ state.refs = refs /\ state.external = external
      /\ state.since = expiries[s] /\ state.tracked = told
  BY <1>2 DEF RequestState, LineageTypes, LineageStores
<1> HIDE DEF state
<1>4. /\ request' \in [Requests -> RequestState] /\ request[r].at = "new" /\ request'[r] = state
      /\ \A q \in Requests \ {r} : request'[q] = request[q]
      /\ UNCHANGED <<heir, expiries>>
  BY <1>1, <1>3, RequestMoves
<1>5. request'[r].tracked <=> told
  BY <1>2, <1>3, <1>4
<1> QED BY <1>1, <1>3, <1>4, <1>5 DEF told

LEMMA LookUpGraphDoes ==
  ASSUME LineageTypes, NEW r \in Requests, LookUpGraph(r)
  PROVE  /\ request' \in [Requests -> RequestState] /\ request[r].at = "look"
         /\ SameCall(request'[r], request[r])
         /\ request'[r].at = IF graphOf[request[r].of] = 0 THEN "edge" ELSE "check"
         /\ request'[r].graph = graphOf[request[r].of]
         /\ \A q \in Requests \ {r} : request'[q] = request[q]
         /\ UNCHANGED <<heir, expiries, graphOf, origin, edges, graphs>>
<1> DEFINE g == graphOf[request[r].of]
           state == [request[r] EXCEPT !.at = IF g = 0 THEN "edge" ELSE "check", !.graph = g]
<1>1. RequestStep(r, "look", state) /\ UNCHANGED <<graphOf, origin, edges, graphs>>
  BY DEF LookUpGraph
<1>2. g \in Graphs \cup {0} /\ request[r] \in RequestState
  BY FoundOrMade DEF LineageTypes, LineageStores, HasGraph, RequestState
<1>3. /\ state \in RequestState /\ SameCall(state, request[r])
      /\ state.at = (IF g = 0 THEN "edge" ELSE "check") /\ state.graph = g
  BY <1>2 DEF RequestState, SameCall
<1>4. request'[r] = state
  BY <1>1, <1>3, RequestMoves
<1> HIDE DEF state
<1> QED BY <1>1, <1>3, <1>4, RequestMoves

LEMMA CheckRefsDoes ==
  ASSUME LineageTypes, NEW r \in Requests, CheckRefs(r)
  PROVE  /\ request' \in [Requests -> RequestState] /\ request[r].at = "check"
         /\ request'[r].at = "edge" /\ SameCall(request'[r], request[r])
         /\ request'[r].held <=>
              \E ref \in request[r].refs : origin[request[r].graph][ref] # Unknown
         /\ \A q \in Requests \ {r} : request'[q] = request[q]
         /\ UNCHANGED <<heir, expiries, graphOf, origin, edges, graphs>>
<1> DEFINE told == \E ref \in request[r].refs : origin[request[r].graph][ref] # Unknown
           state == [request[r] EXCEPT !.at = "edge", !.held = told]
<1>1. RequestStep(r, "check", state) /\ UNCHANGED <<graphOf, origin, edges, graphs>>
  BY DEF CheckRefs
<1>2. told \in BOOLEAN /\ request[r] \in RequestState
  BY DEF LineageTypes
<1> HIDE DEF told
<1>3. /\ state \in RequestState /\ state.at = "edge" /\ SameCall(state, request[r])
      /\ state.held = told
  BY <1>2 DEF RequestState, SameCall
<1> HIDE DEF state
<1> QED BY <1>1, <1>3, RequestMoves DEF told

\* AddEdge leaves the call with the graph its session has from then on.
LEMMA AddEdgeDoes ==
  ASSUME LineageTypes, NEW r \in Requests, AddEdge(r)
  PROVE  LET s == request[r].of IN
         /\ request' \in [Requests -> RequestState] /\ request[r].at = "edge"
         /\ SameCall(request'[r], request[r]) /\ request'[r].held = request[r].held
         /\ request'[r].at = "add" /\ request'[r].graph = graphOf'[s]
         /\ graphOf'[s] \in Graphs
         /\ \A q \in Requests \ {r} : request'[q] = request[q]
         /\ (HasGraph(s) /\ UNCHANGED <<graphOf, graphs>>) \/ (~HasGraph(s) /\ Make(s))
         /\ UNCHANGED <<heir, expiries, origin, edges>>
<1> DEFINE s == request[r].of
           g == IF HasGraph(s) THEN graphOf[s] ELSE graphs + 1
           state == [request[r] EXCEPT !.at = "add", !.graph = g]
<1>1. /\ RequestStep(r, "edge", state)
      /\ (HasGraph(s) /\ UNCHANGED <<graphOf, graphs>>) \/ (~HasGraph(s) /\ Make(s))
      /\ UNCHANGED <<origin, edges>>
  <2>1. RequestStep(r, "edge", state) /\ UNCHANGED <<origin, edges>>
    BY DEF AddEdge
  <2>2. CASE HasGraph(s)
    BY <2>1, <2>2 DEF AddEdge
  <2>3. CASE ~HasGraph(s)
    BY <2>1, <2>3 DEF AddEdge
  <2> QED BY <2>2, <2>3
<1>2. request[r] \in RequestState /\ s \in Family
  BY DEF LineageTypes, RequestState
<1>3. g \in Graphs /\ graphOf'[s] = g
  BY <1>1, <1>2, FoundOrMade DEF LineageTypes
<1>4. /\ state \in RequestState /\ SameCall(state, request[r]) /\ state.held = request[r].held
      /\ state.at = "add" /\ state.graph = g
  BY <1>2, <1>3 DEF RequestState, SameCall
<1>5. request'[r] = state
  BY <1>1, <1>4, RequestMoves
<1> HIDE DEF state, g
<1> QED BY <1>1, <1>3, <1>4, <1>5, RequestMoves

LEMMA AddDoes ==
  ASSUME LineageTypes, NEW r \in Requests, Add(r)
  PROVE  /\ request' \in [Requests -> RequestState] /\ request[r].at = "add"
         /\ SameCall(request'[r], request[r]) /\ request'[r].held = request[r].held
         /\ request'[r].at = "done" /\ request'[r].graph = 0
         /\ request[r].graph \in Graphs
         /\ \A q \in Requests \ {r} : request'[q] = request[q]
         /\ UNCHANGED <<heir, expiries, graphOf, graphs>>
<1> DEFINE state == [request[r] EXCEPT !.at = "done", !.graph = 0]
<1>1. RequestStep(r, "add", state) /\ UNCHANGED <<graphOf, graphs>>
  BY DEF Add, Record
<1>2. request[r] \in RequestState
  BY DEF LineageTypes
<1>3. /\ state \in RequestState /\ SameCall(state, request[r]) /\ state.held = request[r].held
      /\ state.at = "done" /\ state.graph = 0
  BY <1>2 DEF RequestState, SameCall
<1>4. request[r].graph \in Graphs
  BY <1>1, <1>2 DEF RequestStep, RequestState, LineageTypes, LineageNoNil
<1>5. request'[r] = state
  BY <1>1, <1>3, RequestMoves
<1> HIDE DEF state
<1> QED BY <1>1, <1>3, <1>4, <1>5, RequestMoves

-----------------------------------------------------------------------------
(* Lineage: the steps of a registration *)

LEMMA BeginHeirDoes ==
  ASSUME LineageTypes, NEW s \in Family, NEW parent \in Family, NEW refs \in SUBSET Refs,
         BeginHeir(s, parent, refs)
  PROVE  /\ heir' \in [Family -> HeirState] /\ heir[s].at = "new" /\ s # Root
         /\ heir'[s].at = IF refs = {} THEN "done"
                          ELSE IF graphOf[parent] = 0 THEN "refused" ELSE "verify"
         /\ heir'[s].graph = graphOf[parent]
         /\ heir'[s].refs = refs /\ heir'[s].todo = refs
         /\ \A t \in Family \ {s} : heir'[t] = heir[t]
         /\ UNCHANGED <<request, expiries, graphOf, origin, edges, graphs>>
<1> DEFINE at == IF refs = {} THEN "done" ELSE IF graphOf[parent] = 0 THEN "refused" ELSE "verify"
           state == [at |-> at, parent |-> parent, graph |-> graphOf[parent], own |-> 0,
                     refs |-> refs, todo |-> refs]
<1>1. /\ HeirStep(s, "new", state) /\ s # Root
      /\ UNCHANGED <<graphOf, origin, edges, graphs>>
  BY DEF BeginHeir
<1>2. graphOf[parent] \in Graphs \cup {0} /\ at \in {"done", "refused", "verify"}
  BY FoundOrMade DEF LineageTypes, LineageStores, HasGraph
<1> HIDE DEF at
<1>3. /\ state \in HeirState /\ state.at = at /\ state.graph = graphOf[parent]
      /\ state.refs = refs /\ state.todo = refs
  BY <1>2 DEF HeirState
<1> HIDE DEF state
<1>4. /\ heir' \in [Family -> HeirState] /\ heir[s].at = "new" /\ heir'[s] = state
      /\ \A t \in Family \ {s} : heir'[t] = heir[t]
      /\ UNCHANGED <<request, expiries>>
  BY <1>1, <1>3, HeirMoves
<1> QED BY <1>1, <1>3, <1>4 DEF at

LEMMA VerifyRefDoes ==
  ASSUME LineageTypes, NEW s \in Family, VerifyRef(s)
  PROVE  /\ heir' \in [Family -> HeirState] /\ heir[s].at = "verify"
         /\ heir'[s].graph = heir[s].graph /\ heir'[s].refs = heir[s].refs
         /\ \E ref \in heir[s].todo :
              LET rest == heir[s].todo \ {ref} IN
              \/ heir'[s].at = "refused" /\ heir'[s].todo = heir[s].todo
              \/ /\ origin[heir[s].graph][ref] # Unknown
                 /\ \/ rest # {} /\ heir'[s].at = "verify" /\ heir'[s].todo = rest
                    \/ rest = {} /\ heir'[s].at = "graph" /\ heir'[s].todo = heir[s].refs
         /\ \A t \in Family \ {s} : heir'[t] = heir[t]
         /\ UNCHANGED <<request, expiries, graphOf, origin, edges, graphs>>
<1>1. PICK ref \in heir[s].todo :
        LET told == origin[heir[s].graph][ref] # Unknown
            rest  == heir[s].todo \ {ref}
        IN  /\ HeirStep(s, "verify",
                 IF ~told THEN [heir[s] EXCEPT !.at = "refused"]
                 ELSE IF rest # {} THEN [heir[s] EXCEPT !.todo = rest]
                 ELSE [heir[s] EXCEPT !.at = "graph", !.todo = heir[s].refs])
            /\ UNCHANGED <<graphOf, origin, edges, graphs>>
  BY DEF VerifyRef
<1> DEFINE told == origin[heir[s].graph][ref] # Unknown
           rest == heir[s].todo \ {ref}
           state == IF ~told THEN [heir[s] EXCEPT !.at = "refused"]
                    ELSE IF rest # {} THEN [heir[s] EXCEPT !.todo = rest]
                    ELSE [heir[s] EXCEPT !.at = "graph", !.todo = heir[s].refs]
<1>2. heir[s] \in HeirState /\ rest \subseteq Refs
  BY DEF LineageTypes, HeirState
<1>0. HeirStep(s, "verify", state) /\ UNCHANGED <<graphOf, origin, edges, graphs>>
  BY <1>1
<1>3. heir[s].at = "verify"
  BY <1>0 DEF HeirStep
<1> HIDE DEF told, rest
<1>4. /\ state \in HeirState /\ state.graph = heir[s].graph /\ state.refs = heir[s].refs
      /\ \/ state.at = "refused" /\ state.todo = heir[s].todo
         \/ /\ told
            /\ \/ rest # {} /\ state.at = "verify" /\ state.todo = rest
               \/ rest = {} /\ state.at = "graph" /\ state.todo = heir[s].refs
  BY <1>2, <1>3 DEF HeirState
<1> HIDE DEF state
<1>5. /\ heir' \in [Family -> HeirState] /\ heir'[s] = state
      /\ \A t \in Family \ {s} : heir'[t] = heir[t]
      /\ UNCHANGED <<request, expiries>>
  BY <1>0, <1>4, HeirMoves
<1> QED BY <1>0, <1>3, <1>4, <1>5 DEF told, rest

LEMMA SeedInheritedDoes ==
  ASSUME LineageTypes, NEW s \in Family, SeedInherited(s)
  PROVE  /\ heir' \in [Family -> HeirState] /\ heir[s].at = "graph"
         /\ heir'[s].at = "seed" /\ heir'[s].own = graphOf'[s]
         /\ heir'[s].graph = heir[s].graph /\ heir'[s].refs = heir[s].refs
         /\ heir'[s].todo = heir[s].todo
         /\ graphOf'[s] \in Graphs
         /\ \A t \in Family \ {s} : heir'[t] = heir[t]
         /\ (HasGraph(s) /\ UNCHANGED <<graphOf, graphs>>) \/ (~HasGraph(s) /\ Make(s))
         /\ UNCHANGED <<request, expiries, origin, edges>>
<1> DEFINE g == IF HasGraph(s) THEN graphOf[s] ELSE graphs + 1
           state == [heir[s] EXCEPT !.at = "seed", !.graph = heir[s].graph, !.own = g]
<1>1. heir[s].at = "graph" /\ heir[s].graph # 0 /\ heir[s] \in HeirState
  BY DEF SeedInherited, InheritFrom, HeirStep, LineageTypes, LineageNoNil
<1>2. HeirStep(s, "graph", state) /\ UNCHANGED <<origin, edges>>
  BY <1>1 DEF SeedInherited, InheritFrom
<1>3. (HasGraph(s) /\ UNCHANGED <<graphOf, graphs>>) \/ (~HasGraph(s) /\ Make(s))
  <2>1. CASE HasGraph(s)
    BY <1>1, <2>1 DEF SeedInherited, InheritFrom
  <2>2. CASE ~HasGraph(s)
    BY <1>1, <2>2 DEF SeedInherited, InheritFrom
  <2> QED BY <2>1, <2>2
<1>4. g \in Graphs /\ graphOf'[s] = g
  BY <1>3, FoundOrMade DEF LineageTypes
<1>5. /\ state \in HeirState /\ state.at = "seed" /\ state.own = g
      /\ state.graph = heir[s].graph /\ state.refs = heir[s].refs /\ state.todo = heir[s].todo
  BY <1>1, <1>4 DEF HeirState
<1>6. heir'[s] = state
  BY <1>2, <1>5, HeirMoves
<1> HIDE DEF g, state
<1> QED BY <1>1, <1>2, <1>3, <1>4, <1>5, <1>6, HeirMoves

-----------------------------------------------------------------------------
(* Lineage: types *)

LEMMA ExpireDoes ==
  ASSUME LineageTypes, NEW s \in Family, Expire(s)
  PROVE  /\ expiries' \in [Family -> Nat] /\ graphOf' \in [Family -> 0 .. graphs]
         /\ expiries'[s] = expiries[s] + 1 /\ graphOf'[s] = 0
         /\ \A t \in Family \ {s} : expiries'[t] = expiries[t] /\ graphOf'[t] = graphOf[t]
         /\ s = Root \/ heir[s].at = "done"
         /\ UNCHANGED <<origin, edges, graphs, request, heir>>
<1>1. /\ expiries \in [Family -> Nat] /\ graphOf \in [Family -> 0 .. graphs]
      /\ expiries[s] + 1 \in Nat /\ 0 \in 0 .. graphs
  BY LineageBounds DEF LineageTypes, LineageStores
<1> QED BY <1>1 DEF Expire

LEMMA LineageTypeStep ==
  ASSUME LineageTypes, [LineageNext]_lineageVars
  PROVE  LineageTypes'
<1>0. /\ graphOf \in [Family -> 0 .. graphs] /\ graphs \in 0 .. MaxGraphs
      /\ origin \in [Graphs -> [Refs -> Family \cup {Unknown}]]
      /\ edges \in [Graphs -> [Refs -> SUBSET Refs]]
      /\ expiries \in [Family -> Nat]
      /\ request \in [Requests -> RequestState]
      /\ heir \in [Family -> HeirState]
      /\ MaxGraphs \in Nat
  BY LineageBounds DEF LineageTypes, LineageStores
<1>1. LineageStores'
  <2>1. graphOf' \in [Family -> 0 .. graphs'] /\ graphs' \in 0 .. MaxGraphs
    <3>1. ASSUME NEW s \in Family, Make(s)
          PROVE  graphOf' \in [Family -> 0 .. graphs'] /\ graphs' \in 0 .. MaxGraphs
      BY <1>0, <3>1, FoundOrMade DEF LineageTypes, Graphs
    <3>2. CASE UNCHANGED <<graphOf, graphs>>
      BY <1>0, <3>2
    <3>3. ASSUME NEW s \in Family, Expire(s)
          PROVE  graphOf' \in [Family -> 0 .. graphs'] /\ graphs' \in 0 .. MaxGraphs
      BY <1>0, <3>3, ExpireDoes
    <3>4. ASSUME NEW r \in Requests, AddEdge(r)
          PROVE  graphOf' \in [Family -> 0 .. graphs'] /\ graphs' \in 0 .. MaxGraphs
      BY <1>0, <3>1, <3>2, <3>4, AddEdgeDoes DEF RequestState
    <3>5. ASSUME NEW s \in Family, SeedInherited(s)
          PROVE  graphOf' \in [Family -> 0 .. graphs'] /\ graphs' \in 0 .. MaxGraphs
      BY <3>1, <3>2, <3>5, SeedInheritedDoes
    <3>6. \/ UNCHANGED <<graphOf, graphs>>
          \/ \E r \in Requests : AddEdge(r)
          \/ \E s \in Family : SeedInherited(s) \/ Expire(s)
      BY DEF LineageNext, Validate, BeginRequest, LookUpGraph, CheckRefs, Add, Record, RegisterHeir,
         BeginHeir, VerifyRef, SeedRef, lineageVars
    <3> QED BY <3>2, <3>3, <3>4, <3>5, <3>6
  <2>2. /\ origin' \in [Graphs -> [Refs -> Family \cup {Unknown}]]
        /\ edges' \in [Graphs -> [Refs -> SUBSET Refs]]
    <3>1. ASSUME NEW r \in Requests, Add(r)
          PROVE  /\ origin' \in [Graphs -> [Refs -> Family \cup {Unknown}]]
                 /\ edges' \in [Graphs -> [Refs -> SUBSET Refs]]
      BY <3>1, AddDoes, RecordDoes
    <3>2. ASSUME NEW s \in Family, SeedRef(s)
          PROVE  /\ origin' \in [Graphs -> [Refs -> Family \cup {Unknown}]]
                 /\ edges' = edges
      <4>1. heir[s].at = "seed" /\ edges' = edges
        BY <3>2 DEF SeedRef, HeirStep
      <4> QED BY <3>2, <4>1, SeedDoes
    <3>3. \/ UNCHANGED <<origin, edges>>
          \/ \E r \in Requests : Add(r)
          \/ \E s \in Family : SeedRef(s)
      BY DEF LineageNext, Validate, BeginRequest, LookUpGraph, CheckRefs, AddEdge, RegisterHeir,
         BeginHeir, VerifyRef, SeedInherited, InheritFrom, Expire, lineageVars
    <3>4. CASE UNCHANGED <<origin, edges>>
      BY <1>0, <3>4 DEF Graphs, Refs, Unknown
    <3> QED BY <1>0, <3>1, <3>2, <3>3, <3>4 DEF Graphs, Refs, Unknown
  <2>3. expiries' \in [Family -> Nat]
    <3>a. ASSUME NEW r \in Requests, Validate(r) PROVE expiries' = expiries
      BY <3>a DEF Validate, BeginRequest, LookUpGraph, CheckRefs, AddEdge, Add, Record, RequestStep
    <3>b. ASSUME NEW t \in Family, RegisterHeir(t) PROVE expiries' = expiries
      BY <3>b DEF RegisterHeir, BeginHeir, VerifyRef, SeedInherited, InheritFrom, SeedRef, HeirStep
    <3>1. expiries' = expiries \/ \E s \in Family : Expire(s)
      BY <3>a, <3>b DEF LineageNext, lineageVars
    <3>2. ASSUME NEW s \in Family, Expire(s)
          PROVE  expiries' = [expiries EXCEPT ![s] = expiries[s] + 1]
      BY <3>2 DEF Expire
    <3>3. expiries \in [Family -> Nat]
      BY <1>0
    <3> QED BY <3>1, <3>2, <3>3
  <2> QED BY <2>1, <2>2, <2>3 DEF LineageStores, Graphs, Refs, Unknown
<1>2. CASE \E r \in Requests : Validate(r)
  <2>1. PICK r \in Requests : Validate(r)
    BY <1>2
  <2> DEFINE Fine == /\ request' \in [Requests -> RequestState] /\ UNCHANGED heir
                     /\ \A q \in Requests \ {r} : request'[q] = request[q]
                     /\ request'[r].at \in {"check", "add"} => request'[r].graph # 0
  <2>2. ASSUME NEW s \in Family, NEW uid \in Uids, NEW refs \in SUBSET Refs,
               NEW external \in BOOLEAN, BeginRequest(r, s, uid, refs, external)
        PROVE  Fine
    BY <2>2, BeginRequestDoes
  <2>3. ASSUME LookUpGraph(r)
        PROVE  Fine
    BY <2>3, LookUpGraphDoes
  <2>4. ASSUME CheckRefs(r)
        PROVE  Fine
    BY <2>4, CheckRefsDoes
  <2>5. ASSUME AddEdge(r)
        PROVE  Fine
    BY <2>5, AddEdgeDoes DEF Graphs
  <2>6. ASSUME Add(r)
        PROVE  Fine
    BY <2>6, AddDoes
  <2>7. Fine
    BY <2>1, <2>2, <2>3, <2>4, <2>5, <2>6 DEF Validate
  <2>8. LineageNoNil'
    BY <2>7 DEF LineageTypes, LineageNoNil
  <2> QED BY <1>0, <1>1, <2>7, <2>8 DEF LineageTypes, RequestState, HeirState, Refs, Graphs
<1>3. CASE \E s \in Family : RegisterHeir(s)
  <2>1. PICK s \in Family : RegisterHeir(s)
    BY <1>3
  <2> DEFINE Fine == /\ heir' \in [Family -> HeirState] /\ UNCHANGED request
                     /\ \A t \in Family \ {s} : heir'[t] = heir[t]
                     /\ heir'[s].at \in {"verify", "graph", "seed"} => heir'[s].graph # 0
                     /\ heir'[s].at = "seed" => heir'[s].own # 0
  <2>2. ASSUME NEW parent \in Family, NEW refs \in SUBSET Refs, BeginHeir(s, parent, refs)
        PROVE  Fine
    BY <2>2, BeginHeirDoes
  <2>3. ASSUME VerifyRef(s)
        PROVE  Fine
    <3>1. heir[s].graph # 0
      BY <2>3, VerifyRefDoes DEF LineageTypes, LineageNoNil
    <3> QED BY <2>3, <3>1, VerifyRefDoes
  <2>4. ASSUME SeedInherited(s)
        PROVE  Fine
    <3>1. heir[s].graph # 0
      BY <2>4, SeedInheritedDoes DEF LineageTypes, LineageNoNil
    <3> QED BY <2>4, <3>1, SeedInheritedDoes DEF Graphs
  <2>5. ASSUME SeedRef(s)
        PROVE  Fine
    <3>1. heir[s].at = "seed" /\ UNCHANGED request
      BY <2>5 DEF SeedRef, HeirStep
    <3>2. heir[s].graph # 0 /\ heir[s].own # 0
      BY <3>1 DEF LineageTypes, LineageNoNil
    <3>3. heir'[s].at = "seed" => heir'[s].own = heir[s].own /\ heir'[s].graph = heir[s].graph
      BY <2>5, <3>1, SeedDoes
    <3>4. heir'[s].at \in {"done", "seed"}
      BY <2>5, <3>1, SeedDoes
    <3> QED BY <2>5, <3>1, <3>2, <3>3, <3>4, SeedDoes
  <2>7. Fine
    BY <2>1, <2>2, <2>3, <2>4, <2>5 DEF RegisterHeir
  <2>8. LineageNoNil'
    BY <2>7 DEF LineageTypes, LineageNoNil
  <2> QED BY <1>0, <1>1, <2>7, <2>8 DEF LineageTypes, RequestState, HeirState, Refs, Graphs
<1>4. CASE UNCHANGED <<request, heir>>
  BY <1>0, <1>1, <1>4 DEF LineageTypes, LineageNoNil, RequestState, HeirState, Refs, Graphs
<1> QED BY <1>2, <1>3, <1>4 DEF LineageNext, Expire, lineageVars

LEMMA LineageTypesInit == LineageInit => LineageTypes
<1> SUFFICES ASSUME LineageInit
             PROVE  LineageTypes
  OBVIOUS
<1>1. LineageStores
  BY LineageBounds DEF LineageInit, LineageStores
<1>2. request \in [Requests -> RequestState]
  <2>1. (CHOOSE u \in Uids : TRUE) \in Uids
    BY FamilyAssumption
  <2> HIDE FamilyAssumption
  <2> QED BY <2>1, FamilyAssumption DEF LineageInit, RequestState
<1>3. heir \in [Family -> HeirState]
  BY FamilyAssumption DEF LineageInit, HeirState
<1>4. LineageNoNil
  BY DEF LineageInit, LineageNoNil
<1> QED BY <1>1, <1>2, <1>3, <1>4 DEF LineageTypes

\* Every variable of the lineage store stays within its type, and nobody follows a nil graph.
THEOREM LineageTypeCorrect == LineageSpec => []LineageTypeOK
<1>1. LineageInit => LineageTypes
  BY LineageTypesInit
<1>2. LineageTypes /\ [LineageNext]_lineageVars => LineageTypes'
  BY LineageTypeStep
<1>3. LineageTypes => LineageTypeOK
  BY LineageTypesAre
<1> QED BY <1>1, <1>2, <1>3, PTL DEF LineageSpec

-----------------------------------------------------------------------------
(* Lineage: the inductive invariant *)

Known(g, ref) == origin[g][ref] # Unknown

\* A call belongs to a session that may call, began no later than now, and until the session
\* expires adds its edge to the graph the session has.
CallsBegun ==
  \A r \in Requests : request[r].at # "new" =>
    LET s == request[r].of IN
    /\ s = Root \/ heir[s].at = "done"
    /\ request[r].since <= expiries[s]
    /\ request[r].at = "add" /\ request[r].since = expiries[s] => request[r].graph = graphOf[s]

\* Only who is registered expires.
RegisteredExpire ==
  /\ heir[Root].at = "new"
  /\ \A s \in Family : expiries[s] # 0 => s = Root \/ heir[s].at = "done"

\* What was claimed and is no longer to do is told: to the parent's graph while it is verified,
\* to the child's own while it is copied.
HeirsVerified ==
  \A s \in Family :
    /\ heir[s].todo \subseteq heir[s].refs
    /\ heir[s].at = "verify" =>
         \A ref \in heir[s].refs \ heir[s].todo : Known(heir[s].graph, ref)
    /\ heir[s].at \in {"graph", "seed"} =>
         \A ref \in heir[s].refs : Known(heir[s].graph, ref)
    /\ heir[s].at = "graph" => heir[s].todo = heir[s].refs
    /\ heir[s].at = "seed" =>
         /\ heir[s].own = graphOf[s]
         /\ \A ref \in heir[s].refs \ heir[s].todo : Known(heir[s].own, ref)

\* TrackedDataIsHeld, while the call is on its way.
TrackedIsSeen ==
  \A r \in Requests :
    LET q == request[r] IN
    q.external /\ q.tracked /\ q.since = expiries[q.of] =>
      /\ q.at = "look" =>
           /\ graphOf[q.of] # 0
           /\ \E ref \in q.refs : Known(graphOf[q.of], ref)
      /\ q.at = "check" => \E ref \in q.refs : Known(q.graph, ref)
      /\ q.at \in {"edge", "add", "done"} => q.held

LineageInv ==
  /\ LineageTypes /\ CallsBegun /\ RegisteredExpire /\ HeirsVerified /\ TrackedIsSeen
  /\ FlowIsRecorded /\ InheritedRefsAreReal

\* An answered call and a finished registration do not change any more.
LEMMA DoneStays ==
  ASSUME LineageTypes, [LineageNext]_lineageVars
  PROVE  /\ \A r \in Requests : request[r].at = "done" => request'[r] = request[r]
         /\ \A s \in Family : heir[s].at = "done" => heir'[s] = heir[s]
<1>1. ASSUME NEW q \in Requests, NEW state, NEW from \in {"new", "look", "check", "edge", "add"},
             RequestStep(q, from, state)
      PROVE  /\ \A r \in Requests : request[r].at = "done" => request'[r] = request[r]
             /\ heir' = heir
  BY <1>1 DEF RequestStep, LineageTypes
<1>2. ASSUME NEW t \in Family, NEW state, NEW from \in {"new", "verify", "graph", "seed"},
             HeirStep(t, from, state)
      PROVE  /\ \A s \in Family : heir[s].at = "done" => heir'[s] = heir[s]
             /\ request' = request
  BY <1>2 DEF HeirStep, LineageTypes
<1>3. CASE \E r \in Requests : Validate(r)
  <2>1. PICK q \in Requests : Validate(q)
    BY <1>3
  <2>2. \E from \in {"new", "look", "check", "edge", "add"} : \E state : RequestStep(q, from, state)
    <3>1. CASE LookUpGraph(q) \/ CheckRefs(q)
      BY <3>1 DEF LookUpGraph, CheckRefs
    <3>2. CASE AddEdge(q)
      BY <3>2 DEF AddEdge, Record
    <3>3. CASE Add(q)
      BY <3>3 DEF Add, Record
    <3>4. CASE \E s, uid, refs, external : BeginRequest(q, s, uid, refs, external)
      BY <3>4 DEF BeginRequest
    <3> QED BY <2>1, <3>1, <3>2, <3>3, <3>4 DEF Validate
  <2> QED BY <1>1, <2>2
<1>4. CASE \E s \in Family : RegisterHeir(s)
  <2>1. \E t \in Family, from \in {"new", "verify", "graph", "seed"} :
          \E state : HeirStep(t, from, state)
    BY <1>4 DEF RegisterHeir, BeginHeir, VerifyRef, SeedInherited, InheritFrom, SeedRef
  <2> QED BY <1>2, <2>1
<1>5. CASE UNCHANGED <<request, heir>>
  BY <1>5
<1> QED BY <1>3, <1>4, <1>5 DEF LineageNext, Expire, lineageVars

\* A session keeps its graph until it expires.
LEMMA GraphStays ==
  ASSUME LineageTypes, [LineageNext]_lineageVars, NEW s \in Family
  PROVE  \/ expiries'[s] = expiries[s] /\ (graphOf[s] # 0 => graphOf'[s] = graphOf[s])
         \/ Expire(s) /\ expiries'[s] = expiries[s] + 1
<1>1. CASE UNCHANGED expiries /\ (UNCHANGED graphOf \/ \E t \in Family : ~HasGraph(t) /\ Make(t))
  <2>1. ASSUME NEW t \in Family, ~HasGraph(t), Make(t), graphOf[s] # 0
        PROVE  graphOf'[s] = graphOf[s]
    BY <2>1, FoundOrMade DEF LineageTypes, HasGraph
  <2> QED BY <1>1, <2>1
<1>2. CASE \E r \in Requests : AddEdge(r)
  <2>1. PICK r \in Requests : AddEdge(r)
    BY <1>2
  <2>2. request[r].of \in Family
    BY DEF LineageTypes, RequestState
  <2> QED BY <1>1, <2>1, <2>2, AddEdgeDoes
<1>3. CASE \E t \in Family : SeedInherited(t)
  BY <1>1, <1>3, SeedInheritedDoes
<1>4. CASE \E t \in Family : Expire(t)
  BY <1>4, ExpireDoes
<1>5. CASE UNCHANGED <<graphOf, expiries>>
  BY <1>5
<1>6. ASSUME NEW r \in Requests, Validate(r), ~AddEdge(r)
      PROVE  UNCHANGED <<graphOf, expiries>>
  BY <1>6 DEF Validate, BeginRequest, LookUpGraph, CheckRefs, Add, Record, RequestStep
<1>7. ASSUME NEW t \in Family, RegisterHeir(t), ~SeedInherited(t)
      PROVE  UNCHANGED <<graphOf, expiries>>
  BY <1>7 DEF RegisterHeir, BeginHeir, VerifyRef, SeedRef, HeirStep
<1> QED BY <1>2, <1>3, <1>4, <1>5, <1>6, <1>7 DEF LineageNext, lineageVars

\* What a graph knows it goes on knowing, from the session it came from.
LEMMA KnownStays ==
  ASSUME LineageTypes, HeirsVerified, [LineageNext]_lineageVars,
         NEW g \in Graphs, NEW ref \in Refs
  PROVE  /\ Known(g, ref) => origin'[g][ref] # Unknown
         /\ \/ origin'[g][ref] = origin[g][ref]
            \/ \E r \in Requests : /\ Add(r) /\ Out(r) = ref /\ g = request[r].graph
                                   /\ origin'[g][ref] = request[r].of
            \/ \E h \in Graphs : Known(h, ref) /\ origin'[g][ref] = origin[h][ref]
         /\ \/ edges'[g][ref] = edges[g][ref]
            \/ \E r \in Requests : /\ Add(r) /\ Out(r) = ref /\ g = request[r].graph
                                   /\ edges'[g][ref] = request[r].refs
<1>1. CASE \E r \in Requests : Add(r)
  <2>1. PICK r \in Requests : Add(r)
    BY <1>1
  <2>2. request[r].graph \in Graphs /\ request[r].of # Unknown
    BY <2>1, AddDoes, FamilyAssumption DEF LineageTypes, RequestState
  <2>3. CASE g = request[r].graph /\ ref = Out(r)
    BY <2>1, <2>2, <2>3, RecordDoes
  <2>4. CASE g # request[r].graph \/ ref # Out(r)
    BY <2>1, <2>2, <2>4, RecordDoes DEF Known
  <2> QED BY <2>3, <2>4
<1>2. CASE \E s \in Family : SeedRef(s)
  <2>1. PICK s \in Family : SeedRef(s)
    BY <1>2
  <2>2. heir[s].at = "seed" /\ UNCHANGED edges
    BY <2>1 DEF SeedRef, HeirStep
  <2> DEFINE own == heir[s].own
             from == heir[s].graph
  <2>3. own \in Graphs /\ from \in Graphs
    BY <2>1, <2>2, SeedDoes
  <2>4. PICK copied \in heir[s].todo :
          /\ origin'[own][copied] = IF origin[own][copied] = Unknown THEN origin[from][copied]
                                                                ELSE origin[own][copied]
          /\ \A h \in Graphs, q \in Refs : h # own \/ q # copied => origin'[h][q] = origin[h][q]
    BY <2>1, <2>2, SeedDoes
  <2>5. Known(from, copied) /\ copied \in Refs
    BY <2>2 DEF HeirsVerified, LineageTypes, HeirState
  <2> HIDE DEF own, from
  <2>6. CASE g = own /\ ref = copied /\ origin[g][ref] = Unknown
    BY <2>2, <2>3, <2>4, <2>5, <2>6 DEF Known
  <2>7. CASE ~(g = own /\ ref = copied /\ origin[g][ref] = Unknown)
    BY <2>2, <2>4, <2>7 DEF Known
  <2> QED BY <2>6, <2>7
<1>3. CASE UNCHANGED <<origin, edges>>
  BY <1>3 DEF Known
<1> QED BY <1>1, <1>2, <1>3 DEF LineageNext, Validate, BeginRequest, LookUpGraph, CheckRefs, AddEdge,
        RegisterHeir, BeginHeir, VerifyRef, SeedInherited, InheritFrom, Expire, lineageVars

\* Nobody changes another's call or registration.
LEMMA OnlyOwn ==
  ASSUME LineageTypes, [LineageNext]_lineageVars
  PROVE  /\ \A r \in Requests : request'[r] = request[r] \/ Validate(r)
         /\ \A s \in Family : heir'[s] = heir[s] \/ RegisterHeir(s)
<1>1. ASSUME NEW r \in Requests, Validate(r)
      PROVE  heir' = heir /\ \A q \in Requests \ {r} : request'[q] = request[q]
  BY <1>1, BeginRequestDoes, LookUpGraphDoes, CheckRefsDoes, AddEdgeDoes, AddDoes DEF Validate
<1>2. ASSUME NEW s \in Family, RegisterHeir(s)
      PROVE  request' = request /\ \A t \in Family \ {s} : heir'[t] = heir[t]
  <2>1. ASSUME SeedRef(s)
        PROVE  heir[s].at = "seed" /\ request' = request
    BY <2>1 DEF SeedRef, HeirStep
  <2>2. ASSUME SeedRef(s)
        PROVE  request' = request /\ \A t \in Family \ {s} : heir'[t] = heir[t]
    BY <2>1, <2>2, SeedDoes
  <2> QED BY <1>2, <2>2, BeginHeirDoes, VerifyRefDoes, SeedInheritedDoes DEF RegisterHeir
<1>3. CASE UNCHANGED <<request, heir>>
  BY <1>3
<1> QED BY <1>1, <1>2, <1>3 DEF LineageNext, Expire, lineageVars

LEMMA CallsBegunStep ==
  ASSUME LineageTypes, CallsBegun, RegisteredExpire, [LineageNext]_lineageVars
  PROVE  CallsBegun'
<1> DEFINE Begun(q) == q.at # "new" =>
      /\ q.of = Root \/ heir'[q.of].at = "done"
      /\ q.since <= expiries'[q.of]
      /\ q.at = "add" /\ q.since = expiries'[q.of] => q.graph = graphOf'[q.of]
<1>0. \A r \in Requests : request[r].of \in Family /\ request[r].since \in Nat
  BY DEF LineageTypes, RequestState
<1>9. \A s \in Family : expiries[s] \in Nat
  BY DEF LineageTypes, LineageStores
<1>1. ASSUME NEW r \in Requests, request[r].at # "new",
             request'[r].at # "add" \/ request'[r] = request[r],
             SameCall(request'[r], request[r])
      PROVE  Begun(request'[r])
  <2>1. request[r].of = Root \/ heir'[request[r].of].at = "done"
    BY <1>0, <1>1, DoneStays DEF CallsBegun
  <2>2. request[r].since <= expiries'[request[r].of]
    BY <1>0, <1>1, <1>9, GraphStays DEF CallsBegun
  <2>3. ASSUME request'[r].at = "add", request[r].since = expiries'[request[r].of]
        PROVE  request[r].graph = graphOf'[request[r].of]
    <3>1. request[r].at = "add" /\ request[r].graph # 0
      BY <1>1, <2>3 DEF LineageTypes, LineageNoNil
    <3> QED BY <1>0, <1>9, <1>1, <2>3, <3>1, GraphStays DEF CallsBegun
  <2> QED BY <1>1, <2>1, <2>2, <2>3 DEF SameCall
<1>2. ASSUME NEW r \in Requests, NEW s \in Family, NEW uid \in Uids, NEW refs \in SUBSET Refs,
             NEW external \in BOOLEAN, BeginRequest(r, s, uid, refs, external)
      PROVE  Begun(request'[r])
  BY <1>2, <1>9, BeginRequestDoes
<1>3. ASSUME NEW r \in Requests, AddEdge(r)
      PROVE  Begun(request'[r])
  <2>1. /\ request[r].of = Root \/ heir[request[r].of].at = "done"
        /\ request[r].since <= expiries[request[r].of]
    BY <1>3, AddEdgeDoes DEF CallsBegun
  <2> QED BY <1>3, <2>1, AddEdgeDoes DEF SameCall
<1>4. ASSUME NEW r \in Requests, LookUpGraph(r) \/ CheckRefs(r) \/ Add(r)
      PROVE  Begun(request'[r])
  BY <1>1, <1>4, LookUpGraphDoes, CheckRefsDoes, AddDoes
<1>5. ASSUME NEW r \in Requests, request'[r] = request[r]
      PROVE  Begun(request'[r])
  BY <1>1, <1>5 DEF SameCall
<1>6. \A r \in Requests : Begun(request'[r])
  BY <1>2, <1>3, <1>4, <1>5, OnlyOwn DEF Validate
<1> QED BY <1>6 DEF CallsBegun

LEMMA RegisteredExpireStep ==
  ASSUME LineageTypes, RegisteredExpire, [LineageNext]_lineageVars
  PROVE  RegisteredExpire'
<1>1. ASSUME NEW s \in Family, expiries'[s] # 0
      PROVE  s = Root \/ heir'[s].at = "done"
  BY <1>1, GraphStays, ExpireDoes, DoneStays DEF RegisteredExpire
<1>2. heir'[Root].at = "new"
  <2>1. ~RegisterHeir(Root)
    <3>1. ASSUME SeedRef(Root)
          PROVE  heir[Root].at = "seed"
      BY <3>1 DEF SeedRef, HeirStep
    <3> QED BY <3>1, FamilyAssumption, BeginHeirDoes, VerifyRefDoes, SeedInheritedDoes
            DEF RegisterHeir, RegisteredExpire
  <2> QED BY <2>1, FamilyAssumption, OnlyOwn DEF RegisteredExpire
<1> QED BY <1>1, <1>2 DEF RegisteredExpire

LEMMA HeirsVerifiedStep ==
  ASSUME LineageTypes, RegisteredExpire, HeirsVerified, [LineageNext]_lineageVars
  PROVE  HeirsVerified'
<1> DEFINE KnownNow(g, ref) == origin'[g][ref] # Unknown
           Verified(s) ==
             /\ heir'[s].todo \subseteq heir'[s].refs
             /\ heir'[s].at = "verify" =>
                  \A ref \in heir'[s].refs \ heir'[s].todo : KnownNow(heir'[s].graph, ref)
             /\ heir'[s].at \in {"graph", "seed"} =>
                  \A ref \in heir'[s].refs : KnownNow(heir'[s].graph, ref)
             /\ heir'[s].at = "graph" => heir'[s].todo = heir'[s].refs
             /\ heir'[s].at = "seed" =>
                  /\ heir'[s].own = graphOf'[s]
                  /\ \A ref \in heir'[s].refs \ heir'[s].todo : KnownNow(heir'[s].own, ref)
<1>0. \A s \in Family : heir[s].refs \subseteq Refs /\ heir[s].graph \in Graphs \cup {0}
                        /\ heir[s].own \in Graphs \cup {0}
  BY DEF LineageTypes, HeirState
<1>1. \A g \in Graphs, ref \in Refs : Known(g, ref) => KnownNow(g, ref)
  BY KnownStays
<1>2. ASSUME NEW s \in Family, heir'[s] = heir[s]
      PROVE  Verified(s)
  <2>1. heir[s].at \in {"verify", "graph", "seed"} => heir[s].graph \in Graphs
    BY <1>0 DEF LineageTypes, LineageNoNil
  <2>2. heir[s].at = "seed" => heir[s].own \in Graphs /\ graphOf'[s] = graphOf[s]
    <3>1. ASSUME heir[s].at = "seed"
          PROVE  ~Expire(s) /\ heir[s].own \in Graphs
      BY <1>0, <3>1, ExpireDoes DEF RegisteredExpire, LineageTypes, LineageNoNil
    <3>2. heir[s].at = "seed" => graphOf[s] # 0
      BY <3>1 DEF HeirsVerified, LineageTypes, LineageNoNil
    <3> QED BY <3>1, <3>2, GraphStays
  <2> HIDE DEF KnownNow
  <2> QED BY <1>0, <1>1, <1>2, <2>1, <2>2 DEF HeirsVerified
<1>3. ASSUME NEW s \in Family, NEW parent \in Family, NEW refs \in SUBSET Refs,
             BeginHeir(s, parent, refs)
      PROVE  Verified(s)
  BY <1>3, BeginHeirDoes
<1>4. ASSUME NEW s \in Family, VerifyRef(s)
      PROVE  Verified(s)
  <2>1. /\ heir[s].at = "verify" /\ origin' = origin
        /\ heir'[s].graph = heir[s].graph /\ heir'[s].refs = heir[s].refs
        /\ heir[s].todo \subseteq heir[s].refs
        /\ \A ref \in heir[s].refs \ heir[s].todo : Known(heir[s].graph, ref)
    BY <1>4, VerifyRefDoes DEF HeirsVerified
  <2>2. PICK ref \in heir[s].todo :
          LET rest == heir[s].todo \ {ref} IN
          \/ heir'[s].at = "refused" /\ heir'[s].todo = heir[s].todo
          \/ /\ origin[heir[s].graph][ref] # Unknown
             /\ \/ rest # {} /\ heir'[s].at = "verify" /\ heir'[s].todo = rest
                \/ rest = {} /\ heir'[s].at = "graph" /\ heir'[s].todo = heir[s].refs
    BY <1>4, VerifyRefDoes
  <2> QED BY <2>1, <2>2 DEF Known
<1>5. ASSUME NEW s \in Family, SeedInherited(s)
      PROVE  Verified(s)
  <2>1. /\ heir[s].todo = heir[s].refs /\ \A ref \in heir[s].refs : Known(heir[s].graph, ref)
    BY <1>5, SeedInheritedDoes DEF HeirsVerified
  <2> QED BY <1>5, <2>1, SeedInheritedDoes DEF Known
<1>6. ASSUME NEW s \in Family, SeedRef(s)
      PROVE  Verified(s)
  <2>1. heir[s].at = "seed" /\ UNCHANGED graphOf
    BY <1>6 DEF SeedRef, HeirStep
  <2>2. heir[s].own \in Graphs /\ heir[s].graph \in Graphs
    BY <1>6, <2>1, SeedDoes
  <2>3. PICK ref \in Refs :
          /\ ref \in heir[s].todo
          /\ heir'[s].todo = heir[s].todo \ {ref} /\ heir'[s].refs = heir[s].refs
          /\ IF heir[s].todo \ {ref} = {} THEN heir'[s].at = "done"
             ELSE heir'[s].at = "seed" /\ heir'[s].own = heir[s].own /\ heir'[s].graph = heir[s].graph
          /\ origin'[heir[s].own][ref] =
               IF origin[heir[s].own][ref] = Unknown THEN origin[heir[s].graph][ref]
                                                     ELSE origin[heir[s].own][ref]
    BY <1>6, <2>1, SeedDoes
  <2>4. KnownNow(heir[s].own, ref)
    BY <2>1, <2>3 DEF HeirsVerified, Known
  <2>5. /\ \A q \in heir[s].refs : KnownNow(heir[s].graph, q)
        /\ \A q \in heir[s].refs \ heir[s].todo : KnownNow(heir[s].own, q)
        /\ heir[s].own = graphOf[s] /\ heir[s].todo \subseteq heir[s].refs
    BY <1>0, <1>1, <2>1, <2>2 DEF HeirsVerified
  <2> HIDE DEF KnownNow
  <2>6. CASE heir[s].todo \ {ref} = {}
    BY <2>3, <2>5, <2>6
  <2>7. CASE heir[s].todo \ {ref} # {}
    <3>1. heir[s].refs \ heir'[s].todo \subseteq (heir[s].refs \ heir[s].todo) \cup {ref}
      BY <2>3
    <3> QED BY <2>1, <2>3, <2>4, <2>5, <2>7, <3>1
  <2> QED BY <2>6, <2>7
<1>7. \A s \in Family : Verified(s)
  BY <1>2, <1>3, <1>4, <1>5, <1>6, OnlyOwn DEF RegisterHeir
<1> QED BY <1>7 DEF HeirsVerified, Known

LEMMA FlowStep ==
  ASSUME LineageTypes, CallsBegun, HeirsVerified, FlowIsRecorded, [LineageNext]_lineageVars
  PROVE  FlowIsRecorded'
<1> DEFINE Recorded(g, out) ==
      /\ g \in Graphs /\ origin'[g][out] # Unknown
      /\ \E q \in Requests : Out(q)' = out /\ request'[q].at = "done"
                             /\ edges'[g][out] = request'[q].refs
<1>0. /\ \A r \in Requests : request[r].of \in Family /\ request[r].since \in Nat /\ Out(r) \in Refs
      /\ \A s \in Family : expiries[s] \in Nat /\ (graphOf[s] # 0 => graphOf[s] \in Graphs)
  BY FoundOrMade DEF LineageTypes, LineageStores, RequestState, Out, Refs, HasGraph
<1>1. ASSUME NEW r \in Requests, Add(r)
      PROVE  /\ request'[r].at = "done" /\ request'[r].of = request[r].of
             /\ request'[r].refs = request[r].refs /\ request'[r].since = request[r].since
             /\ Out(r)' = Out(r)
  BY <1>1, AddDoes DEF SameCall, Out
<1>2. ASSUME NEW r \in Requests, request[r].at = "done",
             request[r].since = expiries'[request[r].of]
      PROVE  graphOf'[request[r].of] # 0 /\ Recorded(graphOf'[request[r].of], Out(r))
  <2> DEFINE s == request[r].of
             g == graphOf[s]
             out == Out(r)
  <2>1. ~Expire(s) \/ expiries'[s] # expiries[s] + 1
    <3>1. request[r].since <= expiries[s]
      BY <1>2 DEF CallsBegun
    <3> QED BY <1>0, <1>2, <3>1
  <2>2. expiries'[s] = expiries[s] /\ (g # 0 => graphOf'[s] = g)
    BY <1>0, <2>1, GraphStays
  <2>3. g # 0 /\ Known(g, out)
    BY <1>2, <2>2 DEF FlowIsRecorded, HasGraph, Known
  <2>4. PICK q \in Requests : Out(q) = out /\ request[q].at = "done" /\ edges[g][out] = request[q].refs
    BY <1>2, <2>2 DEF FlowIsRecorded
  <2>5. g \in Graphs /\ out \in Refs
    BY <1>0, <2>3
  <2>6. request'[q] = request[q] /\ Out(q)' = out
    BY <2>4, DoneStays DEF Out
  <2>7. \E p \in Requests : Out(p)' = out /\ request'[p].at = "done"
                            /\ edges'[g][out] = request'[p].refs
    <3>1. CASE edges'[g][out] = edges[g][out]
      BY <2>4, <2>6, <3>1
    <3>2. CASE \E p \in Requests : Add(p) /\ Out(p) = out /\ edges'[g][out] = request[p].refs
      BY <1>1, <3>2
    <3> HIDE DEF g, out
    <3> QED BY <2>5, <3>1, <3>2, KnownStays
  <2>8. origin'[g][out] # Unknown
    BY <2>3, <2>5, KnownStays
  <2> HIDE DEF out, g
  <2>9. graphOf'[s] = g
    BY <2>2, <2>3
  <2> QED BY <2>3, <2>5, <2>7, <2>8, <2>9 DEF out
<1>3. ASSUME NEW r \in Requests, Add(r), request[r].since = expiries'[request[r].of]
      PROVE  graphOf'[request[r].of] # 0 /\ Recorded(graphOf'[request[r].of], Out(r))
  <2> DEFINE g == request[r].graph
  <2>1. /\ g \in Graphs /\ g = graphOf[request[r].of]
        /\ UNCHANGED <<graphOf, expiries>> /\ request[r].at = "add"
    BY <1>3, AddDoes DEF CallsBegun
  <2>2. origin'[g][Out(r)] # Unknown /\ edges'[g][Out(r)] = request[r].refs
    BY <1>0, <1>3, <2>1, RecordDoes, FamilyAssumption
  <2>3. graphOf'[request[r].of] = g /\ g # 0
    BY <2>1 DEF Graphs
  <2> HIDE DEF g
  <2> QED BY <1>1, <1>3, <2>1, <2>2, <2>3
<1> HIDE DEF Recorded
<1>4. ASSUME NEW r \in Requests, request'[r].at = "done",
             request'[r].since = expiries'[request'[r].of]
      PROVE  graphOf'[request'[r].of] # 0 /\ Recorded(graphOf'[request'[r].of], Out(r)')
  <2>1. CASE request'[r] = request[r]
    <3>1. Out(r)' = Out(r)
      BY <2>1 DEF Out
    <3> QED BY <1>2, <1>4, <2>1, <3>1
  <2>2. CASE Add(r)
    BY <1>1, <1>3, <1>4, <2>2
  <2>3. ASSUME LookUpGraph(r) \/ CheckRefs(r) \/ AddEdge(r)
        PROVE  FALSE
    BY <1>4, <2>3, LookUpGraphDoes, CheckRefsDoes, AddEdgeDoes
  <2>4. ASSUME NEW s \in Family, NEW uid \in Uids, NEW refs \in SUBSET Refs,
               NEW external \in BOOLEAN, BeginRequest(r, s, uid, refs, external)
        PROVE  FALSE
    BY <1>4, <2>4, BeginRequestDoes
  <2> QED BY <2>1, <2>2, <2>3, <2>4, OnlyOwn DEF Validate
<1> QED BY <1>4 DEF FlowIsRecorded, Recorded, HasGraph, Out

LEMMA InheritedStep ==
  ASSUME LineageTypes, CallsBegun, RegisteredExpire, HeirsVerified, InheritedRefsAreReal,
         [LineageNext]_lineageVars
  PROVE  InheritedRefsAreReal'
<1>0. /\ \A s \in Family : /\ expiries[s] \in Nat /\ heir[s].refs \subseteq Refs
                           /\ graphOf[s] # 0 => graphOf[s] \in Graphs
      /\ \A r \in Requests : request[r].of \in Family
  BY FoundOrMade DEF LineageTypes, LineageStores, HeirState, RequestState, HasGraph
<1>1. ASSUME NEW s \in Family, heir'[s].at = "done", heir'[s].refs # {}, expiries'[s] = 0
      PROVE  /\ graphOf'[s] # 0
             /\ \A ref \in heir'[s].refs : origin'[graphOf'[s]][ref] # Unknown
  <2>1. expiries[s] = 0 /\ (graphOf[s] # 0 => graphOf'[s] = graphOf[s])
    BY <1>0, <1>1, GraphStays
  <2>2. CASE heir'[s] = heir[s]
    <3>1. graphOf[s] # 0 /\ \A ref \in heir[s].refs : Known(graphOf[s], ref)
      BY <1>1, <2>1, <2>2 DEF InheritedRefsAreReal, HasGraph, Known
    <3> QED BY <1>0, <2>1, <2>2, <3>1, KnownStays
  <2>3. CASE SeedRef(s)
    <3>1. heir[s].at = "seed" /\ UNCHANGED graphOf
      BY <2>3 DEF SeedRef, HeirStep
    <3>2. heir[s].own \in Graphs /\ heir[s].graph \in Graphs
      BY <2>3, <3>1, SeedDoes
    <3>3. PICK ref \in Refs :
            /\ ref \in heir[s].todo
            /\ heir'[s].refs = heir[s].refs
            /\ IF heir[s].todo \ {ref} = {} THEN heir'[s].at = "done" ELSE heir'[s].at = "seed"
            /\ origin'[heir[s].own][ref] =
                 IF origin[heir[s].own][ref] = Unknown THEN origin[heir[s].graph][ref]
                                                       ELSE origin[heir[s].own][ref]
      BY <2>3, <3>1, SeedDoes
    <3>4. /\ heir[s].own = graphOf[s]
          /\ \A q \in heir[s].refs : Known(heir[s].graph, q)
          /\ \A q \in heir[s].refs \ heir[s].todo : Known(heir[s].own, q)
          /\ heir[s].todo \subseteq heir[s].refs
      BY <3>1 DEF HeirsVerified
    <3>5. origin'[heir[s].own][ref] # Unknown
      BY <3>3, <3>4 DEF Known
    <3>6. \A q \in heir[s].refs : q = ref \/ q \notin heir[s].todo
      BY <1>1, <3>3
    <3>7. \A q \in heir[s].refs : origin'[heir[s].own][q] # Unknown
      BY <1>0, <3>2, <3>4, <3>5, <3>6, KnownStays
    <3>8. graphOf'[s] = heir[s].own /\ heir[s].own # 0
      BY <3>1, <3>2, <3>4 DEF Graphs
    <3> QED BY <3>3, <3>7, <3>8
  <2>4. ASSUME VerifyRef(s) \/ SeedInherited(s)
        PROVE  FALSE
    BY <1>1, <2>4, VerifyRefDoes, SeedInheritedDoes
  <2>5. ASSUME NEW parent \in Family, NEW refs \in SUBSET Refs, BeginHeir(s, parent, refs)
        PROVE  FALSE
    BY <1>1, <2>5, BeginHeirDoes
  <2> QED BY <2>2, <2>3, <2>4, <2>5, OnlyOwn DEF RegisterHeir
<1>2. ASSUME NEW g \in Graphs, NEW ref \in Refs, origin'[g][ref] # Unknown
      PROVE  /\ origin'[g][ref] = ref[1]
             /\ \E r \in Requests : Out(r)' = ref /\ request'[r].at = "done"
  <2>1. ASSUME NEW h \in Graphs, Known(h, ref)
        PROVE  /\ origin[h][ref] = ref[1]
               /\ \E r \in Requests : Out(r)' = ref /\ request'[r].at = "done"
    <3>1. /\ origin[h][ref] = ref[1]
          /\ \E r \in Requests : Out(r) = ref /\ request[r].at = "done"
      BY <2>1 DEF InheritedRefsAreReal, Known
    <3> QED BY <3>1, DoneStays DEF Out
  <2>2. ASSUME NEW r \in Requests, Add(r), Out(r) = ref, origin'[g][ref] = request[r].of
        PROVE  /\ origin'[g][ref] = ref[1]
               /\ Out(r)' = ref /\ request'[r].at = "done"
    <3>1. request[r].of = ref[1]
      BY <2>2 DEF Out
    <3> QED BY <2>2, <3>1, AddDoes DEF Out, SameCall
  <2>3. CASE origin'[g][ref] = origin[g][ref]
    BY <1>2, <2>1, <2>3 DEF Known
  <2> QED BY <2>1, <2>2, <2>3, KnownStays
<1> QED BY <1>1, <1>2 DEF InheritedRefsAreReal, HasGraph

\* What a session holds on its own account, its graph knows.
LEMMA HoldsIsKnown ==
  ASSUME FlowIsRecorded, InheritedRefsAreReal, NEW s \in Family, NEW ref, Knows(s, ref)
  PROVE  graphOf[s] # 0 /\ Known(graphOf[s], ref)
<1>1. CASE \E r \in Requests : /\ request[r].at = "done" /\ Out(r) = ref
                               /\ request[r].of = s /\ request[r].since = expiries[s]
  BY <1>1 DEF FlowIsRecorded, HasGraph, Known
<1>2. CASE heir[s].at = "done" /\ ref \in heir[s].refs /\ expiries[s] = 0
  BY <1>2 DEF InheritedRefsAreReal, HasGraph, Known
<1> QED BY <1>1, <1>2 DEF Knows

LEMMA TrackedStep ==
  ASSUME LineageInv, [LineageNext]_lineageVars
  PROVE  TrackedIsSeen'
<1> USE DEF LineageInv
<1> DEFINE KnownNow(g, ref) == origin'[g][ref] # Unknown
           Seen(q) == q.external /\ q.tracked /\ q.since = expiries'[q.of] =>
             /\ q.at = "look" =>
                  /\ graphOf'[q.of] # 0
                  /\ \E ref \in q.refs : KnownNow(graphOf'[q.of], ref)
             /\ q.at = "check" => \E ref \in q.refs : KnownNow(q.graph, ref)
             /\ q.at \in {"edge", "add", "done"} => q.held
<1>0. /\ \A r \in Requests : /\ request[r].of \in Family /\ request[r].since \in Nat
                             /\ request[r].refs \subseteq Refs
                             /\ request[r].graph \in Graphs \cup {0}
      /\ \A s \in Family : expiries[s] \in Nat /\ (graphOf[s] # 0 => graphOf[s] \in Graphs)
  BY FoundOrMade DEF LineageTypes, LineageStores, RequestState, HasGraph
<1>1. \A g \in Graphs, ref \in Refs : Known(g, ref) => KnownNow(g, ref)
  BY KnownStays
<1>2. ASSUME NEW r \in Requests, request[r].at # "new",
             request[r].since = expiries'[request[r].of]
      PROVE  /\ expiries'[request[r].of] = expiries[request[r].of]
             /\ graphOf[request[r].of] # 0 => graphOf'[request[r].of] = graphOf[request[r].of]
  <2>1. request[r].since <= expiries[request[r].of]
    BY <1>2 DEF CallsBegun
  <2> QED BY <1>0, <1>2, <2>1, GraphStays
<1>3. ASSUME NEW r \in Requests, request'[r] = request[r]
      PROVE  Seen(request'[r])
  <2> SUFFICES ASSUME request[r].external, request[r].tracked, request[r].at # "new",
                      request[r].since = expiries'[request[r].of]
               PROVE  Seen(request[r])
    BY <1>3
  <2>1. /\ request[r].since = expiries[request[r].of]
        /\ graphOf[request[r].of] # 0 => graphOf'[request[r].of] = graphOf[request[r].of]
    BY <1>2
  <2>2. request[r].at = "check" => request[r].graph \in Graphs
    BY <1>0 DEF LineageTypes, LineageNoNil
  <2> HIDE DEF KnownNow
  <2> QED BY <1>0, <1>1, <2>1, <2>2 DEF TrackedIsSeen
<1>4. ASSUME NEW r \in Requests, NEW s \in Family, NEW uid \in Uids, NEW refs \in SUBSET Refs,
             NEW external \in BOOLEAN, BeginRequest(r, s, uid, refs, external)
      PROVE  Seen(request'[r])
  <2>1. (\E ref \in refs : Knows(s, ref))
          => graphOf[s] # 0 /\ \E ref \in refs : Known(graphOf[s], ref)
    BY HoldsIsKnown
  <2>2. UNCHANGED <<graphOf, origin>>
    BY <1>4, BeginRequestDoes
  <2> QED BY <1>4, <2>1, <2>2, BeginRequestDoes DEF Known
<1>5. ASSUME NEW r \in Requests, LookUpGraph(r)
      PROVE  Seen(request'[r])
  BY <1>5, LookUpGraphDoes DEF SameCall, TrackedIsSeen, Known
<1>6. ASSUME NEW r \in Requests, CheckRefs(r)
      PROVE  Seen(request'[r])
  BY <1>6, CheckRefsDoes DEF SameCall, TrackedIsSeen, Known
<1>7. ASSUME NEW r \in Requests, AddEdge(r) \/ Add(r)
      PROVE  Seen(request'[r])
  BY <1>7, AddEdgeDoes, AddDoes DEF SameCall, TrackedIsSeen
<1>8. \A r \in Requests : Seen(request'[r])
  BY <1>3, <1>4, <1>5, <1>6, <1>7, OnlyOwn DEF Validate
<1> QED BY <1>8 DEF TrackedIsSeen, Known

LEMMA LineageInvInit == LineageInit => LineageInv
<1>1. LineageInit => CallsBegun /\ RegisteredExpire /\ HeirsVerified /\ TrackedIsSeen
  BY FamilyAssumption DEF LineageInit, CallsBegun, RegisteredExpire, HeirsVerified, TrackedIsSeen
<1>2. LineageInit => FlowIsRecorded /\ InheritedRefsAreReal
  BY DEF LineageInit, FlowIsRecorded, InheritedRefsAreReal, HasGraph
<1> QED BY <1>1, <1>2, LineageTypesInit DEF LineageInv

LEMMA LineageInvStep == LineageInv /\ [LineageNext]_lineageVars => LineageInv'
BY LineageTypeStep, CallsBegunStep, RegisteredExpireStep, HeirsVerifiedStep, FlowStep,
   InheritedStep, TrackedStep DEF LineageInv

LEMMA LineageInvHolds == LineageSpec => []LineageInv
BY LineageInvInit, LineageInvStep, PTL DEF LineageSpec

\* What a session knows and takes out of the boundary is held for review, and the graph has the
\* edge of every answered call - whichever calls, registrations and expiries interleave, for any
\* number of them.
THEOREM LineageFlowIsKeptAndHeld == LineageSpec => []FlowIsKeptAndHeld
<1>1. LineageInv => FlowIsKeptAndHeld
  BY DEF LineageInv, FlowIsKeptAndHeld, TrackedDataIsHeld, TrackedIsSeen
<1> QED BY <1>1, LineageInvHolds, PTL

\* A registered child knows all it was registered with, and what a graph says of a ref's origin
\* is the session whose answered call produced it, across any chain of hand-overs.
THEOREM LineageInheritedRefsAreReal == LineageSpec => []InheritedRefsAreReal
<1>1. LineageInv => InheritedRefsAreReal
  BY DEF LineageInv
<1> QED BY <1>1, LineageInvHolds, PTL

-----------------------------------------------------------------------------
(* Keys *)

\* Keys are numbered as they are made, and no two entries share one; who is not waiting for
\* an answer has no new key, and everybody has the first.
KeysNumbered ==
  /\ \A e, f \in entries : e.key = f.key => e = f
  /\ \A e \in entries : e.key <= issued.made
  /\ \A k \in issued.away : k <= issued.made
  /\ \A o \in Operators : 1 \in known[o] /\ (rotation[o].at = "answer" <=> rotation[o].key # 0)

\* Somebody has the key, is about to be told it, or its answer was lost.
Accounted(k, knowing, turning, lost) ==
  (\E o \in Operators : k \in knowing[o] \/ k = turning[o].key) \/ k \in lost

KeysKept ==
  /\ \A e, f \in entries : e.label = f.label => e = f
  /\ \A e \in entries : e.key \notin issued.away /\ Accounted(e.key, known, rotation, issued.untold)

LEMMA KeysKeptAre == KeysKept <=> OneKeyPerLabel
BY DEF KeysKept, OneKeyPerLabel, LiveKeys, Accounted

LEMMA RotationDoes ==
  ASSUME KeysTypeOK, NEW o \in Operators, NEW from,
         NEW state \in [at : {"idle", "passed", "answer"}, label : KeyLabels, key : 0 .. MaxKeys],
         RotationStep(o, from, state)
  PROVE  /\ rotation[o].at = from /\ rotation'[o] = state
         /\ \A p \in Operators : p # o => rotation'[p] = rotation[p]
         /\ rotation' \in [Operators -> [at : {"idle", "passed", "answer"}, label : KeyLabels,
                                         key : 0 .. MaxKeys]]
BY DEF RotationStep, KeysTypeOK

LEMMA KeysStart ==
  ASSUME KeysInit
  PROVE  KeysTypeOK /\ KeysNumbered /\ KeysKept
<1> DEFINE first == [label |-> Default, key |-> 1]
<1>1. /\ entries = {first} /\ known = [o \in Operators |-> {1}]
      /\ rotation = [o \in Operators |-> IdleRequest]
      /\ issued = [made |-> 1, away |-> {}, untold |-> {}]
  BY DEF KeysInit, FirstEntries
<1>2. /\ first \in [label : KeyLabels, key : 1 .. MaxKeys] /\ first.key = 1
      /\ IdleRequest \in [at : {"idle", "passed", "answer"}, label : KeyLabels, key : 0 .. MaxKeys]
      /\ IdleRequest.at = "idle" /\ IdleRequest.key = 0 /\ 1 \in 1 .. MaxKeys
  BY KeyBounds DEF IdleRequest
<1> HIDE DEF first
<1>3. /\ issued \in [made : 1 .. MaxKeys, away : SUBSET (1 .. MaxKeys), untold : SUBSET (1 .. MaxKeys)]
      /\ issued.made = 1 /\ issued.away = {}
  BY <1>1, <1>2
<1>4. KeysTypeOK BY <1>1, <1>2, <1>3 DEF KeysTypeOK
<1>5. KeysNumbered BY <1>1, <1>2, <1>3 DEF KeysNumbered
<1>6. KeysKept BY <1>1, <1>2, <1>3, KeyBounds DEF KeysKept, Accounted
<1> QED BY <1>4, <1>5, <1>6

LEMMA VerifyKeeps ==
  ASSUME KeysTypeOK, KeysNumbered, KeysKept, NEW o \in Operators, Verify(o)
  PROVE  KeysTypeOK' /\ KeysNumbered' /\ KeysKept'
<1>1. PICK label \in KeyLabels :
        RotationStep(o, "idle", [at |-> "passed", label |-> label, key |-> 0])
  BY DEF Verify
<1> DEFINE state == [at |-> "passed", label |-> label, key |-> 0]
<1>2. state \in [at : {"idle", "passed", "answer"}, label : KeyLabels, key : 0 .. MaxKeys]
      /\ state.key = 0 /\ state.at = "passed"
  BY KeyBounds
<1>3. RotationStep(o, "idle", state) BY <1>1
<1> HIDE DEF state
<1>4. UNCHANGED <<entries, known, issued>> BY DEF Verify
<1>5. rotation[o].key = 0 BY <1>2, <1>3, RotationDoes DEF KeysNumbered
<1>6. \A p \in Operators : rotation'[p].key = rotation[p].key
  BY <1>2, <1>3, <1>5, RotationDoes
<1>7. KeysTypeOK' BY <1>2, <1>3, <1>4, RotationDoes DEF KeysTypeOK
<1>8. KeysNumbered' BY <1>2, <1>3, <1>4, <1>6, RotationDoes DEF KeysNumbered
<1>9. KeysKept' BY <1>4, <1>6 DEF KeysKept, Accounted
<1> QED BY <1>7, <1>8, <1>9

LEMMA RotateKeeps ==
  ASSUME KeysTypeOK, KeysNumbered, KeysKept, NEW o \in Operators, Rotate(o)
  PROVE  KeysTypeOK' /\ KeysNumbered' /\ KeysKept'
<1> DEFINE label == rotation[o].label
           key == issued.made + 1
           state == [rotation[o] EXCEPT !.at = "answer", !.key = key]
           new == [label |-> label, key |-> key]
<1>1. /\ issued.made < MaxKeys /\ RotationStep(o, "passed", state) /\ known' = known
      /\ entries' = Others(label) \cup {new}
      /\ issued' = [issued EXCEPT !.made = key, !.away = @ \cup Away(label)]
  BY DEF Rotate
<1>2. /\ issued \in [made : 1 .. MaxKeys, away : SUBSET (1 .. MaxKeys), untold : SUBSET (1 .. MaxKeys)]
      /\ rotation[o] \in [at : {"idle", "passed", "answer"}, label : KeyLabels, key : 0 .. MaxKeys]
      /\ entries \subseteq [label : KeyLabels, key : 1 .. MaxKeys]
      /\ \A e \in entries : e.key \in 1 .. MaxKeys
  BY DEF KeysTypeOK
<1>3. key \in 1 .. MaxKeys /\ key \in 0 .. MaxKeys /\ label \in KeyLabels /\ key > issued.made
  BY <1>1, <1>2, KeyBounds
<1>4. /\ state \in [at : {"idle", "passed", "answer"}, label : KeyLabels, key : 0 .. MaxKeys]
      /\ state.key = key /\ state.at = "answer"
      /\ new \in [label : KeyLabels, key : 1 .. MaxKeys] /\ new.key = key /\ new.label = label
  <2> HIDE DEF key
  <2> QED BY <1>2, <1>3
<1>5. /\ \A e \in entries' : e = new \/ (e \in entries /\ e.label # label)
      /\ Away(label) \subseteq 1 .. MaxKeys
      /\ \A k \in Away(label) : \E e \in entries : e.label = label /\ e.key = k
  BY <1>1, <1>2 DEF Others, Away
<1>6. /\ issued' \in [made : 1 .. MaxKeys, away : SUBSET (1 .. MaxKeys), untold : SUBSET (1 .. MaxKeys)]
      /\ issued'.made = key /\ issued'.away = issued.away \cup Away(label)
      /\ issued'.untold = issued.untold
  <2> HIDE DEF key, label
  <2> QED BY <1>1, <1>2, <1>3, <1>5
<1> HIDE DEF key, state, new, label
<1>7. /\ rotation'[o] = state /\ rotation[o].key = 0
      /\ \A p \in Operators : p # o => rotation'[p] = rotation[p]
      /\ rotation' \in [Operators -> [at : {"idle", "passed", "answer"}, label : KeyLabels,
                                      key : 0 .. MaxKeys]]
  BY <1>1, <1>4, RotationDoes DEF KeysNumbered
<1>8. KeysTypeOK' BY <1>1, <1>2, <1>4, <1>5, <1>6, <1>7 DEF KeysTypeOK
<1>9. KeysNumbered'
  <2>1. \A e \in entries' : e.key <= key BY <1>2, <1>3, <1>4, <1>5 DEF KeysNumbered
  <2>2. \A e, f \in entries' : e.key = f.key => e = f
    BY <1>2, <1>3, <1>4, <1>5 DEF KeysNumbered
  <2>3. \A k \in issued'.away : k <= key
    BY <1>2, <1>3, <1>5, <1>6 DEF KeysNumbered
  <2>4. \A p \in Operators : 1 \in known'[p] /\ (rotation'[p].at = "answer" <=> rotation'[p].key # 0)
    BY <1>1, <1>4, <1>7 DEF KeysNumbered
  <2> QED BY <1>6, <2>1, <2>2, <2>3, <2>4 DEF KeysNumbered
<1>10. KeysKept'
  <2>1. \A e, f \in entries' : e.label = f.label => e = f BY <1>4, <1>5 DEF KeysKept
  <2>2. ASSUME NEW e \in entries'
        PROVE  e.key \notin issued'.away /\ Accounted(e.key, known', rotation', issued'.untold)
    <3>1. CASE e = new
      <4>1. e.key \notin issued'.away BY <1>2, <1>3, <1>4, <1>5, <1>6, <3>1 DEF KeysNumbered
      <4>2. e.key = rotation'[o].key BY <1>4, <1>7, <3>1
      <4> QED BY <4>1, <4>2 DEF Accounted
    <3>2. CASE e \in entries /\ e.label # label
      <4>1. e.key \notin issued.away /\ Accounted(e.key, known, rotation, issued.untold)
        BY <3>2 DEF KeysKept
      <4>2. e.key \notin Away(label) BY <1>5, <3>2 DEF KeysNumbered
      <4>3. \A p \in Operators : e.key = rotation[p].key => e.key = rotation'[p].key
        BY <1>2, <1>7, <3>2
      <4> QED BY <1>1, <1>6, <4>1, <4>2, <4>3 DEF Accounted
    <3> QED BY <1>5, <3>1, <3>2
  <2> QED BY <2>1, <2>2 DEF KeysKept
<1> QED BY <1>8, <1>9, <1>10

LEMMA AnswerKeeps ==
  ASSUME KeysTypeOK, KeysNumbered, KeysKept, NEW o \in Operators, TellKey(o) \/ LoseKey(o)
  PROVE  KeysTypeOK' /\ KeysNumbered' /\ KeysKept'
<1> DEFINE key == rotation[o].key
<1>1. RotationStep(o, "answer", IdleRequest) /\ entries' = entries BY DEF TellKey, LoseKey
<1>2. /\ IdleRequest \in [at : {"idle", "passed", "answer"}, label : KeyLabels, key : 0 .. MaxKeys]
      /\ IdleRequest.at = "idle" /\ IdleRequest.key = 0
  BY KeyBounds DEF IdleRequest
<1>3. /\ rotation'[o] = IdleRequest
      /\ \A p \in Operators : p # o => rotation'[p] = rotation[p]
      /\ rotation' \in [Operators -> [at : {"idle", "passed", "answer"}, label : KeyLabels,
                                      key : 0 .. MaxKeys]]
  BY <1>1, <1>2, RotationDoes
<1>4. /\ issued \in [made : 1 .. MaxKeys, away : SUBSET (1 .. MaxKeys), untold : SUBSET (1 .. MaxKeys)]
      /\ key \in 0 .. MaxKeys /\ known \in [Operators -> SUBSET (1 .. MaxKeys)]
      /\ entries \subseteq [label : KeyLabels, key : 1 .. MaxKeys]
  BY DEF KeysTypeOK
<1>5. key \in 1 .. MaxKeys BY <1>1, <1>2, <1>4, RotationDoes DEF KeysNumbered
<1> DEFINE Still(k) == Accounted(k, known, rotation, issued.untold) =>
                         Accounted(k, known', rotation', issued'.untold)
<1>6. /\ known' \in [Operators -> SUBSET (1 .. MaxKeys)]
      /\ issued' \in [made : 1 .. MaxKeys, away : SUBSET (1 .. MaxKeys), untold : SUBSET (1 .. MaxKeys)]
      /\ issued'.made = issued.made /\ issued'.away = issued.away
      /\ \A p \in Operators : known[p] \subseteq known'[p]
      /\ issued.untold \subseteq issued'.untold
      /\ key \in known'[o] \/ key \in issued'.untold
  <2>1. CASE TellKey(o)
    <3>1. known' = [known EXCEPT ![o] = @ \cup {key}] /\ issued' = issued BY <2>1 DEF TellKey
    <3> HIDE DEF key
    <3> QED BY <1>4, <1>5, <3>1
  <2>2. CASE LoseKey(o)
    <3>1. issued' = [issued EXCEPT !.untold = @ \cup {key}] /\ known' = known
      BY <2>2 DEF LoseKey
    <3> HIDE DEF key
    <3> QED BY <1>4, <1>5, <3>1
  <2> QED BY <2>1, <2>2
<1>7. KeysTypeOK' BY <1>1, <1>3, <1>4, <1>6 DEF KeysTypeOK
<1>8. KeysNumbered' BY <1>1, <1>2, <1>3, <1>6 DEF KeysNumbered
<1>9. ASSUME NEW k, Accounted(k, known, rotation, issued.untold)
      PROVE  Accounted(k, known', rotation', issued'.untold)
  <2>1. CASE k = key BY <1>6, <2>1 DEF Accounted
  <2>2. CASE k # key
    <3>1. \A p \in Operators : k = rotation[p].key => k = rotation'[p].key BY <1>3, <2>2
    <3> QED BY <1>6, <1>9, <3>1 DEF Accounted
  <2> QED BY <2>1, <2>2
<1>10. KeysKept' BY <1>1, <1>6, <1>9 DEF KeysKept
<1> QED BY <1>7, <1>8, <1>10

LEMMA RestartKeeps ==
  ASSUME KeysTypeOK, KeysNumbered, KeysKept, RestartServer
  PROVE  KeysTypeOK' /\ KeysNumbered' /\ KeysKept'
<1> DEFINE first == [label |-> Default, key |-> 1]
<1>1. /\ entries' = {first} /\ known' = known
      /\ rotation' = [o \in Operators |-> IdleRequest]
      /\ issued' = [issued EXCEPT !.away = {}]
  BY DEF RestartServer, FirstEntries
<1>2. /\ first \in [label : KeyLabels, key : 1 .. MaxKeys] /\ first.key = 1
      /\ IdleRequest \in [at : {"idle", "passed", "answer"}, label : KeyLabels, key : 0 .. MaxKeys]
      /\ IdleRequest.at = "idle" /\ IdleRequest.key = 0
  BY KeyBounds DEF IdleRequest
<1> HIDE DEF first
<1>3. issued \in [made : 1 .. MaxKeys, away : SUBSET (1 .. MaxKeys), untold : SUBSET (1 .. MaxKeys)]
  BY DEF KeysTypeOK
<1>4. /\ issued' \in [made : 1 .. MaxKeys, away : SUBSET (1 .. MaxKeys), untold : SUBSET (1 .. MaxKeys)]
      /\ issued'.made = issued.made /\ issued'.away = {} /\ issued.made >= 1
  BY <1>1, <1>3
<1>5. KeysTypeOK' BY <1>1, <1>2, <1>4 DEF KeysTypeOK
<1>6. KeysNumbered' BY <1>1, <1>2, <1>4 DEF KeysNumbered
<1>7. KeysKept' BY <1>1, <1>2, <1>4, KeyBounds DEF KeysKept, Accounted, KeysNumbered
<1> QED BY <1>5, <1>6, <1>7

\* One key lets several requests for a label pass, answers are lost, the server restarts: for
\* any number of operators, labels and keys a label has one key, a rotated key opens nothing
\* until a restart, and a live key is somebody's unless the answer that told it was lost.
THEOREM KeysOneKeyPerLabel ==
  KeysInit /\ [][KeysNext]_keyVars => [](KeysTypeOK /\ OneKeyPerLabel)
<1> DEFINE Inv == KeysTypeOK /\ KeysNumbered /\ KeysKept
<1>1. KeysInit => Inv BY KeysStart
<1>2. Inv /\ [KeysNext]_keyVars => Inv'
  <2>1. Inv /\ UNCHANGED keyVars => Inv'
    BY DEF keyVars, KeysTypeOK, KeysNumbered, KeysKept
  <2> QED BY <2>1, VerifyKeeps, RotateKeeps, AnswerKeeps, RestartKeeps DEF KeysNext
<1>3. Inv => KeysTypeOK /\ OneKeyPerLabel BY KeysKeptAre
<1> QED BY <1>1, <1>2, <1>3, PTL

-----------------------------------------------------------------------------
(* Risk *)

AnEvent == [call : SessionCalls, stage : {"recon", "exfiltrate"}, drift : Drifts, span : 1 .. MaxSpans]
\* The thousandths a score is kept in, and what arithmetic needs of them.
Scores == 0 .. 1000

LEMMA ScoresAre ==
  /\ 0 \in Scores
  /\ \A n : n \in Scores <=> n \in Int /\ 0 <= n /\ n <= 1000
BY DEF Scores

AState == [events : Seq(AnEvent), risk : Scores, peak : Scores]
CallStages == {"new", "append", "chain", "velocity", "flag", "persist", "store", "peak", "judge",
               "log", "done"}
ACall == [at : CallStages, stage : {"recon", "exfiltrate"}, drift : Drifts, events : Seq(AnEvent),
          added : Nat, flagged : 0 .. MaxSpans, score : Scores, verdict : 0 .. 2,
          logged : Drifts, before : SUBSET SessionCalls, alone : BOOLEAN]

Untouched(s) == s.added = 0 /\ s.flagged = 0 /\ s.before = {}

RiskTypes ==
  /\ score \in Scores
  /\ signals \in [based : BOOLEAN, flagged : 0 .. MaxSpans, now : 1 .. MaxSpans]
  /\ stored \in AState
  /\ call \in [SessionCalls -> ACall]
  /\ signals.flagged <= signals.now
  /\ \A c \in SessionCalls :
       /\ call[c].at = "new" => Untouched(call[c])
       /\ call[c].at \notin {"new", "append"} => stored.events # <<>>

Capped(n) == IF n > 100 THEN 100 ELSE n

\* What rounding leaves of a sum of hundredths.
Rounded(n) == {10 * n, 10 * n - 1}

\* Points only add to the score, and it stays their rounded sum.
LEMMA ChargedIs ==
  ASSUME score \in Scores, NEW points \in Nat, NEW s \in Charged(points)
  PROVE  s \in Scores /\ score <= s /\ (points = 0 => s = score)
<1> DEFINE tens == (score + 1) \div 10
           total == 10 * (tens + points)
<1>1. tens \in Nat /\ 10 * tens <= score + 1 /\ score + 1 < 10 * tens + 10 BY DEF Scores
<1>2. IF points = 0 THEN s = score
      ELSE IF total > 1000 THEN s = 1000 ELSE s = total \/ s = total - 1
  BY DEF Charged, Review, Terminate
<1> HIDE DEF tens
<1>3. total \in Nat /\ (points # 0 => total - 1 >= score) BY <1>1 DEF Scores
<1> HIDE DEF total
<1>4. score \in Int /\ 0 <= score /\ score <= 1000 BY ScoresAre
<1>5. CASE points = 0 BY <1>2, <1>5, <1>4
<1>6. CASE points # 0
  <2>1. s \in Int /\ 0 <= s /\ s <= 1000 /\ score <= s BY <1>2, <1>3, <1>4, <1>6
  <2> QED BY <1>6, <2>1, ScoresAre
<1> QED BY <1>5, <1>6

LEMMA ChargedAdds ==
  ASSUME score \in Scores, NEW points \in Nat, NEW s \in Charged(points), NEW n \in Nat,
         score \in Rounded(Capped(n))
  PROVE  s \in Rounded(Capped(n + points))
<1> DEFINE tens == (score + 1) \div 10
           total == 10 * (tens + points)
<1>1. Capped(n) \in 0 .. 100 BY DEF Capped
<1>2. tens = Capped(n) BY <1>1 DEF Rounded
<1>3. IF points = 0 THEN s = score
      ELSE IF total > 1000 THEN s = 1000 ELSE s = total \/ s = total - 1
  BY DEF Charged, Review, Terminate
<1> HIDE DEF tens
<1>4. CASE points = 0 BY <1>3, <1>4
<1>5. CASE points # 0
  <2>1. total = 10 * (Capped(n) + points) BY <1>2
  <2> HIDE DEF total
  <2>2. CASE n > 100 BY <1>3, <1>5, <2>1, <2>2 DEF Capped, Rounded
  <2>3. CASE n <= 100 BY <1>3, <1>5, <2>1, <2>3 DEF Capped, Rounded
  <2> QED BY <2>2, <2>3
<1> QED BY <1>4, <1>5

\* A step of one call: what it adds is charged.
CallStep(c, from, t, points) ==
  /\ call[c].at = from /\ call' \in [SessionCalls -> ACall] /\ call'[c] = t
  /\ \A d \in SessionCalls : d # c => call'[d] = call[d]
  /\ points \in Nat /\ t.added = call[c].added + points /\ score' \in Charged(points)

\* A step that only moves a call on.
OnlyMoves(t, s, to) ==
  /\ t.at = to /\ t.drift = s.drift /\ t.events = s.events /\ t.flagged = s.flagged
  /\ t.score = s.score /\ t.verdict = s.verdict /\ t.logged = s.logged /\ t.before = s.before
  /\ t.alone = s.alone

LEMMA CallDoes ==
  ASSUME RiskTypes, NEW c \in SessionCalls, NEW from, NEW t \in ACall, CallMoves(c, from, t)
  PROVE  /\ call[c].at = from /\ call' \in [SessionCalls -> ACall] /\ call'[c] = t
         /\ \A d \in SessionCalls : d # c => call'[d] = call[d]
BY DEF CallMoves, RiskTypes

\* A step that charges nothing.
LEMMA FreeStep ==
  ASSUME RiskTypes, NEW c \in SessionCalls, NEW from, NEW t \in ACall, CallMoves(c, from, t),
         UNCHANGED score, t.added = call[c].added
  PROVE  CallStep(c, from, t, 0)
<1>1. score \in Scores /\ call[c].added \in Nat BY DEF RiskTypes, ACall
<1>2. score' \in Charged(0) BY DEF Charged
<1>3. t.added = call[c].added + 0 BY <1>1
<1> QED BY <1>2, <1>3, CallDoes DEF CallStep

LEMMA BeginDoes ==
  ASSUME RiskTypes, NEW c \in SessionCalls, BeginCall(c)
  PROVE  \E t \in ACall, points \in Nat :
           /\ CallStep(c, "new", t, points) /\ t.at = "append" /\ t.events = stored.events
           /\ t.before = {d \in SessionCalls : call[d].at = "done"}
           /\ t.alone <=> \A d \in SessionCalls : ~Busy(d)
           /\ t.flagged = 0 /\ stored' = stored
           /\ signals' \in [based : BOOLEAN, flagged : 0 .. MaxSpans, now : 1 .. MaxSpans]
           /\ signals'.flagged = signals.flagged /\ signals'.now = signals.now
<1> DEFINE alone == \A d \in SessionCalls : ~Busy(d)
           before == {d \in SessionCalls : call[d].at = "done"}
<1>1. PICK intent \in BOOLEAN, stage \in {"recon", "exfiltrate"}, drift \in Drifts :
        LET based == signals.based \/ intent
            points == IF drift > DriftThreshold THEN (drift * 3) \div 10 ELSE 0
        IN /\ signals' = [signals EXCEPT !.based = based]
           /\ Charge(points)
           /\ CallMoves(c, "new",
                [call[c] EXCEPT !.at = "append", !.stage = stage, !.drift = drift,
                                !.events = stored.events, !.added = points,
                                !.before = before, !.alone = alone])
           /\ UNCHANGED stored
  BY DEF BeginCall
<1> DEFINE points == IF drift > DriftThreshold THEN (drift * 3) \div 10 ELSE 0
           t == [call[c] EXCEPT !.at = "append", !.stage = stage, !.drift = drift,
                                !.events = stored.events, !.added = points,
                                !.before = before, !.alone = alone]
<1>2. points \in Nat BY DEF Drifts, DriftThreshold
<1>3. call[c] \in ACall /\ stored.events \in Seq(AnEvent) BY DEF RiskTypes, AState
<1>4. alone \in BOOLEAN /\ before \in SUBSET SessionCalls OBVIOUS
<1>5. CallMoves(c, "new", t) /\ Charge(points) BY <1>1
<1> HIDE DEF points, alone, before
<1>6. /\ t \in ACall /\ t.at = "append" /\ t.events = stored.events /\ t.before = before
      /\ t.alone = alone /\ t.added = points /\ t.flagged = call[c].flagged
  BY <1>2, <1>3, <1>4 DEF ACall, CallStages
<1> HIDE DEF t
<1>7. /\ call[c].at = "new" /\ call' \in [SessionCalls -> ACall] /\ call'[c] = t
      /\ \A d \in SessionCalls : d # c => call'[d] = call[d]
  BY <1>5, <1>6, CallDoes
<1>8. call[c].added = 0 /\ call[c].flagged = 0 BY <1>7 DEF RiskTypes, Untouched
<1>9. CallStep(c, "new", t, points)
  BY <1>2, <1>5, <1>6, <1>7, <1>8 DEF CallStep, Charge
<1>10. /\ signals' \in [based : BOOLEAN, flagged : 0 .. MaxSpans, now : 1 .. MaxSpans]
       /\ signals'.flagged = signals.flagged /\ signals'.now = signals.now
  <2>1. signals' = [signals EXCEPT !.based = signals.based \/ intent] BY <1>1
  <2>2. signals.based \/ intent \in BOOLEAN OBVIOUS
  <2> QED BY <2>1, <2>2 DEF RiskTypes
<1>11. stored' = stored BY <1>1
<1> QED BY <1>2, <1>6, <1>8, <1>9, <1>10, <1>11 DEF alone, before

LEMMA Shortened ==
  ASSUME NEW S, NEW s \in Seq(S), NEW n \in Nat, n <= Len(s), n # 0
  PROVE  SubSeq(s, 1, n) \in Seq(S) /\ SubSeq(s, 1, n) # <<>>
<1>1. \A i \in 1 .. n : s[i] \in S OBVIOUS
<1>2. 1 \in Int /\ n \in Int /\ 1 <= n OBVIOUS
<1>3. SubSeq(s, 1, n) \in Seq(S) /\ Len(SubSeq(s, 1, n)) = n - 1 + 1
  BY <1>1, <1>2, SubSeqProperties
<1> QED BY <1>2, <1>3

LEMMA AppendDoes ==
  ASSUME RiskTypes, NEW c \in SessionCalls, AppendEvent(c)
  PROVE  \E t \in ACall, e \in AnEvent :
           /\ CallStep(c, "append", t, 0) /\ t.at = "chain" /\ t.drift = call[c].drift
           /\ t.flagged = call[c].flagged /\ t.before = call[c].before /\ t.alone = call[c].alone
           /\ UNCHANGED signals /\ stored' \in AState
           /\ stored'.risk = stored.risk /\ stored'.peak = stored.peak
           /\ stored'.events # <<>>
           /\ e.call = c /\ e.drift = call[c].drift
           /\ \/ stored'.events = Append(call[c].events, e)
              \/ Len(stored.events) > Len(call[c].events)
<1> DEFINE t == [call[c] EXCEPT !.at = "chain", !.events = <<>>]
           old == call[c].events
           e == [call |-> c, stage |-> call[c].stage, drift |-> call[c].drift, span |-> signals.now]
<1>1. /\ CallMoves(c, "append", t) /\ UNCHANGED <<score, signals>>
      /\ \/ stored' = [stored EXCEPT !.events = Append(old, e)]
         \/ /\ Len(stored.events) > Len(old)
            /\ stored' = [stored EXCEPT !.events = SubSeq(@, 1, Len(old) + 1)]
  BY DEF AppendEvent
<1>2. /\ call[c] \in ACall /\ <<>> \in Seq(AnEvent) /\ stored \in AState /\ old \in Seq(AnEvent)
      /\ signals.now \in 1 .. MaxSpans
  BY DEF RiskTypes, ACall
<1>3. e \in AnEvent /\ e.call = c /\ e.drift = call[c].drift BY <1>2 DEF AnEvent, ACall
<1>4. /\ t \in ACall /\ t.at = "chain" /\ t.drift = call[c].drift /\ t.added = call[c].added
      /\ t.flagged = call[c].flagged /\ t.before = call[c].before /\ t.alone = call[c].alone
  BY <1>2 DEF ACall, CallStages
<1> HIDE DEF t, e, old
<1>5. CallStep(c, "append", t, 0)
  BY <1>1, <1>4, FreeStep
<1>6. CASE stored' = [stored EXCEPT !.events = Append(old, e)]
  <2>1. Append(old, e) \in Seq(AnEvent) /\ Append(old, e) # <<>>
    <3>1. old \in Seq(AnEvent) /\ e \in AnEvent BY <1>2, <1>3
    <3> QED BY <3>1, AppendProperties
  <2>2. /\ stored' \in AState /\ stored'.events = Append(old, e)
        /\ stored'.risk = stored.risk /\ stored'.peak = stored.peak
    BY <1>2, <1>6, <2>1 DEF AState
  <2> QED BY <1>1, <1>3, <1>4, <1>5, <2>1, <2>2 DEF old
<1>7. CASE /\ Len(stored.events) > Len(old)
           /\ stored' = [stored EXCEPT !.events = SubSeq(@, 1, Len(old) + 1)]
  <2> DEFINE kept == SubSeq(stored.events, 1, Len(old) + 1)
  <2>1. stored.events \in Seq(AnEvent) /\ Len(old) \in Nat BY <1>2 DEF AState
  <2>2. kept \in Seq(AnEvent) /\ kept # <<>>
    <3>1. Len(old) + 1 <= Len(stored.events) /\ Len(old) + 1 \in Nat /\ Len(old) + 1 # 0
      BY <1>7, <2>1
    <3> QED BY <2>1, <3>1, Shortened
  <2> HIDE DEF kept
  <2>3. stored' = [stored EXCEPT !.events = kept] BY <1>7 DEF kept
  <2>4. /\ stored' \in AState /\ stored'.events = kept
        /\ stored'.risk = stored.risk /\ stored'.peak = stored.peak
    BY <1>2, <2>2, <2>3 DEF AState
  <2> QED BY <1>1, <1>3, <1>4, <1>5, <1>7, <2>2, <2>4 DEF old
<1> QED BY <1>1, <1>6, <1>7

\* The steps that add to the risk, and those that look at it and store it.
LEMMA ChainDoes ==
  ASSUME RiskTypes, NEW c \in SessionCalls, AddChain(c)
  PROVE  \E t \in ACall, points \in Nat :
           /\ CallStep(c, "chain", t, points) /\ OnlyMoves(t, call[c], "velocity")
           /\ UNCHANGED <<signals, stored>>
<1> DEFINE points == IF DetectChain(StagesOf(stored.events), 10, {Chain}) THEN 35 ELSE 0
           t == Adding(c, "velocity", points)
<1>1. CallMoves(c, "chain", t) /\ Charge(points) /\ UNCHANGED <<signals, stored>>
  BY DEF AddChain
<1>2. points \in Nat OBVIOUS
<1> HIDE DEF points
<1>3. call[c] \in ACall BY DEF RiskTypes
<1>4. t \in ACall /\ OnlyMoves(t, call[c], "velocity") /\ t.added = call[c].added + points
  <2>1. call[c].added + points \in Nat BY <1>2, <1>3 DEF ACall
  <2> DEFINE added == call[c].added + points
  <2>2. t = [call[c] EXCEPT !.at = "velocity", !.added = added] BY DEF Adding
  <2>3. added \in Nat BY <2>1
  <2>4. added = call[c].added + points OBVIOUS
  <2> HIDE DEF added, t
  <2> QED BY <1>3, <2>2, <2>3, <2>4 DEF ACall, CallStages, OnlyMoves
<1> HIDE DEF t
<1> QED BY <1>1, <1>2, <1>4, CallDoes DEF CallStep, Charge

LEMMA CheckDoes ==
  ASSUME RiskTypes, NEW c \in SessionCalls, CheckVelocity(c)
  PROVE  \E t \in ACall, to \in {"flag", "persist"} :
           /\ CallStep(c, "velocity", t, 0) /\ OnlyMoves(t, call[c], to)
           /\ UNCHANGED <<signals, stored>>
           /\ to = "flag" => signals.flagged # signals.now
<1> DEFINE to == IF Probing THEN "flag" ELSE "persist"
           t == To(c, to)
<1>1. CallMoves(c, "velocity", t) /\ UNCHANGED <<score, signals, stored>> BY DEF CheckVelocity
<1>2. to \in {"flag", "persist"} /\ (to = "flag" => signals.flagged # signals.now)
  BY DEF Probing
<1> HIDE DEF to
<1>3. call[c] \in ACall BY DEF RiskTypes
<1>4. t \in ACall /\ OnlyMoves(t, call[c], to) /\ t.added = call[c].added
  BY <1>2, <1>3 DEF To, ACall, CallStages, OnlyMoves
<1> HIDE DEF t
<1> QED BY <1>1, <1>2, <1>4, FreeStep

LEMMA FlagDoes ==
  ASSUME RiskTypes, NEW c \in SessionCalls, FlagVelocity(c)
  PROVE  \E t \in ACall :
           /\ CallStep(c, "flag", t, RiskContribution) /\ t.at = "persist"
           /\ t.flagged = signals.now /\ t.before = call[c].before /\ t.alone = call[c].alone
           /\ t.drift = call[c].drift /\ UNCHANGED stored
           /\ signals' \in [based : BOOLEAN, flagged : 0 .. MaxSpans, now : 1 .. MaxSpans]
           /\ signals'.flagged = signals.now /\ signals'.now = signals.now
<1> DEFINE t == [Adding(c, "persist", RiskContribution) EXCEPT !.flagged = signals.now]
<1>1. /\ CallMoves(c, "flag", t) /\ Charge(RiskContribution) /\ UNCHANGED stored
      /\ signals' = [signals EXCEPT !.flagged = signals.now]
  BY DEF FlagVelocity
<1>2. RiskContribution \in Nat BY RiskBounds
<1>3. /\ call[c] \in ACall /\ signals.now \in 0 .. MaxSpans
      /\ signals \in [based : BOOLEAN, flagged : 0 .. MaxSpans, now : 1 .. MaxSpans]
  BY RiskBounds DEF RiskTypes
<1>4. /\ t \in ACall /\ t.at = "persist" /\ t.flagged = signals.now
      /\ t.before = call[c].before /\ t.alone = call[c].alone /\ t.drift = call[c].drift
      /\ t.added = call[c].added + RiskContribution
  <2> DEFINE added == call[c].added + RiskContribution
  <2>1. added \in Nat BY <1>2, <1>3 DEF ACall
  <2>2. t = [[call[c] EXCEPT !.at = "persist", !.added = added] EXCEPT !.flagged = signals.now]
    BY DEF Adding
  <2>3. added = call[c].added + RiskContribution OBVIOUS
  <2> HIDE DEF added, t
  <2> QED BY <1>3, <2>1, <2>2, <2>3 DEF ACall, CallStages
<1> HIDE DEF t
<1>5. /\ signals' \in [based : BOOLEAN, flagged : 0 .. MaxSpans, now : 1 .. MaxSpans]
      /\ signals'.flagged = signals.now /\ signals'.now = signals.now
  BY <1>1, <1>3
<1>6. CallStep(c, "flag", t, RiskContribution)
  BY <1>1, <1>2, <1>4, CallDoes DEF CallStep, Charge
<1> QED BY <1>1, <1>4, <1>5, <1>6

LEMMA ScoreReadDoes ==
  ASSUME RiskTypes, NEW c \in SessionCalls, ReadScore(c)
  PROVE  \E t \in ACall :
           /\ CallStep(c, "persist", t, 0) /\ t.at = "store" /\ t.score = score
           /\ t.flagged = call[c].flagged /\ t.before = call[c].before /\ t.alone = call[c].alone
           /\ t.drift = call[c].drift /\ UNCHANGED <<signals, stored>>
<1> DEFINE t == [To(c, "store") EXCEPT !.score = score]
<1>1. CallMoves(c, "persist", t) /\ UNCHANGED <<score, signals, stored>> BY DEF ReadScore
<1>2. call[c] \in ACall /\ score \in Scores BY DEF RiskTypes
<1>3. /\ t \in ACall /\ t.at = "store" /\ t.score = score
      /\ t.flagged = call[c].flagged /\ t.before = call[c].before /\ t.alone = call[c].alone
      /\ t.drift = call[c].drift /\ t.added = call[c].added
  BY <1>2 DEF To, ACall, CallStages
<1> HIDE DEF t
<1>4. CallStep(c, "persist", t, 0) BY <1>1, <1>3, FreeStep
<1> QED BY <1>1, <1>3, <1>4

LEMMA StoreDoes ==
  ASSUME RiskTypes, NEW c \in SessionCalls, StoreScore(c)
  PROVE  \E t \in ACall :
           /\ CallStep(c, "store", t, 0) /\ t.at = "peak"
           /\ t.flagged = call[c].flagged /\ t.before = call[c].before /\ t.alone = call[c].alone
           /\ t.drift = call[c].drift /\ UNCHANGED signals
           /\ stored' \in AState /\ stored'.risk = call[c].score
           /\ stored'.events = stored.events /\ stored'.peak = stored.peak
<1> DEFINE t == [To(c, "peak") EXCEPT !.score = 0]
<1>1. /\ CallMoves(c, "store", t) /\ UNCHANGED <<score, signals>>
      /\ stored' = [stored EXCEPT !.risk = call[c].score]
  BY DEF StoreScore
<1>2. call[c] \in ACall /\ stored \in AState /\ call[c].score \in Scores
  BY DEF RiskTypes, ACall
<1>3. /\ t \in ACall /\ t.at = "peak"
      /\ t.flagged = call[c].flagged /\ t.before = call[c].before /\ t.alone = call[c].alone
      /\ t.drift = call[c].drift /\ t.added = call[c].added
  <2>1. 0 \in Scores BY ScoresAre
  <2> QED BY <1>2, <2>1 DEF To, ACall, CallStages
<1> HIDE DEF t
<1>4. CallStep(c, "store", t, 0) BY <1>1, <1>3, FreeStep
<1>5. /\ stored' \in AState /\ stored'.risk = call[c].score
      /\ stored'.events = stored.events /\ stored'.peak = stored.peak
  BY <1>1, <1>2 DEF AState
<1> QED BY <1>1, <1>3, <1>4, <1>5

LEMMA PeakDoes ==
  ASSUME RiskTypes, NEW c \in SessionCalls, StorePeak(c)
  PROVE  \E t \in ACall :
           /\ CallStep(c, "peak", t, 0) /\ OnlyMoves(t, call[c], "judge") /\ UNCHANGED signals
           /\ stored' \in AState /\ stored'.events = stored.events /\ stored'.risk = stored.risk
           /\ stored'.peak = IF stored.risk > stored.peak THEN stored.risk ELSE stored.peak
<1> DEFINE t == To(c, "judge")
           peak == IF stored.risk > stored.peak THEN stored.risk ELSE stored.peak
<1>1. /\ CallMoves(c, "peak", t) /\ UNCHANGED <<score, signals>>
      /\ stored' = [stored EXCEPT !.peak = peak]
  BY DEF StorePeak
<1>2. call[c] \in ACall /\ stored \in AState /\ peak \in Scores
  BY DEF RiskTypes, AState
<1>3. t \in ACall /\ OnlyMoves(t, call[c], "judge") /\ t.added = call[c].added
  BY <1>2 DEF To, ACall, CallStages, OnlyMoves
<1> HIDE DEF t
<1>4. CallStep(c, "peak", t, 0) BY <1>1, <1>3, FreeStep
<1>5. /\ stored' \in AState /\ stored'.events = stored.events /\ stored'.risk = stored.risk
      /\ stored'.peak = peak
  <2> HIDE DEF peak
  <2> QED BY <1>1, <1>2 DEF AState
<1> QED BY <1>1, <1>3, <1>4, <1>5

LEMMA JudgeDoes ==
  ASSUME RiskTypes, NEW c \in SessionCalls, JudgeRisk(c)
  PROVE  \E t \in ACall :
           /\ CallStep(c, "judge", t, 0) /\ t.at = "log" /\ t.verdict = Level(score)
           /\ t.flagged = call[c].flagged /\ t.before = call[c].before /\ t.alone = call[c].alone
           /\ t.drift = call[c].drift /\ UNCHANGED <<signals, stored>>
<1> DEFINE t == [To(c, "log") EXCEPT !.verdict = Level(score)]
<1>1. CallMoves(c, "judge", t) /\ UNCHANGED <<score, signals, stored>> BY DEF JudgeRisk
<1>2. call[c] \in ACall /\ Level(score) \in 0 .. 2 BY DEF RiskTypes, Level
<1>3. /\ t \in ACall /\ t.at = "log" /\ t.verdict = Level(score)
      /\ t.flagged = call[c].flagged /\ t.before = call[c].before /\ t.alone = call[c].alone
      /\ t.drift = call[c].drift /\ t.added = call[c].added
  BY <1>2 DEF To, ACall, CallStages
<1> HIDE DEF t
<1>4. CallStep(c, "judge", t, 0) BY <1>1, <1>3, FreeStep
<1> QED BY <1>1, <1>3, <1>4

LEMMA LogDoes ==
  ASSUME RiskTypes, NEW c \in SessionCalls, LogDrift(c)
  PROVE  \E t \in ACall :
           /\ CallStep(c, "log", t, 0) /\ t.at = "done" /\ t.logged = Last(stored.events).drift
           /\ t.verdict = call[c].verdict
           /\ t.flagged = call[c].flagged /\ t.before = call[c].before /\ t.alone = call[c].alone
           /\ t.drift = call[c].drift /\ UNCHANGED <<signals, stored>>
<1> DEFINE drift == Last(stored.events).drift
           t == [To(c, "done") EXCEPT !.logged = drift]
<1>1. CallMoves(c, "log", t) /\ UNCHANGED <<score, signals, stored>> BY DEF LogDrift
<1>2. call[c] \in ACall /\ call[c].at = "log" /\ stored.events \in Seq(AnEvent)
  BY <1>1 DEF RiskTypes, AState, CallMoves
<1>3. stored.events # <<>> BY <1>2 DEF RiskTypes
<1>4. drift \in Drifts
  <2>1. Last(stored.events) = stored.events[Len(stored.events)] BY DEF Last
  <2>2. stored.events[Len(stored.events)] \in AnEvent BY <1>2, <1>3
  <2> QED BY <2>1, <2>2 DEF AnEvent
<1> HIDE DEF drift
<1>5. /\ t \in ACall /\ t.at = "done" /\ t.logged = drift /\ t.verdict = call[c].verdict
      /\ t.flagged = call[c].flagged /\ t.before = call[c].before /\ t.alone = call[c].alone
      /\ t.drift = call[c].drift /\ t.added = call[c].added
  BY <1>2, <1>4 DEF To, ACall, CallStages
<1> HIDE DEF t
<1>6. CallStep(c, "log", t, 0) BY <1>1, <1>5, FreeStep
<1> QED BY <1>1, <1>5, <1>6 DEF drift


\* What every step of a call does to what the types and the sums speak of.
Progress(c, from, t, points) ==
  /\ CallStep(c, from, t, points) /\ from # "done" /\ t.at # "new"
  /\ t.before = IF from = "new" THEN {d \in SessionCalls : call[d].at = "done"} ELSE call[c].before
  /\ from # "new" => t.alone = call[c].alone
  /\ t.at \in {"log", "done"} =>
       /\ points = 0 /\ from \in {"judge", "log"}
       /\ t.verdict = IF from = "judge" THEN Level(score) ELSE call[c].verdict
  /\ signals' \in [based : BOOLEAN, flagged : 0 .. MaxSpans, now : 1 .. MaxSpans]
  /\ signals'.flagged <= signals'.now
  /\ stored' \in AState
  /\ stored.events # <<>> => stored'.events # <<>>
  /\ t.at = "append" \/ stored'.events # <<>>

CallActs(c) ==
  \/ BeginCall(c) \/ AppendEvent(c) \/ AddChain(c) \/ CheckVelocity(c)
  \/ FlagVelocity(c) \/ ReadScore(c) \/ StoreScore(c) \/ StorePeak(c)
  \/ JudgeRisk(c) \/ LogDrift(c)

LEMMA EveryStepProgresses ==
  ASSUME RiskTypes, NEW c \in SessionCalls, CallActs(c)
  PROVE  \E from \in CallStages, t \in ACall, points \in Nat : Progress(c, from, t, points)
<1>1. /\ signals \in [based : BOOLEAN, flagged : 0 .. MaxSpans, now : 1 .. MaxSpans]
      /\ signals.flagged <= signals.now /\ stored \in AState
      /\ signals.flagged \in Int /\ signals.now \in Int
  BY DEF RiskTypes
<1>2. call[c].at \notin {"new", "append"} => stored.events # <<>> BY DEF RiskTypes
<1>3. 0 \in Nat /\ RiskContribution \in Nat BY RiskBounds
<1>4. {"new", "append", "chain", "velocity", "flag", "persist", "store", "peak", "judge", "log"}
        \subseteq CallStages
  BY DEF CallStages
<1>5. CASE BeginCall(c)
  <2>1. PICK t \in ACall, points \in Nat :
          /\ CallStep(c, "new", t, points) /\ t.at = "append"
          /\ t.before = {d \in SessionCalls : call[d].at = "done"}
          /\ stored' = stored
          /\ signals' \in [based : BOOLEAN, flagged : 0 .. MaxSpans, now : 1 .. MaxSpans]
          /\ signals'.flagged = signals.flagged /\ signals'.now = signals.now
    BY <1>5, BeginDoes
  <2>2. Progress(c, "new", t, points) BY <1>1, <2>1 DEF Progress
  <2> QED BY <1>4, <2>2
<1>6. CASE AppendEvent(c)
  <2>1. PICK t \in ACall :
          /\ CallStep(c, "append", t, 0) /\ t.at = "chain" /\ t.before = call[c].before /\ t.alone = call[c].alone
          /\ UNCHANGED signals /\ stored' \in AState /\ stored'.events # <<>>
    BY <1>6, AppendDoes
  <2>2. Progress(c, "append", t, 0) BY <1>1, <2>1 DEF Progress
  <2> QED BY <1>3, <1>4, <2>2
<1>7. CASE AddChain(c)
  <2>1. PICK t \in ACall, points \in Nat :
          /\ CallStep(c, "chain", t, points) /\ OnlyMoves(t, call[c], "velocity")
          /\ UNCHANGED <<signals, stored>>
    BY <1>7, ChainDoes
  <2>2. Progress(c, "chain", t, points) BY <1>1, <1>2, <2>1 DEF Progress, CallStep, OnlyMoves
  <2> QED BY <1>4, <2>2
<1>8. CASE CheckVelocity(c)
  <2>1. PICK t \in ACall, to \in {"flag", "persist"} :
          /\ CallStep(c, "velocity", t, 0) /\ OnlyMoves(t, call[c], to)
          /\ UNCHANGED <<signals, stored>>
    BY <1>8, CheckDoes
  <2>2. Progress(c, "velocity", t, 0) BY <1>1, <1>2, <2>1 DEF Progress, CallStep, OnlyMoves
  <2> QED BY <1>3, <1>4, <2>2
<1>9. CASE FlagVelocity(c)
  <2>1. PICK t \in ACall :
          /\ CallStep(c, "flag", t, RiskContribution) /\ t.at = "persist"
          /\ t.before = call[c].before /\ t.alone = call[c].alone /\ UNCHANGED stored
          /\ signals' \in [based : BOOLEAN, flagged : 0 .. MaxSpans, now : 1 .. MaxSpans]
          /\ signals'.flagged = signals.now /\ signals'.now = signals.now
    BY <1>9, FlagDoes
  <2>2. Progress(c, "flag", t, RiskContribution) BY <1>1, <1>2, <2>1 DEF Progress, CallStep
  <2> QED BY <1>3, <1>4, <2>2
<1>10. CASE ReadScore(c)
  <2>1. PICK t \in ACall :
          /\ CallStep(c, "persist", t, 0) /\ t.at = "store" /\ t.before = call[c].before /\ t.alone = call[c].alone
          /\ UNCHANGED <<signals, stored>>
    BY <1>10, ScoreReadDoes
  <2>2. Progress(c, "persist", t, 0) BY <1>1, <1>2, <2>1 DEF Progress, CallStep
  <2> QED BY <1>3, <1>4, <2>2
<1>11. CASE StoreScore(c)
  <2>1. PICK t \in ACall :
          /\ CallStep(c, "store", t, 0) /\ t.at = "peak" /\ t.before = call[c].before /\ t.alone = call[c].alone
          /\ UNCHANGED signals /\ stored' \in AState /\ stored'.events = stored.events
    BY <1>11, StoreDoes
  <2>2. Progress(c, "store", t, 0) BY <1>1, <1>2, <2>1 DEF Progress, CallStep
  <2> QED BY <1>3, <1>4, <2>2
<1>12. CASE StorePeak(c)
  <2>1. PICK t \in ACall :
          /\ CallStep(c, "peak", t, 0) /\ OnlyMoves(t, call[c], "judge") /\ UNCHANGED signals
          /\ stored' \in AState /\ stored'.events = stored.events
    BY <1>12, PeakDoes
  <2>2. Progress(c, "peak", t, 0) BY <1>1, <1>2, <2>1 DEF Progress, CallStep, OnlyMoves
  <2> QED BY <1>3, <1>4, <2>2
<1>13. CASE JudgeRisk(c)
  <2>1. PICK t \in ACall :
          /\ CallStep(c, "judge", t, 0) /\ t.at = "log" /\ t.verdict = Level(score)
          /\ t.before = call[c].before /\ t.alone = call[c].alone /\ UNCHANGED <<signals, stored>>
    BY <1>13, JudgeDoes
  <2>2. Progress(c, "judge", t, 0) BY <1>1, <1>2, <2>1 DEF Progress, CallStep
  <2> QED BY <1>3, <1>4, <2>2
<1>14. CASE LogDrift(c)
  <2>1. PICK t \in ACall :
          /\ CallStep(c, "log", t, 0) /\ t.at = "done" /\ t.verdict = call[c].verdict
          /\ t.before = call[c].before /\ t.alone = call[c].alone /\ UNCHANGED <<signals, stored>>
    BY <1>14, LogDoes
  <2>2. Progress(c, "log", t, 0) BY <1>1, <1>2, <2>1 DEF Progress, CallStep
  <2> QED BY <1>3, <1>4, <2>2
<1> QED
  BY <1>5, <1>6, <1>7, <1>8, <1>9, <1>10, <1>11, <1>12, <1>13, <1>14 DEF CallActs

LEMMA TimeDoes ==
  ASSUME RiskTypes, SpanPasses
  PROVE  /\ UNCHANGED <<score, stored, call>>
         /\ signals' \in [based : BOOLEAN, flagged : 0 .. MaxSpans, now : 1 .. MaxSpans]
         /\ signals'.flagged = signals.flagged /\ signals'.now = signals.now + 1
<1>1. /\ signals' = [signals EXCEPT !.now = signals.now + 1] /\ UNCHANGED <<score, stored, call>>
  BY DEF SpanPasses
<1>2. signals.now + 1 \in 1 .. MaxSpans BY RiskBounds DEF RiskTypes, SpanPasses
<1> QED BY <1>1, <1>2 DEF RiskTypes

LEMMA RiskSteps ==
  ASSUME RiskNext
  PROVE  (\E c \in SessionCalls : CallActs(c)) \/ SpanPasses
BY DEF RiskNext, CallActs

LEMMA RiskTypesStep ==
  ASSUME RiskTypes, [RiskNext]_riskVars
  PROVE  RiskTypes'
<1>1. CASE UNCHANGED riskVars
  BY <1>1 DEF RiskTypes, riskVars, AState, AnEvent, ACall, CallStages, Untouched, Drifts
<1>2. CASE SpanPasses
  <2>1. signals.flagged \in Int /\ signals.now \in Int BY DEF RiskTypes
  <2>2. /\ UNCHANGED <<score, stored, call>>
        /\ signals' \in [based : BOOLEAN, flagged : 0 .. MaxSpans, now : 1 .. MaxSpans]
        /\ signals'.flagged = signals.flagged /\ signals'.now = signals.now + 1
    BY <1>2, TimeDoes
  <2>3. signals'.flagged <= signals'.now BY <2>1, <2>2 DEF RiskTypes
  <2> QED BY <2>2, <2>3 DEF RiskTypes, AState, AnEvent, ACall, CallStages, Untouched, Drifts
<1>3. ASSUME NEW c \in SessionCalls, CallActs(c) PROVE RiskTypes'
  <2>1. PICK from \in CallStages, t \in ACall, points \in Nat : Progress(c, from, t, points)
    BY <1>3, EveryStepProgresses
  <2>2. score' \in Scores
    <3>1. score \in Scores BY DEF RiskTypes
    <3>2. points \in Nat /\ score' \in Charged(points) BY <2>1 DEF Progress, CallStep
    <3> QED BY <3>1, <3>2, ChargedIs
  <2>3. ASSUME NEW d \in SessionCalls
        PROVE  /\ call'[d].at = "new" => Untouched(call'[d])
               /\ call'[d].at \notin {"new", "append"} => stored'.events # <<>>
    <3>1. CASE d = c BY <2>1, <3>1 DEF Progress, CallStep
    <3>2. CASE d # c
      <4>1. call'[d] = call[d] BY <2>1, <3>2 DEF Progress, CallStep
      <4> QED BY <2>1, <4>1 DEF Progress, RiskTypes
    <3> QED BY <3>1, <3>2
  <2>4. call' \in [SessionCalls -> ACall] BY <2>1 DEF Progress, CallStep
  <2>5. /\ signals' \in [based : BOOLEAN, flagged : 0 .. MaxSpans, now : 1 .. MaxSpans]
        /\ signals'.flagged <= signals'.now /\ stored' \in AState
    BY <2>1 DEF Progress
  <2> QED
    BY <2>2, <2>3, <2>4, <2>5
    DEF RiskTypes, AState, AnEvent, ACall, CallStages, Untouched, Drifts
<1> QED BY <1>1, <1>2, <1>3, RiskSteps

LEMMA RiskTypesInit ==
  ASSUME RiskInit
  PROVE  RiskTypes
<1>1. <<>> \in Seq(AnEvent) OBVIOUS
<1>2. 0 \in 0 .. MaxSpans /\ 1 \in 1 .. MaxSpans BY RiskBounds
<1>3. stored \in AState /\ score \in Scores BY <1>1, ScoresAre DEF RiskInit, AState
<1>4. \A c \in SessionCalls : call[c] \in ACall /\ call[c].at = "new" /\ Untouched(call[c])
  BY <1>1, <1>2, ScoresAre DEF RiskInit, ACall, CallStages, Drifts, Untouched
<1>5. call \in [SessionCalls -> ACall] BY <1>4 DEF RiskInit
<1> QED BY <1>2, <1>3, <1>4, <1>5 DEF RiskInit, RiskTypes

LEMMA RiskTypesShow ==
  ASSUME RiskTypes
  PROVE  RiskTypeOK
<1>1. ASSUME NEW e \in Range(stored.events) PROVE e.call \in SessionCalls /\ e.drift \in Drifts
  <2>1. stored.events \in Seq(AnEvent) BY DEF RiskTypes, AState
  <2>2. e \in AnEvent BY <2>1 DEF Range
  <2> QED BY <2>2 DEF AnEvent
<1>2. \A c \in SessionCalls : call[c] \in ACall BY DEF RiskTypes
<1>3. stored.risk \in Scores /\ stored.peak \in Scores /\ score \in Scores
  BY DEF RiskTypes, AState
<1>4. ASSUME NEW c \in SessionCalls
      PROVE  /\ call[c].at \in CallStages /\ call[c].verdict \in 0 .. 2 /\ call[c].drift \in Drifts
             /\ call[c].score \in Scores /\ call[c].before \subseteq SessionCalls
  BY <1>2 DEF ACall
<1>5. signals \in [based : BOOLEAN, flagged : 0 .. MaxSpans, now : 1 .. MaxSpans] BY DEF RiskTypes
<1>6. Scores = 0 .. 1000 BY DEF Scores
<1> QED BY <1>1, <1>3, <1>4, <1>5, <1>6 DEF RiskTypeOK, CallStages

\* The sum, point by point: what a step of a call adds is new.
Pts(calls, S) == UNION {{c} \X (1 .. calls[c].added) : c \in S}

LEMMA PointsAdded ==
  ASSUME NEW S, NEW before, NEW after, NEW c \in S, NEW points \in Nat,
         before[c].added \in Nat, after[c].added = before[c].added + points,
         \A d \in S : d # c => after[d].added = before[d].added,
         IsFiniteSet(Pts(before, S))
  PROVE  /\ IsFiniteSet(Pts(after, S))
         /\ Cardinality(Pts(after, S)) = Cardinality(Pts(before, S)) + points
<1> DEFINE a == before[c].added
           new == {c} \X ((a + 1) .. (a + points))
           old == Pts(before, S)
<1>1. a \in Nat /\ a + 1 \in Int /\ a + points \in Int /\ after[c].added = a + points OBVIOUS
<1>2. \A i : i \in 1 .. (a + points) <=> i \in 1 .. a \/ i \in (a + 1) .. (a + points) BY <1>1
<1>3. \A i : ~(i \in 1 .. a /\ i \in (a + 1) .. (a + points)) BY <1>1
<1>4. Pts(after, S) = old \cup new
  <2>1. ASSUME NEW p, p \in Pts(after, S) PROVE p \in old \cup new
    <3>1. PICK d \in S : p \in {d} \X (1 .. after[d].added) BY <2>1 DEF Pts
    <3>2. CASE d # c BY <3>1, <3>2 DEF Pts
    <3>3. CASE d = c
      <4>1. p = <<p[1], p[2]>> /\ p[1] = c /\ p[2] \in 1 .. (a + points) BY <1>1, <3>1, <3>3
      <4>2. CASE p[2] \in 1 .. a
        <5>1. p \in {c} \X (1 .. a) BY <4>1, <4>2
        <5> QED BY <5>1 DEF Pts
      <4>3. CASE p[2] \in (a + 1) .. (a + points) BY <4>1, <4>3
      <4> QED BY <1>2, <4>1, <4>2, <4>3
    <3> QED BY <3>2, <3>3
  <2>2. ASSUME NEW p, p \in old PROVE p \in Pts(after, S)
    <3>1. PICK d \in S : p \in {d} \X (1 .. before[d].added) BY <2>2 DEF Pts
    <3>2. CASE d # c BY <3>1, <3>2 DEF Pts
    <3>3. CASE d = c
      <4>1. p = <<p[1], p[2]>> /\ p[1] = c /\ p[2] \in 1 .. a BY <3>1, <3>3
      <4>2. p[2] \in 1 .. after[c].added BY <1>1, <1>2, <4>1
      <4>3. p \in {c} \X (1 .. after[c].added) BY <4>1, <4>2
      <4> QED BY <4>3 DEF Pts
    <3> QED BY <3>2, <3>3
  <2>3. ASSUME NEW p, p \in new PROVE p \in Pts(after, S)
    <3>1. p = <<p[1], p[2]>> /\ p[1] = c /\ p[2] \in (a + 1) .. (a + points) BY <2>3
    <3>2. p[2] \in 1 .. after[c].added BY <1>1, <1>2, <3>1
    <3>3. p \in {c} \X (1 .. after[c].added) BY <3>1, <3>2
    <3> QED BY <3>3 DEF Pts
  <2> HIDE DEF old, new
  <2> QED BY <2>1, <2>2, <2>3
<1>5. old \cap new = {}
  <2> SUFFICES ASSUME NEW p, p \in old, p \in new PROVE FALSE OBVIOUS
  <2>1. p[1] = c /\ p[2] \in (a + 1) .. (a + points) OBVIOUS
  <2>2. PICK d \in S : p \in {d} \X (1 .. before[d].added) BY DEF Pts
  <2>3. p[1] = d /\ p[2] \in 1 .. before[d].added BY <2>2
  <2>4. p[2] \in 1 .. a BY <2>1, <2>3
  <2> QED BY <1>3, <2>1, <2>4
<1>6. IsFiniteSet(new) /\ Cardinality(new) = points
  <2>1. IsFiniteSet({c}) /\ Cardinality({c}) = 1 BY FS_Singleton
  <2> DEFINE more == (a + 1) .. (a + points)
  <2>2. IsFiniteSet(more) /\ Cardinality(more) = points
    <3>1. IsFiniteSet(more)
          /\ Cardinality(more) = IF a + 1 > a + points THEN 0 ELSE (a + points) - (a + 1) + 1
      BY <1>1, FS_Interval
    <3>2. (IF a + 1 > a + points THEN 0 ELSE (a + points) - (a + 1) + 1) = points BY <1>1
    <3> QED BY <3>1, <3>2
  <2> HIDE DEF more
  <2>3. IsFiniteSet({c} \X more) /\ Cardinality({c} \X more) = Cardinality({c}) * Cardinality(more)
    BY <2>1, <2>2, FS_Product
  <2> QED BY <2>1, <2>2, <2>3 DEF more
<1>7. IsFiniteSet(old) OBVIOUS
<1> HIDE DEF old, new
<1>8. IsFiniteSet(old \cup new)
      /\ Cardinality(old \cup new) = Cardinality(old) + Cardinality(new) - Cardinality(old \cap new)
  BY <1>6, <1>7, FS_Union
<1>9. Cardinality(old \cap new) = 0 BY <1>5, FS_EmptySet
<1>10. Cardinality(old) \in Nat BY <1>7, FS_CardinalityType
<1> QED BY <1>4, <1>6, <1>8, <1>9, <1>10 DEF old

LEMMA PointsGrow ==
  ASSUME NEW calls, NEW S, NEW T \in SUBSET S, IsFiniteSet(Pts(calls, S))
  PROVE  /\ IsFiniteSet(Pts(calls, T)) /\ Cardinality(Pts(calls, T)) \in Nat
         /\ Cardinality(Pts(calls, S)) \in Nat
         /\ Cardinality(Pts(calls, T)) <= Cardinality(Pts(calls, S))
<1>1. Pts(calls, T) \subseteq Pts(calls, S) BY DEF Pts
<1> QED BY <1>1, FS_Subset, FS_CardinalityType

\* The score is that sum, and no call that was judged had more before it than its verdict.
Summed(calls, S) == Capped(Cardinality(Pts(calls, S)))
JudgedAt == {"log", "done"}

CallCounted(calls, points, c) ==
  /\ \A d \in calls[c].before : calls[d].at = "done"
  /\ calls[c].at \in JudgedAt =>
       /\ calls[c].verdict >= Level(10 * Summed(calls, calls[c].before \cup {c}) - 1)
       /\ \A d \in calls[c].before : calls[c].verdict >= calls[d].verdict
       /\ calls[c].verdict <= Level(points)

RiskCounted ==
  /\ IsFiniteSet(Pts(call, SessionCalls))
  /\ score \in Rounded(Summed(call, SessionCalls))
  /\ \A c \in SessionCalls : CallCounted(call, score, c)

LEMMA LevelsGrow ==
  ASSUME NEW m \in Int, NEW n \in Int, m <= n
  PROVE  Level(m) <= Level(n) /\ Level(m) \in 0 .. 2 /\ Level(n) \in 0 .. 2
BY DEF Level, Terminate, Review

LEMMA CappedGrows ==
  ASSUME NEW m \in Nat, NEW n \in Nat, m <= n
  PROVE  Capped(m) <= Capped(n) /\ Capped(m) \in Nat /\ Capped(n) \in Nat
BY DEF Capped

\* What a call that was judged had before it no step changes.
LEMMA SumStands ==
  ASSUME NEW before, NEW after, NEW S, \A d \in S : after[d].added = before[d].added
  PROVE  Summed(after, S) = Summed(before, S)
<1>1. Pts(after, S) = Pts(before, S) BY DEF Pts
<1> QED BY <1>1 DEF Summed

LEMMA RiskCountedStep ==
  ASSUME RiskTypes, RiskCounted, [RiskNext]_riskVars
  PROVE  RiskCounted'
<1>1. CASE UNCHANGED <<score, call>> BY <1>1 DEF RiskCounted
<1>2. ASSUME NEW c \in SessionCalls, CallActs(c) PROVE RiskCounted'
  <2>1. PICK from \in CallStages, t \in ACall, points \in Nat : Progress(c, from, t, points)
    BY <1>2, EveryStepProgresses
  <2>2. /\ call[c].at = from /\ from # "done" /\ call' \in [SessionCalls -> ACall] /\ call'[c] = t
        /\ \A d \in SessionCalls : d # c => call'[d] = call[d]
        /\ t.added = call[c].added + points /\ score' \in Charged(points)
    BY <2>1 DEF Progress, CallStep
  <2>3. /\ \A d \in SessionCalls : call[d].added \in Nat /\ call[d].before \in SUBSET SessionCalls
                                   /\ call[d].verdict \in 0 .. 2
        /\ score \in Scores
    <3>1. \A d \in SessionCalls : call[d] \in ACall BY DEF RiskTypes
    <3> QED BY <3>1 DEF RiskTypes, ACall
  <2> DEFINE n == Cardinality(Pts(call, SessionCalls))
  <2>4. /\ IsFiniteSet(Pts(call, SessionCalls)) /\ score \in Rounded(Capped(n))
        /\ \A d \in SessionCalls : CallCounted(call, score, d)
    BY DEF RiskCounted, Summed
  <2>5. n \in Nat BY <2>4, FS_CardinalityType
  <2>6. /\ IsFiniteSet(Pts(call', SessionCalls))
        /\ Cardinality(Pts(call', SessionCalls)) = n + points
    <3>1. call[c].added \in Nat /\ call'[c].added = call[c].added + points BY <2>2, <2>3
    <3>2. \A d \in SessionCalls : d # c => call'[d].added = call[d].added BY <2>2
    <3> QED BY <2>4, <3>1, <3>2, PointsAdded
  <2>7. score' \in Rounded(Capped(n + points)) /\ score <= score' /\ score' \in Nat
    <3> HIDE DEF n
    <3>1. score' \in Scores /\ score <= score' BY <2>2, <2>3, ChargedIs
    <3>2. score' \in Rounded(Capped(n + points)) BY <2>2, <2>3, <2>4, <2>5, ChargedAdds
    <3> QED BY <3>1, <3>2, ScoresAre
  <2>8. Level(score) <= Level(score') /\ Level(score) \in 0 .. 2 /\ Level(score') \in 0 .. 2
    BY <2>3, <2>7, LevelsGrow, ScoresAre
  <2>9. \A d \in SessionCalls : call[d].at = "done" => d # c /\ call'[d] = call[d] BY <2>2
  <2>10. ASSUME NEW d \in SessionCalls, d # c PROVE CallCounted(call', score', d)
    <3>1. call'[d] = call[d] /\ CallCounted(call, score, d) BY <2>2, <2>4, <2>10
    <3>2. \A e \in call[d].before : e \in SessionCalls /\ call[e].at = "done" /\ call'[e] = call[e]
      BY <2>3, <2>9, <3>1 DEF CallCounted
    <3>3. Summed(call', call[d].before \cup {d}) = Summed(call, call[d].before \cup {d})
      BY <3>1, <3>2, SumStands
    <3> QED BY <2>3, <2>8, <3>1, <3>2, <3>3 DEF CallCounted
  <2>11. CallCounted(call', score', c)
    <3>1. \A e \in t.before : e \in SessionCalls /\ call[e].at = "done" /\ call'[e] = call[e]
      <4>1. CASE from = "new" BY <2>1, <2>9, <4>1 DEF Progress
      <4>2. CASE from # "new"
        <5>1. t.before = call[c].before /\ CallCounted(call, score, c) BY <2>1, <2>4, <4>2 DEF Progress
        <5> QED BY <2>3, <2>9, <5>1 DEF CallCounted
      <4> QED BY <4>1, <4>2
    <3>2. CASE t.at \notin JudgedAt BY <2>2, <3>1, <3>2 DEF CallCounted
    <3>3. CASE t.at \in JudgedAt
      <4>1. /\ points = 0 /\ from \in JudgedAt \cup {"judge"} /\ t.before = call[c].before
            /\ t.verdict = IF from = "judge" THEN Level(score) ELSE call[c].verdict
        BY <2>1, <3>3 DEF Progress, JudgedAt
      <4>2. t.added = call[c].added BY <2>2, <2>3, <4>1
      <4> DEFINE mine == t.before \cup {c}
      <4>3. Summed(call', mine) = Summed(call, mine)
        <5>1. \A e \in mine : call'[e].added = call[e].added BY <2>2, <3>1, <4>2
        <5> QED BY <5>1, SumStands
      <4>4. CASE from = "judge"
        <5>1. Level(10 * Summed(call, mine) - 1) <= Level(score)
          <6>1. mine \in SUBSET SessionCalls BY <3>1
          <6>2. Cardinality(Pts(call, mine)) \in Nat /\ Cardinality(Pts(call, mine)) <= n
            BY <2>4, <6>1, PointsGrow
          <6>3. 10 * Summed(call, mine) - 1 <= score /\ 10 * Summed(call, mine) - 1 \in Int
            <7> HIDE DEF n, mine
            <7>1. /\ Summed(call, mine) <= Capped(n)
                  /\ Summed(call, mine) \in Nat /\ Capped(n) \in Nat
              BY <2>5, <6>2, CappedGrows DEF Summed
            <7>2. 10 * Capped(n) - 1 <= score BY <2>4, <7>1 DEF Rounded
            <7> QED BY <2>3, <7>1, <7>2, ScoresAre
          <6> QED BY <2>3, <6>3, LevelsGrow, ScoresAre
        <5>2. \A e \in t.before : call[e].verdict <= Level(score)
          <6>1. \A e \in SessionCalls : call[e].at \in JudgedAt => call[e].verdict <= Level(score)
            BY <2>4 DEF CallCounted
          <6> QED BY <3>1, <6>1 DEF JudgedAt
        <5>3. t.verdict = Level(score) BY <4>1, <4>4
        <5>4. Level(10 * Summed(call, mine) - 1) \in Int BY DEF Level
        <5> HIDE DEF mine
        <5>5. call'[c] = t /\ Level(10 * Summed(call', mine) - 1) <= t.verdict /\ t.verdict <= Level(score')
              /\ (\A e \in t.before : call'[e].verdict <= t.verdict) /\ t.verdict \in 0 .. 2
          BY <2>2, <2>8, <3>1, <4>3, <5>1, <5>2, <5>3
        <5>6. \A e \in t.before : call'[e].verdict \in 0 .. 2 BY <2>3, <3>1
        <5> QED BY <3>1, <4>3, <5>4, <5>5, <5>6 DEF CallCounted, mine
      <4>5. CASE from # "judge"
        <5>1. CallCounted(call, score, c) /\ call[c].at \in JudgedAt /\ t.verdict = call[c].verdict
          BY <2>2, <2>4, <4>1, <4>5
        <5>2. /\ t.verdict >= Level(10 * Summed(call, mine) - 1) /\ t.verdict <= Level(score)
              /\ \A e \in t.before : t.verdict >= call[e].verdict
          BY <4>1, <5>1 DEF CallCounted
        <5>3. t.verdict <= Level(score') BY <2>3, <2>8, <5>1, <5>2
        <5> QED BY <2>2, <3>1, <4>3, <5>2, <5>3 DEF CallCounted
      <4> QED BY <4>4, <4>5
    <3> QED BY <3>2, <3>3
  <2>12. \A d \in SessionCalls : CallCounted(call', score', d) BY <2>10, <2>11
  <2> QED BY <2>6, <2>7, <2>12 DEF RiskCounted, Summed
<1>3. SpanPasses => UNCHANGED <<score, call>> BY DEF SpanPasses
<1>4. UNCHANGED riskVars => UNCHANGED <<score, call>> BY DEF riskVars
<1> QED BY <1>1, <1>2, <1>3, <1>4, RiskSteps

LEMMA RiskCountedInit ==
  ASSUME RiskInit
  PROVE  RiskCounted
<1>1. Pts(call, SessionCalls) = {}
  <2> SUFFICES ASSUME NEW c \in SessionCalls, NEW p, p \in {c} \X (1 .. call[c].added) PROVE FALSE
    BY DEF Pts
  <2>1. call[c].added = 0 BY DEF RiskInit
  <2>2. p[2] \in 1 .. 0 BY <2>1
  <2> QED BY <2>2
<1>2. score \in Rounded(Capped(0)) /\ Capped(0) = 0 BY DEF RiskInit, Capped, Rounded
<1>3. \A c \in SessionCalls : call[c].at = "new" /\ call[c].before = {} BY DEF RiskInit
<1> QED BY <1>1, <1>2, <1>3, FS_EmptySet DEF RiskCounted, CallCounted, Summed, JudgedAt

LEMMA RiskCountedShow ==
  ASSUME RiskCounted
  PROVE  RiskAddsUp
<1>1. \A S : Sum100(S) = Summed(call, S) BY DEF Sum100, Summed, Capped, PointsOf, Pts
<1> QED BY <1>1 DEF RiskCounted, CallCounted, RiskAddsUp, JudgedCalls, JudgedAt, Rounded

\* Calls that come one at a time: what is stored follows the only one that is going on.
BusyAt == {"append", "chain", "velocity", "flag", "persist", "store", "peak", "judge", "log"}
NotedAt == BusyAt \ {"append"}

CallExact(s, kept, flags, points, c) ==
  /\ s.at = "append" => s.events = kept.events
  /\ s.at \in NotedAt => Last(kept.events).drift = s.drift /\ \E e \in Range(kept.events) : e.call = c
  /\ s.at = "done" => s.logged = s.drift /\ \E e \in Range(kept.events) : e.call = c
  /\ s.at = "flag" => flags.flagged < flags.now
  /\ s.flagged <= flags.flagged
  /\ s.at = "store" => s.score = points
  /\ s.at = "peak" => kept.risk = points
  /\ s.at \in {"judge", "log"} => kept.risk = points /\ kept.peak = points

ExactNow(calls, kept, flags, points) ==
  /\ \A c, d \in SessionCalls : calls[c].at \in BusyAt /\ calls[d].at \in BusyAt => c = d
  /\ \A c \in SessionCalls : CallExact(calls[c], kept, flags, points, c)
  /\ (\A c \in SessionCalls : calls[c].at \notin BusyAt) => kept.risk = points /\ kept.peak = points
  /\ kept.peak <= points
  /\ \A c, d \in SessionCalls :
       c # d /\ calls[c].flagged # 0 => calls[d].flagged # calls[c].flagged

AllAlone(calls) == \A c \in SessionCalls : calls[c].at # "new" => calls[c].alone
RiskExact == AllAlone(call) => ExactNow(call, stored, signals, score)

Sole(c) == \A d \in SessionCalls : d # c => call[d].at \notin BusyAt

\* What a step of the only call that is going on does to all of this.
SoleStep(c, t) ==
  /\ call' \in [SessionCalls -> ACall] /\ call'[c] = t
  /\ \A d \in SessionCalls : d # c => call'[d] = call[d]
  /\ t.at # "new"
  /\ call[c].at # "new" => t.alone = call[c].alone
  /\ Range(stored.events) \subseteq Range(stored'.events)
  /\ signals.flagged \in Int /\ signals'.flagged \in Int /\ signals.flagged <= signals'.flagged
  /\ CallExact(t, stored', signals', score', c)
  /\ t.at \notin BusyAt => stored'.risk = score' /\ stored'.peak = score'
  /\ stored'.peak <= score'
  /\ t.flagged = call[c].flagged \/ t.flagged > signals.flagged

\* What the step of a call leaves, of its numbers.
LEMMA StepNumbers ==
  ASSUME RiskTypes, NEW c \in SessionCalls, NEW from, NEW t \in ACall, NEW points \in Nat,
         CallStep(c, from, t, points)
  PROVE  /\ call[c].at = from /\ call' \in [SessionCalls -> ACall] /\ call'[c] = t
         /\ \A d \in SessionCalls : d # c => call'[d] = call[d]
         /\ score \in Scores /\ score' \in Scores /\ score <= score'
         /\ points = 0 => score' = score
         /\ stored.peak \in Scores /\ stored.risk \in Scores
         /\ signals.flagged \in 0 .. MaxSpans /\ signals.now \in 1 .. MaxSpans
         /\ signals.flagged \in Int /\ signals.now \in Int
         /\ t.flagged \in Int /\ call[c].flagged \in Int
<1>1. score \in Scores /\ score' \in Charged(points) BY DEF RiskTypes, CallStep
<1>2. score' \in Scores /\ score <= score' /\ (points = 0 => score' = score) BY <1>1, ChargedIs
<1>3. /\ signals.flagged \in 0 .. MaxSpans /\ signals.now \in 1 .. MaxSpans
      /\ call[c] \in ACall
  BY DEF RiskTypes
<1>4. t.flagged \in 0 .. MaxSpans /\ call[c].flagged \in 0 .. MaxSpans BY <1>3 DEF ACall
<1>5. MaxSpans \in Int BY RiskBounds
<1>6. \A k : (k \in 0 .. MaxSpans => k \in Int) /\ (k \in 1 .. MaxSpans => k \in Int) BY <1>5
<1>7. stored.peak \in Scores /\ stored.risk \in Scores BY DEF RiskTypes, AState
<1>8. /\ call[c].at = from /\ call' \in [SessionCalls -> ACall] /\ call'[c] = t
      /\ \A d \in SessionCalls : d # c => call'[d] = call[d]
  BY DEF CallStep
<1>9. signals.flagged \in Int /\ signals.now \in Int /\ t.flagged \in Int /\ call[c].flagged \in Int
  BY <1>3, <1>4, <1>6
<1> QED BY <1>1, <1>2, <1>3, <1>7, <1>8, <1>9

LEMMA SoleStepExact ==
  ASSUME RiskTypes, NEW c \in SessionCalls, NEW t \in ACall, Sole(c), SoleStep(c, t),
         ExactNow(call, stored, signals, score)
  PROVE  ExactNow(call', stored', signals', score')
<1>1. /\ call' \in [SessionCalls -> ACall] /\ call'[c] = t
      /\ \A d \in SessionCalls : d # c => call'[d] = call[d] /\ call[d].at \notin BusyAt
  BY DEF SoleStep, Sole
<1>2. /\ \A d \in SessionCalls : CallExact(call[d], stored, signals, score, d)
      /\ \A d, e \in SessionCalls : d # e /\ call[d].flagged # 0 => call[e].flagged # call[d].flagged
  BY DEF ExactNow
<1>3. \A d \in SessionCalls : call[d].flagged \in Int
  <2>1. MaxSpans \in Int BY RiskBounds
  <2>2. \A d \in SessionCalls : call[d].flagged \in 0 .. MaxSpans
    <3>1. \A d \in SessionCalls : call[d] \in ACall BY DEF RiskTypes
    <3> QED BY <3>1 DEF ACall
  <2> QED BY <2>1, <2>2
<1>4. signals.flagged \in Int /\ signals'.flagged \in Int BY DEF SoleStep
<1>5. ASSUME NEW d \in SessionCalls PROVE CallExact(call'[d], stored', signals', score', d)
  <2>1. CASE d = c BY <1>1, <2>1 DEF SoleStep
  <2>2. CASE d # c
    <3>1. call'[d] = call[d] /\ call[d].at \notin BusyAt BY <1>1, <2>2
    <3>2. CallExact(call[d], stored, signals, score, d) BY <1>2
    <3>3. call[d].flagged <= signals'.flagged
      <4>1. call[d].flagged <= signals.flagged /\ signals.flagged <= signals'.flagged
        BY <3>2 DEF CallExact, SoleStep
      <4> QED BY <1>3, <1>4, <4>1
    <3>4. call[d].at = "done" =>
            call[d].logged = call[d].drift /\ \E e \in Range(stored'.events) : e.call = d
      BY <3>2 DEF CallExact, SoleStep
    <3> QED BY <3>1, <3>3, <3>4 DEF CallExact, BusyAt, NotedAt
  <2> QED BY <2>1, <2>2
<1>6. ASSUME NEW d \in SessionCalls, NEW e \in SessionCalls, d # e, call'[d].flagged # 0
      PROVE  call'[e].flagged # call'[d].flagged
  <2>1. t.flagged = call[c].flagged \/ t.flagged > signals.flagged BY DEF SoleStep
  <2>2. \A b \in SessionCalls : call[b].flagged <= signals.flagged BY <1>2 DEF CallExact
  <2>3. CASE t.flagged = call[c].flagged
    <3>1. \A b \in SessionCalls : call'[b].flagged = call[b].flagged BY <1>1, <2>3
    <3> QED BY <1>2, <1>6, <3>1
  <2>4. CASE t.flagged > signals.flagged
    <3>1. \A b \in SessionCalls : b # c => call'[b].flagged <= signals.flagged BY <1>1, <2>2
    <3>2. \A b \in SessionCalls : call'[b].flagged \in Int
      <4>1. t.flagged \in Int
        <5>1. MaxSpans \in Int BY RiskBounds
        <5>2. t.flagged \in 0 .. MaxSpans BY DEF ACall
        <5> QED BY <5>1, <5>2
      <4> QED BY <1>1, <1>3, <4>1
    <3>3. CASE d # c /\ e # c BY <1>1, <1>2, <1>6, <3>3
    <3>4. CASE d = c \/ e = c
      <4>1. d = c => e # c BY <1>6
      <4> QED BY <1>1, <1>4, <1>6, <2>4, <3>1, <3>2, <3>4, <4>1
    <3> QED BY <3>3, <3>4
  <2> QED BY <2>1, <2>3, <2>4
<1>7. \A d, e \in SessionCalls : call'[d].at \in BusyAt /\ call'[e].at \in BusyAt => d = e
  BY <1>1
<1>8. (\A d \in SessionCalls : call'[d].at \notin BusyAt) => stored'.risk = score' /\ stored'.peak = score'
  BY <1>1 DEF SoleStep
<1>9. stored'.peak <= score' BY DEF SoleStep
<1> QED BY <1>5, <1>6, <1>7, <1>8, <1>9 DEF ExactNow

LEMMA Appended ==
  ASSUME NEW S, NEW s \in Seq(S), NEW e \in S
  PROVE  /\ Last(Append(s, e)) = e /\ e \in Range(Append(s, e))
         /\ Range(s) \subseteq Range(Append(s, e))
<1> DEFINE longer == Append(s, e)
<1>1. /\ longer \in Seq(S) /\ Len(longer) = Len(s) + 1 /\ longer[Len(s) + 1] = e
      /\ \A i \in 1 .. Len(s) : longer[i] = s[i]
  BY AppendProperties
<1>2. DOMAIN longer = 1 .. (Len(s) + 1) /\ DOMAIN s = 1 .. Len(s) /\ Len(s) \in Nat BY <1>1
<1>3. Len(s) + 1 \in DOMAIN longer /\ \A i \in DOMAIN s : i \in DOMAIN longer /\ longer[i] = s[i]
  BY <1>1, <1>2
<1> HIDE DEF longer
<1>4. Last(longer) = e BY <1>1 DEF Last
<1>5. e \in Range(longer) BY <1>1, <1>3 DEF Range
<1>6. Range(s) \subseteq Range(longer) BY <1>3 DEF Range
<1> QED BY <1>4, <1>5, <1>6 DEF longer

\* Each step of the only call that is going on is of that kind.
LEMMA ExactHere ==
  ASSUME RiskTypes, NEW c \in SessionCalls, ExactNow(call, stored, signals, score)
  PROVE  /\ CallExact(call[c], stored, signals, score, c) /\ stored.peak <= score
         /\ Sole(c) /\ call[c].at \notin BusyAt => stored.risk = score /\ stored.peak = score
BY DEF ExactNow, Sole

\* A step that changes neither the score nor what is shared.
LEMMA QuietStep ==
  ASSUME RiskTypes, NEW c \in SessionCalls, NEW from, NEW t \in ACall, CallStep(c, from, t, 0),
         ExactNow(call, stored, signals, score), UNCHANGED <<signals, stored>>,
         t.at # "new", t.alone = call[c].alone, t.flagged = call[c].flagged, t.drift = call[c].drift,
         from \in NotedAt, t.at \in NotedAt \/ (t.at = "done" /\ t.logged = t.drift),
         t.at = "flag" => signals.flagged < signals.now,
         t.at = "store" => t.score = score,
         t.at = "peak" => stored.risk = score,
         t.at \in {"judge", "log", "done"} => stored.risk = score /\ stored.peak = score
  PROVE  SoleStep(c, t)
<1>1. 0 \in Nat OBVIOUS
<1>2. /\ call[c].at = from /\ call' \in [SessionCalls -> ACall] /\ call'[c] = t
      /\ \A d \in SessionCalls : d # c => call'[d] = call[d]
      /\ score' = score /\ signals.flagged \in Int
      /\ t.flagged \in Int /\ call[c].flagged \in Int
  BY <1>1, StepNumbers
<1>3. CallExact(call[c], stored, signals, score, c) /\ stored.peak <= score BY ExactHere
<1>4. /\ Last(stored.events).drift = t.drift /\ t.flagged <= signals.flagged
      /\ \E e \in Range(stored.events) : e.call = c
  BY <1>2, <1>3 DEF CallExact
<1>5. t.at = "done" => t.logged = t.drift BY DEF NotedAt, BusyAt
<1>6. CallExact(t, stored', signals', score', c)
  BY <1>2, <1>4, <1>5 DEF CallExact, NotedAt, BusyAt
<1>7. t.at \notin BusyAt => stored'.risk = score' /\ stored'.peak = score'
  BY <1>2 DEF NotedAt, BusyAt
<1> QED BY <1>2, <1>3, <1>6, <1>7 DEF SoleStep

LEMMA BeginExact ==
  ASSUME RiskTypes, NEW c \in SessionCalls, BeginCall(c), ExactNow(call, stored, signals, score)
  PROVE  \E t \in ACall : SoleStep(c, t) /\ (t.alone => Sole(c))
<1>1. PICK t \in ACall, points \in Nat :
        /\ CallStep(c, "new", t, points) /\ t.at = "append" /\ t.events = stored.events
        /\ t.alone <=> \A d \in SessionCalls : ~Busy(d)
        /\ t.flagged = 0 /\ stored' = stored
        /\ signals' \in [based : BOOLEAN, flagged : 0 .. MaxSpans, now : 1 .. MaxSpans]
        /\ signals'.flagged = signals.flagged /\ signals'.now = signals.now
  BY BeginDoes
<1>2. /\ call[c].at = "new" /\ call' \in [SessionCalls -> ACall] /\ call'[c] = t
      /\ \A d \in SessionCalls : d # c => call'[d] = call[d]
      /\ score \in Scores /\ score' \in Scores /\ score <= score'
      /\ stored.peak \in Scores /\ signals.flagged \in 0 .. MaxSpans /\ signals.flagged \in Int
  BY <1>1, StepNumbers
<1>3. call[c].flagged = 0 BY <1>2 DEF RiskTypes, Untouched
<1>4. 0 <= signals.flagged BY <1>2, RiskBounds
<1>5. stored'.peak <= score'
  <2>1. stored'.peak = stored.peak /\ stored.peak <= score BY <1>1, ExactHere
  <2>2. stored.peak \in Int /\ score \in Int /\ score' \in Int /\ score <= score' BY <1>2, ScoresAre
  <2> QED BY ONLY <2>1, <2>2
<1>6. CallExact(t, stored', signals', score', c) BY <1>1, <1>4 DEF CallExact, NotedAt
<1>7. SoleStep(c, t) BY <1>1, <1>2, <1>3, <1>5, <1>6 DEF SoleStep, BusyAt
<1>8. t.alone => Sole(c)
  <2>1. \A d \in SessionCalls : call[d].at \in BusyAt => Busy(d) BY DEF BusyAt, Busy
  <2> QED BY <1>1, <2>1 DEF Sole
<1> QED BY <1>7, <1>8

LEMMA AppendExact ==
  ASSUME RiskTypes, NEW c \in SessionCalls, AppendEvent(c), ExactNow(call, stored, signals, score)
  PROVE  \E t \in ACall : SoleStep(c, t)
<1>1. PICK t \in ACall, e \in AnEvent :
        /\ CallStep(c, "append", t, 0) /\ t.at = "chain" /\ t.drift = call[c].drift
        /\ t.flagged = call[c].flagged /\ t.alone = call[c].alone
        /\ UNCHANGED signals /\ stored' \in AState
        /\ stored'.risk = stored.risk /\ stored'.peak = stored.peak
        /\ e.call = c /\ e.drift = call[c].drift
        /\ \/ stored'.events = Append(call[c].events, e)
           \/ Len(stored.events) > Len(call[c].events)
  BY AppendDoes
<1>2. 0 \in Nat OBVIOUS
<1>3. /\ call[c].at = "append" /\ call' \in [SessionCalls -> ACall] /\ call'[c] = t
      /\ \A d \in SessionCalls : d # c => call'[d] = call[d]
      /\ score' = score /\ signals.flagged \in Int
  BY <1>1, <1>2, StepNumbers
<1>4. CallExact(call[c], stored, signals, score, c) /\ stored.peak <= score BY ExactHere
<1>5. call[c].events = stored.events BY <1>3, <1>4 DEF CallExact
<1>6. stored.events \in Seq(AnEvent) /\ Len(stored.events) \in Nat BY DEF RiskTypes, AState
<1>7. stored'.events = Append(stored.events, e) BY <1>1, <1>5, <1>6
<1>8. /\ Last(stored'.events) = e /\ e \in Range(stored'.events)
      /\ Range(stored.events) \subseteq Range(stored'.events)
  BY <1>6, <1>7, Appended
<1>9. CallExact(t, stored', signals', score', c)
  BY <1>1, <1>4, <1>8 DEF CallExact, NotedAt, BusyAt
<1> QED BY <1>1, <1>3, <1>4, <1>8, <1>9 DEF SoleStep, BusyAt

LEMMA ChainExact ==
  ASSUME RiskTypes, NEW c \in SessionCalls, AddChain(c), ExactNow(call, stored, signals, score)
  PROVE  \E t \in ACall : SoleStep(c, t)
<1>1. PICK t \in ACall, points \in Nat :
        /\ CallStep(c, "chain", t, points) /\ OnlyMoves(t, call[c], "velocity")
        /\ UNCHANGED <<signals, stored>>
  BY ChainDoes
<1>2. /\ call[c].at = "chain" /\ call' \in [SessionCalls -> ACall] /\ call'[c] = t
      /\ \A d \in SessionCalls : d # c => call'[d] = call[d]
      /\ score \in Scores /\ score' \in Scores /\ score <= score'
      /\ stored.peak \in Scores /\ signals.flagged \in Int
  <2>1. CallStep(c, "chain", t, points) BY <1>1
  <2> HIDE <1>1
  <2> QED BY <2>1, StepNumbers
<1>3. CallExact(call[c], stored, signals, score, c) /\ stored.peak <= score BY ExactHere
<1>4. stored'.peak <= score'
  <2>1. stored'.peak = stored.peak /\ stored.peak <= score BY <1>1, <1>3
  <2>2. stored.peak \in Int /\ score \in Int /\ score' \in Int /\ score <= score' BY <1>2, ScoresAre
  <2> QED BY ONLY <2>1, <2>2
<1>5. CallExact(t, stored', signals', score', c)
  BY <1>1, <1>2, <1>3 DEF CallExact, NotedAt, BusyAt, OnlyMoves
<1> QED BY <1>1, <1>2, <1>4, <1>5 DEF SoleStep, BusyAt, OnlyMoves

LEMMA FlagExact ==
  ASSUME RiskTypes, NEW c \in SessionCalls, FlagVelocity(c), ExactNow(call, stored, signals, score)
  PROVE  \E t \in ACall : SoleStep(c, t)
<1>1. PICK t \in ACall :
        /\ CallStep(c, "flag", t, RiskContribution) /\ t.at = "persist"
        /\ t.flagged = signals.now /\ t.alone = call[c].alone
        /\ t.drift = call[c].drift /\ UNCHANGED stored
        /\ signals'.flagged = signals.now /\ signals'.now = signals.now
  BY FlagDoes
<1>2. RiskContribution \in Nat BY RiskBounds
<1>3. /\ call[c].at = "flag" /\ call' \in [SessionCalls -> ACall] /\ call'[c] = t
      /\ \A d \in SessionCalls : d # c => call'[d] = call[d]
      /\ score \in Scores /\ score' \in Scores /\ score <= score'
      /\ stored.peak \in Scores /\ signals.flagged \in Int /\ signals.now \in Int
  <2>1. CallStep(c, "flag", t, RiskContribution) BY <1>1
  <2> HIDE <1>1
  <2> QED BY <1>2, <2>1, StepNumbers
<1>4. CallExact(call[c], stored, signals, score, c) /\ stored.peak <= score BY ExactHere
<1>5. signals.flagged < signals.now BY <1>3, <1>4 DEF CallExact
<1>6. stored'.peak <= score'
  <2>1. stored'.peak = stored.peak /\ stored.peak <= score BY <1>1, <1>4
  <2>2. stored.peak \in Int /\ score \in Int /\ score' \in Int /\ score <= score' BY <1>3, ScoresAre
  <2> QED BY ONLY <2>1, <2>2
<1>7. CallExact(t, stored', signals', score', c)
  BY <1>1, <1>3, <1>4 DEF CallExact, NotedAt, BusyAt
<1> QED BY <1>1, <1>3, <1>5, <1>6, <1>7 DEF SoleStep, BusyAt

LEMMA StoreExact ==
  ASSUME RiskTypes, NEW c \in SessionCalls, StoreScore(c), ExactNow(call, stored, signals, score)
  PROVE  \E t \in ACall : SoleStep(c, t)
<1>1. PICK t \in ACall :
        /\ CallStep(c, "store", t, 0) /\ t.at = "peak"
        /\ t.flagged = call[c].flagged /\ t.alone = call[c].alone
        /\ t.drift = call[c].drift /\ UNCHANGED signals
        /\ stored'.risk = call[c].score
        /\ stored'.events = stored.events /\ stored'.peak = stored.peak
  BY StoreDoes
<1>2. 0 \in Nat OBVIOUS
<1>3. /\ call[c].at = "store" /\ call' \in [SessionCalls -> ACall] /\ call'[c] = t
      /\ \A d \in SessionCalls : d # c => call'[d] = call[d]
      /\ score' = score /\ signals.flagged \in Int
  BY <1>1, <1>2, StepNumbers
<1>4. CallExact(call[c], stored, signals, score, c) /\ stored.peak <= score BY ExactHere
<1>5. stored'.risk = score' BY <1>1, <1>3, <1>4 DEF CallExact
<1>6. CallExact(t, stored', signals', score', c)
  BY <1>1, <1>3, <1>4, <1>5 DEF CallExact, NotedAt, BusyAt
<1> QED BY <1>1, <1>3, <1>4, <1>6 DEF SoleStep, BusyAt

LEMMA PeakExact ==
  ASSUME RiskTypes, NEW c \in SessionCalls, StorePeak(c), ExactNow(call, stored, signals, score)
  PROVE  \E t \in ACall : SoleStep(c, t)
<1>1. PICK t \in ACall :
        /\ CallStep(c, "peak", t, 0) /\ OnlyMoves(t, call[c], "judge") /\ UNCHANGED signals
        /\ stored'.events = stored.events /\ stored'.risk = stored.risk
        /\ stored'.peak = IF stored.risk > stored.peak THEN stored.risk ELSE stored.peak
  BY PeakDoes
<1>2. 0 \in Nat OBVIOUS
<1>3. /\ call[c].at = "peak" /\ call' \in [SessionCalls -> ACall] /\ call'[c] = t
      /\ \A d \in SessionCalls : d # c => call'[d] = call[d]
      /\ score' = score /\ score \in Scores /\ stored.peak \in Scores /\ signals.flagged \in Int
  BY <1>1, <1>2, StepNumbers
<1>4. CallExact(call[c], stored, signals, score, c) /\ stored.peak <= score BY ExactHere
<1>5. stored.risk = score BY <1>3, <1>4 DEF CallExact
<1>6. stored'.risk = score' /\ stored'.peak = score'
  <2>1. stored.peak \in Int /\ score \in Int BY <1>3, ScoresAre
  <2> QED BY <1>1, <1>3, <1>4, <1>5, <2>1
<1>7. stored'.peak <= score'
  <2>1. score' \in Int BY <1>3, ScoresAre
  <2> QED BY <1>6, <2>1
<1>8. CallExact(t, stored', signals', score', c)
  BY <1>1, <1>3, <1>4, <1>6 DEF CallExact, NotedAt, BusyAt, OnlyMoves
<1> QED BY <1>1, <1>3, <1>7, <1>8 DEF SoleStep, BusyAt, OnlyMoves

LEMMA QuietExact ==
  ASSUME RiskTypes, NEW c \in SessionCalls, ExactNow(call, stored, signals, score),
         CheckVelocity(c) \/ ReadScore(c) \/ JudgeRisk(c) \/ LogDrift(c)
  PROVE  \E t \in ACall : SoleStep(c, t)
<1>1. /\ CallExact(call[c], stored, signals, score, c)
      /\ signals.flagged <= signals.now
  BY ExactHere DEF RiskTypes
<1>2. CASE CheckVelocity(c)
  <2>1. PICK t \in ACall, to \in {"flag", "persist"} :
          /\ CallStep(c, "velocity", t, 0) /\ OnlyMoves(t, call[c], to)
          /\ UNCHANGED <<signals, stored>>
          /\ to = "flag" => signals.flagged # signals.now
    BY <1>2, CheckDoes
  <2>2. 0 \in Nat OBVIOUS
  <2>3. signals.flagged \in Int /\ signals.now \in Int BY <2>1, <2>2, StepNumbers
  <2>4. t.at = "flag" => signals.flagged < signals.now BY <1>1, <2>1, <2>3 DEF OnlyMoves
  <2>5. /\ t.at \in NotedAt /\ t.at \notin {"new", "store", "peak", "judge", "log", "done"}
        /\ t.alone = call[c].alone /\ t.flagged = call[c].flagged /\ t.drift = call[c].drift
    BY <2>1 DEF OnlyMoves, NotedAt, BusyAt
  <2>6. "velocity" \in NotedAt BY DEF NotedAt, BusyAt
  <2>7. SoleStep(c, t) BY <2>1, <2>4, <2>5, <2>6, QuietStep
  <2> QED BY <2>7
<1>3. CASE ReadScore(c)
  <2>1. PICK t \in ACall :
          /\ CallStep(c, "persist", t, 0) /\ t.at = "store" /\ t.score = score
          /\ t.flagged = call[c].flagged /\ t.alone = call[c].alone
          /\ t.drift = call[c].drift /\ UNCHANGED <<signals, stored>>
    BY <1>3, ScoreReadDoes
  <2>2. "persist" \in NotedAt /\ "store" \in NotedAt BY DEF NotedAt, BusyAt
  <2>3. SoleStep(c, t) BY <2>1, <2>2, QuietStep
  <2> QED BY <2>3
<1>4. CASE JudgeRisk(c)
  <2>1. PICK t \in ACall :
          /\ CallStep(c, "judge", t, 0) /\ t.at = "log"
          /\ t.flagged = call[c].flagged /\ t.alone = call[c].alone
          /\ t.drift = call[c].drift /\ UNCHANGED <<signals, stored>>
    BY <1>4, JudgeDoes
  <2>2. "judge" \in NotedAt /\ "log" \in NotedAt BY DEF NotedAt, BusyAt
  <2>3. stored.risk = score /\ stored.peak = score BY <1>1, <2>1 DEF CallStep, CallExact
  <2>4. SoleStep(c, t) BY <2>1, <2>2, <2>3, QuietStep
  <2> QED BY <2>4
<1>5. CASE LogDrift(c)
  <2>1. PICK t \in ACall :
          /\ CallStep(c, "log", t, 0) /\ t.at = "done" /\ t.logged = Last(stored.events).drift
          /\ t.flagged = call[c].flagged /\ t.alone = call[c].alone
          /\ t.drift = call[c].drift /\ UNCHANGED <<signals, stored>>
    BY <1>5, LogDoes
  <2>2. "log" \in NotedAt BY DEF NotedAt, BusyAt
  <2>3. /\ stored.risk = score /\ stored.peak = score
        /\ Last(stored.events).drift = call[c].drift
    BY <1>1, <2>1, <2>2 DEF CallStep, CallExact
  <2>4. SoleStep(c, t) BY <2>1, <2>2, <2>3, QuietStep
  <2> QED BY <2>4
<1> QED BY <1>2, <1>3, <1>4, <1>5

LEMMA RiskExactStep ==
  ASSUME RiskTypes, RiskTypes', RiskExact, [RiskNext]_riskVars
  PROVE  RiskExact'
<1>1. CASE UNCHANGED riskVars BY <1>1 DEF RiskExact, riskVars
<1>2. CASE SpanPasses
  <2>1. /\ UNCHANGED <<score, stored, call>>
        /\ signals'.flagged = signals.flagged /\ signals'.now = signals.now + 1
    BY <1>2, TimeDoes
  <2>2. signals.flagged \in Int /\ signals.now \in Int
    <3>1. MaxSpans \in Int BY RiskBounds
    <3>2. signals.flagged \in 0 .. MaxSpans /\ signals.now \in 1 .. MaxSpans BY DEF RiskTypes
    <3> QED BY <3>1, <3>2
  <2>3. ASSUME NEW c \in SessionCalls, CallExact(call[c], stored, signals, score, c)
        PROVE  CallExact(call'[c], stored', signals', score', c)
    <3>1. call[c].at = "flag" => signals'.flagged < signals'.now BY <2>1, <2>2, <2>3 DEF CallExact
    <3> QED BY <2>1, <2>3, <3>1 DEF CallExact
  <2>4. CASE AllAlone(call)
    <3>1. ExactNow(call, stored, signals, score) BY <2>4 DEF RiskExact
    <3> QED BY <2>1, <2>3, <3>1 DEF RiskExact, ExactNow
  <2>5. CASE ~AllAlone(call) BY <2>1, <2>5 DEF RiskExact
  <2> QED BY <2>4, <2>5
<1>3. ASSUME NEW c \in SessionCalls, CallActs(c), AllAlone(call')
      PROVE  ExactNow(call', stored', signals', score')
  <2>1. PICK from \in CallStages, t \in ACall, points \in Nat : Progress(c, from, t, points)
    BY <1>3, EveryStepProgresses
  <2>2. /\ call[c].at = from /\ call'[c] = t /\ t.at # "new"
        /\ \A d \in SessionCalls : d # c => call'[d] = call[d]
    BY <2>1 DEF Progress, CallStep
  <2>3. t.alone BY <1>3, <2>2 DEF AllAlone
  <2>4. \A d \in SessionCalls : d # c /\ call[d].at # "new" => call[d].alone
    BY <1>3, <2>2 DEF AllAlone
  <2>5. CASE BeginCall(c)
    <3>1. call[c].at = "new" BY <2>5 DEF BeginCall, CallMoves
    <3>2. ExactNow(call, stored, signals, score) BY <2>4, <3>1 DEF AllAlone, RiskExact
    <3>3. PICK u \in ACall : SoleStep(c, u) /\ (u.alone => Sole(c)) BY <2>5, <3>2, BeginExact
    <3>4. u = t BY <2>2, <3>3 DEF SoleStep
    <3> QED BY <2>3, <3>2, <3>3, <3>4, SoleStepExact
  <2>6. CASE ~BeginCall(c)
    <3>1. CASE ExactNow(call, stored, signals, score)
      <4>1. PICK u \in ACall : SoleStep(c, u)
        BY <1>3, <2>6, <3>1, AppendExact, ChainExact, FlagExact, StoreExact, PeakExact, QuietExact
        DEF CallActs
      <4>2. call[c].at \in BusyAt
        BY <1>3, <2>6
        DEF CallActs, AppendEvent, AddChain, CheckVelocity, FlagVelocity, ReadScore, StoreScore,
            StorePeak, JudgeRisk, LogDrift, CallMoves, BusyAt
      <4>3. Sole(c) BY <3>1, <4>2 DEF ExactNow, Sole
      <4> QED BY <3>1, <4>1, <4>3, SoleStepExact
    <3>2. CASE ~ExactNow(call, stored, signals, score)
      <4>1. PICK d \in SessionCalls : call[d].at # "new" /\ ~call[d].alone
        BY <3>2 DEF RiskExact, AllAlone
      <4>2. d = c BY <2>4, <4>1
      <4>3. from # "new" BY <2>2, <4>1, <4>2
      <4>4. t.alone = call[c].alone BY <2>1, <4>3 DEF Progress
      <4> QED BY <2>3, <4>1, <4>2, <4>4
    <3> QED BY <3>1, <3>2
  <2> QED BY <2>5, <2>6
<1> QED BY <1>1, <1>2, <1>3, RiskSteps DEF RiskExact

LEMMA RiskExactInit ==
  ASSUME RiskInit
  PROVE  RiskExact
<1>1. \A c \in SessionCalls : call[c].at = "new" /\ call[c].flagged = 0 BY DEF RiskInit
<1>2. score = 0 /\ stored.risk = 0 /\ stored.peak = 0 /\ signals.flagged = 0 BY DEF RiskInit
<1>3. \A c \in SessionCalls : CallExact(call[c], stored, signals, score, c)
  BY <1>1, <1>2 DEF CallExact, NotedAt, BusyAt
<1> QED BY <1>1, <1>2, <1>3 DEF RiskExact, ExactNow, BusyAt

LEMMA RiskExactShow ==
  ASSUME RiskTypes, RiskExact
  PROVE  AloneIsExact
<1> SUFFICES ASSUME AllAlone(call) PROVE
      /\ \A c \in SessionCalls : call[c].at = "done" =>
           /\ call[c].logged = call[c].drift
           /\ \E e \in Range(stored.events) : e.call = c
      /\ (\A c \in SessionCalls : ~Busy(c)) => stored.risk = score /\ stored.peak = score
      /\ \A c, d \in SessionCalls :
           c # d /\ call[c].flagged # 0 => call[d].flagged # call[c].flagged
  BY DEF AloneIsExact, AllAlone
<1>1. ExactNow(call, stored, signals, score) BY DEF RiskExact
<1>2. \A c \in SessionCalls : call[c].at \in BusyAt => Busy(c) BY DEF BusyAt, Busy
<1> QED BY <1>1, <1>2 DEF ExactNow, CallExact

\* RiskIsNeverForgotten: what any handler of a session's calls added counts for each
\* call judged later, however they interleave, but for a sum of just a threshold that
\* rounding may leave below it; and one at a time all that is reported is exact.
THEOREM RiskNeverForgotten ==
  RiskInit /\ [][RiskNext]_riskVars => [](RiskTypeOK /\ RiskIsNeverForgotten)
<1> DEFINE Inv == RiskTypes /\ RiskCounted /\ RiskExact
<1>1. RiskInit => Inv BY RiskTypesInit, RiskCountedInit, RiskExactInit
<1>2. Inv /\ [RiskNext]_riskVars => Inv' BY RiskTypesStep, RiskCountedStep, RiskExactStep
<1>3. Inv => RiskTypeOK /\ RiskIsNeverForgotten
  BY RiskTypesShow, RiskCountedShow, RiskExactShow DEF RiskIsNeverForgotten
<1> HIDE DEF Inv
<1> QED BY <1>1, <1>2, <1>3, PTL

=============================================================================
