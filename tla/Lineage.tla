------------------------------- MODULE Lineage -------------------------------
(***************************************************************************)
(* Data lineage: which outputs of which calls a session knows, so that a     *)
(* call which takes one of them out of the boundary is held for a person.    *)
(*                                                                          *)
(*   call       new -> look -> check -> edge -> add -> done                 *)
(*   register   new -> verify -> graph -> seed -> done      (or refused)    *)
(*                                                                          *)
(* A graph is found or made under the store's lock and filled under its own, *)
(* and the reaper may let go of it in between; so graphs are numbered as     *)
(* they are made, and goroutines hold numbers.                               *)
(*                                                                          *)
(* A ref names the session and the request that produced it: LineageRef      *)
(* hashes the two.  Tools are left out; only the session a ref came from     *)
(* could go wrong where the tool does not.                                   *)
(***************************************************************************)
EXTENDS Integers, FiniteSets

CONSTANTS
  Family,     \* sessions; Root is registered, the others register below another
  Root,
  Uids,       \* the UIDs requests carry; two may carry the same
  Requests,   \* bound: calls
  MaxBegun,   \* bound: calls and registrations begun
  MaxRefs,    \* bound: refs a call consumes
  MaxGraphs,  \* bound: graphs made
  MaxExpiries \* bound: times each session expires

\* What a graph says of a ref it has no producer of; no session is called that.
Unknown == "unknown"

ASSUME FamilyAssumption == Root \in Family /\ Unknown \notin Family /\ Uids # {}
ASSUME LineageBounds == {MaxBegun, MaxRefs, MaxGraphs, MaxExpiries} \subseteq Nat

Refs == Family \X Uids
Graphs == 1 .. MaxGraphs

VARIABLES
  graphOf,   \* LineageStore.graphs, 0 when absent
  origin,    \* of each graph: the session a known ref was produced in
  edges,     \* of each graph: the refs consumed to produce a ref
  graphs,    \* graphs made so far
  request,   \* of each call: what it asks, where it is, the graph it holds
  heir,      \* of each registration: what it claims, where it is, the graph it holds
  expiries   \* times each session expired

lineageVars == <<graphOf, origin, edges, graphs, request, heir, expiries>>

Out(r) == <<request[r].of, request[r].uid>>

\* A goroutine finds the graph of s, or makes one, under the store's lock.
HasGraph(s) == graphOf[s] # 0
Make(s) ==
  /\ graphs < MaxGraphs
  /\ graphs' = graphs + 1
  /\ graphOf' = [graphOf EXCEPT ![s] = graphs + 1]

MayBegin ==
  Cardinality({r \in Requests : request[r].at # "new"})
    + Cardinality({s \in Family : heir[s].at # "new"}) < MaxBegun

-----------------------------------------------------------------------------
(* A call: LineageValidator.Validate *)

RequestStep(r, from, state) ==
  /\ request[r].at = from
  /\ request' = [request EXCEPT ![r] = state]
  /\ UNCHANGED <<heir, expiries>>

\* What the session holds on its own account: outputs of its answered calls and refs
\* it was registered with, since it last expired.
Knows(s, ref) ==
  \/ \E r \in Requests : /\ request[r].at = "done" /\ Out(r) = ref
                         /\ request[r].of = s /\ request[r].since = expiries[s]
  \/ heir[s].at = "done" /\ ref \in heir[s].refs /\ expiries[s] = 0

\* Only a call that consumes refs and has an external destination is looked at.
BeginRequest(r, s, uid, refs, external) ==
  /\ s = Root \/ heir[s].at = "done"
  /\ RequestStep(r, "new",
       [at |-> IF refs # {} /\ external THEN "look" ELSE "edge",
        of |-> s, uid |-> uid, refs |-> refs, external |-> external, graph |-> 0,
        held |-> FALSE, since |-> expiries[s],
        tracked |-> \E ref \in refs : Knows(s, ref)])
  /\ UNCHANGED <<graphOf, origin, edges, graphs>>

\* Mutant of LookUpGraph: a session's graph is taken to be there.
LookUpGraphUnchecked(r) ==
  /\ RequestStep(r, "look", [request[r] EXCEPT !.at = "check",
                                               !.graph = graphOf[request[r].of]])
  /\ UNCHANGED <<graphOf, origin, edges, graphs>>

LookUpGraph(r) ==
  LET g == graphOf[request[r].of]
  IN  RequestStep(r, "look", [request[r] EXCEPT !.at = IF g = 0 THEN "edge" ELSE "check",
                                                !.graph = g])
      /\ UNCHANGED <<graphOf, origin, edges, graphs>>

\* HasAny, under the graph's lock.
CheckRefs(r) ==
  LET g == request[r].graph
  IN  RequestStep(r, "check",
        [request[r] EXCEPT !.at = "edge",
                           !.held = \E ref \in request[r].refs : origin[g][ref] # Unknown])
      /\ UNCHANGED <<graphOf, origin, edges, graphs>>

\* AddEdge, as long as it holds the store's lock ...
AddEdge(r) ==
  LET s == request[r].of
  IN  /\ RequestStep(r, "edge", [request[r] EXCEPT !.at = "add",
                                   !.graph = IF HasGraph(s) THEN graphOf[s] ELSE graphs + 1])
      /\ IF HasGraph(s) THEN UNCHANGED <<graphOf, graphs>> ELSE Make(s)
      /\ UNCHANGED <<origin, edges>>

Record(r, recorded) ==
  LET g == request[r].graph
  IN  /\ RequestStep(r, "add", [request[r] EXCEPT !.at = "done", !.graph = 0])
      /\ IF recorded
         THEN /\ origin' = [origin EXCEPT ![g][Out(r)] = request[r].of]
              /\ edges' = [edges EXCEPT ![g][Out(r)] = request[r].refs]
         ELSE UNCHANGED <<origin, edges>>
      /\ UNCHANGED <<graphOf, graphs>>

\* Mutant of Add: a call that consumes nothing leaves no edge.
AddConsuming(r) == Record(r, request[r].refs # {})

\* ... and then the graph's.  The edge of a call that was held is recorded too.
Add(r) == Record(r, TRUE)

-----------------------------------------------------------------------------
(* A registration with inherited_data_refs: registerAgent and SeedInherited *)

HeirStep(s, from, state) ==
  /\ heir[s].at = from
  /\ heir' = [heir EXCEPT ![s] = state]
  /\ UNCHANGED <<request, expiries>>

\* The parent proved its token.  Its graph is looked up once.
BeginHeir(s, parent, refs) ==
  /\ s # Root /\ (parent = Root \/ heir[parent].at = "done")
  /\ HeirStep(s, "new",
       [at |-> IF refs = {} THEN "done"
               ELSE IF graphOf[parent] = 0 THEN "refused" ELSE "verify",
        parent |-> parent, graph |-> graphOf[parent], own |-> 0,
        refs |-> refs, todo |-> refs])
  /\ UNCHANGED <<graphOf, origin, edges, graphs>>

\* Each claimed ref is verified against that graph; the first the parent does not
\* know refuses the registration.
VerifyRef(s) ==
  \E ref \in heir[s].todo :
    LET known == origin[heir[s].graph][ref] # Unknown
        rest  == heir[s].todo \ {ref}
    IN  /\ HeirStep(s, "verify",
             IF ~known THEN [heir[s] EXCEPT !.at = "refused"]
             ELSE IF rest # {} THEN [heir[s] EXCEPT !.todo = rest]
             ELSE [heir[s] EXCEPT !.at = "graph", !.todo = heir[s].refs])
        /\ UNCHANGED <<graphOf, origin, edges, graphs>>

\* SeedInherited finds or makes the child's graph, and copies from parentGraph.
InheritFrom(s, parentGraph) ==
  /\ HeirStep(s, "graph",
       IF parentGraph = 0 THEN [heir[s] EXCEPT !.at = "done"]
       ELSE [heir[s] EXCEPT !.at = "seed", !.graph = parentGraph,
                            !.own = IF HasGraph(s) THEN graphOf[s] ELSE graphs + 1])
  /\ IF parentGraph = 0 \/ HasGraph(s) THEN UNCHANGED <<graphOf, graphs>> ELSE Make(s)
  /\ UNCHANGED <<origin, edges>>

\* Mutant of SeedInherited: the parent's graph is looked up again.
SeedInheritedById(s) == InheritFrom(s, graphOf[heir[s].parent])

SeedInherited(s) == InheritFrom(s, heir[s].graph)

\* Producer and seedRef: a ref keeps the session it was produced in.
SeedRef(s) ==
  \E ref \in heir[s].todo :
    LET own  == heir[s].own
        rest == heir[s].todo \ {ref}
        last == rest = {}
    IN  /\ HeirStep(s, "seed", [heir[s] EXCEPT !.todo = rest,
                                  !.at = IF last THEN "done" ELSE "seed",
                                  !.graph = IF last THEN 0 ELSE @,
                                  !.own = IF last THEN 0 ELSE @])
        /\ origin' = IF origin[own][ref] = Unknown
                     THEN [origin EXCEPT ![own][ref] = origin[heir[s].graph][ref]]
                     ELSE origin
        /\ UNCHANGED <<graphOf, edges, graphs>>

-----------------------------------------------------------------------------
\* The reaper's onExpire evicts the session's graph.  A later call makes another.
Expire(s) ==
  /\ s = Root \/ heir[s].at = "done"
  /\ \E n \in 1 .. MaxExpiries : \A t \in Family : expiries[t] < n
  /\ expiries' = [expiries EXCEPT ![s] = @ + 1]
  /\ graphOf' = [graphOf EXCEPT ![s] = 0]
  /\ UNCHANGED <<origin, edges, graphs, request, heir>>

LineageInit ==
  /\ graphOf = [s \in Family |-> 0]
  /\ origin = [g \in Graphs |-> [ref \in Refs |-> Unknown]]
  /\ edges = [g \in Graphs |-> [ref \in Refs |-> {}]]
  /\ graphs = 0
  /\ request = [r \in Requests |->
       [at |-> "new", of |-> Root, uid |-> CHOOSE u \in Uids : TRUE, refs |-> {},
        external |-> FALSE, graph |-> 0, held |-> FALSE, since |-> 0, tracked |-> FALSE]]
  /\ heir = [s \in Family |-> [at |-> "new", parent |-> Root, graph |-> 0, own |-> 0,
                               refs |-> {}, todo |-> {}]]
  /\ expiries = [s \in Family |-> 0]

Validate(r) ==
  \/ \E s \in Family, uid \in Uids, refs \in SUBSET Refs, external \in BOOLEAN :
       /\ MayBegin /\ Cardinality(refs) <= MaxRefs /\ (external => refs # {})
       /\ BeginRequest(r, s, uid, refs, external)
  \/ LookUpGraph(r) \/ CheckRefs(r) \/ AddEdge(r) \/ Add(r)

RegisterHeir(s) ==
  \/ MayBegin /\ \E parent \in Family, refs \in SUBSET Refs : BeginHeir(s, parent, refs)
  \/ VerifyRef(s) \/ SeedInherited(s) \/ SeedRef(s)

LineageNext ==
  \/ \E r \in Requests : Validate(r)
  \/ \E s \in Family : RegisterHeir(s) \/ Expire(s)

LineageSpec == LineageInit /\ [][LineageNext]_lineageVars

-----------------------------------------------------------------------------
(* Properties *)

RequestState ==
  [at : {"new", "look", "check", "edge", "add", "done"}, of : Family, uid : Uids,
   refs : SUBSET Refs, external : BOOLEAN, graph : Graphs \cup {0}, held : BOOLEAN,
   since : Nat, tracked : BOOLEAN]
HeirState ==
  [at : {"new", "verify", "graph", "seed", "done", "refused"}, parent : Family,
   graph : Graphs \cup {0}, own : Graphs \cup {0}, refs : SUBSET Refs, todo : SUBSET Refs]

\* Every variable stays within its type, and nobody follows a nil graph.
LineageTypeOK ==
  /\ graphOf \in [Family -> 0 .. graphs] /\ graphs \in 0 .. MaxGraphs
  /\ origin \in [Graphs -> [Refs -> Family \cup {Unknown}]]
  /\ edges \in [Graphs -> [Refs -> SUBSET Refs]]
  /\ request \in [Requests -> RequestState]
  /\ heir \in [Family -> HeirState]
  /\ expiries \in [Family -> Nat]
  /\ \A r \in Requests : request[r].at \in {"check", "add"} => request[r].graph # 0
  /\ \A s \in Family : /\ heir[s].at \in {"verify", "graph", "seed"} => heir[s].graph # 0
                       /\ heir[s].at = "seed" => heir[s].own # 0

\* What a session knows and takes out of the boundary is held for review, however
\* its calls, its registration and those of its children interleave - unless the
\* session expired while the call was judged.
TrackedDataIsHeld ==
  \A r \in Requests :
    /\ request[r].at = "done" /\ request[r].external /\ request[r].tracked
    /\ request[r].since = expiries[request[r].of]
    => request[r].held

\* "forensics need the full attempted flow, not just violations": the graph has the
\* edge of every answered call, or of a later one with the same UID, unless the
\* session expired since it began.
FlowIsRecorded ==
  \A r \in Requests :
    request[r].at = "done" /\ request[r].since = expiries[request[r].of] =>
      LET g == graphOf[request[r].of]
      IN  /\ HasGraph(request[r].of) /\ origin[g][Out(r)] # Unknown
          /\ \E q \in Requests : Out(q) = Out(r) /\ request[q].at = "done"
                                 /\ edges[g][Out(r)] = request[q].refs

\* Both, of calls that find, fill and release graphs in one another's way.
FlowIsKeptAndHeld == TrackedDataIsHeld /\ FlowIsRecorded

\* "eviction after verification can't affect this call": whoever was registered with
\* refs knows them all, whenever the parent expired, unless it expired itself.  And
\* "real provenance": what a graph says a ref came from is the session whose call
\* produced it, across any number of hand-overs.
InheritedRefsAreReal ==
  /\ \A s \in Family :
       heir[s].at = "done" /\ heir[s].refs # {} /\ expiries[s] = 0 =>
         HasGraph(s) /\ \A ref \in heir[s].refs : origin[graphOf[s]][ref] # Unknown
  /\ \A g \in Graphs, ref \in Refs :
       origin[g][ref] # Unknown =>
         /\ origin[g][ref] = ref[1]
         /\ \E r \in Requests : Out(r) = ref /\ request[r].at = "done"
=============================================================================
