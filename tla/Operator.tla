------------------------------- MODULE Operator -------------------------------
(***************************************************************************)
(* The Kubernetes operator: PolicyTranslator turns the policy file into a   *)
(* NetworkPolicy per governed namespace and into the AgentIsolationPolicy   *)
(* singleton; IsolationEnforcer turns the singleton into a                  *)
(* CiliumNetworkPolicy per governed namespace.  They meet in the API server *)
(* only: each reads the informers' caches, which lag behind, and writes with *)
(* Server-Side Apply.                                                       *)
(*                                                                          *)
(*   translator  idle -> work -> status -> idle                             *)
(*   enforcer    idle -> work -> idle                                       *)
(*                                                                          *)
(* A policy object is known by the version of the file it was rendered from. *)
(* Conditions are left out: they say whether the reconcile failed.  So is   *)
(* the informers' resync, every ten hours by default: the properties are    *)
(* about what events alone bring about.                                     *)
(***************************************************************************)
EXTENDS Watcher, FiniteSets

CONSTANTS
  Namespaces,
  MaxUpsets   \* bound: flips of the mode, changes of a label, API calls that
              \* fail and restarts of the operator, taken together

ASSUME OperatorBounds == MaxUpsets \in Nat

NoPolicy == -1
Rendered == Versions \cup {NoPolicy}
Modes == {"Observe", "Enforce"}
Reconcilers == {"translator", "enforcer"}

VARIABLES
  \* the API server
  aip,       \* the singleton: exists, spec.mode, spec.egress, and the namespaces
             \* each reconciler lists as applied in its part of the status
  labels,    \* namespaces labelled perchguard/intercept
  policies,  \* each reconciler's policy object in each namespace
  \* the operator
  aipSeen, labelsSeen,  \* the informers' caches
  aipNews, labelNews,   \* watch events the informers have not delivered
  triggers,  \* the channel the watcher's callback writes to
  due,       \* is the reconciler's workqueue non-empty?
  run,       \* the reconcile each reconciler is in
  upsets,    \* how many there were
  enforced,  \* ghost: was the mode ever Enforce?
  released   \* ghost: namespaces that ever lost the label

humanVars   == <<labels, enforced, released>>
clusterVars == <<aip, policies, aipNews>>
cacheVars   == <<aipSeen, labelsSeen, labelNews>>
vars == <<watcherVars, humanVars, clusterVars, cacheVars, triggers, due, run,
          upsets>>

Nowhere == [r \in Reconcilers |-> {}]

\* Mutant of Absent: what the translator renders has no default mode.
AbsentUnset == [exists |-> FALSE, mode |-> "", egress |-> 0, listed |-> Nowhere]

Absent == [exists |-> FALSE, mode |-> "Observe", egress |-> 0, listed |-> Nowhere]

Idle == [at |-> "idle", mode |-> "Observe", egress |-> 0, prev |-> {}, todo |-> {},
         applied |-> {}, failed |-> FALSE]

Upset == upsets < MaxUpsets /\ upsets' = upsets + 1

-----------------------------------------------------------------------------
(* What happens around the reconcilers *)

\* External: a person or GitOps sets the gate.
FlipMode ==
  /\ aip.exists /\ Upset
  /\ \E mode \in Modes \ {aip.mode} :
       /\ aip' = [aip EXCEPT !.mode = mode]
       /\ enforced' = (enforced \/ mode = "Enforce")
  /\ aipNews' = TRUE
  /\ UNCHANGED <<watcherVars, labels, released, policies, cacheVars, triggers, due, run>>

\* External: a namespace is labelled, or loses its label.
Relabel(n) ==
  /\ Upset
  /\ IF n \in labels
     THEN labels' = labels \ {n} /\ released' = released \cup {n}
     ELSE labels' = labels \cup {n} /\ UNCHANGED released
  /\ labelNews' = labelNews \cup {n}
  /\ UNCHANGED <<watcherVars, enforced, clusterVars, aipSeen, labelsSeen, triggers,
                 due, run>>

\* The watcher's callback drops its signal when one is pending.
Watch ==
  /\ \/ (EditFile \/ BeginCheck \/ FailCheck) /\ UNCHANGED triggers
     \/ Notify /\ triggers' = TRUE
  /\ UNCHANGED <<humanVars, clusterVars, cacheVars, due, run, upsets>>

\* SetupWithManager's goroutine hands it to the translator's queue.
Forward ==
  /\ triggers
  /\ triggers' = FALSE
  /\ due' = [due EXCEPT !["translator"] = TRUE]
  /\ UNCHANGED <<watcherVars, humanVars, clusterVars, cacheVars, run, upsets>>

\* The singleton's informer catches up; both reconcilers watch it.
SeeSingleton ==
  /\ aipNews
  /\ aipNews' = FALSE
  /\ aipSeen' = aip
  /\ due' = [r \in Reconcilers |-> TRUE]
  /\ UNCHANGED <<watcherVars, humanVars, aip, policies, labelsSeen, labelNews,
                 triggers, run, upsets>>

\* A namespace's event reaches the cache; the translator is woken if the event's
\* old or new object has the label.
LabelSeen(n, wakes) ==
  /\ n \in labelNews
  /\ labelNews' = labelNews \ {n}
  /\ labelsSeen' = IF n \in labels THEN labelsSeen \cup {n} ELSE labelsSeen \ {n}
  /\ due' = [due EXCEPT !["translator"] = @ \/ wakes]
  /\ UNCHANGED <<watcherVars, humanVars, clusterVars, aipSeen, triggers, run, upsets>>

\* Mutant of SeeNamespace: the predicate looks at the old object only.
SeeNamespaceOldOnly(n) == LabelSeen(n, n \notin labels)

\* interceptLabelPredicate.  Every event here adds or removes the label, so it
\* always wakes the translator.  The enforcer does not watch namespaces.
SeeNamespace(n) == LabelSeen(n, TRUE)

-----------------------------------------------------------------------------
(* The steps of a reconcile *)

Step(r, state) ==
  /\ run' = [run EXCEPT ![r] = state]
  /\ UNCHANGED <<watcherVars, humanVars, cacheVars, triggers>>

\* The reconcile begins with what the caches hold.
Start(r, mode, egress, governed) ==
  /\ run[r].at = "idle" /\ due[r]
  /\ due' = [due EXCEPT ![r] = FALSE]
  /\ Step(r, [at |-> "work", mode |-> mode, egress |-> egress,
              prev |-> aipSeen.listed[r], todo |-> governed, applied |-> {},
              failed |-> FALSE])
  /\ UNCHANGED <<clusterVars, upsets>>

\* Mutant of Governed: the mode is not asked.
AlwaysGoverned == labelsSeen

Governed == IF aipSeen.mode = "Enforce" THEN labelsSeen ELSE {}

\* A file that does not load fails the reconcile, again and again.  Before the
\* singleton exists the mode is Observe.
BeginTranslate ==
  file \notin Broken /\ Start("translator", aipSeen.mode, file, Governed)

\* Without a singleton there is nothing to enforce.  (Nobody deletes it here.)
BeginEnforce ==
  aipSeen.exists /\ Start("enforcer", Idle.mode, aipSeen.egress, Governed)

\* Patch one namespace's policy; a failure is noted and the loop goes on.
Apply(r, n) ==
  /\ n \in run[r].todo
  /\ \/ /\ Step(r, [run[r] EXCEPT !.todo = @ \ {n}, !.applied = @ \cup {n}])
        /\ policies' = [policies EXCEPT ![r][n] = run[r].egress]
        /\ UNCHANGED upsets
     \/ /\ Upset
        /\ Step(r, [run[r] EXCEPT !.todo = @ \ {n}, !.failed = TRUE])
        /\ UNCHANGED policies
  /\ UNCHANGED <<aip, aipNews, due>>

\* What the status listed and this reconcile did not apply.
Stale(r) == run[r].prev \ run[r].applied

DeleteStale(r, n) ==
  /\ run[r].todo = {} /\ n \in Stale(r)
  /\ \/ /\ Step(r, [run[r] EXCEPT !.prev = @ \ {n}])
        /\ policies' = [policies EXCEPT ![r][n] = NoPolicy]
        /\ UNCHANGED upsets
     \/ /\ Upset
        /\ Step(r, [run[r] EXCEPT !.prev = @ \ {n}, !.failed = TRUE])
        /\ UNCHANGED policies
  /\ UNCHANGED <<aip, aipNews, due>>

WorkDone(r) == run[r].at = "work" /\ run[r].todo = {} /\ Stale(r) = {}

\* A patch of the singleton; one that changes nothing is no event.
Patched(singleton) ==
  /\ aip' = singleton
  /\ aipNews' = (aipNews \/ singleton # aip)
  /\ UNCHANGED <<policies, upsets>>

\* A reconcile that fails is queued again, with backoff.
GiveUp(r) ==
  /\ Upset
  /\ Step(r, Idle)
  /\ due' = [due EXCEPT ![r] = TRUE]
  /\ UNCHANGED clusterVars

\* The spec the translator renders carries the mode it read, and is applied with
\* ForceOwnership.
PatchSpec ==
  /\ WorkDone("translator")
  /\ \/ /\ Step("translator", [run["translator"] EXCEPT !.at = "status", !.prev = {}])
        /\ Patched([aip EXCEPT !.exists = TRUE, !.mode = run["translator"].mode,
                               !.egress = run["translator"].egress])
        /\ UNCHANGED due
     \/ GiveUp("translator")

\* The translator patches its status after the spec.
StatusNext(r) == IF r = "translator" THEN run[r].at = "status" ELSE WorkDone(r)

\* Each field owner writes its own part of the status.  If an apply or a delete
\* failed, so does the reconcile.
StatusPatched(r, list, again) ==
  /\ StatusNext(r)
  /\ \/ /\ Step(r, Idle)
        /\ Patched([aip EXCEPT !.listed[r] = list])
        /\ due' = [due EXCEPT ![r] = @ \/ again]
     \/ GiveUp(r)

\* Mutants of PatchStatus: everything governed is listed, whether or not it was
\* applied; a failed reconcile is not queued again.
PatchStatusGoverned(r) == StatusPatched(r, Governed, run[r].failed)
PatchStatusForgets(r) == StatusPatched(r, run[r].applied, FALSE)

PatchStatus(r) == StatusPatched(r, run[r].applied, run[r].failed)

Reconcile(r) ==
  \/ PatchStatus(r)
  \/ \E n \in Namespaces : Apply(r, n) \/ DeleteStale(r, n)

Translate == BeginTranslate \/ PatchSpec \/ Reconcile("translator")

Enforce == BeginEnforce \/ Reconcile("enforcer")

-----------------------------------------------------------------------------
(* A restart: main loads the file and hashes it, the caches are filled, and the *)
(* informers report every object they find as created.                        *)

Restarted(queues) ==
  /\ file \notin Broken /\ Upset
  /\ lastHash' = file /\ check' = NoCheck
  /\ triggers' = FALSE
  /\ run' = [r \in Reconcilers |-> Idle]
  /\ aipSeen' = aip /\ aipNews' = FALSE
  /\ labelsSeen' = labels /\ labelNews' = {}
  /\ due' = queues
  /\ UNCHANGED <<file, humanVars, aip, policies>>

\* Mutant of Restart: only labelled namespaces wake the translator.
RestartUnaware ==
  Restarted([translator |-> labels # {}, enforcer |-> aip.exists])

Restart ==
  Restarted([translator |-> labels # {} \/ aip.exists, enforcer |-> aip.exists])

Init ==
  /\ WatcherInit
  /\ aip = Absent /\ aipSeen = Absent /\ aipNews = FALSE
  /\ labels \in SUBSET Namespaces /\ labelsSeen = labels /\ labelNews = {}
  /\ policies = [r \in Reconcilers |-> [n \in Namespaces |-> NoPolicy]]
  /\ triggers = FALSE
  /\ due = [translator |-> labels # {}, enforcer |-> FALSE]
  /\ run = [r \in Reconcilers |-> Idle]
  /\ upsets = 0 /\ enforced = FALSE /\ released = {}

Next ==
  \/ FlipMode \/ Watch \/ Forward \/ SeeSingleton \/ Translate \/ Enforce \/ Restart
  \/ \E n \in Namespaces : Relabel(n) \/ SeeNamespace(n)

Spec == Init /\ [][Next]_vars

\* The watcher ticks, the informers deliver and the queues are worked off.
Fairness ==
  /\ WF_vars(Watch /\ ~EditFile) /\ WF_vars(Forward) /\ WF_vars(SeeSingleton)
  /\ WF_vars(Translate) /\ WF_vars(Enforce)
  /\ \A n \in Namespaces : WF_vars(SeeNamespace(n))

FairSpec == Spec /\ Fairness

-----------------------------------------------------------------------------
(* Properties *)

\* Every variable stays within its type; a reconcile names only versions there are.
TypeOK ==
  /\ WatcherTypeOK
  /\ {aip, aipSeen} \subseteq [exists : BOOLEAN, mode : Modes, egress : Versions,
                               listed : [Reconcilers -> SUBSET Namespaces]]
  /\ {labels, labelsSeen, labelNews, released} \subseteq SUBSET Namespaces
  /\ policies \in [Reconcilers -> [Namespaces -> Rendered]]
  /\ {aipNews, triggers, enforced} \subseteq BOOLEAN
  /\ due \in [Reconcilers -> BOOLEAN]
  /\ run \in [Reconcilers ->
       [at : {"idle", "work", "status"}, mode : Modes,
        egress : Versions, prev : SUBSET Namespaces, todo : SUBSET Namespaces,
        applied : SUBSET Namespaces, failed : BOOLEAN]]

Live(r) == {n \in Namespaces : policies[r][n] # NoPolicy}

\* Observe, the shipped default, is a strict no-op: until somebody sets Enforce no
\* reconcile touches the cluster's traffic, whatever fails or restarts.
NothingBeforeEnforce == ~enforced => \A r \in Reconcilers : Live(r) = {}

\* The status names no policy that is not there, unless the reconciler whose part
\* it is works on it or is about to, also after a crash between the change and the
\* status patch.
StatusIsTrue ==
  \A r \in Reconcilers :
    aip.listed[r] \subseteq Live(r) \/ run[r].at # "idle" \/ due[r]

\* A namespace that stays labelled while the mode stays Enforce ends up with the
\* NetworkPolicy of the file that is there, whatever order edits, files that do not
\* load, label changes, failing calls and restarts came in.  So does its
\* CiliumNetworkPolicy, two hand-overs further, unless the label was ever taken
\* away: the enforcer hears of labels only when the translator's status changes.
Enforced ==
  \A n \in Namespaces :
    <>[](aip.mode = "Enforce" /\ n \in labels /\ file \notin Broken)
      => <>[](/\ policies["translator"][n] = file
              /\ n \notin released => policies["enforcer"][n] = file)
=============================================================================
