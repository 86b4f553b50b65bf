---------------------------- MODULE OperatorProofs ----------------------------
(***************************************************************************)
(* Proofs about Operator, for any namespaces, any number of edits of the    *)
(* file and any number of upsets.                                           *)
(***************************************************************************)
EXTENDS Operator, TLAPS

\* The state of the singleton, and of a reconcile.
Singleton == [exists : BOOLEAN, mode : Modes, egress : Versions,
              listed : [Reconcilers -> SUBSET Namespaces]]
Job == [at : {"idle", "work", "status"}, mode : Modes, egress : Versions,
        prev : SUBSET Namespaces, todo : SUBSET Namespaces,
        applied : SUBSET Namespaces, failed : BOOLEAN]

\* The conjuncts of TypeOK, each about one part of the state.
ClusterTypeOK ==
  /\ aip \in Singleton /\ aipSeen \in Singleton
  /\ policies \in [Reconcilers -> [Namespaces -> Rendered]]
LabelsTypeOK ==
  /\ labels \subseteq Namespaces /\ labelsSeen \subseteq Namespaces
  /\ labelNews \subseteq Namespaces /\ released \subseteq Namespaces
SignalsTypeOK ==
  /\ aipNews \in BOOLEAN /\ triggers \in BOOLEAN /\ enforced \in BOOLEAN
  /\ due \in [Reconcilers -> BOOLEAN]
JobsTypeOK == run \in [Reconcilers -> Job]

Types == WatcherTypeOK /\ ClusterTypeOK /\ LabelsTypeOK /\ SignalsTypeOK /\ JobsTypeOK

-----------------------------------------------------------------------------
(* The disjuncts of Next *)

\* What happens around the reconcilers ...
Around ==
  \/ FlipMode \/ Watch \/ Forward \/ SeeSingleton \/ Restart
  \/ \E n \in Namespaces : Relabel(n) \/ SeeNamespace(n)
  \/ UNCHANGED vars

\* ... and what they do.
Work ==
  \/ BeginTranslate \/ BeginEnforce \/ PatchSpec
  \/ \E r \in Reconcilers : PatchStatus(r)
  \/ \E r \in Reconcilers, n \in Namespaces : Apply(r, n) \/ DeleteStale(r, n)

LEMMA NextCases == [Next]_vars => Around \/ Work
BY DEF Next, Around, Work, Translate, Enforce, Reconcile, Reconcilers

\* The record of the two queues is a function on the reconcilers.
LEMMA TwoQueues ==
  ASSUME NEW t \in BOOLEAN, NEW e \in BOOLEAN
  PROVE  /\ [translator |-> t, enforcer |-> e] \in [Reconcilers -> BOOLEAN]
         /\ [translator |-> t, enforcer |-> e]["translator"] = t
         /\ [translator |-> t, enforcer |-> e]["enforcer"] = e
BY DEF Reconcilers

-----------------------------------------------------------------------------
(* Type correctness *)

\* Nothing but a restart or the watcher's own goroutine touches the watcher.
LEMMA WatcherStep ==
  ASSUME Types, [Next]_vars
  PROVE  WatcherTypeOK'
<1> USE DEF Types, WatcherTypeOK, Versions
<1>1. CASE Watch
  BY <1>1, WatcherAssumption DEF Watch, EditFile, BeginCheck, FailCheck, Notify
<1>2. CASE Restart
  BY <1>2 DEF Restart, Restarted
<1>3. CASE \/ FlipMode \/ Forward \/ SeeSingleton
           \/ \E n \in Namespaces : Relabel(n) \/ SeeNamespace(n)
           \/ UNCHANGED vars
  BY <1>3 DEF FlipMode, Forward, SeeSingleton, Relabel, SeeNamespace, LabelSeen, watcherVars, vars
<1>4. CASE Work
  BY <1>4 DEF Work, BeginTranslate, BeginEnforce, PatchSpec, PatchStatus, StatusPatched, Apply,
     DeleteStale, GiveUp, Start, Step, watcherVars
<1> QED BY <1>1, <1>2, <1>3, <1>4, NextCases DEF Around

\* The singleton's modes and versions are real ones, in the API server as in the cache.
LEMMA ClusterStep ==
  ASSUME Types, [Next]_vars
  PROVE  ClusterTypeOK'
<1> USE DEF Types, ClusterTypeOK, Singleton, Modes, Reconcilers
<1>1. CASE FlipMode
  BY <1>1 DEF FlipMode, cacheVars, clusterVars
<1>2. CASE SeeSingleton \/ Restart
  BY <1>2 DEF SeeSingleton, Restart, Restarted
<1>3. CASE \/ Watch \/ Forward
           \/ \E n \in Namespaces : Relabel(n) \/ SeeNamespace(n)
           \/ UNCHANGED vars
  BY <1>3 DEF Watch, Forward, Relabel, SeeNamespace, LabelSeen, clusterVars, cacheVars, vars
<1>4. CASE BeginTranslate \/ BeginEnforce
  BY <1>4 DEF BeginTranslate, BeginEnforce, Start, Step, clusterVars, cacheVars
<1>5. CASE PatchSpec
  BY <1>5 DEF PatchSpec, Patched, GiveUp, Step, clusterVars, cacheVars, JobsTypeOK, Job
<1>6. CASE \E r \in Reconcilers : PatchStatus(r)
  BY <1>6 DEF PatchStatus, StatusPatched, Patched, GiveUp, Step, clusterVars, cacheVars,
     JobsTypeOK, Job
<1>7. CASE \E r \in Reconcilers, n \in Namespaces : Apply(r, n) \/ DeleteStale(r, n)
  BY <1>7 DEF Apply, DeleteStale, Step, cacheVars, JobsTypeOK, Job, Rendered
<1> QED BY <1>1, <1>2, <1>3, <1>4, <1>5, <1>6, <1>7, NextCases DEF Around, Work

LEMMA LabelsStep ==
  ASSUME Types, [Next]_vars
  PROVE  LabelsTypeOK'
<1> USE DEF Types, LabelsTypeOK
<1>1. CASE Around
  BY <1>1 DEF Around, FlipMode, Watch, Forward, SeeSingleton, Restart, Restarted, Relabel,
     SeeNamespace, LabelSeen, humanVars, cacheVars, vars
<1>2. CASE Work
  BY <1>2 DEF Work, BeginTranslate, BeginEnforce, PatchSpec, PatchStatus, StatusPatched, Apply,
     DeleteStale, GiveUp, Start, Step, humanVars, cacheVars
<1> QED BY <1>1, <1>2, NextCases

LEMMA SignalsStep ==
  ASSUME Types, [Next]_vars
  PROVE  SignalsTypeOK'
<1> USE DEF Types, SignalsTypeOK
<1>1. CASE Restart
  <2>1. PICK t \in BOOLEAN, e \in BOOLEAN : due' = [translator |-> t, enforcer |-> e]
    BY <1>1 DEF Restart, Restarted, ClusterTypeOK, Singleton
  <2>2. due' \in [Reconcilers -> BOOLEAN]
    BY <2>1, TwoQueues
  <2> QED BY <1>1, <2>2 DEF Restart, Restarted, humanVars
<1>2. CASE Watch \/ Forward \/ SeeSingleton
  BY <1>2 DEF Watch, Forward, SeeSingleton, humanVars, clusterVars
<1>3. CASE FlipMode
  BY <1>3 DEF FlipMode
<1>4. CASE \E n \in Namespaces : SeeNamespace(n)
  BY <1>4 DEF SeeNamespace, LabelSeen, humanVars, clusterVars
<1>5. CASE (\E n \in Namespaces : Relabel(n)) \/ UNCHANGED vars
  BY <1>5 DEF Relabel, clusterVars, humanVars, vars
<1>6. CASE BeginTranslate \/ BeginEnforce
  BY <1>6 DEF BeginTranslate, BeginEnforce, Start, Step, humanVars, clusterVars
<1>7. CASE PatchSpec
  BY <1>7 DEF PatchSpec, Patched, GiveUp, Step, humanVars, clusterVars
<1>8. CASE \E r \in Reconcilers : PatchStatus(r)
  <2>1. \A r \in Reconcilers : run[r].failed \in BOOLEAN
    BY DEF JobsTypeOK, Job
  <2> QED BY <1>8, <2>1 DEF PatchStatus, StatusPatched, Patched, GiveUp, Step, humanVars, clusterVars
<1>9. CASE \E r \in Reconcilers, n \in Namespaces : Apply(r, n) \/ DeleteStale(r, n)
  BY <1>9 DEF Apply, DeleteStale, Step, humanVars
<1> QED
  BY <1>1, <1>2, <1>3, <1>4, <1>5, <1>6, <1>7, <1>8, <1>9, NextCases DEF Around, Work

\* A reconcile works on real namespaces with a real version.
LEMMA JobsStep ==
  ASSUME Types, [Next]_vars
  PROVE  JobsTypeOK'
<1> USE DEF Types, JobsTypeOK
<1>1. ASSUME NEW r \in Reconcilers, NEW state \in Job, Step(r, state)
      PROVE  run' \in [Reconcilers -> Job]
  BY <1>1 DEF Step
<1>2. Idle \in Job
  BY WatcherAssumption DEF Idle, Job, Modes, Versions
<1>3. CASE Around
  BY <1>2, <1>3 DEF Around, FlipMode, Watch, Forward, SeeSingleton, Restart, Restarted, Relabel,
     SeeNamespace, LabelSeen, vars, Job, Reconcilers
<1> DEFINE Begun(r, mode, egress) ==
             [at |-> "work", mode |-> mode, egress |-> egress, prev |-> aipSeen.listed[r],
              todo |-> Governed, applied |-> {}, failed |-> FALSE]
<1>4. ASSUME NEW r \in Reconcilers, NEW mode \in Modes, NEW egress \in Versions
      PROVE  Begun(r, mode, egress) \in Job
  BY <1>4 DEF Job, ClusterTypeOK, LabelsTypeOK, Singleton, Governed
<1>5. CASE BeginTranslate
  <2>1. file \in Versions /\ aipSeen.mode \in Modes
    BY DEF WatcherTypeOK, ClusterTypeOK, Singleton
  <2>2. Step("translator", Begun("translator", aipSeen.mode, file))
    BY <1>5 DEF BeginTranslate, Start
  <2> QED BY <1>1, <1>4, <2>1, <2>2 DEF Job, Reconcilers
<1>6. CASE BeginEnforce
  <2>1. aipSeen.egress \in Versions /\ Idle.mode \in Modes
    BY DEF ClusterTypeOK, Singleton, Idle, Modes
  <2>2. Step("enforcer", Begun("enforcer", Idle.mode, aipSeen.egress))
    BY <1>6 DEF BeginEnforce, Start
  <2> QED BY <1>1, <1>4, <2>1, <2>2 DEF Job, Reconcilers
<1>7. CASE PatchSpec
  <2>1. [run["translator"] EXCEPT !.at = "status", !.prev = {}] \in Job
    BY DEF Job, Reconcilers
  <2> QED BY <1>1, <1>2, <1>7, <2>1 DEF PatchSpec, GiveUp, Job, Reconcilers
<1>8. CASE \E r \in Reconcilers : PatchStatus(r)
  BY <1>1, <1>2, <1>8 DEF PatchStatus, StatusPatched, GiveUp, Job
<1>9. CASE \E r \in Reconcilers, n \in Namespaces : Apply(r, n) \/ DeleteStale(r, n)
  <2>1. PICK r \in Reconcilers, n \in Namespaces : Apply(r, n) \/ DeleteStale(r, n)
    BY <1>9
  <2>2. run[r] \in Job
    OBVIOUS
  <2>3. [run[r] EXCEPT !.todo = @ \ {n}, !.applied = @ \cup {n}] \in Job
    BY <2>2 DEF Job
  <2>4. [run[r] EXCEPT !.todo = @ \ {n}, !.failed = TRUE] \in Job
    BY <2>2 DEF Job
  <2>5. [run[r] EXCEPT !.prev = @ \ {n}] \in Job
    BY <2>2 DEF Job
  <2>6. [run[r] EXCEPT !.prev = @ \ {n}, !.failed = TRUE] \in Job
    BY <2>2 DEF Job
  <2> QED BY <1>1, <2>1, <2>3, <2>4, <2>5, <2>6 DEF Apply, DeleteStale, Job
<1> QED BY <1>3, <1>5, <1>6, <1>7, <1>8, <1>9, NextCases DEF Work

LEMMA InitTypes ==
  ASSUME Init
  PROVE  Types
<1>1. WatcherTypeOK
  BY WatcherAssumption DEF Init, WatcherInit, WatcherTypeOK, Versions
<1>2. Absent \in Singleton /\ Idle \in Job
  BY WatcherAssumption DEF Absent, Idle, Singleton, Job, Nowhere, Modes, Versions
<1>3. ClusterTypeOK /\ JobsTypeOK /\ LabelsTypeOK
  BY <1>2 DEF Init, ClusterTypeOK, JobsTypeOK, LabelsTypeOK, Rendered
<1>4. SignalsTypeOK
  <2>1. PICK t \in BOOLEAN : due = [translator |-> t, enforcer |-> FALSE]
    BY DEF Init
  <2>2. due \in [Reconcilers -> BOOLEAN]
    BY <2>1, TwoQueues
  <2> QED BY <2>2 DEF Init, SignalsTypeOK
<1> QED BY <1>1, <1>3, <1>4 DEF Types

LEMMA TypesStep == Types /\ [Next]_vars => Types'
BY WatcherStep, ClusterStep, LabelsStep, SignalsStep, JobsStep DEF Types

\* Type correctness of the operator: reconciles work on namespaces and versions there are.
THEOREM OperatorTypeOK == Spec => []TypeOK
<1>1. Types => TypeOK
  BY DEF Types, ClusterTypeOK, LabelsTypeOK, SignalsTypeOK, JobsTypeOK, TypeOK, Singleton, Job
<1> QED BY <1>1, InitTypes, TypesStep, PTL DEF Spec

-----------------------------------------------------------------------------
(* What one step of a reconcile does *)

\* Applying a policy, or failing to.
LEMMA ApplyDoes ==
  ASSUME Types, NEW r \in Reconcilers, NEW n \in Namespaces, Apply(r, n)
  PROVE  \E job \in Job :
           /\ n \in run[r].todo /\ run' = [run EXCEPT ![r] = job]
           /\ job.at = run[r].at /\ job.mode = run[r].mode /\ job.todo = run[r].todo \ {n}
           /\ job.prev = run[r].prev
           /\ \/ /\ job.applied = run[r].applied \cup {n}
                 /\ policies' = [policies EXCEPT ![r][n] = run[r].egress]
              \/ job.applied = run[r].applied /\ policies' = policies
           /\ UNCHANGED <<aip, aipNews, aipSeen, due, enforced>>
<1>1. run[r] \in Job
  BY DEF Types, JobsTypeOK
<1>2. CASE /\ Step(r, [run[r] EXCEPT !.todo = @ \ {n}, !.applied = @ \cup {n}])
           /\ policies' = [policies EXCEPT ![r][n] = run[r].egress]
  <2> DEFINE job == [run[r] EXCEPT !.todo = @ \ {n}, !.applied = @ \cup {n}]
  <2>1. /\ job \in Job /\ job.at = run[r].at /\ job.mode = run[r].mode
        /\ job.todo = run[r].todo \ {n} /\ job.applied = run[r].applied \cup {n}
        /\ job.prev = run[r].prev
    BY <1>1 DEF Job
  <2> HIDE DEF job
  <2> QED BY <1>2, <2>1 DEF Apply, Step, cacheVars, humanVars, job
<1>3. CASE /\ Step(r, [run[r] EXCEPT !.todo = @ \ {n}, !.failed = TRUE])
           /\ UNCHANGED policies
  <2> DEFINE job == [run[r] EXCEPT !.todo = @ \ {n}, !.failed = TRUE]
  <2>1. /\ job \in Job /\ job.at = run[r].at /\ job.mode = run[r].mode
        /\ job.todo = run[r].todo \ {n} /\ job.applied = run[r].applied
        /\ job.prev = run[r].prev
    BY <1>1 DEF Job
  <2> HIDE DEF job
  <2> QED BY <1>3, <2>1 DEF Apply, Step, cacheVars, humanVars, job
<1> QED BY <1>2, <1>3 DEF Apply

\* Deleting a stale policy, or failing to.
LEMMA DeleteStaleDoes ==
  ASSUME Types, NEW r \in Reconcilers, NEW n \in Namespaces, DeleteStale(r, n)
  PROVE  \E job \in Job :
           /\ n \notin run[r].applied /\ run' = [run EXCEPT ![r] = job]
           /\ job.at = run[r].at /\ job.mode = run[r].mode /\ job.todo = run[r].todo
           /\ n \in run[r].prev /\ job.prev = run[r].prev \ {n}
           /\ job.applied = run[r].applied
           /\ policies' \in {policies, [policies EXCEPT ![r][n] = NoPolicy]}
           /\ UNCHANGED <<aip, aipNews, aipSeen, due, enforced>>
<1>1. run[r] \in Job
  BY DEF Types, JobsTypeOK
<1>2. PICK job \in {[run[r] EXCEPT !.prev = @ \ {n}],
                    [run[r] EXCEPT !.prev = @ \ {n}, !.failed = TRUE]} :
        Step(r, job) /\ policies' \in {policies, [policies EXCEPT ![r][n] = NoPolicy]}
  BY DEF DeleteStale
<1>3. /\ job \in Job /\ job.at = run[r].at /\ job.mode = run[r].mode
      /\ job.todo = run[r].todo /\ job.applied = run[r].applied
      /\ job.prev = run[r].prev \ {n}
  <2>1. run[r].prev \ {n} \subseteq Namespaces
    BY <1>1 DEF Job
  <2>2. CASE job = [run[r] EXCEPT !.prev = @ \ {n}]
    BY <1>1, <2>1, <2>2 DEF Job
  <2>3. CASE job = [run[r] EXCEPT !.prev = @ \ {n}, !.failed = TRUE]
    BY <1>1, <2>1, <2>3 DEF Job
  <2> QED BY <1>2, <2>2, <2>3
<1> QED BY <1>2, <1>3 DEF DeleteStale, Stale, Step, cacheVars, humanVars

\* Patching the spec, or failing to.
LEMMA PatchSpecDoes ==
  ASSUME Types, PatchSpec
  PROVE  \E job \in Job, singleton \in Singleton :
           /\ run["translator"].at = "work"
           /\ run' = [run EXCEPT !["translator"] = job] /\ aip' = singleton
           /\ \/ /\ job.at = "status" /\ job.mode = run["translator"].mode /\ job.todo = {}
                 /\ job.applied = run["translator"].applied
                 /\ singleton.exists /\ singleton.mode = run["translator"].mode
                 /\ singleton.listed = aip.listed /\ due' = due
              \/ /\ job = Idle /\ singleton = aip
                 /\ due' = [due EXCEPT !["translator"] = TRUE]
           /\ UNCHANGED <<policies, aipSeen, enforced>>
<1>1. run["translator"] \in Job /\ aip \in Singleton
  BY DEF Types, JobsTypeOK, ClusterTypeOK, Reconcilers
<1>2. run["translator"].at = "work" /\ run["translator"].todo = {}
  BY DEF PatchSpec, WorkDone
<1>3. CASE GiveUp("translator")
  <2>1. Idle \in Job
    BY WatcherAssumption DEF Idle, Job, Modes, Versions
  <2> QED BY <1>1, <1>2, <1>3, <2>1 DEF GiveUp, Step, clusterVars, cacheVars, humanVars
<1>4. CASE ~GiveUp("translator")
  <2> DEFINE job == [run["translator"] EXCEPT !.at = "status", !.prev = {}]
             singleton == [aip EXCEPT !.exists = TRUE, !.mode = run["translator"].mode,
                                      !.egress = run["translator"].egress]
  <2>1. /\ job \in Job /\ job.at = "status" /\ job.mode = run["translator"].mode
        /\ job.todo = {} /\ job.applied = run["translator"].applied
    BY <1>1, <1>2 DEF Job
  <2>2. /\ singleton \in Singleton /\ singleton.exists
        /\ singleton.mode = run["translator"].mode /\ singleton.listed = aip.listed
    BY <1>1 DEF Job, Singleton
  <2>3. Step("translator", job) /\ Patched(singleton) /\ UNCHANGED due
    BY <1>4 DEF PatchSpec
  <2> HIDE DEF job, singleton
  <2> QED BY <1>2, <2>1, <2>2, <2>3 DEF Step, Patched, cacheVars, humanVars
<1> QED BY <1>3, <1>4

\* Patching the status, or failing to.
LEMMA PatchStatusDoes ==
  ASSUME Types, NEW r \in Reconcilers, PatchStatus(r)
  PROVE  \E singleton \in Singleton :
           /\ run[r].at # "idle" /\ (r = "translator" => run[r].at = "status")
           /\ run' = [run EXCEPT ![r] = Idle] /\ aip' = singleton
           /\ singleton.exists = aip.exists /\ singleton.mode = aip.mode
           /\ \A q \in Reconcilers \ {r} : singleton.listed[q] = aip.listed[q] /\ due'[q] = due[q]
           /\ \/ singleton.listed[r] = run[r].applied /\ due'[r] = (due[r] \/ run[r].failed)
              \/ singleton.listed[r] = aip.listed[r] /\ due'[r] = TRUE
           /\ UNCHANGED <<policies, aipSeen, enforced>>
<1>1. run[r] \in Job /\ aip \in Singleton /\ due \in [Reconcilers -> BOOLEAN]
  BY DEF Types, JobsTypeOK, ClusterTypeOK, SignalsTypeOK
<1>2. /\ run[r].at # "idle" /\ (r = "translator" => run[r].at = "status")
  BY DEF PatchStatus, StatusPatched, StatusNext, WorkDone
<1>3. CASE GiveUp(r)
  BY <1>1, <1>2, <1>3 DEF GiveUp, Step, clusterVars, cacheVars, humanVars
<1>4. CASE ~GiveUp(r)
  <2> DEFINE singleton == [aip EXCEPT !.listed[r] = run[r].applied]
  <2>1. /\ singleton \in Singleton /\ singleton.exists = aip.exists /\ singleton.mode = aip.mode
        /\ singleton.listed[r] = run[r].applied
        /\ \A q \in Reconcilers \ {r} : singleton.listed[q] = aip.listed[q]
    BY <1>1 DEF Job, Singleton
  <2>2. /\ Step(r, Idle) /\ Patched(singleton)
        /\ due' = [due EXCEPT ![r] = @ \/ run[r].failed]
    BY <1>4 DEF PatchStatus, StatusPatched
  <2>3. due'[r] = (due[r] \/ run[r].failed) /\ \A q \in Reconcilers \ {r} : due'[q] = due[q]
    BY <1>1, <2>2
  <2> HIDE DEF singleton
  <2> QED BY <1>2, <2>1, <2>2, <2>3 DEF Step, Patched, cacheVars, humanVars
<1> QED BY <1>3, <1>4

-----------------------------------------------------------------------------
(* Observe is a no-op *)

\* Until somebody sets Enforce nobody reads it, carries it or has anything to apply.
NobodyEnforces ==
  /\ aip.mode = "Observe" /\ aipSeen.mode = "Observe"
  /\ \A r \in Reconcilers : run[r].mode = "Observe" /\ run[r].todo = {}
  /\ \A r \in Reconcilers, n \in Namespaces : policies[r][n] = NoPolicy

ObserveHolds == ~enforced => NobodyEnforces

LEMMA ObserveStep ==
  ASSUME Types, ObserveHolds, [Next]_vars
  PROVE  ObserveHolds'
<1> SUFFICES ASSUME ~enforced'
             PROVE  NobodyEnforces'
  BY DEF ObserveHolds
<1> USE DEF Types, NobodyEnforces
<1>1. ~enforced => NobodyEnforces
  BY DEF ObserveHolds
<1>2. ~FlipMode
  BY <1>1 DEF FlipMode, Modes
<1>3. CASE SeeSingleton \/ Restart
  BY <1>1, <1>3 DEF SeeSingleton, Restart, Restarted, humanVars, Idle
<1>4. CASE \/ Watch \/ Forward
           \/ \E n \in Namespaces : Relabel(n) \/ SeeNamespace(n)
           \/ UNCHANGED vars
  BY <1>1, <1>4 DEF Watch, Forward, Relabel, SeeNamespace, LabelSeen, humanVars, clusterVars,
     cacheVars, vars
<1>5. CASE BeginTranslate \/ BeginEnforce
  BY <1>1, <1>5 DEF BeginTranslate, BeginEnforce, Start, Step, Governed, Idle, humanVars, clusterVars,
     cacheVars, JobsTypeOK
<1>0. Idle.mode = "Observe" /\ Idle.todo = {}
  BY DEF Idle
<1>6. CASE PatchSpec
  <2>1. PICK job \in Job, singleton \in Singleton :
          /\ run' = [run EXCEPT !["translator"] = job] /\ aip' = singleton
          /\ job.mode = "Observe" /\ job.todo = {} /\ singleton.mode = "Observe"
          /\ UNCHANGED <<policies, aipSeen, enforced>>
    BY <1>0, <1>1, <1>6, PatchSpecDoes DEF Reconcilers
  <2> QED BY <1>1, <2>1 DEF JobsTypeOK
<1>7. CASE \E r \in Reconcilers : PatchStatus(r)
  <2>1. PICK r \in Reconcilers, singleton \in Singleton :
          /\ run' = [run EXCEPT ![r] = Idle] /\ aip' = singleton
          /\ singleton.mode = aip.mode /\ UNCHANGED <<policies, aipSeen, enforced>>
    BY <1>7, PatchStatusDoes
  <2> QED BY <1>0, <1>1, <2>1 DEF JobsTypeOK
<1>8. CASE \E r \in Reconcilers, n \in Namespaces : Apply(r, n)
  <2>1. PICK r \in Reconcilers, n \in Namespaces : enforced' = enforced /\ n \in run[r].todo
    BY <1>8, ApplyDoes
  <2> QED BY <1>1, <2>1
<1>9. CASE \E r \in Reconcilers, n \in Namespaces : DeleteStale(r, n)
  BY <1>1, <1>9, DeleteStaleDoes DEF JobsTypeOK, ClusterTypeOK
<1> QED BY <1>2, <1>3, <1>4, <1>5, <1>6, <1>7, <1>8, <1>9, NextCases DEF Around, Work

\* Until somebody sets Enforce no policy object is applied anywhere, whatever fails, lags or
\* restarts: the shipped default cannot cut traffic.
THEOREM OperatorNothingBeforeEnforce == Spec => []NothingBeforeEnforce
<1>1. Init => ObserveHolds
  BY DEF Init, ObserveHolds, NobodyEnforces, Absent, Idle
<1>2. ObserveHolds => NothingBeforeEnforce
  BY DEF ObserveHolds, NobodyEnforces, NothingBeforeEnforce, Live
<1> QED BY <1>1, <1>2, InitTypes, TypesStep, ObserveStep, PTL DEF Spec

-----------------------------------------------------------------------------
(* The status is true *)

\* What a reconcile applied is there, and an idle one has nothing to delete; nobody lists
\* anything before there is a singleton; and no cache has one the API server does not have.
StatusHolds ==
  /\ StatusIsTrue
  /\ \A r \in Reconcilers : run[r].applied \subseteq Live(r)
  /\ \A r \in Reconcilers : run[r].at = "idle" => run[r].prev = {}
  /\ \/ aip.exists
     \/ /\ \A r \in Reconcilers : aip.listed[r] = {}
        /\ run["translator"].at # "status" /\ run["enforcer"].at = "idle"
  /\ aipSeen.exists => aip.exists

LEMMA StatusStep ==
  ASSUME Types, StatusHolds, [Next]_vars
  PROVE  StatusHolds'
<1> USE DEF Types, StatusHolds, StatusIsTrue, Live
<1>1. CASE FlipMode
  BY <1>1 DEF FlipMode, ClusterTypeOK, Singleton, clusterVars, cacheVars
<1>2. CASE SeeSingleton
  BY <1>2 DEF SeeSingleton
<1>3. CASE Restart
  <2>1. /\ UNCHANGED <<aip, policies>> /\ aipSeen' = aip /\ run' = [r \in Reconcilers |-> Idle]
    BY <1>3 DEF Restart, Restarted
  <2>2. aip.exists => due' = [translator |-> TRUE, enforcer |-> TRUE]
    BY <1>3 DEF Restart, Restarted
  <2>3. aip.exists => \A r \in Reconcilers : due'[r]
    BY <2>2, TwoQueues DEF Reconcilers
  <2>4. "translator" \in Reconcilers /\ "enforcer" \in Reconcilers
    BY DEF Reconcilers
  <2> QED BY <2>1, <2>3, <2>4 DEF Idle
<1>4. CASE \/ Watch \/ Forward
           \/ \E n \in Namespaces : Relabel(n) \/ SeeNamespace(n)
           \/ UNCHANGED vars
  BY <1>4 DEF Watch, Forward, Relabel, SeeNamespace, LabelSeen, clusterVars, cacheVars, vars,
     SignalsTypeOK
<1>5. CASE BeginTranslate \/ BeginEnforce
  BY <1>5 DEF BeginTranslate, BeginEnforce, Start, Step, clusterVars, cacheVars, JobsTypeOK,
     Reconcilers, SignalsTypeOK
<1>6. CASE PatchSpec
  BY <1>6, PatchSpecDoes DEF Idle, JobsTypeOK, SignalsTypeOK, Reconcilers
<1>7. CASE \E r \in Reconcilers : PatchStatus(r)
  <2>0. PICK r \in Reconcilers : PatchStatus(r)
    BY <1>7
  <2>1. PICK singleton \in Singleton :
           /\ run[r].at # "idle" /\ (r = "translator" => run[r].at = "status")
           /\ run' = [run EXCEPT ![r] = Idle] /\ aip' = singleton
           /\ singleton.exists = aip.exists /\ singleton.mode = aip.mode
           /\ \A q \in Reconcilers \ {r} : singleton.listed[q] = aip.listed[q] /\ due'[q] = due[q]
           /\ \/ singleton.listed[r] = run[r].applied /\ due'[r] = (due[r] \/ run[r].failed)
              \/ singleton.listed[r] = aip.listed[r] /\ due'[r] = TRUE
           /\ UNCHANGED <<policies, aipSeen, enforced>>
    BY <2>0, PatchStatusDoes
  <2>2. Idle.at = "idle" /\ Idle.applied = {} /\ Idle.prev = {}
    BY DEF Idle
  <2>3. run'[r] = Idle /\ \A q \in Reconcilers \ {r} : run'[q] = run[q]
    BY <2>1 DEF JobsTypeOK
  <2>4. aip.exists
    BY <2>1 DEF Reconcilers
  <2>5. \A q \in Reconcilers : Live(q)' = Live(q)
    BY <2>1
  <2>6. \A q \in Reconcilers : run'[q].applied \subseteq Live(q)'
    BY <2>2, <2>3, <2>5
  <2>7. StatusIsTrue'
    <3>1. aip'.listed[r] \subseteq Live(r)' \/ due'[r]
      BY <2>1, <2>5
    <3> QED BY <2>1, <2>3, <2>5, <3>1
  <2> QED BY <2>1, <2>2, <2>3, <2>4, <2>6, <2>7
<1>8. CASE \E r \in Reconcilers, n \in Namespaces : Apply(r, n)
  <2>1. PICK r \in Reconcilers, n \in Namespaces, job \in Job :
           /\ n \in run[r].todo /\ run' = [run EXCEPT ![r] = job] /\ job.at = run[r].at
           /\ job.prev = run[r].prev
           /\ \/ /\ job.applied = run[r].applied \cup {n}
                 /\ policies' = [policies EXCEPT ![r][n] = run[r].egress]
              \/ job.applied = run[r].applied /\ policies' = policies
           /\ UNCHANGED <<aip, aipSeen, due>>
    BY <1>8, ApplyDoes
  <2>2. run'[r] = job /\ \A q \in Reconcilers \ {r} : run'[q] = run[q]
    BY <2>1 DEF JobsTypeOK
  <2>3. run[r].egress # NoPolicy
    BY DEF JobsTypeOK, Job, Versions, NoPolicy
  <2>4. /\ \A q \in Reconcilers : Live(q) \subseteq Live(q)'
        /\ job.applied \subseteq Live(r)'
    BY <2>1, <2>3 DEF ClusterTypeOK
  <2> HIDE DEF Live
  <2> QED BY <2>1, <2>2, <2>4
<1>9. CASE \E r \in Reconcilers, n \in Namespaces : DeleteStale(r, n)
  <2>1. PICK r \in Reconcilers, n \in Namespaces, job \in Job :
           /\ n \notin run[r].applied /\ n \in run[r].prev /\ run' = [run EXCEPT ![r] = job]
           /\ job.at = run[r].at /\ job.applied = run[r].applied
           /\ policies' \in {policies, [policies EXCEPT ![r][n] = NoPolicy]}
           /\ UNCHANGED <<aip, aipSeen, due>>
    BY <1>9, DeleteStaleDoes
  <2>2. run'[r] = job /\ \A q \in Reconcilers \ {r} : run'[q] = run[q]
    BY <2>1 DEF JobsTypeOK
  <2>3. /\ \A q \in Reconcilers \ {r} : Live(q)' = Live(q)
        /\ Live(r) \ {n} \subseteq Live(r)'
    BY <2>1 DEF ClusterTypeOK
  <2> HIDE DEF Live
  <2> QED BY <2>1, <2>2, <2>3
<1> QED BY <1>1, <1>2, <1>3, <1>4, <1>5, <1>6, <1>7, <1>8, <1>9, NextCases DEF Around, Work

\* The status lists no policy that is not there, except while its reconciler is at work or
\* about to be: a crash or a failing call never leaves a false status behind for good.
THEOREM OperatorStatusIsTrue == Spec => []StatusIsTrue
<1>1. Init => StatusHolds
  BY DEF Init, StatusHolds, StatusIsTrue, Absent, Idle, Nowhere, Reconcilers
<1>2. StatusHolds => StatusIsTrue
  BY DEF StatusHolds
<1> QED BY <1>1, <1>2, InitTypes, TypesStep, StatusStep, PTL DEF Spec

=============================================================================
