# PerchGuard, specified

A TLA+ development of PerchGuard, the admission controller for the tool calls of
autonomous agents. Every definition is translated from the Go and Python sources;
`PROJECT.json` names the lines of each ("map"), the bug in the code that each
property would notice ("mutants"), and the hazards the properties are for.

Contents: [the system](#the-system) · [the hard parts](#the-hard-parts) ·
[modules](#the-modules-and-the-code) · [runs](#the-runs) · [fairness](#fairness) ·
[theorems](#what-is-proved) · [where code and documentation part](#where-the-code-and-its-documentation-part) ·
[not modelled](#what-is-not-modelled) · [plan](#plan)

## The system

PerchGuard sits between agents and their tools. An agent posts a tool call to
`/intercept` and gets a decision: ALLOW, MUTATE, HUMAN_REVIEW, DENY or TERMINATE.
The server is one Go process. Every request runs on a goroutine of its own, and the
components below are shared between them, each with its own lock: **no lock covers
two components, and no component keeps its lock from a check to the update that
depends on it**. There is no orderly shutdown. Around the server stand a proxy for
MCP, a hook for Claude Code, commands that rewrite editors' config files, a Python SDK
and a Kubernetes operator.

| Component (source) | State | Operations | Calls |
|---|---|---|---|
| Interceptor (`pkg/admission`) | slices of validators, mutators and quotas under an RW lock; observe mode under another; outbound validators and dispatcher, never replaced | `/intercept`, `/validate/output`, reload | everything below |
| Session budget, depth limiter (`quota`) | per session: calls, tokens, cost, call times, delegated limit | Check, Record, RecordUsage, ReloadPolicy, SetDelegatedLimit | session store |
| Policy watcher (`policy/watcher.go`) and its callback (`cmd/main.go`) | last hash | poll, load, reload | budget, interceptor |
| Agent fleet (`pkg/agent`) | a SessionAgent with risk, drift, baseline per session | Validate, Seed, Evict | session store |
| Session store and reaper (`pkg/store`) | a *pointer* to a SessionState per session | Get, Set, Delete, sweep | fleet, budget, governance records |
| Manifest, delegation and lineage stores | tokens; parents; data references | register, verify, seed, evict | each other, through the API handler |
| Review store (`pkg/review`, `api/review.go`) | pending reviews, a channel each | submit, wait, approve, deny | decision rows |
| Review dispatcher (`pkg/humanreview`) | none | post, poll | a webhook |
| Audit trail (`pkg/audit`, `pkg/store`) | ring; JSONL file; SQLite; Loki | log, query, emit | hooks chained in `cmd/main.go` |
| Governance records (`api/sessions.go`, `audit/filesink.go`, `localfs`) | a JSON file of snapshots, which people write too | emit, read | ring |
| API keys (`api/keystore.go`, `keys.go`, `middleware.go`) | keys in memory, one per label | rotate, check, list | - |
| MCP proxy and transports (`pkg/mcp`) | the pending request of a subprocess | forward, scan, respond | `/intercept`, `/validate/output` |
| Kubernetes operator (`pkg/operator`) | none of its own: the API server's objects and the informers' caches | reconcile (two reconcilers) | watcher, API server |
| Claude Code hook (`cmd/claude_hook.go`) | none: a process per tool call | judge before, scan after | server, or a pipeline of its own |
| wrap, init, uninstall (`cmd`) | the editor's `mcp.json`, `settings.json`, and the bytes they had | patch, restore | server |
| Python SDK, LangGraph agents (`sdk/python`, `deployments/python-agents`) | sessions and tokens, the parent in the graph's state, a loop's messages | register, intercept, validate output, evict | server, tools |
| Pure rules | none | globs, roles, scopes, destination lists, attack chains, output filters, mutators, risk arithmetic | - |

What makes them correct: a call is judged, recorded and only then answered, by one
policy, whose limits hold for the session and its children; TERMINATE stays
TERMINATE; a session leaves every store it is in and not without a record; an
approval lets through the one call it was for; the trail tells what happened,
in order and across restarts; a hook and an agent act on the verdict they were given, and
files are given back as they were; the cluster ends up enforcing the file that is there;
and the rules decide what their references (the plain meaning of a glob, a list, a
chain) say.

## The hard parts

`PROJECT.json` lists forty hazards at the lines where they bite. The kinds, and
the module that meets each:

* **check, then act, under two locks** - budget check and count (`Admission`);
  "is the session overdue" and "delete it by id" (`Sessions`); look a review up
  and decide it (`Reviews`).
* **a policy replaced piece by piece under calls in flight** - five steps of the
  callback against eight of a handler (`Admission`).
* **pointers that outlive their map entry** - a handler stores a session back after
  it was deleted (`Sessions`).
* **several stores updated one by one** - registration, DELETE and the reaper each
  touch up to six stores in an order of their own (`Sessions`); a graph found under
  one lock, filled under another and evicted in between (`Lineage`).
* **answers told apart by their order only** - the proxy and its subprocess (`Proxy`).
* **late, lost and repeated answers** - waiters, operators, poll deadlines (`Reviews`); a client
  or a hook that gives up on a server still at work (`Agents`, `Hook`); the one answer with
  a new key (`Keys`).
* **files of others** - read, changed and written whole, by processes that die in the middle,
  while people edit them (`Wrap`, `Snapshots`).
* **fields without a lock** - events, risk and velocity flag of one session (`Risk`).
* **crashes between two writes** - upsert and insert, the goroutine per JSONL line
  (`Trail`), policies and status (`Operator`).
* **stale caches and lost signals** - two reconcilers that talk through the
  API server only (`Operator`), a file read twice (`Watcher`).
* **edges** - the ring at exactly its capacity, a chain that just fits its window, a
  glob whose parts overlap (`Trail`, `Rules`).

## The modules and the code

| Module | Models | Lines |
|---|---|---|
| `Decisions` | how violations become one decision, inbound and outbound | `admission/interceptor.go`, `types.go` |
| `Admission` | the pipeline, the budget, the hot-reload callback | `admission/`, `quota/`, `cmd/main.go` |
| `AdmissionGate` | abstract: what a caller of the pipeline may rely on | - |
| `AdmissionProofs`, `SessionsProofs`, `ReviewsProofs`, `TrailProofs`, `OperatorProofs` | theorems about the module of that name | - |
| `StoresProofs` | theorems about `Lineage`, `Risk` and `Keys` by themselves | - |
| `CallsProofs` | theorems about `Rules` and its operators, and about `Proxy` by itself | - |
| `PartsProofs` | theorems about `Hook`, `Agents`, `Wrap` and `Snapshots`; all of these as `Parts` runs them | - |
| `Sessions` | session store, fleet, registration, DELETE, reaper | `store/`, `agent/`, `api/`, `manifest/` |
| `Reviews` | review store and API, webhook dispatcher | `review/`, `api/review.go`, `humanreview/` |
| `Trail` | ring, printed lines, JSONL, SQLite, crashes | `store/audit.go`, `sqlite.go`, `audit/`, `cmd/main.go` |
| `Watcher` | the policy file's poller | `policy/watcher.go` |
| `Operator` (EXTENDS `Watcher`) | both reconcilers, the API server, the informers | `operator/` |
| `Roles`, `Egress`, `Chains`, `Outputs`, `Mutators` | the pure rules | `validator/`, `mutator/`, `delegation.go`, `behavior.go`, `cilium.go`, ... |
| `Rules` | the inputs the pure rules are run over, and their references | - |
| `Lineage` | graphs of data references, calls that consume them, registrations that inherit | `store/lineage.go`, `validator/lineage.go`, `api/agents.go` |
| `Proxy` | the MCP proxy, both upstream transports, a server that dies or speaks out of turn | `mcp/`, `cmd/main.go` |
| `Hook` | the Claude Code hook's processes and the server they ask | `cmd/claude_hook.go` |
| `Wrap` | config files rewritten for a guard's lifetime | `cmd/wrap.go`, `init.go`, `main.go` |
| `Agents` | the SDK's governed loop as nodes of the claim-review graph | `sdk/python/`, `graph.py` |
| `Snapshots` | the file of governance records, and the context read from it | `localfs/`, `audit/filesink.go` |
| `Risk` (EXTENDS `Chains`) | a session's risk under concurrent calls | `agent/session.go`, `risk.go`, `intent.go` |
| `Keys` | keys rotated by requests they let in | `api/keystore.go`, `keys.go`, `middleware.go` |
| `Parts` | `Rules`, `Lineage`, `Proxy` and the six above side by side, for TLC | - |
| `SessionsClaims`, `ReviewsClaims`, `OperatorClaims` | statements of docs and comments the code does not keep | - |
| `MCAdmission`, `MCSessions`, `MCTrail` | constants for TLC: policies, symmetry | - |

**What a step is.** In the stateful modules a goroutine has a program counter, and
a step is what it does between two lock operations, channel operations, calls to
another process or writes to a file. What one critical section does is one action,
with everything the code does inside it. The header of each module draws the stages.

`Admission`. `pc[h]` is where handler `h` is in `Interceptor.ServeHTTP`, `Intercept`
or `InterceptOutput`; `snap[h]` the policy behind the slices it copied under the read
lock; `budget`, `pipeline`, `observe` and `current` the four places a policy is kept in
(`SessionBudgetChecker.policy`, the slices, `observeMode`, `currentPolicy`), which
`reload` walks through in the order of the callback. `Check`, `Record` and
`RecordUsage` read `c.policy` without its lock while `ReloadPolicy` stores it, so while
the store is under way each read is old or new (`VisibleBudget`). Which violations
validators find is a free choice; that every one of them runs, and that the worst
violation decides, is the code's. A token spent is one unit; cost moves with it.
The ghosts `quiet` and `entered` remember whether a reload overlapped a call and how
many calls of a session there were. `AdmissionGate` has four actions (admit, turn
away, commit, answer); the refinement maps every stage between arrival and the
audit record to "judging".

`Sessions`. The session store keeps pointers, so sessions are *cells*: an allocation
takes the next number, the store maps an id to a cell, and goroutines hold
cells. Agents are numbered likewise. `call`, `register`, `delete` and `reaper` are
four kinds of goroutine with their stages. Time is what a sweep would find of a
cell (`overdue`). Risk is one bit, "at the terminate threshold"; a call may raise
it. The ghosts `epoch`, `doomed`, `warned`, `since` say which TERMINATE a later call
must have heard of.

`Reviews`. Waiters and operators are HTTP requests, each of which looks a review up
under the lock and then works with the pointer; `decideCh` is the channel of
capacity one. A decision's row is written last and its errors are dropped, an UPDATE that finds no
row being none (`api/review.go:103`, `sqlite.go:137`): `RecordAs` may lose it, and the 204 is answered all
the same. The dispatcher's webhook is external: it answers anything, except that
an approval is the decision of its reviewer. The poll loop's `select` chooses
among ready cases at random.

`Trail`. `Log` prints, pushes to the ring and runs the hook chain of `cmd/main.go`: a
goroutine for the JSONL line, then the two SQLite statements under the sink's lock, whose errors
are dropped. `Crash` empties the memory and what was on a goroutine. Records are
numbered as `Log` is called; `Query` is the index arithmetic of the ring.

`Operator`. A policy object is the version of the file it was rendered from. Both
reconcilers start from the caches (`aipSeen`, `labelsSeen`), which the API server's
objects run ahead of; every call may fail; a restart loses queues and fills caches.
The watcher's callback drops its signal when one is pending.

`Rules`. Each pure operator of `Roles`, `Egress`, `Chains`, `Outputs` and `Mutators` follows the
code's algorithm (the greedy scan, the filtering loop, the window, the rules one after
another); a loop is a recursive function of how far it got. `Rules` chooses
inputs as its states and compares with a definition that says what is meant.

`Lineage`. `graphOf` is `LineageStore.graphs`, a graph is a number, and `origin` and
`edges` are the maps inside it; `request` and `heir` are the goroutines of calls
(`LineageValidator.Validate`) and of registrations with inherited refs, which hold graphs
by number as the code does by pointer. A ref is the pair that `LineageRef` hashes. The fields
`tracked` and `since` remember what the session held when the call began and
how often it had expired by then.

`Proxy`. `proxy` is the one goroutine of `Run`: what it read last and where that is;
`toServer` and `fromServer` are the pipes of a subprocess, or the connections of HTTP, where
an answer is found by its request. `verdict` keeps what `Intercept` said of each
message, `ran` what the server ran and `answers` what the client got. Any
verdict is possible, HUMAN_REVIEW only where no dispatcher is configured.

`Hook`. `hooked[c]` is the process of one tool call, from reading its input to the scan of the
output. The server may die or start between any two steps and decides what was posted in its own
time, also when the hook has given it up after 60 s and judged for itself. It may refuse a body over
1 MiB with a text no JSON decoder reads, and an answer may be cut short while it lives: either way the
hook lets the call through. `verdicts` are what both judged, whose rows in the one database file they
share may be lost (`kept`: `sqlite.go:111` drops the errors). What the pipeline says is a free choice
on both sides: the hook's has no fleet, no lineage and empty budgets, so the two may well differ.

`Wrap`. A file's content is its form (absent, whole, torn), the user's last edit in it and where its
servers or hooks lead. `life[l]` is one process of mode wrap, init or init --uninstall, with what it
read (`raw`, `seen`); `os.WriteFile` truncates in one step and writes in another; `Fatal` is every
death without a restore. `trouble` names what the code does not provide for: the property
speaks of files nothing of the kind has happened to.

`Agents`. `node[n]` is where a node is in its loop and its current call; `session[n]` is
what the server holds. A request may fail before or after the server acted on it.
`stuck` are the sessions a failed registration or eviction may have left.

`Snapshots`. `record[r]` is the goroutine of one record, `history` the file, `copy` the temporary one.
`editor` is a person with the file open. That a record is kept in order is said with its
positions in the file. `mixed` remembers that two rewrote the file
at once, or that a person left it unreadable.

`Risk`. `call[c]` is a handler in `SessionAgent.Evaluate`. Every access to the shared
`SessionState` and to the velocity flag is a step; the score has its lock. An append of a handler that has an
old slice header may overwrite the event another appended; one case of the data race
that the Go memory model allows and the runtime produces. Points are hundredths; `added` are
those one call added. The score is a float64 and judged with `>=`: 0.3 added three times is
0.8999999999999999, not 0.9. It is kept in thousandths, and an addition may leave it one below
ten times the sum of points (`Charged`); that it may also be rounded up no threshold can tell.

`Keys`. A key is a number; key 1 is that of the environment, and valid again after a restart. The
store's map of keys to entries is a set of pairs.

`Parts` adds a variable that says which of the nine a behaviour is about; the
others rest. They share no state, so nothing is lost by it.

## The runs

Twelve runs; four of them show a statement of the repository violated. Each
module's type invariant is checked beside its properties.

| Run | Shows | Instance, and why it is enough |
|---|---|---|
| `admission_pipeline` | `CallsWithinLimit`, `SpendAccounted`, `QuietCallsSeeOnePolicy`, `PublishedPolicyInForce`, refinement `KeepsGatePromise` | 2 handlers, 1 session, 3 calls, 1 reload among 4 policies (roomy, tight, observing, one that does not build). Sessions share nothing here, two handlers overlap in every way and leave one call to meet what they left; the theorems cover every other size. |
| `admission_answers` | every call is answered | 2 handlers, 2 calls, a review that may never be answered |
| `sessions_calls` | `TerminateIsFinal`, `OverdueLeaves` | an unregistered session, 2 handlers, 3 calls, the reaper: two first calls race and a third hears of it |
| `sessions_life` | `NothingLeavesUnreported`, `TokensDieWithTheirSession`, `ChildLimitHolds`, `DelegationIsProven` | parent and child, a call, a DELETE and the reaper; 3 cells, so a session can be stored again twice |
| `reviews` | `AllowNeedsApproval`, `RecordMatchesAnswer`, `EveryoneIsAnswered` | 1 review (reviews share nothing but the map), 2 waiters, 2 operators, 1 dispatch that may be polled for ever |
| `trail` | ring, order, durability across a crash | capacity 2, 3 records: the ring wraps; 2 sessions, 2 handlers, 1 crash, statements and appends that fail |
| `operator` | `NothingBeforeEnforce`, `StatusIsTrue`, `Enforced` | 1 namespace (the reconcilers treat each on its own), 2 edits one of which does not load, 2 upsets (flips, labels, failing calls, restarts) in any order |
| `parts`, rules | each rule against its meaning | words of 3 letters over 2, patterns of 3 parts; names of 3 labels, one allowed and two blocked entries (conflicts are between a pair); 5 events over 3 stages, windows of 1, 3 and 4 (a history no longer than its window is left whole); calls of 2 words under 2 sanitizer rules (of those that do not apply, one; what one injects the other may strip) |
| `parts`, lineage | `FlowIsKeptAndHeld`, `InheritedRefsAreReal` | 3 sessions, 2 calls, 3 of calls and registrations altogether, each session expires once at most: a ref is handed on twice, or two calls of one session race for its graph while another registers or expires; one UID, so repeated UIDs happen. Requests and children are symmetric; all properties are invariants |
| `parts`, proxy | `NothingUnjudgedRuns`, `ClientsAreServed` | 2 messages of any kind, both transports (one message out of turn is all it takes for each answer to be the one before; the theorems have any number), 1 message out of turn, the server dies at any time |
| `parts`, hook | `HookKeepsToVerdicts` | 2 tool calls (they share only the server), 1 death of the server, with or without a policy that loads; rows kept or lost |
| `parts`, wrap | `FilesAreGivenBack` | 2 files, 2 processes of 3 modes and 2 ports, 1 edit of each file: one after the other, overlapping, and one on each file. A third process only repeats what a second can leave behind |
| `parts`, agents | `AgentsActOnAnswers` | the whole graph of 5 nodes, 1 turn of up to 2 calls each: the turn's tokens have a second call to be counted with, and the turn's end one loop to return from |
| `parts`, snapshots | `SnapshotsAreKept` | 3 records of 2 guards, 2 notes of people, a context of 1: one to lose, one to keep, one to come after a half copy |
| `parts`, risk | `RiskIsNeverForgotten` | 2 calls, 2 spans of time, threshold 1: both call any time of the other's steps, the flag is set twice in one window or once in each; their sums reach 70 and 90, the thresholds, exactly and rounded |
| `parts`, keys | `OneKeyPerLabel` | 2 operators, 2 labels, 4 keys, restarts: two rotations of one label overlap and a third follows |
| `claim_deleted_stay_deleted` | violated: a call in flight stores a deleted session again | 1 session, 1 call, 1 DELETE |
| `claim_decided_once` | violated: a second decision is accepted | 1 review, 1 waiter, 2 operators |
| `claim_operator_mode` | violated: the translator undoes a flip of the mode | 1 flip |
| `claim_stale_deleted` | violated: a policy is left behind although no call failed | two label changes |

`CHECK_DEADLOCK FALSE` is said where the bounds, or an idle server, stop the
system; that nobody is stuck is what the liveness properties say instead.
Of operators, `EveryoneIsAnswered` promises an answer to the *first* decision on a review only, because a second one
on a review nobody waits for blocks for ever, as the finding on `DecidedOnce` describes.
`sessions_life` has no fairness and one handler; the interleavings of two calls
are in `sessions_calls`.

## Fairness

* `Admission!FairSpec`: weak fairness of each handler. Go schedules every runnable
  goroutine, and the context given to `Dispatch` times out, so a handler in review
  always has a step. Arrivals, reviewers' answers and reloads are owed by nobody.
* `Sessions!FairSpec`: the reaper's ticker fires and its goroutine is scheduled.
  Nothing is assumed of calls or clients.
* `Reviews!FairSpec`: timers and goroutines. *Strong* fairness for the poll loop's
  deadline only: it competes with the ticker in a `select`, which picks
  among ready cases at random, so it cannot lose for ever.
* `Operator!FairSpec`: the watcher ticks, informers deliver what happened, queues are
  worked off. Bounds on edits and upsets mean they end, which is what "ends up"
  is about; `Enforced` also says under which circumstances (`<>[]`) it is promised.
  A file that is never repaired promises nothing.

## What is proved

Every safety property a passing run checks is also a theorem, for every value of the
constants: any number of handlers, sessions, waiters, namespaces, messages, processes, any
capacity and any bound. The refinement `KeepsGatePromise` is among them. What a module fixes by a
definition stays fixed: the claim-review graph of `Agents`, the points and thresholds of `Risk`. Each argument is an inductive invariant, checked action
by action; what follows names the invariants, and what the property alone was too weak for.

Assumed are only the named `ASSUME`s of the modules. Apart from bounds being natural numbers and
placeholders (`None`, `Unknown`, `NoId`) being no session or id, they say: finitely many handlers
in `Admission` and waiters in `Reviews`, which are goroutines of one process and have to be counted;
the first policy builds; a ring has room for one record; somebody can rotate a key; a session has a
UID to read; a person's note is not a record (`Snapshots`); a pattern is not made of the markers
`SanitizeOutput` writes (`Rules`: who redacts "[redacted]" cannot be served).

### `AdmissionProofs`

* `AdmissionTypeOK`: `TypeOK` is inductive by itself.
* `PublishedPolicyIsInForce`: inductive by itself because it speaks of every stage of
  the callback and not only of the quiet ones.
* `CallsStayWithinLimit`: a handler that passed the check is in flight until its call
  is counted, so the sum of count and calls in flight only grows at a check, and
  at a check the count was under *some* policy's limit while at most
  all handlers are in flight. `OnlyCheckAdmits` says that no other step lets the
  set of calls in flight grow, `InFlightBound` that it is bounded by the handlers.
  This is the bound the code gives: not the limit, but the limit plus one less
  than the number of calls that overlap.
* `SpendIsAccounted`: `entered = tokens + calls unspent`, with `OnlyRecordSpends` for
  the steps that leave both sides alone.
* `QuietCallsAreJudgedByOnePolicy`: the strengthening says, of every stage of a quiet call,
  what its snapshot, decision and stamp already agree with.
* `PipelineKeepsGatePromise`: the refinement: every step is a step of `AdmissionGate` or a
  stutter (`JudgingIsStutter`, `StepKeepsPromise`).

### `SessionsProofs`

Type correctness includes that no goroutine follows a nil pointer (`NoNil`) and that a cell is the
state of the one session that ever held it (`CellsBelong`): with stores
that hand out pointers the other properties depend on it.

* `SessionsDelegationIsProven`, `SessionsTokensDieWithTheirSession`: `ParentsProven` follows a
  registration through its stages; `Dead` adds that a deleted session which was not overtaken has its
  registration behind it, so that nothing issues it a token again.
* `SessionsTerminateIsFinal`: not inductive by itself: that a doomed session stays doomed needs that
  all handlers of one epoch hold the *same* agent (`OneAgent`), also those that lost the race
  to create it, and that its score never falls.
* `SessionsNothingLeavesUnreported`: `NothingUnreported` says of each stage of registration where
  the session's cell is, and of DELETE and reaper, between report and removal, that the report
  is out.
* `SessionsChildLimitHolds`: the property speaks of a child whose budget has the policy's
  limit; `LimitKept` says of *every* managed cell some handler still holds whether it has the
  parent's limit, because a handler that fetched one early may store it back after the child was
  registered.

### `ReviewsProofs`, `OperatorProofs`, `TrailProofs`

* `ReviewsAllowNeedsApproval`: approvals are counted. `ApprovalsAccounted`: those sent on a review
  are in the channel, or taken by one waiter each; so no approval serves two. `HookOK` keeps the
  dispatcher's answers to what the webhook said.
* `ReviewsRecordMatchesAnswer`: `RecordFollows` adds that only the operator who sent a
  decision records it: nothing is recorded before one was sent, and of one that was sent the
  record is made, lost, or about to be.
* `OperatorNothingBeforeEnforce`: `NobodyEnforces` extends the property to caches and to
  reconciles under way, which may carry a mode that is not the singleton's any more.
* `OperatorStatusIsTrue`: `StatusHolds` relates what a reconcile listed, applied and is to delete
  with what is there, through a death between its two writes.
* `TrailRingIsNewest`: `RingKeeps` is the property in the buffer's own indices; `Wraps` and
  `PushedDoes` are the arithmetic modulo the capacity. `TrailRecordTellsTheStory` rests on it: the
  window of the newest records, queried backwards, filtered and turned round, is the window
  filtered (`FilteredBackwards`, by induction on the sequence).
* `TrailAnsweredIsDurable`: `OnItsWay` says, stage by stage, what a handler has already seen to.

### `StoresProofs`

Lineage, risk and keys by themselves; `PartsProofs` carries the results over.

* `LineageFlowIsKeptAndHeld`, `LineageInheritedRefsAreReal`: of a call on its way, that the graph it
  holds is that of its session until that expires (`CallsBegun`); of a registration, that what it
  still has to copy was verified against a graph that knows it (`HeirsVerified`); and that only
  who is registered expires, so a child inherits nothing across a sweep that it was not given.
* `KeysOneKeyPerLabel`: keys are numbered without a gap and no two entries share one
  (`KeysNumbered`); a key is with somebody who knows it, with a request that will tell it, or among
  those whose answer was lost (`KeysKept`).
* `RiskNeverForgotten`: the score is the number of points added, capped and rounded (`ChargedAdds`). Points are kept as a set of
  pairs of a call and a number (`PointsOf`), so that "a step adds this call's points and
  nobody else's" is a statement about disjoint sets and no sum over the calls is needed.
  `RiskExact` is the separate case of calls that come one at a time, which is
  vacuous as soon as two overlap.

### `CallsProofs`

The rules and the proxy. The theorems on the rules have no bounds: `GlobFinds` (the greedy scan is
complete for a signature and a pattern of any length, because the first occurrence of a part leaves
the most room), `ChainIsSpelled` (likewise, and the window's edge), `OutputIsClean` (a line that was
redacted by one pattern holds none of the others), `SanitizeDoes` (any number of rules, by
induction on the rules), `ScopeIsInherited`, `ListsHold` (the conflict test of `cilium.go` catches
every way an entry can stand for a name a blocked one stands for). Recursion in these rules is
written as a function, whose existence `Iterates` proves once.

`ProxyNothingUnjudgedRuns` and `ProxyClientsAreServed`: what was sent is the client's, in the
client's order, as the verdict left it (`Ledger`), at most one message or its answer is on the way
(`InTurn`), and only an answer to no tool call escapes the scan (`Scanned`). Nothing of
`InTurn` is left after the first message out of turn, which is why the property excepts what comes
after one.

### `PartsProofs`

First that a behaviour of `Parts` is one of each component's own (`PartsRunLineage` and its
like); then, for the components proved here:

* `PartsHookKeepsToVerdicts` (`CallsKept`: a call is at the server only after it was posted,
  and the hook judges it once, when the server never got it or was given up; nothing is said of rows but
  that those kept are of verdicts);
* `PartsFilesAreGivenBack` (`FilesKept`: of a file without trouble at most one process has it in
  hand, and knows what the user's version is);
* `PartsAgentsActOnAnswers` (`NodeSane` and `TreeKept`: which of its turn's calls a node has had
  judged, and who may still hold whose session);
* `PartsSnapshotsAreKept` (`InOrder`: unless two were in the file at once, who rewrites it has
  read what is still in it);
* `PartsScansMissNothing`, `PartsSanitizedPasses`, `PartsDelegationGivesNothing` and
  `PartsNetworkKeepsToTheLists`: the properties as the run states them, from the theorems of
  `CallsProofs`;
* `PartsLineage`, `PartsProxy`, `PartsOneKeyPerLabel`, `PartsRiskIsNeverForgotten`,
  `PartsTypeOK`: what the other modules prove, in these behaviours.

### How induction is done, and what is left to TLC

Statements about all numbers or sequences are sets: the set of the numbers up to which a scan
is right contains 0 and each successor, hence is `Nat` (`NatSet`, from well-foundedness of <);
likewise `SeqInduct` for sequences.

Only model-checked are the four liveness properties `EveryCallAnswered`, `OverdueLeaves`,
`EveryoneIsAnswered` and `Enforced`: fairness and `ENABLED` are outside the prover's reach. The four
claims that are violated are of course not proved.

## Where the code and its documentation part

Four findings have a run (see `PROJECT.json`). The following were met on the way
and are in the models, or beside them, without a run of their own:

* *Limits.* The budget is checked and counted in two critical sections, so
  overlapping calls exceed it (that is what `CallsWithinLimit` bounds). A call a
  reviewer approves leaves through `RecordUsage` (`interceptor.go:289`) and is never
  counted as a call (`session_budget.go:139`). Exceeding a *rate* answers TERMINATE,
  and a minute later the session goes on. A child's delegated limit is read once, when the budget first sees the session
  (`session_budget.go:215`), and never if its state was removed before that; the budget entry itself
  nobody removes, not the reaper (`main.go:422`) nor DELETE.
* *Reload.* A reload that fails to build keeps the new limits with the old pipeline
  (`main.go:336`). Output validators, the dispatcher and the audit settings are
  built once, although `deployment.md:34` says "changes take effect within 30 seconds,
  no restart". The stamp on an audit record is the policy published when it is
  written, which need not be the one that decided; hence *quiet* calls.
* *Records.* A call refused for its token is not audited. The governance record of a DELETE
  is drawn before the session is removed, and calls in between are in no
  record; the reaper does it the other way round. JSONL lines still on their
  goroutine die with the process.
* *Sessions.* A DELETE that overtakes a registration leaves a session that verifies; the property
  `TokensDieWithTheirSession` says that there is no other way.
* *Delegation.* `ValidateScope` looks at allow lists only. A parent that has expired but was
  not reaped still vouches for a child, and `Depth` shrinks when an ancestor is
  evicted.
* *Globs.* Parts are looked for in order but the ends are not anchored.
* *Proxy.* Without a dispatcher `Intercept` answers HUMAN_REVIEW, which is no case of the
  switch in `handleToolCall` (`proxy.go:174`): the call is forwarded, where
  `types.go:27` says "pause agent execution" and `configuration-reference.md:294` that
  such decisions "fall back to DENY". Behind a subprocess a message the server was not asked
  for is taken for the answer, and all answers after it move by one, outputs
  to unscanned messages included; a client's notification, which MCP's handshake
  has, is waited upon without a timeout (`transport.go:210`), so the proxy hangs until the
  server speaks. `ClientsAreServed` leaves these
  cases out by name. In observe mode a refused output's verdict is turned into ALLOW before it is
  returned (`interceptor.go:516`): what counts as scanned is then passed on raw.
* *Lineage.* A session that expired while a call of it is judged loses what it knew: that call
  may take tracked data out unheld.
* *Mutators* each work on the original call, so the last one that changes it wins: a query
  least privilege scopes loses the sanitizer's changes. A path least privilege refuses is a
  line in the log and the call goes on (`interceptor.go:304`).
* *Hook.* `init` registers hooks with `--policy`, which `--mode=claude-hook` never
  reads (`main.go:89`). PostToolUse never asks the server, and MUTATE is an exit code of 0: neither
  changed parameters nor sanitized outputs reach the tool's user. A call may have two verdicts
  on record, the server's and the hook's, or none: they write one SQLite file without a busy timeout.
  A call whose body is over 1 MiB runs unjudged (`interceptor.go:404`, `claude_hook.go:140`).
* *wrap and init.* `init.go:7` says "On Ctrl-C all patched files are restored atomically": a file that
  was absent is not removed, its hooks stay, and the write is not atomic. The deferred restore of
  `main.go:147`, "safety net for clean shutdowns", never runs: the server does not return, and
  `log.Fatal` skips it. A guard started on a file one left patched takes that for the
  original, and overwrites the command or URL the patch had kept. `init --uninstall` goes on
  to start a server.
* *SDK.* `Decision.blocked` leaves HUMAN_REVIEW out (`types.py:38`), so a call held without a
  dispatcher runs. The client waits 10 s where a reviewer has 60. A sanitized output
  that is empty counts as none and the raw one is used (`loop.py:175`). The example
  graph's client has no API key, so no eviction of its succeeds.
* *Snapshots.* The limit of a context is applied before entries without a summary are
  dropped. Ids of records of one second are equal.
* *Risk.* A sum of just a threshold may miss it: three drifts of 1.0 are a HUMAN_REVIEW, not a
  TERMINATE. "at most once per window duration" (`session.go:138`) holds for calls that come one at
  a time; two that overlap may both be charged. Peak, events and the drift on an audit
  record may be another call's or lost.
* *Keys.* "supports key rotation without downtime" (`middleware.go:21`): the old key is gone at
  once. After a restart a key that was rotated away is the valid one again.
* *Operator.* A namespace whose patch fails is not in what was applied, so its live
  policy is deleted as stale, and comes back with the retry. The enforcer does not watch
  namespaces: a label taken away and given back can leave the CiliumNetworkPolicy missing until the
  informers resync. A blocked entry without a wildcard is a substring for
  the validator and a name for Cilium. *Watcher:* if version B is hashed, C is
  loaded and B is put back, C stays in force until the next edit.

## What is not modelled

`PROJECT.json` lists each part with its reason; in short:

* *Nothing to check*: formatting and read-only endpoints, dashboards, metrics, traces,
  compliance reports, watch and meter, the Go example agents and tool servers (clients with scripted
  scenarios, tables behind a tool call); renderers of YAML.
* *Out of reach or not ours*: regular expressions and classifiers of the content validators
  (a free choice in `Admission`), LLM clients, Loki, Kubernetes' own machinery.

Abstractions worth knowing: the informers deliver the latest state (snapshots in
between are coalesced) and do not resync; nobody deletes the singleton; the token, cost
and call limits are small numbers; clocks appear as what comparisons with them would yield.

## Plan

Done, in this order: `Admission` (with its gate and proofs), `Sessions`, `Reviews`,
`Trail`, `Watcher`/`Operator`, the rules, `Lineage`, `Proxy`, then what stands around the
server: `Hook`, `Agents`, `Wrap`, `Snapshots`, `Risk`, `Keys` and `Mutators`; then the theorems,
component by component, until no safety property was left without one.

Next: abstract specifications of the session store and of the review store, in the way
`AdmissionGate` is one of the pipeline, and their refinement; a rank for each liveness property,
whose decrease by every helpful step is a safety statement and can be proved.
