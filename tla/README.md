# AI Team OS: specifications, model checking and proofs

TLA+ specifications of AI Team OS (`src/app`): the orchestration of a task and everything that
decides what it may do and what is kept of it, from the mailbox users steer a run with to the voice
session, the long-term memory and the event feed. Each module is written from the Python source;
`PROJECT.json` maps every definition to its lines. TLC checks the modules on small instances, TLAPS
proves the results that matter most for every value of the constants.

    tlc -config MCTaskGraph.cfg MCTaskGraph      # one run
    tlapm TaskGraphProofs.tla                    # the proofs of one module

## 1. The system

A user posts a goal, by hand, in a conversation or by voice. `runner.run_task` builds a LangGraph
graph (`graph.py`) over a checkpointed `TaskState` and invokes it in a thread of the API server. Nodes
plan the task, fan out subtasks to researchers and executors, review the results, send work back, and
finalize. A node that needs a person calls `interrupt()`: the run ends as *paused* and `resume_task`
later invokes the same checkpoint again, which **replays the interrupted node from its beginning**.
All endpoints are synchronous functions that FastAPI runs in a pool of threads, so two of them, and
the graph, may execute at once. Most state is in files and SQLite databases that every call opens for
itself.

| Part | State | Operations | Talks to |
|---|---|---|---|
| Task control (`core/task_control.py`) | one JSON file per task: action, constraints | request, add_constraint, clear_action, take_constraints | steering endpoint, graph nodes, `resume_task` |
| Graph (`graph.py`, `core/state.py`, `core/orchestration.py`, `core/plan_validator.py`, `core/rework_guard.py`, `core/completion.py`, `agents/*`) | `TaskState` in the checkpoint: subtasks, status, replan reason and count | ingest, clarify, plan, dispatch, exec_subtask, review_all, finalize and the routes between them | agents, mailbox, approvals, runner |
| Patch engine (`core/patch_engine.py`, `core/rollback.py`) | worktree, backups, manifest per task | validate, apply, rollback_patch (rollback_to_initial has no caller) | executor, approvals |
| Approvals (`core/approval.py`, `agents/executor.py`, `api/server.py`) | `approvals.jsonl` per task, `pending_approval_id` in the checkpoint | create, decide, cancel, expire, verify_execution | executor node, runner, endpoints, permission mode |
| Model gateway (`gateway/model_gateway.py`, `core/budget.py`, `core/workflow_cost.py`) | usage and role counters of the run, `budget_usage` in the checkpoint | assess_and_reserve, can_call, call, record | agents, runner, routing |
| Tool gateway (`gateway/tool_gateway.py`, `gateway/tool_policy.py`, `core/evidence.py`) | idempotency keys, result cache, quotas and evidence of the run; keys and evidence in the checkpoint | invoke, snapshot | agents, tools, reducers, reviewer |
| Providers, keys and routing (`core/provider_store.py`, `core/secret_store.py`, `gateway/multi_provider.py`) | tables of providers, routes and performance; credentials in session and secure stores | create, update, delete, discover, set keys, route, generate with fallback | model gateway, usage, endpoints |
| Usage (`usage/*`) | rows and cache observations of calls, retention | record, observe, relabel, prune, sum | model gateway, dashboard |
| Permissions (`security/permissions.py`) | mode in SQLite | classify, decide, set mode | gateways, approvals, Windows control |
| Windows control (`windows_control/*`) | session, task with steps, pending confirmations | start, plan, run, approve, reject, stop | model, desktop, permission mode |
| Voice (`voice/*`) | session state, streams, timer, turns, threads that wait for the lock | push to talk, wake, submit, stop, pause, settings | conversation, audio devices |
| Memory and personalization (`memory/*`, `personalization/*`) | SQLite tables: memories with full-text index, proposals, settings, signals | propose, confirm, reject, correct, forget, expire, observe, resolve for a role | runs, conversation, endpoints |
| Storage (`core/storage.py`, `core/workspace.py`) | `storage.json`, the roots and the directories of tasks | migrate, set and clear project directories, create workspaces | runner, endpoints, conversation |
| Conversation (`conversation/*`) | one session file: turns, scroll position, constraints, focus | turn, voice turn, scroll, steer, clear | runner, voice, storage |
| Events (`core/events.py`, `api/server.py`) | one SQLite log, one generator per subscription | emit, stream, reconnect | runner, web client |
| Desktop vision, sandbox tools, cache diagnostics | none a task depends on | capture, ground; run, fetch; report | Windows control, tool gateway, usage |
| Front ends (CLI, Tauri shell, React client) | none of their own | call the API | API |

What is hard here, and what each part has to guarantee:

* **Replay.** Everything a node does before its `interrupt()` happens again on resume. A replay must
  find its approval request instead of making another one, must not repeat what took effect, and must
  not swallow a STOP that arrived meanwhile (TaskControl, Approval).
* **Threads over files and tables.** Every caller builds its own store object with its own lock, over
  the same file. Reading, changing and writing is not atomic, and an answer "accepted" may be
  overwritten (TaskControl, Approval, LongTermMemory, ProviderRegistry, Conversation).
* **Threads that wait for a lock.** A timer that ran out, a wake worker or an emergency stop acts when
  the lock is free, on a state that has moved on (VoiceSession, WindowsControl).
* **Reducers.** `subtasks` merges by id and a replan reuses ids; `replan_reason` has no reducer and
  parallel subtasks write it (TaskGraph).
* **Memory and checkpoint.** Keys, cache, quotas and usage live in objects that every resume builds
  again from what the checkpoint holds (ToolGateway, ModelGateway).
* **Loops with limits.** Rework, replan and steering share counters kept in three places. A run has to
  end, and has to complete only with accepted work (TaskGraph).
* **Partial failure and crashes.** A patch is written file by file, between backups and manifest
  entries; a migration copies, switches and deletes; budgets live in memory until a run pauses
  (PatchEngine, StorageRoots, ModelGateway).
* **Check, then act.** A base is verified and then replaced; a budget is tested and then charged; a
  reference is resolved and then used (PatchEngine, ModelGateway, ModelRouting, LongTermMemory).
* **Two sources under one cursor.** The event stream merges two limited queries and resumes after the
  last number the client has seen (EventStream).

`PROJECT.json` lists each hazard at its line with the property that would catch it.

## 2. Modules

Each component module declares its constants with a named assumption where a proof or a run needs it,
one action per operation or handler and its properties; the constants a `.cfg` cannot write are in
`MC<Module>.tla`, theorems in `<Module>Proofs.tla`. Some proof modules have a second half about another
component that shares no state with the first: PatchEngine in `ApprovalProofs`, VoiceSession in
`TaskControlProofs`, storage and conversation in `EventStreamProofs`, ModelRouting in
`ToolGatewayProofs`; names that both halves would use have a prefix. Operators called `Bug...` are
deliberate defects: put in place of the definition that follows them, they make a property fail, which shows what the
property is sensitive to. They are not part of any specification.

| Module | Composes | Checked by |
|---|---|---|
| `TaskControl` | | `control` |
| `TaskGraph`, `Planning` | the mailbox as two fields, an approval as an interrupt | `graph` |
| `PatchEngine` | | `patch` |
| `Approval` | the graph as one executor node with rework around it | `approval` |
| `ModelGateway` | | `gateway` |
| `ToolGateway` | supersteps, verdicts and rework of the graph | `tools` |
| `WindowsControl`, `Permissions`, `SupervisedTask` | `SupervisedTask` is what the other two implement | `windows` |
| `VoiceSession` | | `voice` |
| `LongTermMemory` | memory, personalization and the runs that use them | `memory` |
| `ModelRouting` = `ProviderRegistry` + `UsageLedger` over `Requests` | registry, routes, calls and telemetry in one state | `routing` |
| `Conversation` over `StorageRoots` over `Requests` | conversation turns start the tasks whose directories move | `storage` |
| `EventStream` | | `events` |

### TaskControl
`file` and `tmp` are the mailbox file and its `.tmp` sibling; `op[p]` is the operation process `p`
executes, as read, temporary write and rename, the three steps that are atomic on a file system.
`Request`, `AddConstraint`, `ClearAction` and `TakeConstraints` follow `TaskControlStore`; `node` and
`resumed` follow `_respect_task_control`: a control node reads the mailbox, interrupts, and on replay
clears the request. Nothing keeps two operations apart, so one may write back what it read before
another's write, rename the other's temporary file, or find its own gone; the last raises, in the graph
thread as `node = "crashed"`. History says what cannot be lost all the same. A write *settles* when it
renames while nobody else is past its read (`Alone`): a settled constraint is `owed` until the graph
takes it or later ones push it out, whatever races follow; a settled take has `given` its texts; a
settled STOP is `stopped`, unless a resume is under way that clears it (`Resuming`, `Replaying`).
`asked` collects pauses and stops since the last resume, and those a writer had in its hands when the
action was cleared (`MayReturn`): they may come back.

### TaskGraph and Planning
`sub` is the subtask table with statuses, dependencies, rework counts and signatures; `node`, `sent`,
`waiting`, `writes` and `intr` are the LangGraph scheduler: the next node, the subtasks of the current
superstep that still run, those stopped at an approval, who wrote `replan_reason`, and the interrupt
the run is paused on; `executor` says whether the run has one, which decides what kinds of subtask a
plan may hold. One action stands for one node (`Plan`, `Dispatch`, `Exec`, `ReviewAll`, `Finalize`,
...), with its route taken in the same step, as LangGraph does. What models and people decide
(drafts, results, verdicts, signatures, approvals) is a nondeterministic choice; everything the code
decides from it (`Verdicts`, `ReviewReason`, `RouteAfterReview`, `MaxReworkFor`, the completion check)
is an operator. `Install` is `merge_subtasks`. The mailbox is reduced to its two fields, because its
interleavings are the subject of TaskControl.

`Planning` is the pure part of the plan node: `PlanningEnvelope`, `RoleRouter`, `validate_plan` and the
deterministic plans that replace a draft the model got wrong, as functions from a draft to the plan
that is installed. Its assumptions `DraftsAreJudged`, `FallbacksAreExecutable` and
`ReadOnlyGoalsHavePlans` compare these functions with reference definitions over all small drafts; the
`graph` run evaluates them, and the plans of its instance are computed by `Planning`.

### PatchEngine
`tree` is the worktree as sequences of lines, `tmp` the temporary files (one name for every thread),
`backups` the backup files, `manifest` the entries that point to them. A thread that executes a patch
hashes the targets and binds or compares them (`VerifyBase`), and applies: one step per system call that
matters, read, copy to a backup (`SaveTarget`), append the entry, write the temporary file, replace. The
recovery copies each backup *file* back, which first empties the target (`OpenTarget`, `RefillTarget`);
a rollback goes through the entries the same way. `IOError`, `ServerDies` and `LoseBackup` may hit
between any two steps, in a recovery or a rollback too, and end it with the rest not restored. Nothing
locks a worktree, so all of this may be done by several threads at once. History: `hit` are the paths
others have written to since a thread took its hashes (or began its rollback), `late` those since it read
the current target; `written` and `last` say who replaced a file last and how the last operation ended.
Hunks are applied as `_apply_diff_to_file` does, headers skipped. `EachOnce` says that a patch lists no
target twice, which some clauses ask of it.

### Approval
`disk` is `approvals.jsonl` folded to its last line per request; `call[c].svc` is the copy a call's
`ApprovalService` has loaded. `call[c].pc` walks an endpoint call through `resume_task` and, inside
it, the executor node: decide, record, build, exec, bind, interrupt or refuse, verify, apply, test,
review. Calls may overlap; the history variable `overlapped` remembers that they did. `SwitchMode` is
the permission endpoint that approves what is pending. `Crash` ends every call in flight; what is on
disk stays.

### ModelGateway
A branch asks the governor, checks the budget, calls, retries, and records, each in a step of its
own: `Ask` reads the call count outside the lock, `Reserve` is `assess_and_reserve`, `Check` is
`can_call`, `Answer` and `ProviderFails` are the provider, `Record` is `record`. `End` writes
`budget_usage` to the checkpoint, `Resume` rebuilds both controllers as `_build_context` does, `Crash`
loses what was in memory. Tokens and cost are checked in the same way, so one amount stands for both.
`paid` and `answered` are history: what providers charged, whether recorded or not.

### ToolGateway
`seen`, `cache`, `evidence`, `quota` and `stored` are the gateway's `_seen_keys`, `_result_cache` and
`evidence`, `ToolQuota` and `EvidenceWriter`. `invoke` holds one lock throughout, so a call is one
action; `Invoke` has a disjunct for each way out of `_invoke`: refused by the first reservation,
answered from the cache, skipped, refused by the second reservation (replays only), forbidden, blocked
with an approval request, failed, read but not storable, stored. A subtask that was rejected calls with
`replay = True` (`Replay`). `Return` is the snapshot that exec_subtask writes back, `pend` holds it
until `Commit` merges the superstep, `Resume` is `_build_context`: keys and evidence from the channel
values, no cache, no quota, no stored contents. Evidence loses its idempotency key on the way, because
`state.Evidence` has no such field (`NoKey`). The agent's choice of calls is free.

### WindowsControl, Permissions and SupervisedTask
`session` is the `DeviceSessionManager`'s session, `task` the current task with its plan and the status
of each step, `pending` the confirmations asked for. Every public method of the service holds its lock
to the end, so `call` is the one call under way, and its phases are where `_execute_step` stands: before
the checks of `WindowsActionGateway` or at the backend. `Refused`, `Ask`, `Admit`, `Succeeds`,
`Retries`, `Replans`, `TargetLost`, `Fails` are the ways out of one attempt; `Finish` and
`ReviewUnavailable` end the plan. Around them the desktop locks or asks for elevation, the session
expires, the permission mode changes and the process restarts. A proposed plan passes `PlanAllowed`
(`_validate_plan`) or is replaced by `CanonicalPlan`. `Permissions` is the decision table of
`RiskClassifier` and `PermissionPolicy`. `SupervisedTask` is the abstract task: it acts only while it
runs, goes on after a question only when the answer was yes, and does nothing once it has ended;
`Supervised` says that WindowsControl implements it, with a confirmed step seen as running.

### VoiceSession
`v` is the service's state, microphone state, session flag and the two input streams; `turns` are the
turns outside the lock (`asr`, `route`, `reply`, `say`, ...), `waiting` the wake workers and cancelled
timers that still wait for the lock, `finishers` the threads that await the end of a speech. Each call
of `VoiceService` is one action, and each stretch of a turn between two holds of the lock. `routed`
counts how often a recording has reached the supervisor.

### LongTermMemory
`memories`, `proposals`, `index` and `settings` are the tables of `MemoryStore`, `signals`, `refused`
and `started` those of personalization, `runs` what a checkpoint keeps (`memory_refs`,
`personalization_applied`). A call that selects and then writes is two steps (`Confirm` and
`ConfirmWrite`, `Reject` and `RejectWrite`, ...), after `Expire`, which most of them run first. `Load...`
resolves the references of a run for one role, one at a time. `overlapped` marks proposals that two
calls decided at once.

### Requests, ProviderRegistry, UsageLedger, ModelRouting
`Requests` is what the request-based modules share: threads with what each has read, and a bound.
`ProviderRegistry` keeps provider rows, the stores that hold each key, and the requests that create,
update, discover, set and delete them. `UsageLedger` keeps the usage rows, the cache observations, the
scopes and the retention, with what providers report normalised as `UsageReconciler` does.
`ModelRouting` composes both with the role routes and the performance table and follows a call:
`Resolve` a route, `Admit` it within the role's budget, `ProviderAnswers` or fails, `Credit` the performance
table, `Settle` the usage row, `Observe` the cache, with fallback and retry on the way.

### StorageRoots and Conversation
`StorageRoots` keeps which directories exist and hold what, `storage.json` (`saved`), the server's
registry, the thread that holds its lock, and the tasks with the paths they have read; `Copy`,
`Verify`, `Switch` and `Delete` are the steps of a migration, `CopyFails` and `Restore` its error paths.
Each task also records whether a completed migration has deleted the directory its worktree was
made in (`gone`). `Conversation` extends it with the session file, its lock and the requests on it; a turn may start a
task whose workspace is then subject to migration. `exposed`, `moved`, `late` and `disturbed` are
history: writes a migration could not see, directories it touched, workspaces made with a path read
before the switch, and requests without the lock that overlapped another.

### EventStream
`log` is the events table, `stream` the generator of one subscription (`pc` is the query it makes
next, `batch` what the queries found, `last` its cursor), `wire` the frames under way, `client` and
`shown` the browser. A poll is two queries, a frame is one `Send`, and the status of the run is read
after `MaxIdle` empty polls. Connections are lost and the server dies; the client connects again after
the last number it has. `raced` and `flooded` are history: events that came between two reads of a
poll, and queries cut off by their limit.

### How they fit
Where components change one state together, one module composes them: Planning computes the plans of
TaskGraph, Permissions decides in WindowsControl, ModelRouting joins registry, routes and ledger,
Conversation joins the session file with storage, LongTermMemory joins memory, personalization and
runs. The other boundaries are shared instead of being multiplied into one state space. TaskGraph
takes the mailbox as two fields and an approval as an interrupt that ends approved or rejected;
Approval takes the graph as one executor node with rework around it; PatchEngine takes approvals as an
id with a bound content. Every such boundary is the wider behaviour: an approval may end any way in
TaskGraph, an approved patch may meet any tree in PatchEngine, the supervisor may answer, fail or hang
in VoiceSession. ToolGateway takes from TaskGraph supersteps, the verdicts (free, except that unknown
evidence is rejected) and rework, and from Approval that an executor may stop and start again.

## 3. Runs

Every run holds on all reachable states of its instance.

| Run | Question | Bounds |
|---|---|---|
| control | while operations race and lose updates: a constraint whose own write did not overlap is not lost or delivered twice, such a STOP holds and takes effect unless a resume clears it, nothing pauses unasked | 2 clients and the graph, 2 texts for 1 place, 3 posts, any number of plain resumes |
| graph | accepted work rests on accepted work; completion is earned; rework and replans are bounded and a limit is only reported when it was used up; every run ends once users answer | 3 ids, the plans Planning installs for a standard, a simple and a trivial goal, with and without executor, 1 replan, 1 constraint, 1 pause |
| patch | a file is replaced on approved content unless another thread wrote it since the hashes, and by the approved diff of what is there; every write can be rolled back; a recovery or rollback that says it is done has restored | 2 threads, 2 files, 2 patches, 2 approvals, 3 executions and rollbacks, 1 fault |
| approval | only approved diffs are applied, as shown, and once if calls come in turn; refusal is final; a paused run waits for something that can be decided | 3 calls that may overlap, 2 requests, 2 reworks, 1 crash |
| gateway | role limits hold for parallel branches; budget and call limit are passed by at most one request per other branch; what is saved was paid | 2 branches, budget 5, requests of 1 or 2, 1 retry, 1 resume, 1 crash |
| tools | what a subtask cites is saved before it is reviewed; a gateway runs no more handlers for a subtask than its quota; nothing is fetched twice and no write asked about twice | 2 subtasks (one stops at an approval), 3 reads and 2 writes, 2 calls per execution against a quota of 1, 2 records of 2 bytes, 1 rework, 1 resume, 1 crash |
| windows | answers and steps keep to the plan; an asking session gets every write approved; every call gives the lock back; a task keeps the promise of SupervisedTask | 2 sessions, 2 tasks of up to 2 steps, 2 events |
| voice | a service that says it listens records; streams open only with consent; a recording is routed once; speaking and thinking end | 2 recordings, 2 turns, 1 waiting thread of a kind, 1 call of the person beyond recording |
| memory | index and memories agree; a proposal is decided once; no role is given a stale reference | 2 callers, 5 calls, 2 proposals, 2 memories, 1 run, 1 tick |
| routing | a role passes its cost budget by no more than the calls under way; the accounts of a call agree; one default provider, no key of a deleted one | 2 custom and 2 built-in providers, 2 threads, 4 requests, 1 retry, one disturbance (death, day or retention) |
| storage | no written file is lost over migrations; a paused task is found and its worktree stays until a migration deletes it; acknowledged turns stay in the session; a confirmed ban on changes holds | 2 threads, 3 requests, 3 directories, 1 task, 1 write, 1 fault |
| events | the feed shows every event once and in order; a subscription to a run that ends is told so | 3 events, queries of 2, 2 faults, 2 empty polls |

**Premises.** Several properties name where the code stops protecting them: `overlapped` and
`disturbed` (two requests worked on the same thing at once where no lock excludes them), `crashes = 0`
or `deaths = 0`, `forgotten` (a resume lost keys that were only in memory), `raced` and `flooded`,
`exposed`, estimates that cover the usage, or a replay in progress. The premises are part of what the
runs say: under them the property holds, and section 5 says what happens without them. None of them
is empty: the states where they hold are the larger part of each instance, and every property has a
mutant of the code that breaks it there.

**Why these bounds.** Two writers are what a lost update takes, and three ids give a chain, a fork and
an id that a replan drops, keeps or redefines. One replan above the limit reaches each limit test, two
requests allow one to supersede the other, and a hunk that does not fit starts a recovery in which
the one fault may hit. Two texts for one place make a constraint push another one out. Three calls are an approval, a
second one in its way, and one that comes after both. Two branches are enough for check-then-act; the
budget of five units leaves room for a request that fits alone and not twice, and for the call limit
and the recovery threshold to bind in other orders than the budget. A quota below the calls of one
execution makes the second call refused and a replay come with the quota used up; two small results
use up the number of records, a large one the bytes. Two sessions and two tasks let a question outlive
what it was about; two recordings and two turns let a late turn meet a new recording. Five memory calls
are a proposal, its two decisions by different callers, and two that come between or after. Four
routing requests are a route, two calls that share its budget, and a change meanwhile. Three storage
requests are a turn that starts a task, a migration, and a decision or a second migration. Queries of
two rows for three events are cut off once.

Counters that only grow have a bound in the guard, named `Max...` and marked "bound" where it is
declared; `MaxConstraints`, `ReplanLimit`, `MaxRetries`, `RoleLimit`, `RecoveryAt`, `MaxCalls` of
ModelGateway, `Limit`, `MaxIdle`, `KeptTurns`, `SignalsNeeded` and `Cooldown` are limits of the code
itself, with smaller values. The callers of `memory`, the providers and threads of `routing` and those
of `storage` are interchangeable, and the runs use that symmetry; they check no liveness. `routing` is
cut by the constraint `OneDisturbance`: a server death, a change of day and a retention are each
explored, not two of them together, a change of day with three requests beside it, which are a
route, a call and a retention.

**Deadlock** is not checked: every module has runs that are over (a task completed, all posts made,
a paused run nobody resumes), where the system really stops.

**Fairness.** TaskControl assumes that a graph thread between two nodes goes on, that a file operation
in progress completes, and that an answer is sent: threads of a running server, no lock that can be
held forever. TaskGraph assumes that the scheduler runs the next node (`WF_vars(Graph)`) and that a
user answers interrupts (`WF_vars(Answer)`); nobody is assumed to post anything. WindowsControl assumes
that a call that holds the lock goes on (`WF_vars(Work)`): every wait in it has a time limit, and the
retries and replans it may make are counted. VoiceSession assumes that the thread that awaits a speech
gets the lock (`Finisher`) and that a turn's recogniser and supervisor answer, fail or reach their time
limit (`Answered`). EventStream assumes that the generator, the reconnecting client and its reader go
on. The other modules state safety only.

## 4. Proofs

* **TaskControlProofs.** `TypeCorrect`, `ConstraintsKept` (`NoConstraintLost`) and `ControlCorrect`
  (`ControlHonoured`), for any clients, texts and limits and every interleaving. The argument of the
  first is `KeepLast`, which every writer applies. The others rest on `Races`: whoever wrote the temporary
  file last has yet to rename it (`Written`), so each rename installs what some operation past its read
  writes; a text that settled is in what every such operation has read (`OwedKept`), one that was handed
  over in none of them (`GivenGone`); a settled STOP is in what each of them writes (`StopKept`); and an
  action nobody asked for since the resume comes back only through a writer that holds it
  (`ActionAsked`). With `Alone` taken for granted TLC finds the lost update in eight steps; without
  `Resuming` and `Replaying`, the STOP that a replay clears.
* **TaskGraphProofs.** `TypeCorrect`, `AcceptedFoundations` (`BuiltOnAccepted`),
  `CompletionIsEarned` (`CompletedMeansAccepted`) and `ReworkEnds` (`ReworkLimited`), for all ids, plans,
  goals and limits.
  Neither is inductive alone. `IInv` adds: a passed subtask has an acceptable result (`PassedIsGood`);
  nothing runs outside the execution superstep (`Quiescent`); dependencies of active subtasks are
  active (`Closed`, from `validate_plan`); what is sent or waiting is active, unfinished and rests on
  passed work (`InFlight`); before the first plan there are no subtasks, and a later visit of plan has a
  reason (`FirstPlan`); an interrupt can only have paused the run at its own node (`Paused`); and
  finalize or completion imply that everything passed and nothing is due (`Settled`). The step that
  needs them is a replan that reuses ids while subtasks of the old plan are recorded. `ReworkEnds` adds
  `Bounded`, what each rework count can be at each node, and `Steered`, what the latest review leaves to
  the router: what is sent back is under its limit, and what reached it asks for a replan or fails.
* **ModelGatewayProofs.** `TypeCorrect`, which includes that recorded and saved usage never pass the
  budget, and `RoleLimitsRespected` (`RoleLimitsHold`), for any number of branches, resumes and
  crashes. The strengthening is `Covered`: per role, requests made plus reservations held by branches
  between governor and budget check are at most the reservations made, which are at most the limit. It
  is what makes the unlocked read of the call count harmless. `BudgetRespected` (`BudgetHolds`) is about
  sums over branches. Sums are characterised as additive measures (`Sums`, `AddUp`), which needs no
  induction over the set. `Accounted` says that the ledger is what the branches recorded, and `Bill` and
  `Exposed` that what providers charged is ahead of it by at most one largest request per branch that
  has passed the check.
* **ToolGatewayProofs.** `TypeCorrect`; `QuotaRespected` (`HandlersWithinQuota`), by `Paid`: no more
  handlers have run than were reserved, wherever in `_invoke` the reservation was made; and
  `CitationsSaved` (`CitedEvidenceSaved`), by `Backed`: what a subtask cites is held by the gateway while
  it runs, by its own writes when it has returned, and by the checkpoint after the superstep, and a
  cached result is always evidence of this gateway. `Backed` is what makes it safe that siblings share a
  gateway which a resume throws away. `NothingDoneTwice` (`DoneOnce`) adds `KeysKnown`: while the gateway
  lives, a key that was executed with success is in its table, or its one execution is still at hand.
* **ToolGatewayProofs, second half: ModelRouting.** `RegistryStaysConsistent` (`RegistryConsistent`),
  `RoleBudgetRespected` (`RoleBudgetHolds`) and `AccountsStayAgreed` (`AccountsAgree`), for any
  providers, prices, routes, clients, requests and deaths. `RegistryInv` says that at most one row is the default
  and that a key without a row is one a racing request still has to delete or has raced with. `CallsInv`
  says that a call id is used once, that the row a call is about to write or has written names the
  provider that answered, and that row and observation carry one scope unless they were relabelled
  between the two writes. `AnswersEntered` says that the performance table counts every answer of a
  routed call but those about to be credited, `CostsCharged` that where it knows the costs it has added
  up those of every usage row and of every call whose row is still to come, and `WithinAllowance` that
  what answers have cost and admitted calls may cost is within the budget plus one call of each other
  client, and that what a test of the budget does not see is at most what is about to be credited, one
  call per client. `SumFunction` is a fold; `SumIsAdditive` characterises it as an additive measure, and
  everything about sums follows from that. That hits and misses add up to the input is
  said of the calls whose own report fits together (`AddsUp`): the code takes what a provider reports as
  it comes, a cache miss too.
* **ApprovalProofs.** `TypeCorrect` and `OnlyApprovedApplied` (`AppliedAsApproved`), for any diffs,
  calls, requests, reworks and crashes. Each call works on a copy of the requests, so the strengthening
  relates copies and file: `Shows` says that what a copy holds is a request of the file with the same
  diff and base, perhaps an older status, and that an approved one was granted; `Bound` what the
  executor knows of its request between binding, verification and apply. `InTurn` adds, while no calls
  have overlapped, that one call is active and the file is as it was hashed; since every apply moves
  the file on, no base is met twice, which is why an approval is not used twice even after a crash.
  `RefusalsStand` (`RefusalIsFinal`) and `PausedCanBeDecided` (`PendingDecidable`) rest on a second
  invariant, `TurnInv`, relative to the first: in turn the copy a call works on is the file (`Synced`),
  and a call that decides takes the request the run waits for, or leaves it for one that is approved
  already; what a quiet paused run waits for can be decided (`Waiting`).
* **ApprovalProofs, second half: PatchEngine.** `BaseIsApproved` (`ReplacesApprovedBase`) and
  `PatchesRecoverable` (`Recoverable`), for any worktree, contents, patches, approvals, faults and any
  number of threads, with no hypothesis beyond the constants. `PInv` says of the manifest that a backup
  taken before others wrote holds the approved content (`Faithful`); of an apply, that the targets it has
  not come to are as approved (`Ahead`), that an existing target is unchanged or its backup in hand
  (`Backed`), and what is on disk of the current one (`Saved`, `Noted`); of a recovery what it is about
  to fill in (`Refilling`); of a rollback that what it has passed is at the base and the rest lies ahead
  (`RollingBack`). Each of these speaks of a path as long as nobody else has written to it, and
  every write of a thread adds its path to the `hit` and `late` of the others (`Changes`), so a step of
  one thread keeps what is said of the rest (`OthersKept`) and the proof goes one thread at a time. A
  backup may go at any step; that is why a copy that is gone satisfies `Holds`, and why only a recovery
  that got through (`last.whole`) is claimed to have restored. `EachOnce` is needed where a second
  backup of a file would be of the patch's own content. Contents are opaque, so nothing is proved about
  what a hunk does to a text.
* **WindowsControlProofs.** `TypeCorrect`, `PlanIsFollowed` (`InOrder`), `NoUnapprovedWrite`
  (`WritesApproved`) and the refinement `TaskIsSupervised` (`Supervised`), for any intents, proposed
  plans, sessions, tasks and events. The strengthening is `CallOK`: a call works on a task that runs or
  has just been answered, its approval is one a person gave to the current step, and what has passed
  the checks was read-only, in a session that does not ask, or approved. It holds because nothing but
  the call itself moves to the next step, and moving takes the approval back. For the refinement every
  action is mapped to a step of `SupervisedTask` or a stutter: every attempt at the backend, whatever
  becomes of it, is an `Act`, and a call that is released early leaves the status it found.
* **LongTermMemoryProofs.** `StoreStaysConsistent` (`StoreConsistent`), `OneDecision` (`DecidedOnce`) and
  `NothingStale` (`NoStaleMemory`), for any callers, scopes, subjects and values. A call selects rows in
  one transaction and acts on them in later ones, with other calls in between. `Linked` relates the
  index, the memories in force and the chain of successors; `Scoped` keeps what a run took within its
  scope; `Fits` says of each kind of call and each of its steps what it still knows: tables only grow,
  and what has left force stays out, so a memory that was in force when it was selected is not among
  those that were gone before. `Decisions` counts decisions against calls that overlapped.
* **TaskControlProofs, second half: VoiceSession.** `ListensAsItSays` (`ListeningRecords`),
  `RecordingRoutedOnce` (`RoutedOnce`) and the action property `StreamsNeedConsent`
  (`OpensWithConsent`), for any number of recordings, turns and waiting threads. `VoiceInv` adds to
  `ListeningRecords` what the calls keep between them: a session needs voice, and waiting for the wake
  word needs that it is enabled (`Consented`); a recording that has not been routed is in progress, or
  with one turn only (`Held`). Timers and workers that get the lock late find the state they test, and
  the invariant says that the test is enough.
* **EventStreamProofs.** `EventsShownOnce` (`FeedComplete`), for any query limit, number of empty
  polls, events and faults. `Ordered` says that the numbers in the feed, on the wire and in the batch
  follow each other and an end frame is the last; `NoGap` that up to each of these points every number
  has been shown, is on its way, or has raced, in each phase of the poll; `EndKnown` that an end frame,
  or its reading, has the whole log before it. A lost connection discards wire and batch and goes back
  to the feed, which `NoGap` covers up to `lastId`.
* **EventStreamProofs, second half: storage and conversation.** `StorageSurvives` (`StorageKept`) and
  `ConversationSurvives` (`ConversationKept`), for any directories, clients, tasks and bounds.
  `MigrationsSafe` says, stage by stage, what a migration has in hand: its thread has the lock; until it
  deletes, every file it had to keep is also outside the directory it writes to; once it has
  verified, the new directory holds all of the old one that counts. From it follows that a file which
  no migration was exposed to is somewhere (`NothingLost`) and that the manifest of a task is where the
  task looks for it (`TasksHoused`). `BaseSafe` adds that the directory a live or paused task was made
in has its worktree until a completed migration deletes that directory: a migration that may still be
taken back never writes into it, and taking it back empties only the directory it wrote to. For the session file, `Undisturbed` says that while no request
  without the lock has overlapped another, the file is what was acknowledged, and that the one request
  at work (`Upright`) will write what follows on from it.

The assumptions are the named `ASSUME`s of the modules: types of the constants, finite sets, plans
that `validate_plan` accepts, at least one branch and a largest request (ModelGateway), and a missing
idempotency key that is no key (ToolGateway), a default directory that is one, with `None` neither a
directory nor a client (StorageRoots), and custom providers that are not built in, with an unknown
number that is none (ModelRouting). TLC evaluates them in every run. No theorem has another hypothesis.

**Only model-checked.** Liveness (`Terminates`, `StopTakesEffect`, `CallReturns`, `TurnsEnd`,
`EndTold`), which is out of the prover's reach. The planning functions are compared with their
reference definitions over bounded drafts.

## 5. What the modelling found

Where a document or a comment and the code disagree, or the code leaves a gap, the models follow the
code, and the properties name the gap as a premise.

*Task control and graph.* Mailbox operations read, change and rewrite the file without a lock that
covers both, and share one temporary name: two that overlap lose a constraint or a STOP that was
answered 200, bring an earlier one back, or fail. A
node that replays clears whatever request is there, also a STOP posted after the resume (`graph.py:262`,
against the answer at `api/server.py:1290`). Parallel subtasks that both write `replan_reason` make
LangGraph fail (`graph.py:611`; nobody catches it). A constraint that comes after the last review is
answered and never used (`graph.py:733`); steering uses up replans. "Deterministic replan is always
legal" (`graph.py:447`) does not hold in real mode for a code change, which falls back to a research
plan, or a Windows action, which has no fallback; and a simple plan with less than 500 tokens of budget
raises `PlanValidationError` outside any handler (`graph.py:368`).

*Patches and approvals.* A file created by a patch survives when a later file of it fails. Nothing
locks a worktree: what another resume or a rollback writes between the hashes and the replacement is not
noticed (`agents/executor.py:277-405`); if its lines still fit, the diff is carried out on it, and what
comes between the read and the replacement is overwritten. Two applies of one file share its `.tmp`, so
either may publish the other's text, and the slower one fails. A recovery in which a backup is gone or
a copy fails stops with the rest not restored, and one that fails after it has opened the target leaves
it empty; the executor reports "rolled back" all the same (`agents/executor.py:426`). A diff with
hunks of several files is applied to each target as if it were its own. `apply` takes a list that names a
file twice, backs it up twice and restores the second backup last, so that neither a failed apply nor a
rollback gives the file back, against "整体原子回滚" (`core/patch_engine.py:286`); both executors propose
one target (`agents/llm_agents.py:905`, `agents/executor.py:132`). A rollback approval is checked
against itself (`core/rollback.py:54`). Two approvals of a paused run apply its patch twice, since
`current_status` stays "paused" while a resumed run executes (`runner.py:906`). A decision that arrives
while the run executes is saved although the caller gets an error (`api/server.py:1378`), and decisions
are made on copies of the approval file. `put_permission_mode` stops at the first paused task whose
request has expired (`api/server.py:841`). A process that dies in the first execution of a run leaves a
status that no endpoint resumes.

*Gateways.* `can_call` reserves nothing; reservations start again with every resume; a run that was
resumed and dies can be resumed without the usage of the lost run. After a restart the lookup of results
"from evidence records" never finds one, since the checkpoint drops the key it searches for
(`gateway/tool_gateway.py:398`): reads are made again and quotas start anew. A read the permission
policy asks about is asked about again at every attempt. `snapshot` leaves out the gateway's own
`approvals`. The reviewer counts replays answered from the cache against `tool_call_budget`, although
they take no quota. A failed call makes the cost of a role unknown, and with a budget the route is then
closed for good (`gateway/multi_provider.py:219-276`). A cache miss that a provider reports
is summed in place of the difference, and no code compares the two: where they differ, hits and misses do
not make up the input (`usage/store.py:444-457`, against its comment "input - cached" at line 424).

*Voice and memory.* Starting a recording may first start a session, which leaves the state idle, so a
speech that is heard is not interrupted (`voice/service.py:137`, against
`docs/acceptance/M6A_ACCEPTANCE_REPORT.md:68`). Preferences are copied by value into the checkpoint
(`runner.py:486`), so a forgotten one reaches every later prompt of the run, against
`docs/adr/0012-memory-provenance-and-versioning.md:7`. Two calls that decide one proposal at once may
both succeed.

*Storage, conversation, events.* A workspace path that was read before a migration stays in use after
it. The manifest moves with the root unchanged and keeps naming the old worktree
(`core/workspace.py:183`, `runner.py:560`): a task that was paused over a completed migration is found
and its request can be decided, but its executor then works on a directory that is gone and finds no
base (`agents/executor.py:144`). `StorageKept` therefore says that such a task is found, and that it has
its worktree as long as no migration has deleted that. A voice turn, the steering of a task and a new conversation rewrite the session file without its
lock and may overwrite a turn. `resume_task` does not open the event store, so after a restart a resumed
run is not traced until an endpoint opens it (`runner.py:885`). `task_failed` may be emitted twice. An
event that is stored between the two queries of a poll is skipped for good if the second query returns
a later one.

Conversely, the core holds up: for every plan and any history of rework, replan, steering and pauses,
a completed task consists of accepted work built on accepted work, and every run ends; of a session
that asks for every action no desktop write runs without the answer to its own step, and nothing acts
after a stop; and a feed has no gap that a lost connection explains.

## 6. External behaviour

LangGraph is modelled from how `graph.py` and `runner.py` use it: a superstep runs all sent tasks
before its writes are merged; a channel without reducer accepts one write per superstep; `interrupt()`
ends the invocation, and resuming replays the node; tasks of a superstep that finished are not
replayed. The file system offers atomic reads, writes of small files, and renames; SQLite runs one
write transaction at a time. Providers answer or raise. The desktop backend and the audio devices take
effect, fail, or both. The browser's subscription is `web/src/api/client.ts`. Processes die at any
point; what was written stays.

## 7. Not modelled, and what would come next

* **Desktop vision**: what decides there is the content of images. **Sandbox and tools**: subprocess,
  network and file I/O behind the tool gateway. **Cache diagnostics**: every failure is ignored and no
  decision depends on them. **Command line, desktop shell and web client**: thin front ends, but for
  the event subscription.
* Inside the modelled parts: prompt texts and the parsing of model output, the words a turn or a risk
  is recognised by, ranking of memories, requests for the repair of an answer that breaks its schema, exports, health checks and listings; the loop of
  `put_permission_mode` over several tasks; the memory root, which moves by the same code as the
  workspace root. The notes in `PROJECT.json` name them per component.

Next would be an abstract task life cycle (created, running, paused, completed, failed) that TaskGraph
and Approval are shown to implement, including the states a crash leaves; the mode change over several
paused tasks.
