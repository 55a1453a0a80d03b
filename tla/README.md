# DevSquad in TLA+

DevSquad runs *tasks*: a user gives a command, a pipeline of *stages* (each an
AI agent) works on it, and people approve plans and deliverables on the way.
One Go server process drives all tasks; PostgreSQL holds everything that must
survive. This project models that core, checks it with TLC on small instances
and proves most of its safety with TLAPS for every instance.

Paths below are relative to the repository root.

## 1. Inventory

| Component | State | Operations | What makes it correct |
|---|---|---|---|
| Domain rules (`internal/domain`) | none | `Terminal`, `TaskTransition`, `Ready`, `Derive`, `Decide` | the derived task status is total and unique; retries are counted and limited |
| Orchestrator (`internal/orchestrator/orchestrator.go`) | `taskRun` per task: mutex, context, running stages | `Reconcile`, `claim`, `start`, `run`, `progress`, `commit`, `fail`, `Wake`, `Cancel`, `Recover` | a result takes effect once; nothing that was decided is undone; no wake-up is lost; stages start after their dependencies |
| Stage runner (`internal/stage`) | one conversation: transcript, written paths | budget check, model call, tools, iteration limit, header of the deliverable | ends whatever the model answers; stops soon after its claim is gone; hands in what lies in the tree |
| Publisher (`orchestrator/publish.go`, `internal/scm`) | branches and pull requests on the remote | plan, push, open pull request, park | a re-run is harmless; publishes what was approved |
| Task, approval, budget services (`internal/app`) | rows | create, pause, resume, cancel, decide, set budget, check budget | one decision per approval; the status tells the truth; the overshoot of a budget is bounded |
| Store (`internal/store`) | PostgreSQL rows | transactions, row lock, conditional updates, unique indexes | a write takes effect only on the row that was read |
| Process (`cmd/devsquad`, `store/instance.go`) | advisory lock, session, goroutines of the orchestrator | start, watchdog, signal, shutdown | at most one holder of the lock; the orchestrator stops before the lock is given back; a shutdown ends |
| Event emitter, bus, hub (`internal/event`, `internal/ws`) | `event_seq`, subscriber channels | emit, publish, subscribe, replay | terminal event last; a client that follows the protocol misses nothing |
| Web event client (`web/lib/stores`, `web/lib/ws`) | events per task, last sequence number | append, gap detection, replay, reconnect | complete and sorted in the end |
| Workspace (`internal/workspace`) | git repository per task | prepare, accept, reset, branch commit, cleanup | approved files survive; no live workspace is removed |
| Pipeline and agent definitions (`internal/pipeline`, `internal/agentdef`) | none | parse, validate, levels, write conflicts | accepted pipelines have no cycle; levels respect dependencies |
| Tool sandbox and path guard (`internal/tools`, `internal/pathguard`) | none | which tools and paths a stage has, read, write | no write outside the agent's paths; no text is lost |
| Model adapters (`internal/llm`) | none | transcript to request, answer to turn | every request is one that the provider accepts |
| Authentication, HTTP, configuration, notifier, web UI | little or none | conversions, I/O | not modelled, see section 8 |

How they interact. A request (HTTP) is a transaction on the task's rows
followed, after the commit, by `Wake` or `Cancel` on the orchestrator. `Wake`
starts a goroutine that runs `Reconcile` under the task's mutex: it reads the
rows *without* a lock, claims every stage that can run in a transaction of its
own, and starts a runner for it. A runner works for minutes, reports progress
and usage in transactions, hands in its result in one transaction, and wakes the
task. A loop reconciles all unfinished tasks every few seconds.

Hard behaviours. Rows are read before they are locked; copies of a stage row
live in runners for minutes; a process can crash, or lose its session and with
it the instance lock while it works on; a COMMIT can succeed while its
acknowledgement is lost; users pause, resume, cancel and decide at any moment;
parallel stages share status, budget and mutex. `PROJECT.json` lists these
hazards with the line at which each one bites.

## 2. Modules

| Module | What it is |
|---|---|
| `Domain` | the pure rules of `internal/domain/state.go`, the rows, and what `ParsePipeline` guarantees (`PipelineAssumption`) |
| `Orchestrator` | one task: its rows, the processes that drive it, its users, and what goes wrong |
| `StageFlow` | the abstract specification: the flow that users are promised (docs/19, 6.1 and 6.5), without processes, attempts, versions or failures |
| `MCOrchestrator` | pipelines and bounds for TLC |
| `Timeline` | the event store of the web client: sorted insertion, what is derived from the events, gap detection |
| `EventStream` | the way of a task's events from the transaction to a browser tab: emitter, bus, hub, socket, REST replay |
| `MCEventStream` | scenes for TLC: sorts of events and bounds |
| `Definition` | how a task's definition is read and checked: pipeline, levels, agents, write paths |
| `MCDefinition` | pipeline and agent files for TLC |
| `Workspace` | the files of a task: directory, git repository, checkpoints, branches and pull requests |
| `MCWorkspace` | a pipeline, files and bounds for TLC |
| `Conversation` | the attempts of one stage: the runner's conversation with a model, adapters, tools, files, and the claim that fences it |
| `MCConversation` | agents, tool calls and bounds for TLC |
| `Process` | the life of the server processes: lock, goroutines, requests, shutdown, successor |
| `MCProcess` | bounds for TLC |
| `Induction` | lemmas: induction over numbers, and what a fold over a sequence computes |
| `DefinitionProofs` | cycles are found, files have one owner |
| `OrchestratorSafety` | type correctness; the fence of the stage rows and what follows from it; honesty of the task status, end of the event stream |
| `OrchestratorFlow` | the history of reviews and plans, refinement of `StageFlow`; the claims of the runners, what their calls cost |
| `WorkspaceProofs` | directory, trees, attempts, publication |
| `ConversationProofs` | claim, usage, transcript and result of a conversation |
| `ProcessProofs` | lock and end of a process |
| `EventStreamProofs` | the event store of a tab; a page that stays misses nothing |

### State and actions of Orchestrator

The rows: `status`, `budget`, `used` (sum of `usage_record`), `stage` (one row
per stage), `approvals`, and `tail`, the part of the event stream from its
terminal event onward (empty until the run ends). A plan text is told apart by the
attempt that wrote it and by whether a reviewer edited it.

The processes: `up`, `leader` (holder of the advisory lock) and, per process,
`wake` (a goroutine of `Wake` is waiting; several waiting ones are as good as
one), `cancelled` (`taskRun.ctx`), `rec` (the `Reconcile` that holds
`taskRun.mu`, with the snapshot rows it still has to look at) and `job` (the
runner in `taskRun.running` of each stage, with the row it claimed).

Every transaction starts with `LockTask` (`SELECT ... FOR UPDATE`), so a whole
transaction is one action. What happens between transactions is a step of its
own: `BeginReconcile` (lock the mutex, read the task), `ReadStages`, `StartTask`,
then for each stage of the snapshot `Claim`, `SkipClaim` (ErrStale) or
`RefuseClaim` (no row matches), then `FinishReconcile`. A runner goes through
`CheckBudget`, `CallModel` (several turns in the execute phase) or `Publish`, then
`Commit` / `CommitStale`, or `FailStage` / `BlockStage`, and
`ReturnRunner`. Users: `CreateTask`, `UpdateApproval`, `Pause`, `Resume`, `Cancel`,
`SetBudget`. Disturbances: `RunnerError`, `AbortReconcile`, `DefinitionLost`, lost
acknowledgements (outcome `"lost"`), rolled back transactions (`"abort"`),
`LoseSession`, `StopProcess`.

Abstractions and why they are sound:

- the order in which a Reconcile looks at its stages (by key) is any order;
- `task.version` is left out: it is read and written under the row lock, so its
  condition never fails;
- announcing a turn, the model call, recording its usage and running its tools are
  one step `CallModel`: a claim that is stale at one of them stays stale, and only
  the usage record and the staleness are visible to the properties;
- `BudgetService.Check` reads once without and once with the lock; only a budget
  exhausted under the lock has an effect, and a raise in between is the same as a
  raise just before;
- texts, titles and timestamps are left out, so an edited deliverable (which only
  changes its summary) equals an approved one;
- a failed push or pull request is an ordinary outcome of `Publish` and does not use
  up a fault;
- the workspace calls of Reconcile and run can fail (`AbortReconcile`,
  `RunnerError`); their effect on files is in `Workspace`.

A behaviour plays one of the `Scenes`, chosen by `Init`: what a model call costs, the budgets
that users give, whether the recovery loop ticks, and how many crashes, requests,
faults and overlapping Reconciles come.

`mode` is named after the approval it leads to: `"plan"` for mode plan,
`"deliverable"` for mode execute.

### State and actions of EventStream

`EventStream` is independent of `Orchestrator`: it takes from it only that
transactions store events, under the lock of the task row.

The server: `log` (the `task_event` rows, its length is `event_seq`) and `after` (the
callbacks of committed transactions that still have to publish). The hub's side of
the tab's connection: `hub` (accepted, serving, removed from the bus by an
overflow, or none), `chan` (the subscription's channel), `tasks` and `replay`. The
socket: `commands` and `wire`, both in order. The tab: `page` (is the page of the task
mounted), `sock`, `view` (the entry of the event store), `query` (the query that loads
all events) and `syncs` (the gap replays, and loads that the query has abandoned).

Actions: `Emit` (also with a lost acknowledgement), `Publish`; `HubSubscribe`, `HubEvent`,
`HubCommand`, `HubReplay`, `HubEnd`; `Open`, `Receive`, `Close`; `LoadRead`, `LoadApply`,
`SyncRead`, `SyncApply`; disturbances `HubBreak`, `ServerCrash`, `GiveUp` (a heartbeat that was
merely slow), `LoadFail`, `SyncFail`; users `Mount`, `Unmount`, `UserRetry`.

A behaviour plays one of the `Scenes`, chosen by `Init`: the sorts of events, how many a
transaction stores, how many transactions are between commit and publication, and how
many disturbances of each sort come.

Three variables are history, read by no action. `unsent`: the events whose
acknowledgement was lost. `refused`: the hub refused the last subscription of the
connection, because `Store.Task` failed (`hub.go` 136-140); the connection goes on without
the task, and the page shows nothing of it (`lastError` has no reader). `skipped`: the holes
below the last number that were there when the page was mounted or the socket connected and
that no load was going to fill; and the holes of unpublished events whose repair joined the
first load or that the first live event passed. These are the places where the code
loses events; section 3 says what is claimed around them.

Abstractions: an event in transit is its number, since its row never changes, and
a replay reads event by event instead of in batches of 500; the replies themselves
(`pong`, `subscribed`, `error`), which change nothing in the page, requests that the client
never makes and the summary channel, which no page uses, are left out; the query library (TanStack Query) is external and modelled from its use:
a refetch starts the load anew, but joins the first load while that still runs, and
a success clears the invalidation.

### State and actions of Definition

`LoadDefinition` as a sequence of steps: `ParsePipeline` (any file of `PipelineFiles`),
`Levels` (one turn of its loop: `done`, `levels`), `LoadAgent` and `LoadFails` (one agent each,
any file of `AgentFiles`), `checkWriteConflicts`; the answer is `pc`. Paths and patterns are
sequences of segments; `GlobMatch` is the external doublestar library. What is accepted is
what the other modules assume: `PipelineAssumption` in `Domain` (no cycle) and the
function `Owner` in `Workspace` (no file has two owners).

### State and actions of Workspace

The directory: `create` (how far `CreateTask` is), `dir`, `aged`, `sweep` (a pass of `Recover` that
does not know the task). The repository: `work`, `index`, `head`, `approved` (the refs),
`locked` (a left-over `index.lock`), and `mu` (`Manager.mu`). The process: `rec` (Reconcile)
and `job` (runners). The remote repository: `remote`, `pulls`. Of a stage row only status and
attempt are kept; `delivered` remembers what a runner left when its result was
stored.

A git command is one step and the process may end between any two:
`AcceptKnown`/`AcceptBegin`, `AcceptAdd`, `AcceptCommit`, `AcceptRef`; `ResetBegin`, `ResetFile` for each
file, `ResetEnd`. `KillGit` ends the process in the middle of a command that writes the
index. The publisher goes through `Report`, `BranchCommit`, `Push`, `AllPushed`, `OpenPull`; an answer
that is lost (`PublishFails`) leaves the effect.

Abstractions: a file holds nothing, what the project had, or what an attempt wrote; the
plan phase touches no files and is one step (`Plan`); a stage that is parked and resumed
goes on executing; `Age` lets an hour pass only for an abandoned directory, because
neither a request nor the one pass of `Recover` that missed a task takes an hour;
`BranchCommit` uses an index of its own, so it is one step.

### State and actions of Conversation

`Orchestrator` has a turn of a runner as one step (`CallModel`) and no files, `Workspace` has
one process. `Conversation` composes what both leave out: the rows reduced to the claim
(`row`, `over`), the working tree (`files`, `deliverable`), and the runners of several attempts
(`run`), some of them in a process that lost its session (`split`, `stray`) or with a cancelled
context (`cancelled`). That process may claim the stage again, also from its successor, and
serve a cancel. `late` counts the file changes of an attempt that no longer has
the claim.

A runner goes through `Reset`, then for each turn `CheckBudget`, `Think`, `Chat`, `RecordUsage` and
for each call `BeginCall`, `CallTool`, `EndCall`; then `HitLimit`, `ReadPrimary`, `WriteHeader`, `Commit`, or
`Fail`. Every `in.Emit` is a step that looks at the row (`Emit`), every change of files a step
that does not. Around it: `Claim`, `Decide`, `CancelTask`, `LoseSession`, `StopProcess`, `Crash`.

Abstractions: a text is small or large (between the limits of `Read` and `Write`) and may
be cut off; a file is one write; `Reset` is one step (git command by git command it is in
`Workspace`); call ids are numbers; the arguments of a call are good, of the wrong type, or
no JSON at all (only OpenAI's, which come as a string). What a provider accepts is stated
in the properties (`OpenAIAccepts`, `AnthropicAccepts`), not used in the model.

### State and actions of Process

Per process: `phase` (how far `run()` of main.go is), `session` (of the lock), `stopping` (the
context of the group), `cancelled` (the orchestrator's context), the goroutines that `wg`
counts (`loop`, `reconciles`, `running`) and `requests` by how far they are. Shared: `work` (a
stored decision waits) and `claim`.

`Start`, `Accept`, `BeginTx`, `CommitTx`, `Wake`; `Reconcile`, `RunnerReturns`, `Recover`, `Tick`; the way down:
`Signal` or `LoseSession` and `Watchdog`, then `Drain`, `ShutdownReturns`, and the deferred calls in
reverse order: `CloseEngine`, `Release`, `Exit`. `Crash` at any time.

Abstractions: what a Reconcile and a runner do with a decision is in `Orchestrator`; here
there is one decision at a time and its claim. A failing `ListenAndServe` stops the group
like the watchdog and is left out. A process is started again under the same name.

## 3. Properties

Safety, as invariants:

- `DependenciesFirst`: a stage that left pending has only approved dependencies.
- `StatusHonest`: waiting_approval, blocked and completed are always what the stage
  rows stand for.
- `ReviewHistory`: the approval rows are exactly the history of the stage rows (one
  rejected row per counted retry, a pending one exactly while in review, an accepted
  one exactly after).
- `RetryFresh`: a result that passes the fences is never refused by the unique
  indexes of the approval table.
- `CopiesFenced`: a copy of a stage row is the current row or has a smaller version.
- `ExecutesAcceptedPlan`: a runner executes the plan text that was accepted.
- `RunEndsOnce`: the terminal event is stored with the terminal status and is last.
- `RunnersCurrent`: with one process at a time, a runner that has not handed in its
  result holds the current claim of its stage, unless the task ended.
- `BudgetOvershoot`: usage passes the largest budget by less than one call per stage.

Of `EventStream`:

- `TimelineSorted`: the store shows no event twice or out of order, whatever mix of
  live events, replays and pages it was built from.
- `ActivityCurrent`: what the store derived step by step is what the sorted events
  stand for.
- `NothingMissed`: a stored event that a mounted page does not show is on its way (to
  be published, in the channel, on the wire, in a replay or a load), or the page will
  reconnect, or it shows the error of its load. Also an event that was never published
  leaves no silent hole between events that are shown; what lies behind the last event of
  the page is not claimed for those. Two exceptions are in the property because the
  code does lose events there: a `refused` subscription and the `skipped` holes.
- `Settles` (liveness): a page that stays ends up with every event that was published or
  shows an error, with the same two exceptions.
- `OnlyJoiningSkips` (action): how narrow the second exception is. While the page is there,
  no step gives up a published event but a reconnection that finds the first load still
  running; every other reconnection, retry and repair starts a load that brings all that
  is missing.

Of `Definition`: `CyclesFound` (a valid pipeline is refused by `Levels` exactly when it has a
cycle), `OneOwner` (what one stage may write, Reset and Accept of another never touch),
`Ends` (reading ends).

Of `Workspace`:

- `WorkspaceLives`: a stored task has its directory, also after a lost acknowledgement.
- `ApprovedKept`: what was approved lies in the working tree until it is committed, and
  then in HEAD and in the stage's ref, unchanged.
- `OnlyApproved`: nothing else is committed or pushed, although all stages share one index.
- `CleanAttempt`: no attempt hands in files of an earlier one.
- `PublishedWhole`: when the publisher is done, its dependencies are on branches with
  pull requests as they were approved.
- `Checkpointed`, `OrphansGo` (liveness): approved files are committed in the end;
  abandoned directories are removed in the end.

Of `Conversation`:

- `OneLateChange`: an attempt without its claim changes files at most once more: between
  any two changes stands an event that asks for the claim.
- `SubmittedIntact`: what the reviewer sees is what lies in the working tree, unless an
  earlier attempt made its late change.
- `TranscriptSound`: every request is one that its provider accepts, with denied, failed and
  mistyped calls answered.
- `Accounted`: a conversation has at most its limit of turns, and at most the last model
  call has no usage event.
- `RunsEnd` (liveness): every runner returns.

Of `Process`:

- `EngineUnderLock`: the orchestrator of a process works only while the process has the
  lock or PostgreSQL took it away.
- `OnlyFewerJobs` (action): while `Close` waits, no goroutine joins those it waits for.
- `ProcessEnds` (liveness): a process that is told to stop or lost its session ends, though a
  client keeps a request open.
- `WorkDone` (liveness): a stored decision is acted upon, also one that a dying process stored
  after its successor had looked for work.

Actions: `NeverUndone` (an approved stage never changes, counters never run
backwards). Refinement: `ImplementsFlow` (every step is a step of `StageFlow` or
none). Liveness: `StagesMoveOn`, `StatusCatchesUp`, `RunnersReturn`.

## 4. Runs

| Run | Instance | Shows |
|---|---|---|
| `chain` | 2 stages, the second depends on the first and is a publisher; gates deliverable and plan; 1 process; 1 crash or lost session, 1 user operation, 1 fault | types, `DependenciesFirst`, `StatusHonest`, `RunEndsOnce`, `RunnersCurrent`, refinement |
| `overlap` | 1 stage with plan gate, 2 processes, 1 lost session, 1 more Reconcile of the old process, 1 operation | the fences under split brain: `ReviewHistory`, `RetryFresh`, `CopiesFenced`, `ExecutesAcceptedPlan`, `NeverUndone`, refinement |
| `progress` | 2 parallel stages, one with a plan gate, 2 turns; three scenes: 2 operations, budgets 2 and 3, no failure and no recovery loop; 1 crash and 1 fault; 2 operations and 1 fault | `BudgetOvershoot`; `StagesMoveOn` from the wake-ups alone, and after a crash or a Reconcile that ended between its two claims; `StatusCatchesUp`, `RunnersReturn` |
| `stream` | up to 3 events, channel and wire of one event, pages of 2; six scenes: publication out of order with a break and a failed load, replay or subscription; a failed load and a retry; leaving the page with a break, transactions of up to 2 events; a lost acknowledgement with a break, and with a failure; tool calls and results out of order | types, `TimelineSorted`, `NothingMissed`, `ActivityCurrent`, `Settles`, `OnlyJoiningSkips` |
| `definition` | all relations between 3 stages; all agents of 2 stages with up to 2 of 5 write paths and 4 profiles | types, `CyclesFound`, `OneOwner`, `Ends` |
| `workspace` | 2 parallel writers (one with a file of the project, one with a new file and a review), a publisher that waits for the second; both modes of publishing; 2 attempts, 1 crash, 1 fault | types and lock, all properties of `Workspace` |
| `conversation` | 2 attempts, 2 turns; calls that write, that are denied, that do not parse; four setups: two processes and a cancel, 1 call per turn (Anthropic); 2 calls per turn and a cancel (Anthropic); 2 calls per turn, 2 faults and a cancel (OpenAI); a plan with one fault, loss and cancel | types, `OneLateChange`, `SubmittedIntact`, `TranscriptSound`, `Accounted`, `RunsEnd` |
| `process` | 2 processes, 1 request, 2 signals, lost sessions or crashes | types and one holder of the lock, `EngineUnderLock`, `OnlyFewerJobs`, `ProcessEnds`, `WorkDone` |
| `doc_*` | small | four statements of the documents that the code does not keep (section 7) |

Bounds. In a scene of `Orchestrator`, `stops` limits crashes and lost sessions, `ops` the
pauses, resumes, cancels and budget changes, `faults` the lost acknowledgements, rolled back
transactions and errors, `overlaps` the Reconciles of a process that is no longer
leader. Retries, attempts and usage need no bound of their own: `MaxRetries`,
the budget and `ops` limit them. Two stages are enough for a dependency and for
parallel stages sharing a status; two processes for one writer being late for
another; `MaxRetries = 2` (or 1) for a rejection that is retried and one that parks.
Where usage does not matter `cost = 0` keeps the budget out of the way. Symmetry
is used in `overlap`, which checks no liveness: the processes differ only by name.

For the stream, three events are the fewest with an event overtaken while an earlier
one is shown; a channel and a wire of one event make overflow and blocked writes
happen at once; pages of two make the replay need a second page. `breaks` limits
broken connections, crashes and impatient heartbeats, `faults` failed requests and
subscriptions,
`leaves` visits to other pages, `lostAcks` lost acknowledgements, `retries` presses of
the retry button of a page that shows an error, `committers` the transactions between
commit and publication. The socket may break and reconnect at any moment, also
while the first load runs: neither `connection.ts` nor the load, which has no timeout,
waits for the other.

For the conversation, two attempts are one late and one current; two calls in one turn are
the fewest whose answers must be joined, two turns the fewest with a limit that is not the
first. `bounds` of a setup limits faults, losses (sessions, stops, crashes) and cancels, `calls` the
calls of a turn. (Three attempts pass as well, in five minutes.) For
the process, two stops are what it takes for a process to be stopped and its successor
too; one request suffices, since `WaitGroup` and lock do not tell requests apart, and
`MaxWakes` lets one woken Reconcile wait behind another.

For the workspace, one tracked and one new file are the two cases of Reset and Accept; a
second attempt is the first one with something left behind; `Bounds.stops` limits crashes
and killed commands, `faults` errors and lost answers. For definitions, three stages are
the fewest with a cycle behind a level.

Deadlock is checked everywhere: a task that is neither failed nor cancelled is
always looked at again by the recovery loop, and `Finished` stands for the rest;
the stream ends in `Quiet`, with every event stored and nothing under way, a stage in `Rest`,
decided or out of attempts; a process can always be started or looks for work again.

Fairness. `Scheduling`: goroutines that can run do run (weak fairness), and
`sync.Mutex` hands over to a waiter after a millisecond, so a runner that keeps
asking for `taskRun.mu` gets it (strong fairness of `ReturnRunner`). `Recovery`: the
ticker of `recoveryLoop` fires, the watchdog of `main` ends a process whose session
is gone, and an operator or supervisor starts a process when none runs; the
last is an assumption about the environment, not about the code. In a scene with
`ticks = FALSE` the ticker never fires, so what is shown there rests on the wake-ups alone. Users owe
nothing: reviews, resumes and budgets may never come.

For the stream, `Scheduling` is one weak fairness condition: it does not stand still
while a goroutine, a browser callback, a timer or a request can go on. Storing
events, disturbances and users are not part of it.

For the workspace: the recovery loop comes round, a Reconcile and a Reset that began
go on, and time passes. Models, users, requests and the remote repository owe nothing.
For definitions: one request runs to its end.

For the conversation: the runner of each attempt goes on; a model call ends because the
libraries limit its time and its retries (`WithMaxRetries(3)`) and heed the context, a test
command because `run_tests` has a timeout. Claims, reviews and stops owe nothing. For the process: each goroutine, the
timer of the recovery loop and the time limit of `Shutdown` go on, a transaction that began
ends, and somebody starts a process when none has the lock. A client may keep a request
open for ever (`BeginTx` has no fairness).

The type invariant of each module but `Orchestrator`, which has a run and a theorem for it, is
the first conjunct of one of its properties (`TimelineSorted`, `OneOwner`, `ApprovedKept`,
`Accounted`, `EngineUnderLock`).

Every property of a passing run has a mutant, an operator with the plausible bug
(an update without its version, a claim without its status, a status derived
from old rows, a runner that leaves without waking, ...) under which TLC finds
the property violated.

## 5. Proofs

All theorems hold for every value of the constants that satisfies the assumptions: any
pipeline that `ParsePipeline` accepts, any number of processes, attempts, files, calls and
disturbances.

Assumptions: `PipelineAssumption` (finitely many stages and at least one, dependencies
among the stages, no cycle, `max_retries >= 1`) is what `ParsePipeline` checks;
`DefinitionAssumption`, `ModelAssumption`, `StreamAssumption`, `WorkspaceAssumption`,
`ConversationAssumption` and `ProcessAssumption` type the other constants. Two conjuncts of `WorkspaceAssumption` say
more: `Owner` is a function, which is `OneOwner` of `Definition`, and the model's own tags
for the holder of the mutex and the common branch are no names of stages. TLC evaluates
all of them.

| Module | Theorems | Inductive invariant |
|---|---|---|
| `OrchestratorSafety` | `TypeCorrect`, `CopiesAreFenced`, `DecisionsStand`, `DependenciesHold`, `RunsEndOnce`, `StatusIsHonest` | `TypeOK`; `Fence` (types and `CopiesFenced`) |
| `OrchestratorFlow` | `ReviewsAreRecorded`, `RetriesAreFresh`, `AcceptedPlansRun`, `FlowIsImplemented`, `RunnersStayCurrent`, `BudgetsBound` | `History`; `Unclaimed`, `Alive`, `Current`; `Attempts`, `Budgeted`, `Spending` |
| `DefinitionProofs` | `LevelsFindCycles`, `FilesHaveOneOwner` | closed, acyclic `done`; `Typed`, `Apart` |
| `WorkspaceProofs` | `WorkspaceIsKept`, `ApprovedIsKept`, `OnlyApprovedIsShown`, `AttemptsAreClean`, `PublicationIsWhole` | `Kept`; `Sound`, with `Clean` and `Published` on top |
| `ConversationProofs` | `CallsAreAccounted`, `LateChangesAreFew`, `SubmissionsAreIntact`, `TranscriptsAreSound` | `Inv` (`Typed`, `Claimed`, `Intact`, `Talks`) |
| `ProcessProofs` | `EngineIsUnderLock`, `CloseIsFinal` | `Locked` |
| `EventStreamProofs` | `StoreIsSorted`, `ActivityIsCurrent`, `PublishedReachThePage`, `PageMissesNothing`, `ReconnectionsLoad` | `Inv` (`Server`, `Link`, `Tab`, `Shown`); `Steady` |

**The fence.** `ClaimStage` does not compare versions, so it may hand a runner a row that
is older than the one in the table. `CopiesAreFenced` shows that the version of that copy
is then smaller than the table's, for ever, so `UpdateStage` cannot match it. The proof
rests on three lemmas about a step: `StageMoves` (what it may do to a row), `RowsHeld` and
`RowsKept` (where the copies come from). `DecisionsStand` and `DependenciesHold` follow from
`StageMoves`; neither is inductive alone, since that a commit does not hit an approved stage
needs the fence.

**The status.** `RunsEndOnce`: every step either stores an event with its status while the
run is open, or is silent and does not end the run. `StatusIsHonest`: a claim keeps the
review for which the task waits; every other write derives. `DeriveCovers` shows that the
last branch of `Derive` (keep the old status) is dead code for pipelines without a cycle;
with one, the status could be wrong. That there is none is `LevelsFindCycles`: the loop of
`Levels` keeps `done` closed under dependencies and without a cycle, and when it gives up,
the stages that are left are one.

**The flow.** With the fence, a step has one of six effects on the rows (`EveryStepEffect`):
they rest, or a claim takes a stage, a runner hands in a result, a publisher parks, a
reviewer decides, a resume sends parked stages back. `History` says of the rows alone that
the approvals are the history of the stage rows (`Records`), that a parked stage says why
(`Parked`) and that a plan at work is an accepted one (`Plans`, and for the copies that
runners hold, `PlanCopies`); `Reached` says how far the task is when somebody works on it.
Each effect preserves it, one lemma each, and each effect is a step of `StageFlow` under
the mapping `FlowOf` or leaves it unchanged (`FlowStep`), which is the refinement
`FlowIsImplemented`. `RetriesAreFresh` is why `Commit` may leave the violation of a unique
index out.

**The runners.** `RunnersStayCurrent` is `Spec /\ []OneUp => []RunnersCurrent`: with two
processes up the claim can be taken away, so the theorem assumes that they do not overlap;
processes may still crash and follow each other. `Unclaimed` (a Reconcile claims only what
`taskRun.running` does not hold) is what keeps a process from taking a stage from its own
runner. `BudgetsBound` needs no such assumption. Every claim has an attempt of its own
(`Attempts`), so of all the runners of a stage one at most can record a call; `Due` counts
the stages with such a runner between check and call, and what was used plus what is due
stays under the bound (`Spending`): a check that passes sees less than the budget, and a
call that is recorded was due before and is not after.

**The files.** `WorkspaceIsKept` follows from the order in which the request creates,
renames and stores (`Kept`). `Sound` says who may touch the trees (`Roles`, `Mutex`, `Runs`) and,
for every writer, where its files are in working tree, index, HEAD and ref at each step
of Accept and Reset (`Tree`, `Pushed`); a commit takes the whole index, so the invariant
has to follow the files of the other stages too. From it come `ApprovedIsKept` and
`OnlyApprovedIsShown`. `Clean` follows a Reset file by file (`AttemptsAreClean`). `Published` follows
each file that must be shown from the checkpoint before the claim (`ClaimsChecked`) to
branch and pull request (`PublicationIsWhole`).

**The conversation.** `Typed` describes each runner by where it stands (which calls of the
turn are answered, which model call is paid for); `CallsAreAccounted` follows. `Claimed`: an
attempt that changed a file late is on its way to the next question about its claim, and
the claim does not come back. `Intact`: what is about to be handed in lies in the tree,
unless an earlier attempt made its late change. Each is inductive only with the ones
before it.

**The process.** `Locked`: at most one process has a session that holds the lock, and the
deferred calls of `run()` end the orchestrator before they give it up. `CloseIsFinal`: after
the context is cancelled, nothing adds to the group that `Close` waits for.

**Induction over data.** The theorems of the libraries take the property as an operator,
which the provers cannot instantiate. `Induction` states them for a set instead: a set of
numbers that is not empty has a least element (`LeastNatural`), so the least number at which
a claim fails would have a predecessor at which it holds (`CountUp`). From this follows what
`FoldLeft` computes: there is a function `h` with `h[0]` the base and `h[k + 1]` one step
from `h[k]`. The loops of the code that go over a list (`rebuildDerived`, `appendMany`, the
conversion of messages for Anthropic) are such folds; `GlobMatch` and the binary search of
`insertSorted` are recursive functions and are followed in the same way.

**The owners.** `FilesHaveOneOwner` goes from the check that `checkWriteConflicts` makes, on the
literal roots of the patterns, to what it is for, the files: what a pattern matches starts
with its literal root (`MatchStartsWithRoot`), and of two beginnings of one path one begins
with the other (`BeginningsNest`). `Apart` says that an accepted definition passed that check
with all its agents read. The theorem includes the types of `Definition`.

**The transcript.** `Talks`: the transcript of a runner is open by exactly the calls that it
still has to make, and its answers carry the numbers of the calls before them; this holds
of the list that the OpenAI adapter sends and of the blocks into which the Anthropic adapter
folds it. When the next request is sent no call is left, and the transcript is one that the
provider accepts.

**The timeline.** `PositionCorrect` follows the binary search; `InsertSorted` says that the
result is sorted and has the old events and the new one. `Shown` is what every step keeps:
`Orderly` (sorted rows of the log, `lastSeq` the last of them) and that the derived part is the
fold over the events. Within `appendMany` the second may be false, exactly as long as
`needsRebuild` is set (`Partial`).

**The page that stays.** `Steady` is the inductive invariant of `PublishedReachThePage`. Its
core is `Fresh`: a page that is connected and shows no error has each published event, or the
event is on its way (or behind the subscription that is on its way), or the load brings it.
To keep it, the proof needs where the subscription is (`Subscribed`), that a load
goes to the end (`Unending`), and that before the first connection the store is filled from
the front (`Filling`), so that subscribing behind `lastSeq` leaves no hole. `Fresh` does not
mention the gap replays: as long as the page stays, the detection of gaps only makes events
arrive earlier and repairs what a lost acknowledgement left out. The theorem covers any
number of events, concurrent publications out of order, lost acknowledgements, breaks,
overflows, crashes, failed loads, refused subscriptions and retries. Its one hypothesis is
that the user stays (`Staying`). What it says is `NothingMissed` for the published events,
with the two exceptions of that property: there the code loses events, and `doc_reconnect`
shows the second. `PageMissesNothing` adds that no acknowledgement is lost
(`Acknowledging`); then every event is published and `NothingMissed` follows.
`ReconnectionsLoad` bounds the second exception: it is `OnlyJoiningSkips`, and needs `Filling`
for the first connection, which also finds the first load running.

### Only model-checked

- Liveness (`StagesMoveOn`, `StatusCatchesUp`, `RunnersReturn`, `Settles`, `Ends`, `Checkpointed`,
  `OrphansGo`, `RunsEnd`, `ProcessEnds`, `WorkDone`): TLAPS has no rule for fairness and `ENABLED`.
- `NothingMissed` in two cases that the theorems leave out: when the page is left and mounted
  again, and for the events whose acknowledgement was lost. Their invariant would have to
  follow what every gap replay in transit still brings; the scenes `Browsing`, `Unpublished`
  and `Unrepaired` check them.
- The four `doc_*` runs show violations, which are no theorems.

## 6. Plan

Every component that carries the core logic has a module, a run and theorems, and every
invariant that a run checks is stated by a theorem. What is left:

1. `NothingMissed` for pages that are left and for lost acknowledgements.
2. The parts of section 8, should they gain shared state.

## 7. Where documents and code differ

- `doc_resume`: a resume does not retry a parked stage if the task was paused in
  between (comment on `block`, docs/15 line 151).
- `doc_failure`: after a lost COMMIT acknowledgement the task is failed although the
  result is stored (docs/19 line 397).
- `doc_header`: the header of a deliverable is put in front of what `Sandbox.Read` returns,
  which is cut off at 200 000 bytes; a longer deliverable, which `Write` allows up to 2 MB,
  loses its end (docs/19 lines 214 and 334).
- `doc_reconnect`: a reconnection is to merge every page of the events (docs/13 line 126).
  While the first load still runs, the invalidation of `onopen` joins it, and the
  subscription starts behind `lastSeq`: a published event below it that was lost with the old
  connection, and that the first load read too early to see, stays away and the page shows
  no error (`skipped` in `NothingMissed` and `Settles`).

Met while modelling, without a run of their own:

- docs/19 line 238 promises waiting_approval whenever a stage is in review; `resume`
  writes running, and the status is right again only after the next Reconcile
  (`StatusCatchesUp` in `progress` shows that it comes);
- a publisher in mode `single` lists every approved stage but pushes HEAD: a stage that it
  does not depend on, approved meanwhile and not yet accepted, is listed without its
  files; in mode `per-role` the publisher is parked for it;
- a git that is killed with the process leaves `.git/index.lock`, which nothing removes:
  Accept then fails in every Reconcile (the exception in `Checkpointed`);
- a claim that matches no row ends the whole Reconcile, not only that launch (docs/19
  line 205); the next Reconcile repairs it (`StagesMoveOn`);
- a stored event whose acknowledgement was lost is never published; a connected page
  does not fetch it until another event comes (docs/19 line 413). This is why `Settles` excepts
  such events and `NothingMissed` excepts them behind the last event of the page;
- `detectGap` reports no gap while `lastSeq` is 0: if the first live event overtakes the
  first load, an unpublished event before it stays away (comment on `detectGap`);
- a subscription that fails in `Store.Task`, for any error of the database, is answered
  with `TASK_NOT_FOUND` on a connection that stays open; the client keeps the code in
  `lastError`, which no page shows, so the page is silent until it reconnects or is mounted
  again (`refused` in `NothingMissed` and `Settles`);
- an event that arrives just after its page was left is stored without a check for a gap
  (docs/13 line 106), and coming back subscribes behind the hole: such a hole counts as
  `skipped` from the moment the page comes back;
- arguments that are no JSON fail the task with the OpenAI adapter, where docs/19 line 321
  promises an observation `[bad args]`;
- an attempt whose process lost its session can still reset or rewrite files of its
  successor once (`OneLateChange` is exact: `late <= 0` fails); docs/20 line 49 assumes a single
  process.

## 8. Not modelled

Authentication, HTTP routing, configuration, projects: conversions and reads without shared
state. Model adapters: which adapter a name stands for (`Registry`), prompts, schemas and the
fake model; these are pure functions of texts. Tools: the files a test command leaves
behind, what a search finds, symbolic links; one call, file system semantics. Notifier:
`Noop`. Web pages: rendering, and the caches of the other queries, which are invalidated
and read again. Several tasks at once: tasks share only the process, and the mutex,
context and rows are per task.
