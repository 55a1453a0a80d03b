---------------------------- MODULE Orchestrator ----------------------------
(***************************************************************************)
(* One task of DevSquad: the rows PostgreSQL keeps for it, the server      *)
(* processes that drive it (internal/orchestrator, internal/stage) and the *)
(* requests of its users (internal/app).                                   *)
(*                                                                         *)
(* Every transaction locks the task row first (LockTask, SELECT ... FOR    *)
(* UPDATE), so a transaction is one action; reads outside a transaction,   *)
(* the steps between transactions and everything in memory interleave      *)
(* freely.  A transaction has three outcomes: it commits and says so       *)
(* ("ok"), it commits and the acknowledgement is lost ("lost"), or it      *)
(* rolls back with an error ("abort").  A process may die between any two  *)
(* actions, and two processes may overlap while the one whose PostgreSQL   *)
(* session was lost has not noticed yet.                                   *)
(***************************************************************************)
EXTENDS Domain, Sequences

CONSTANTS
    Instances,      \* server processes
    NoInstance,     \* nobody holds the advisory lock
    Publishers,     \* stages whose agent has the publisher tool profile
    MaxIterations,  \* policy.max_iterations
    Scenes          \* what a behaviour may consist of; Init chooses one

\* The tokens that one model call adds to the usage records, the token budgets that
\* a user may set, whether the recovery loop is relied on, and how many
\* disturbances of each sort happen.
Scene == [cost : Nat, budgets : (SUBSET (Nat \ {0})) \ {{}}, ticks : BOOLEAN,
          stops : Nat, ops : Nat, faults : Nat, overlaps : Nat]

ASSUME ModelAssumption ==
    /\ NoInstance \notin Instances
    /\ Publishers \subseteq Stages
    /\ MaxIterations \in Nat \ {0}
    /\ Scenes \subseteq Scene

VARIABLES
    \* the task's rows in PostgreSQL
    status,     \* task.status, "none" before the task exists
    budget,     \* task.token_budget
    used,       \* the sum over usage_record
    stage,      \* the stage rows
    approvals,  \* the approval rows
    tail,       \* the event stream from the event that ended the run onward
    \* the server processes
    up,         \* the processes that run
    leader,     \* the holder of the instance advisory lock
    wake,       \* wake[p]: a goroutine of Wake waits to call Reconcile
    cancelled,  \* cancelled[p]: taskRun.ctx is cancelled
    rec,        \* rec[p]: the Reconcile that holds taskRun.mu
    job,        \* job[p][s]: the runner that taskRun.running holds for s
    \* the bounds
    scene       \* the scene of this behaviour, with the disturbances still to come

dbVars == <<status, budget, used, stage, approvals, tail>>
procVars == <<up, leader, wake, cancelled, rec, job>>
vars == <<dbVars, procVars, scene>>

Cost == scene.cost
Budgets == scene.budgets

(***************************************************************************)
(* State.                                                                  *)
(***************************************************************************)
Approval == [stage : Stages, kind : Kinds, retry : Nat, content : Nat,
             status : {"pending", "approved", "rejected", "edited"}]

Idle == [pc |-> "idle", seen |-> "none", todo |-> {},
         rows |-> [s \in Stages |-> NewRow]]

AnyStatus == TaskStatuses \cup {"none"}

ReconcileState == [pc : {"idle", "stages", "broken", "start", "claim"},
                   seen : AnyStatus, todo : SUBSET Stages, rows : [Stages -> StageRow]]

NoJob == [pc |-> "none", mode |-> "plan", row |-> NewRow, iter |-> 0]

JobState == [pc : {"none", "check", "call", "publish", "commit", "fail", "block", "exit"},
             mode : Kinds, row : StageRow, iter : Nat]

\* One type invariant for the rows, the processes and the bounds.
TypeOK ==
    /\ status \in AnyStatus
    /\ budget \in Nat /\ used \in Nat
    /\ stage \in [Stages -> StageRow]
    /\ approvals \subseteq Approval
    /\ tail \in Seq(AnyStatus)
    /\ up \subseteq Instances
    /\ leader \in Instances \cup {NoInstance}
    /\ wake \in [Instances -> BOOLEAN]
    /\ cancelled \in [Instances -> BOOLEAN]
    /\ rec \in [Instances -> ReconcileState]
    /\ job \in [Instances -> [Stages -> JobState]]
    /\ scene \in Scene

Init ==
    /\ status = "none" /\ budget = 0 /\ used = 0
    /\ stage = [s \in Stages |-> NewRow]
    /\ approvals = {} /\ tail = <<>>
    /\ up = {} /\ leader = NoInstance
    /\ wake = [p \in Instances |-> FALSE]
    /\ cancelled = [p \in Instances |-> FALSE]
    /\ rec = [p \in Instances |-> Idle]
    /\ job = [p \in Instances |-> [s \in Stages |-> NoJob]]
    /\ scene \in Scenes

(***************************************************************************)
(* Transactions.                                                           *)
(***************************************************************************)

\* A disturbed outcome uses up one fault.
Outcome(o) ==
    /\ o = "ok" \/ scene.faults > 0
    /\ scene' = IF o = "ok" THEN scene ELSE [scene EXCEPT !.faults = @ - 1]

\* Mutant: UpdateStage without the version condition.
VersionlessMatches(s, row, old) ==
    stage[s].attempt = row.attempt /\ stage[s].status = old

\* UpdateStage matches the row on attempt, old status and version; no match
\* is ErrStale.  Every match increments the version.
Matches(s, row, old) ==
    /\ stage[s].attempt = row.attempt
    /\ stage[s].status = old
    /\ stage[s].version = row.version

\* Mutant: a write that leaves the version alone.
UnversionedUpdateStage(s, row) == [stage EXCEPT ![s] = row]

UpdateStage(s, row) == [stage EXCEPT ![s] = [row EXCEPT !.version = @ + 1]]

\* Mutant: progress forgets that the task may have ended.
UnendingStale(s, row) ==
    stage[s].attempt # row.attempt \/ stage[s].status # row.status

\* progress drops the event of a runner whose task ended or whose stage moved on.
Stale(s, row) ==
    \/ Terminal(status)
    \/ stage[s].attempt # row.attempt
    \/ stage[s].status # row.status

\* The event stream after a transaction that stores events and leaves the task
\* in status to: the terminal event of a run is its last one.
Emitted(to) ==
    IF tail # <<>> THEN Append(tail, to)
    ELSE IF Terminal(to) THEN <<to>> ELSE tail

\* Mutant: deriveTx looks at the rows read before the update.
HastySettled(rows) == Derive(status, stage)

\* deriveTx after the rows became rows; a completed run emits run.completed.
Settled(rows) == Derive(status, rows)

(***************************************************************************)
(* Task creation (app.CreateTask): rows in one transaction, then Wake.     *)
(***************************************************************************)
CreateTask(p, b, o) ==
    /\ p \in up /\ status = "none" /\ o \in {"ok", "lost"}
    /\ Outcome(o)
    /\ status' = "queued" /\ budget' = b
    /\ wake' = [wake EXCEPT ![p] = (o = "ok")]
    /\ UNCHANGED <<used, stage, approvals, tail, up, leader, cancelled, rec, job>>

(***************************************************************************)
(* Reconcile.  It holds taskRun.mu from its first read to its return.      *)
(***************************************************************************)

\* Lock taskRun.mu and read the task row.  Either a Wake goroutine runs, or
\* the recovery loop found the task neither failed nor cancelled.  A process
\* that lost its session keeps reconciling until its watchdog notices, here at
\* most scene.overlaps times.
BeginReconcile(p) ==
    /\ p \in up /\ rec[p].pc = "idle" /\ status # "none"
    /\ p = leader \/ scene.overlaps > 0
    /\ rec' = [rec EXCEPT ![p] = [Idle EXCEPT !.pc = "stages", !.seen = status]]
    /\ wake' = [wake EXCEPT ![p] = FALSE]
    /\ scene' = IF p = leader THEN scene ELSE [scene EXCEPT !.overlaps = @ - 1]
    /\ UNCHANGED <<dbVars, up, leader, cancelled, job>>

Woken(p) == wake[p] /\ BeginReconcile(p)

Recover(p) == status \notin {"failed", "cancelled"} /\ BeginReconcile(p)

\* The stages that this Reconcile will try to claim, from the rows it read:
\* not in taskRun.running, and pending and ready, planning or executing.
Claimable(p) ==
    {s \in Stages : /\ job[p][s].pc = "none"
                    /\ \/ stage[s].status = "pending" /\ Ready(s, stage)
                       \/ stage[s].status \in {"planning", "executing"}}

\* Read the stage rows and decide from the task row read before.
ReadStages(p) ==
    LET seen == rec[p].seen IN
    /\ rec[p].pc = "stages"
    /\ \/ /\ seen \in {"failed", "cancelled"}
          /\ cancelled' = [cancelled EXCEPT ![p] = TRUE]
          /\ rec' = [rec EXCEPT ![p] = Idle]
       \/ /\ seen \notin {"failed", "cancelled"} /\ Halted(seen)
          /\ rec' = [rec EXCEPT ![p] = Idle]
          /\ UNCHANGED cancelled
       \/ /\ ~Halted(seen)
          /\ rec' = [rec EXCEPT ![p] =
                       [pc |-> IF seen = "queued" THEN "start" ELSE "claim",
                        seen |-> "none", todo |-> Claimable(p),
                        rows |-> [s \in Stages |-> IF s \in Claimable(p)
                                                   THEN stage[s] ELSE NewRow]]]
          /\ UNCHANGED cancelled
    /\ UNCHANGED <<dbVars, up, leader, wake, job, scene>>

\* LoadDefinition failed: the task fails, whatever its stages do.
DefinitionLost(p) ==
    /\ rec[p].pc = "stages" /\ rec[p].seen \notin {"failed", "cancelled"}
    /\ Outcome("abort")
    /\ rec' = [rec EXCEPT ![p] = [Idle EXCEPT !.pc = "broken"]]
    /\ UNCHANGED <<dbVars, up, leader, wake, cancelled, job>>

\* A failed read, checkpoint or transaction ends the Reconcile with an error.
AbortReconcile(p) ==
    /\ rec[p].pc # "idle"
    /\ Outcome("abort")
    /\ rec' = [rec EXCEPT ![p] = Idle]
    /\ UNCHANGED <<dbVars, up, leader, wake, cancelled, job>>

FailTask(p, o) ==
    /\ rec[p].pc = "broken" /\ o \in {"ok", "lost"}
    /\ Outcome(o)
    /\ rec' = [rec EXCEPT ![p] = Idle]
    /\ \/ /\ Terminal(status)
          /\ UNCHANGED <<status, tail, cancelled>>
       \/ /\ ~Terminal(status)
          /\ status' = "failed" /\ tail' = Emitted("failed")
          /\ cancelled' = [cancelled EXCEPT ![p] = @ \/ (o = "ok")]
    /\ UNCHANGED <<budget, used, stage, approvals, up, leader, wake, job>>

StartTask(p, o) ==
    /\ rec[p].pc = "start" /\ o \in {"ok", "lost"}
    /\ Outcome(o)
    /\ \/ /\ status = "queued"
          /\ status' = "running" /\ tail' = Emitted("running")
       \/ /\ status # "queued"
          /\ UNCHANGED <<status, tail>>
    /\ rec' = [rec EXCEPT ![p] = IF o = "ok" THEN [@ EXCEPT !.pc = "claim"] ELSE Idle]
    /\ UNCHANGED <<budget, used, stage, approvals, up, leader, wake, cancelled, job>>

\* The remaining stages of a Reconcile once s is dealt with.
Without(p, s) ==
    [rec EXCEPT ![p] = [rec[p] EXCEPT !.todo = @ \ {s}, !.rows[s] = NewRow]]

\* claim gives ErrStale: the task halted, or a dependency is not approved.
ClaimStale(s, row) ==
    \/ Halted(status)
    \/ row.status = "pending" /\ ~Ready(s, stage)

\* Mutant: ClaimStage matches on the attempt alone.
StatuslessClaimMatches(s, row) == stage[s].attempt = row.attempt

\* ClaimStage matches the row on attempt and status, not on version.
ClaimMatches(s, row) ==
    stage[s].attempt = row.attempt /\ stage[s].status = row.status

\* Mutant: claim forgets the attempt that ClaimStage returned.
UnfencedClaimed(s, row) ==
    [row EXCEPT !.status = IF row.status = "executing" THEN "executing" ELSE "planning",
                !.version = @ + 1]

\* The stage row that claim returns: what Reconcile read, with the new status
\* and attempt, and the version it expects.
Claimed(s, row) ==
    [row EXCEPT !.status = IF row.status = "executing" THEN "executing" ELSE "planning",
                !.attempt = stage[s].attempt + 1, !.version = @ + 1]

FirstStep(s) == IF s \in Publishers THEN "publish" ELSE "check"

SkipClaim(p, s) ==
    /\ rec[p].pc = "claim" /\ s \in rec[p].todo
    /\ ClaimStale(s, rec[p].rows[s])
    /\ rec' = Without(p, s)
    /\ UNCHANGED <<dbVars, up, leader, wake, cancelled, job, scene>>

\* No row matches: ErrNoRows is not ErrStale and ends the Reconcile.
RefuseClaim(p, s) ==
    LET row == rec[p].rows[s] IN
    /\ rec[p].pc = "claim" /\ s \in rec[p].todo
    /\ ~ClaimStale(s, row) /\ ~ClaimMatches(s, row)
    /\ rec' = [rec EXCEPT ![p] = Idle]
    /\ UNCHANGED <<dbVars, up, leader, wake, cancelled, job, scene>>

Claim(p, s, o) ==
    LET row == rec[p].rows[s]
        claimed == Claimed(s, row)
    IN
    /\ rec[p].pc = "claim" /\ s \in rec[p].todo /\ o \in {"ok", "lost"}
    /\ ~ClaimStale(s, row) /\ ClaimMatches(s, row)
    /\ Outcome(o)
    /\ stage' = [stage EXCEPT ![s] = [stage[s] EXCEPT !.status = claimed.status,
                                                      !.attempt = @ + 1, !.version = @ + 1]]
    /\ tail' = IF row.status = "pending" THEN Emitted(status) ELSE tail
    /\ \/ /\ o = "ok"
          /\ job' = [job EXCEPT ![p][s] =
                       [pc |-> FirstStep(s), row |-> claimed, iter |-> 0,
                        mode |-> IF row.status = "executing" THEN "deliverable" ELSE "plan"]]
          /\ rec' = Without(p, s)
       \/ /\ o = "lost"
          /\ rec' = [rec EXCEPT ![p] = Idle]
          /\ UNCHANGED job
    /\ UNCHANGED <<status, budget, used, approvals, up, leader, wake, cancelled>>

\* Mutant: Reconcile returns without deriving the task status.
UnderivedFinish(p) ==
    /\ rec[p].pc = "claim" /\ rec[p].todo = {}
    /\ rec' = [rec EXCEPT ![p] = Idle]
    /\ UNCHANGED <<dbVars, up, leader, wake, cancelled, job, scene>>

\* Every stage was looked at: derive the task status and unlock taskRun.mu.
FinishReconcile(p) ==
    LET to == Settled(stage) IN
    /\ rec[p].pc = "claim" /\ rec[p].todo = {}
    /\ status' = to
    /\ tail' = IF to # status /\ to = "completed" THEN Emitted(to) ELSE tail
    /\ rec' = [rec EXCEPT ![p] = Idle]
    /\ UNCHANGED <<budget, used, stage, approvals, up, leader, wake, cancelled, job, scene>>

(***************************************************************************)
(* A runner (Orchestrator.run, AgentRunner.Run, publish).  Its context is  *)
(* a child of taskRun.ctx: once that is cancelled it can only return.      *)
(***************************************************************************)
At(p, s, pc) == job[p][s].pc = pc /\ ~cancelled[p]

Goto(p, s, pc) == job' = [job EXCEPT ![p][s].pc = pc]

\* Mutant: one call more is allowed.
LateExhausted == used > budget

\* The condition of BudgetService.Check.
Exhausted == used >= budget

\* BudgetService.Check before every model call.  An exhausted budget pauses
\* the task; the runner stops and leaves the stage claimed.
CheckBudget(p, s, o) ==
    /\ At(p, s, "check") /\ o \in {"ok", "lost"}
    /\ Outcome(o)
    /\ \/ /\ ~Exhausted /\ o = "ok"
          /\ Goto(p, s, "call")
          /\ UNCHANGED <<status, tail>>
       \/ /\ Exhausted
          /\ Goto(p, s, IF o = "ok" THEN "exit" ELSE "fail")
          /\ \/ /\ status \in {"running", "waiting_approval"}
                /\ status' = "paused" /\ tail' = Emitted("paused")
             \/ /\ status \notin {"running", "waiting_approval"}
                /\ UNCHANGED <<status, tail>>
    /\ UNCHANGED <<budget, used, stage, approvals, up, leader, wake, cancelled, rec>>

\* One turn: announce it, call the model, record the usage, run the tools it
\* asked for.  The usage of a stale call is not recorded.  A plan has one turn.
CallModel(p, s) ==
    LET j == job[p][s]
        last == j.mode = "plan" \/ j.iter + 1 >= MaxIterations
    IN
    /\ At(p, s, "call")
    /\ \/ /\ Stale(s, j.row)
          /\ Goto(p, s, "exit")
          /\ UNCHANGED <<used, tail>>
       \/ /\ ~Stale(s, j.row)
          /\ used' = used + Cost /\ tail' = Emitted(status)
          /\ \/ Goto(p, s, "commit")
             \/ /\ ~last
                /\ job' = [job EXCEPT ![p][s] = [j EXCEPT !.pc = "check", !.iter = @ + 1]]
    /\ UNCHANGED <<status, budget, stage, approvals, up, leader, wake, cancelled, rec, scene>>

\* The built-in publisher calls no model: its plan is a report, its execution
\* pushes branches and opens pull requests.  A push or pull request failure is
\* a publishError; pr.opened goes through progress.
Publish(p, s) ==
    LET j == job[p][s] IN
    /\ At(p, s, "publish")
    /\ \/ Goto(p, s, "commit") /\ UNCHANGED tail
       \/ /\ j.mode = "deliverable" /\ ~Stale(s, j.row)
          /\ Goto(p, s, "commit") \/ Goto(p, s, "block")
          /\ tail' = Emitted(status)
       \/ /\ j.mode = "deliverable" /\ Stale(s, j.row)
          /\ Goto(p, s, "exit") /\ UNCHANGED tail
       \/ /\ j.mode = "deliverable"
          /\ Goto(p, s, "block") /\ UNCHANGED tail
    /\ UNCHANGED <<status, budget, used, stage, approvals, up, leader, wake, cancelled, rec, scene>>

\* Any other error of the runner: the model, the workspace, a transaction.
RunnerError(p, s) ==
    /\ \E pc \in {"check", "call", "publish", "commit"} : At(p, s, pc)
    /\ Outcome("abort")
    /\ Goto(p, s, "fail")
    /\ UNCHANGED <<dbVars, up, leader, wake, cancelled, rec>>

\* The stage row that commit writes: the phase's result, and its review if the
\* pipeline asks for one.
Result(s, j) ==
    [j.row EXCEPT !.plan = IF j.mode = "plan" THEN [by |-> j.row.attempt, edited |-> FALSE]
                           ELSE @,
                  !.status = IF j.mode \in Gates[s] THEN ReviewOf(j.mode) ELSE DoneOf(j.mode)]

Request(s, j) ==
    [stage |-> s, kind |-> j.mode, retry |-> RetryOf(j.row, j.mode),
     content |-> j.row.attempt, status |-> "pending"]

\* The unique indexes of the approval table: one pending row of a stage, one row
\* of a retry.
Conflicts(a, b) ==
    /\ a.stage = b.stage
    /\ a.status = "pending" \/ (a.kind = b.kind /\ a.retry = b.retry)

\* commit finds the task ended or the stage moved on: ErrStale, nothing stored.
CommitStale(p, s) ==
    LET j == job[p][s] IN
    /\ At(p, s, "commit")
    /\ Terminal(status) \/ ~Matches(s, j.row, j.row.status)
    /\ Goto(p, s, "exit")
    /\ UNCHANGED <<dbVars, up, leader, wake, cancelled, rec, scene>>

\* The unique indexes of the approval table would roll a conflicting request
\* back; RetryFresh shows that a result which passes the fences never conflicts.
Commit(p, s, o) ==
    LET j == job[p][s]
        rows == UpdateStage(s, Result(s, j))
        to == Settled(rows)
        gated == j.mode \in Gates[s]
    IN
    /\ At(p, s, "commit") /\ o \in {"ok", "lost"}
    /\ ~Terminal(status) /\ Matches(s, j.row, j.row.status)
    /\ gated => \A a \in approvals : ~Conflicts(a, Request(s, j))
    /\ Outcome(o)
    /\ stage' = rows /\ status' = to
    /\ approvals' = IF gated THEN approvals \cup {Request(s, j)} ELSE approvals
    /\ tail' = IF gated \/ j.mode = "deliverable" THEN Emitted(to) ELSE tail
    /\ Goto(p, s, IF o = "ok" THEN "exit" ELSE "fail")
    /\ UNCHANGED <<budget, used, up, leader, wake, cancelled, rec>>

\* fail: an attempt that is still the stage's attempt fails the task and
\* cancels every runner of this process; its stage may have moved on.
FailStage(p, s, o) ==
    LET current == ~Terminal(status) /\ stage[s].attempt = job[p][s].row.attempt IN
    /\ At(p, s, "fail")
    /\ Outcome(o)
    /\ Goto(p, s, "exit")
    /\ \/ /\ current /\ o # "abort"
          /\ status' = "failed" /\ tail' = Emitted("failed")
          /\ cancelled' = [cancelled EXCEPT ![p] = (o = "ok")]
       \/ /\ ~current \/ o = "abort"
          /\ UNCHANGED <<status, tail, cancelled>>
    /\ UNCHANGED <<budget, used, stage, approvals, up, leader, wake, rec>>

\* block: park the publisher's stage, unless the task ended or it moved on.
BlockStage(p, s, o) ==
    LET row == job[p][s].row
        rows == UpdateStage(s, [row EXCEPT !.status = "blocked", !.blocked = "publish"])
        to == Settled(rows)
    IN
    /\ At(p, s, "block")
    /\ Outcome(o)
    /\ Goto(p, s, "exit")
    /\ \/ /\ ~Terminal(status) /\ Matches(s, row, row.status) /\ o # "abort"
          /\ stage' = rows /\ status' = to /\ tail' = Emitted(to)
       \/ /\ Terminal(status) \/ ~Matches(s, row, row.status) \/ o = "abort"
          /\ UNCHANGED <<stage, status, tail>>
    /\ UNCHANGED <<budget, used, approvals, up, leader, wake, cancelled, rec>>

\* Mutant: run returns without waking the task.
SilentReturn(p, s) ==
    /\ job[p][s].pc # "none" /\ (job[p][s].pc = "exit" \/ cancelled[p])
    /\ rec[p].pc = "idle"
    /\ job' = [job EXCEPT ![p][s] = NoJob]
    /\ UNCHANGED <<dbVars, up, leader, wake, cancelled, rec, scene>>

\* Mutant: run stays in taskRun.running after it returned.
LeakyReturn(p, s) ==
    /\ job[p][s].pc # "none" /\ (job[p][s].pc = "exit" \/ cancelled[p])
    /\ rec[p].pc = "idle"
    /\ wake' = [wake EXCEPT ![p] = TRUE]
    /\ UNCHANGED <<dbVars, up, leader, cancelled, rec, job, scene>>

\* run returns: under taskRun.mu it leaves taskRun.running, then it wakes the task.
ReturnRunner(p, s) ==
    /\ job[p][s].pc # "none" /\ (job[p][s].pc = "exit" \/ cancelled[p])
    /\ rec[p].pc = "idle"
    /\ job' = [job EXCEPT ![p][s] = NoJob]
    /\ wake' = [wake EXCEPT ![p] = TRUE]
    /\ UNCHANGED <<dbVars, up, leader, cancelled, rec, scene>>

(***************************************************************************)
(* Requests of users (app.UpdateApproval, UpdateTask, SetBudget).          *)
(***************************************************************************)
Verdict(decision) ==
    CASE decision = "approve" -> "approved"
      [] decision = "reject" -> "rejected"
      [] decision = "edit" -> "edited"

UpdateApproval(p, a, decision, o) ==
    LET rows == UpdateStage(a.stage, Decide(stage[a.stage], a.kind, decision))
        to == Settled(rows)
    IN
    /\ p \in up /\ a \in approvals /\ o \in {"ok", "lost"}
    /\ a.status = "pending" /\ ~Terminal(status)
    /\ stage[a.stage].status = ReviewOf(a.kind)
    /\ Outcome(o)
    /\ approvals' = (approvals \ {a}) \cup {[a EXCEPT !.status = Verdict(decision)]}
    /\ stage' = rows /\ status' = to /\ tail' = Emitted(to)
    /\ wake' = [wake EXCEPT ![p] = @ \/ (o = "ok")]
    /\ UNCHANGED <<budget, used, up, leader, cancelled, rec, job>>

\* A user's pause, resume, cancel or budget change uses up one of scene.ops.
Operation(o) ==
    /\ scene.ops > 0 /\ (o = "ok" \/ scene.faults > 0)
    /\ scene' = [scene EXCEPT !.ops = @ - 1,
                            !.faults = IF o = "ok" THEN @ ELSE @ - 1]

Pause(p) ==
    /\ p \in up /\ MayTransition(status, "pause")
    /\ Operation("ok")
    /\ status' = "paused" /\ tail' = Emitted("paused")
    /\ UNCHANGED <<budget, used, stage, approvals, procVars>>

\* resume is refused while the budget is exhausted.  From blocked it also sends
\* every blocked stage back to work; from paused it leaves the stages alone.
Resume(p, o) ==
    /\ p \in up /\ MayTransition(status, "resume") /\ o \in {"ok", "lost"}
    /\ used < budget
    /\ Operation(o)
    /\ stage' = [s \in Stages |->
                   IF status = "blocked" /\ stage[s].status = "blocked"
                   THEN [Unblocked(stage[s]) EXCEPT !.version = @ + 1] ELSE stage[s]]
    /\ status' = "running" /\ tail' = Emitted("running")
    /\ wake' = [wake EXCEPT ![p] = @ \/ (o = "ok")]
    /\ UNCHANGED <<budget, used, approvals, up, leader, cancelled, rec, job>>

Cancel(p, o) ==
    /\ p \in up /\ MayTransition(status, "cancel") /\ o \in {"ok", "lost"}
    /\ Operation(o)
    /\ status' = "cancelled" /\ tail' = Emitted("cancelled")
    /\ cancelled' = [cancelled EXCEPT ![p] = @ \/ (o = "ok")]
    /\ UNCHANGED <<budget, used, stage, approvals, up, leader, wake, rec, job>>

SetBudget(p, b) ==
    /\ p \in up /\ status # "none" /\ ~Terminal(status) /\ b # budget
    /\ Operation("ok")
    /\ budget' = b
    /\ UNCHANGED <<status, used, stage, approvals, tail, procVars>>

(***************************************************************************)
(* Processes (store.AcquireInstance, cmd/devsquad).                        *)
(***************************************************************************)

\* A process serves and recovers only once it holds the advisory lock.
StartProcess(p) ==
    /\ p \notin up /\ leader = NoInstance
    /\ up' = up \cup {p} /\ leader' = p
    /\ UNCHANGED <<dbVars, wake, cancelled, rec, job, scene>>

\* PostgreSQL drops the session and with it the lock; the process runs on.
LoseSession(p) ==
    /\ leader = p /\ scene.stops > 0
    /\ leader' = NoInstance
    /\ scene' = [scene EXCEPT !.stops = @ - 1]
    /\ UNCHANGED <<dbVars, up, wake, cancelled, rec, job>>

\* A crash, a signal, or the watchdog of a lost session: memory is gone.
StopProcess(p) ==
    /\ p \in up /\ (p # leader \/ scene.stops > 0)
    /\ up' = up \ {p}
    /\ leader' = IF p = leader THEN NoInstance ELSE leader
    /\ scene' = IF p = leader THEN [scene EXCEPT !.stops = @ - 1] ELSE scene
    /\ wake' = [wake EXCEPT ![p] = FALSE]
    /\ cancelled' = [cancelled EXCEPT ![p] = FALSE]
    /\ rec' = [rec EXCEPT ![p] = Idle]
    /\ job' = [job EXCEPT ![p] = [s \in Stages |-> NoJob]]
    /\ UNCHANGED dbVars

\* A failed or cancelled task whose runners are gone needs nothing more.
Finished ==
    /\ status \in {"failed", "cancelled"}
    /\ \A p \in Instances : rec[p] = Idle /\ ~wake[p] /\ job[p] = [s \in Stages |-> NoJob]
    /\ UNCHANGED vars

(***************************************************************************)
(* The specification.                                                      *)
(***************************************************************************)
Outcomes == {"ok", "lost", "abort"}

\* What the Reconcile that holds taskRun.mu does next.
Reconciling(p) ==
    \/ ReadStages(p)
    \/ \E o \in Outcomes : FailTask(p, o) \/ StartTask(p, o)
    \/ \E s \in Stages : \/ SkipClaim(p, s) \/ RefuseClaim(p, s)
                        \/ \E o \in Outcomes : Claim(p, s, o)
    \/ FinishReconcile(p)

\* What the runner of stage s does next, up to its return.
Running(p, s) ==
    \/ CallModel(p, s) \/ Publish(p, s)
    \/ CommitStale(p, s)
    \/ \E o \in Outcomes : \/ CheckBudget(p, s, o) \/ Commit(p, s, o)
                          \/ FailStage(p, s, o) \/ BlockStage(p, s, o)

\* What a user asks of process p.
Requests(p) ==
    \/ \E b \in Budgets : SetBudget(p, b)
    \/ Pause(p)
    \/ \E o \in Outcomes : \/ \E b \in Budgets : CreateTask(p, b, o)
                          \/ Resume(p, o) \/ Cancel(p, o)
                          \/ \E a \in approvals, d \in Decisions : UpdateApproval(p, a, d, o)

\* What goes wrong.
Disturbances(p) ==
    \/ LoseSession(p) \/ StopProcess(p)
    \/ DefinitionLost(p) \/ AbortReconcile(p)
    \/ \E s \in Stages : RunnerError(p, s)

Next ==
    \/ \E p \in Instances :
         \/ StartProcess(p) \/ Woken(p) \/ Recover(p) \/ Reconciling(p)
         \/ \E s \in Stages : Running(p, s) \/ ReturnRunner(p, s)
         \/ Requests(p) \/ Disturbances(p)
    \/ Finished

Spec == Init /\ [][Next]_vars

\* Goroutines that can run do run, and sync.Mutex does not starve a runner that
\* waits for taskRun.mu.
Scheduling ==
    \A p \in Instances :
        /\ WF_vars(Woken(p)) /\ WF_vars(Reconciling(p))
        /\ \A s \in Stages : WF_vars(Running(p, s)) /\ SF_vars(ReturnRunner(p, s))

\* The recovery loop ticks, the watchdog ends a process that lost its session,
\* and somebody starts a process when none holds the lock.
Recovery ==
    /\ \A p \in Instances : WF_vars(scene.ticks /\ Recover(p)) /\ WF_vars(p # leader /\ StopProcess(p))
    /\ WF_vars(\E p \in Instances : StartProcess(p))

FairSpec == Spec /\ Scheduling /\ Recovery

(***************************************************************************)
(* Safety.                                                                 *)
(***************************************************************************)

\* No stage starts before every stage it depends on is approved, and no
\* approved stage loses its approval under a stage that relied on it.
DependenciesFirst ==
    \A s \in Stages : stage[s].status # "pending" =>
        \A d \in Deps[s] : stage[d].status = "approved"

\* A task that Reconcile leaves alone or that waits for a reviewer says so for a
\* reason: these three statuses are always the ones the stage rows stand for.
StatusHonest ==
    status \in {"waiting_approval", "blocked", "completed"}
        => Derive("running", stage) = status

\* The phase of stage s that asks for the kind of approval has been accepted.
Past(s, kind) ==
    \/ stage[s].status \in {"deliverable_review", "approved"} /\ kind = "plan"
    \/ stage[s].status = DoneOf(kind)
    \/ stage[s].status = "blocked" /\ kind = "plan" /\ stage[s].blocked \in {"deliverable", "publish"}

\* The approval rows are the history of the stage rows: one row for each
\* rejected retry, and one for the current retry exactly while the phase is in
\* review (pending) or once it was accepted.
ReviewHistory ==
    \A s \in Stages, kind \in Kinds :
        LET mine == {a \in approvals : a.stage = s /\ a.kind = kind}
            now == RetryOf(stage[s], kind)
        IN  /\ {a.retry : a \in {b \in mine : b.status = "rejected"}} = 0 .. now - 1
            /\ \A a, b \in mine : a.retry = b.retry => a = b
            /\ (stage[s].status = ReviewOf(kind))
                  <=> \E a \in mine : a.retry = now /\ a.status = "pending"
            /\ (kind \in Gates[s] /\ Past(s, kind))
                  <=> \E a \in mine : a.retry = now /\ a.status \in {"approved", "edited"}

\* A copy of a row that a process holds is older than the row or equal to it,
\* and was claimable when it was read: no two contents of a stage row share a
\* version, whoever wrote them.
CopiesFenced ==
    \A p \in Instances, s \in Stages :
        LET held == rec[p].rows[s]
            work == job[p][s].row
        IN  /\ s \in rec[p].todo =>
                 /\ held.status \in {"pending", "planning", "executing"}
                 /\ held = stage[s] \/ held.version < stage[s].version
            /\ job[p][s].pc # "none" =>
                 /\ work.status = WorkOf(job[p][s].mode)
                 /\ work = stage[s] \/ work.version < stage[s].version

\* The unique indexes of the approval table never refuse a result that passed
\* the fences: no runner fails a task for having worked on an old retry.
RetryFresh ==
    \A p \in Instances, s \in Stages :
        LET j == job[p][s] IN
        j.pc = "commit" /\ j.mode \in Gates[s] /\ Matches(s, j.row, j.row.status)
            => \A a \in approvals : ~Conflicts(a, Request(s, j))

\* Where a pipeline asks for plan approval, a runner executes exactly the plan
\* text that the reviewer accepted, edits included.
ExecutesAcceptedPlan ==
    \A p \in Instances, s \in Stages :
        LET j == job[p][s] IN
        j.pc # "none" /\ j.mode = "deliverable" /\ "plan" \in Gates[s]
            => \E a \in approvals :
                  /\ a.stage = s /\ a.kind = "plan" /\ a.status \in {"approved", "edited"}
                  /\ j.row.plan = [by |-> a.content, edited |-> a.status = "edited"]

\* A run ends once: its terminal event is stored with the terminal status and
\* no event follows it.
RunEndsOnce ==
    tail = IF Terminal(status) THEN <<status>> ELSE <<>>

\* While one process runs, none of its runners works for nothing: until it has
\* stored its result, its claim is the stage's current one.
RunnersCurrent ==
    \A p \in Instances, s \in Stages :
        (job[p][s].pc \in {"check", "call", "publish", "commit", "block"} /\ ~Terminal(status))
            => ~Stale(s, job[p][s].row)

\* The usage records never pass the largest budget by more than one call of
\* each stage: that many runners may have passed the check together.
BudgetOvershoot ==
    \E b \in Budgets : used < b + Cost * Cardinality(Stages)

(***************************************************************************)
(* What a step may never do.                                               *)
(***************************************************************************)

\* An approved stage is never touched again, and no counter of a stage runs
\* backwards: a late writer cannot undo a decision.
NeverUndone ==
    [][\A s \in Stages :
         /\ stage[s].status = "approved" => stage'[s] = stage[s]
         /\ stage'[s].attempt >= stage[s].attempt
         /\ stage'[s].planRetry >= stage[s].planRetry
         /\ stage'[s].delRetry >= stage[s].delRetry]_vars

(***************************************************************************)
(* The rows implement the flow that the users are promised.                *)
(***************************************************************************)
FlowOf(row) ==
    [status |-> IF row.status # "blocked" THEN row.status
                ELSE IF row.blocked = "plan" THEN "plan_blocked" ELSE "work_blocked",
     plan |-> row.planRetry, deliverable |-> row.delRetry]

Flow == INSTANCE StageFlow WITH
    task <- status,
    flow <- [s \in Stages |-> FlowOf(stage[s])],
    requests <- {<<a.stage, a.kind, a.retry>> : a \in approvals}

\* Crashes, overlapping processes, stale runners, lost acknowledgements and
\* re-runs are invisible in the flow of a task: every step of the orchestrator
\* is a step of StageFlow or none.
ImplementsFlow == Flow!FlowSpec

(***************************************************************************)
(* What the documents and comments say and the code does not do.           *)
(***************************************************************************)

\* publish.go on block, docs/15 on stage.blocked: a resume returns a parked stage
\* to work.
ResumeRetries ==
    [][(status \in {"paused", "blocked"} /\ status' = "running")
         => \A s \in Stages : (stage[s].status = "blocked" => stage'[s].status # "blocked")]_vars

\* docs/19 unit U3: an error of a commit function is rolled back before the task
\* is failed for it, so a runner about to fail the task has stored nothing.
FailureStoresNothing ==
    \A p \in Instances, s \in Stages :
        LET j == job[p][s] IN
        j.pc = "fail" /\ stage[s].attempt = j.row.attempt => stage[s].status = j.row.status

(***************************************************************************)
(* Progress.                                                               *)
(***************************************************************************)

\* Stage s has work that can be done: it runs, or could start.
Workable(s) ==
    /\ status \in {"running", "waiting_approval"}
    /\ \/ stage[s].status \in {"planning", "executing"}
       \/ stage[s].status = "pending" /\ Ready(s, stage)

\* No stage has work forever: it goes to review, is approved or parked, or the task
\* halts.  The goroutines that Wake starts see to it; the recovery loop is needed
\* only after a crash, an aborted Reconcile or a lost acknowledgement.
StagesMoveOn == \A s \in Stages : []<>~Workable(s)

\* The task status never differs for good from what the stages stand for, as after
\* a resume.
StatusCatchesUp == []<>(status = "none" \/ Derive(status, stage) = status)

\* The runners of a failed or cancelled task all return.
RunnersReturn ==
    []<>(status \in {"failed", "cancelled"}
           => \A p \in Instances, s \in Stages : job[p][s].pc = "none")
=============================================================================
