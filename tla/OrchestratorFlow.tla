------------------------- MODULE OrchestratorFlow ---------------------------
(***************************************************************************)
(* The stage rows and the approval rows of Orchestrator belong together    *)
(* after every step, and every step is a step of StageFlow or none.  The   *)
(* argument goes through what a transaction does to the rows: Effect names *)
(* the six ways, the fence of OrchestratorSafety shows that there are no   *)
(* others, and what follows looks at the rows only.                        *)
(*                                                                         *)
(* The last part is about the runners: which claim they work for, whether  *)
(* it is still the current one, and what their model calls cost.  Every    *)
(* claim has an attempt of its own, so of all the runners of a stage,      *)
(* whatever their process, one at most can still record a call.            *)
(***************************************************************************)
EXTENDS OrchestratorSafety, FiniteSetTheorems

(***************************************************************************)
(* How far a task has come when somebody works on it.                      *)
(***************************************************************************)
Begun == status \notin {"none", "queued"}

\* A Reconcile knows the task; one that claims, a runner and an approval know
\* that it was started.
RecReached ==
    \A p \in Instances :
        /\ rec[p].pc # "idle" => status # "none"
        /\ rec[p].pc = "stages" => rec[p].seen # "none" /\ (rec[p].seen # "queued" => Begun)
        /\ rec[p].pc = "claim" => Begun

\* Only the execution of a publisher is ever about to park its stage.
JobReached ==
    \A p \in Instances, s \in Stages :
        /\ job[p][s].pc # "none" => Begun
        /\ job[p][s].pc = "block" => job[p][s].mode = "deliverable"

Reached == RecReached /\ JobReached /\ (approvals # {} => Begun)

\* deriveTx never takes a task back to its beginning.
LEMMA DeriveBegun ==
    ASSUME NEW st, NEW rows, st \notin {"none", "queued"}
    PROVE  Derive(st, rows) \notin {"none", "queued"}
BY DEF Derive

\* No step takes a task back to its beginning.
LEMMA StaysBegun ==
    ASSUME [Next]_vars
    PROVE  (status # "none" => status' # "none") /\ (Begun => Begun')
<1> DEFINE Goal == (status # "none" => status' # "none") /\ (Begun => Begun')
<1>1. CASE status' = status
  BY <1>1 DEF Begun
<1>2. CASE \E rows : status' = Derive(status, rows)
  <2>1. PICK rows : status' = Derive(status, rows)
    BY <1>2
  <2>2. status = "queued" => status' = "queued"
    BY <2>1 DEF Derive
  <2> QED
    BY <2>1, <2>2, DeriveBegun DEF Begun
<1>3. CASE status' \in {"running", "paused", "failed", "cancelled"}
  BY <1>3 DEF Begun
<1>4. ASSUME NEW p \in Instances, Reconciling(p)
      PROVE  Goal
  BY <1>1, <1>2, <1>3, <1>4
  DEF Reconciling, ReadStages, FailTask, StartTask, SkipClaim, RefuseClaim, Claim,
      FinishReconcile, Settled, dbVars
<1>5. ASSUME NEW p \in Instances, NEW s \in Stages, Running(p, s) \/ ReturnRunner(p, s)
      PROVE  Goal
  BY <1>1, <1>2, <1>3, <1>5
  DEF Running, CheckBudget, CallModel, Publish, CommitStale, Commit, FailStage, BlockStage,
      ReturnRunner, Settled, dbVars
<1>6. ASSUME NEW p \in Instances, Requests(p)
      PROVE  Goal
  BY <1>1, <1>2, <1>3, <1>6
  DEF Requests, CreateTask, Pause, Resume, Cancel, SetBudget, UpdateApproval, Settled, Begun
<1>7. ASSUME NEW p \in Instances,
             Woken(p) \/ Recover(p) \/ Disturbances(p) \/ StartProcess(p)
      PROVE  Goal
  BY <1>1, <1>7 DEF Woken, Recover, BeginReconcile, Disturbances, StartProcess, LoseSession,
      StopProcess, DefinitionLost, AbortReconcile, RunnerError, dbVars
<1>8. CASE UNCHANGED vars
  BY <1>1, <1>8 DEF vars, dbVars
<1> QED
  BY <1>4, <1>5, <1>6, <1>7, <1>8 DEF Next, Finished

\* Each Reconcile keeps knowing the task.
LEMMA RecReachedStep ==
    ASSUME TypeOK, Reached, [Next]_vars
    PROVE  RecReached'
<1> DEFINE Knows(q) ==
      /\ rec'[q].pc # "idle" => status' # "none"
      /\ rec'[q].pc = "stages" => rec'[q].seen # "none" /\ (rec'[q].seen # "queued" => Begun')
      /\ rec'[q].pc = "claim" => Begun'
<1>1. (status # "none" => status' # "none") /\ (Begun => Begun')
  BY StaysBegun
<1> SUFFICES ASSUME NEW q \in Instances PROVE Knows(q)
  BY DEF RecReached
<1>2. CASE rec'[q] = rec[q]
  BY <1>1, <1>2 DEF Reached, RecReached
<1>3. CASE rec'[q].pc = "idle"
  BY <1>3
<1>4. ASSUME NEW p \in Instances, NEW r, rec' = [rec EXCEPT ![p] = r]
      PROVE  rec'[q] = rec[q] \/ (q = p /\ rec'[q] = r)
  BY <1>4 DEF TypeOK
<1>5. ASSUME NEW p \in Instances, BeginReconcile(p)
      PROVE  Knows(q)
  <2>1. rec' = [rec EXCEPT ![p] = [Idle EXCEPT !.pc = "stages", !.seen = status]]
        /\ status # "none"
    BY <1>5 DEF BeginReconcile
  <2> DEFINE r == [Idle EXCEPT !.pc = "stages", !.seen = status]
  <2>2. r.pc = "stages" /\ r.seen = status
    BY DEF Idle
  <2> HIDE DEF r
  <2>3. rec'[q] = rec[q] \/ rec'[q] = r
    BY <1>4, <2>1 DEF r
  <2> QED
    BY <1>1, <1>2, <2>1, <2>2, <2>3 DEF Begun
<1>6. ASSUME NEW p \in Instances, ReadStages(p)
      PROVE  Knows(q)
  <2> DEFINE r == [pc |-> IF rec[p].seen = "queued" THEN "start" ELSE "claim",
                   seen |-> "none", todo |-> Claimable(p),
                   rows |-> [s \in Stages |-> IF s \in Claimable(p) THEN stage[s] ELSE NewRow]]
  <2>1. r.pc = IF rec[p].seen = "queued" THEN "start" ELSE "claim"
    OBVIOUS
  <2>2. status # "none" /\ (rec[p].seen # "queued" => Begun)
    BY <1>6 DEF ReadStages, Reached, RecReached
  <2>3. rec' = [rec EXCEPT ![p] = Idle] \/ rec' = [rec EXCEPT ![p] = r]
    BY <1>6 DEF ReadStages
  <2> HIDE DEF r
  <2>4. rec'[q] = rec[q] \/ rec'[q] = Idle \/ rec'[q] = r
    BY <1>4, <2>3
  <2> QED
    BY <1>1, <1>2, <2>1, <2>2, <2>4 DEF Idle
<1>7. ASSUME NEW p \in Instances, DefinitionLost(p)
      PROVE  Knows(q)
  <2> DEFINE r == [Idle EXCEPT !.pc = "broken"]
  <2>1. r.pc = "broken"
    BY DEF Idle
  <2>2. rec' = [rec EXCEPT ![p] = r] /\ status # "none"
    BY <1>7 DEF DefinitionLost, Reached, RecReached
  <2> HIDE DEF r
  <2>3. rec'[q] = rec[q] \/ rec'[q] = r
    BY <1>4, <2>2
  <2> QED
    BY <1>1, <1>2, <2>1, <2>2, <2>3
<1>8. ASSUME NEW p \in Instances, NEW o, StartTask(p, o)
      PROVE  Knows(q)
  <2> DEFINE r == [rec[p] EXCEPT !.pc = "claim"]
  <2>1. rec[p] \in ReconcileState
    BY DEF TypeOK
  <2>2. r.pc = "claim"
    BY <2>1 DEF ReconcileState
  <2>3. status # "none" /\ Begun'
    BY <1>8 DEF StartTask, Reached, RecReached, Begun
  <2>4. rec' = [rec EXCEPT ![p] = Idle] \/ rec' = [rec EXCEPT ![p] = r]
    BY <1>8 DEF StartTask
  <2> HIDE DEF r
  <2>5. rec'[q] = rec[q] \/ rec'[q] = Idle \/ rec'[q] = r
    BY <1>4, <2>4
  <2> QED
    BY <1>1, <1>2, <2>2, <2>3, <2>5 DEF Idle
<1>9. ASSUME NEW p \in Instances, NEW s \in Stages,
             SkipClaim(p, s) \/ RefuseClaim(p, s) \/ \E o : Claim(p, s, o)
      PROVE  Knows(q)
  <2> DEFINE r == [rec[p] EXCEPT !.todo = @ \ {s}, !.rows[s] = NewRow]
  <2>1. rec[p] \in ReconcileState
    BY DEF TypeOK
  <2>2. r.pc = rec[p].pc /\ rec[p].pc = "claim"
    BY <1>9, <2>1 DEF ReconcileState, SkipClaim, RefuseClaim, Claim
  <2>3. Begun
    BY <2>2 DEF Reached, RecReached
  <2>4. rec' = [rec EXCEPT ![p] = Idle] \/ rec' = [rec EXCEPT ![p] = r]
    BY <1>9 DEF SkipClaim, RefuseClaim, Claim, Without
  <2> HIDE DEF r
  <2>5. rec'[q] = rec[q] \/ rec'[q] = Idle \/ rec'[q] = r
    BY <1>4, <2>4
  <2> QED
    BY <1>1, <1>2, <2>2, <2>3, <2>5 DEF Idle, Begun
<1>10. ASSUME NEW p \in Instances, rec' = [rec EXCEPT ![p] = Idle]
       PROVE  Knows(q)
  BY <1>2, <1>3, <1>4, <1>10 DEF Idle
<1>11. ASSUME NEW p \in Instances, Reconciling(p)
       PROVE  Knows(q)
  BY <1>6, <1>8, <1>9, <1>10, <1>11 DEF Reconciling, FailTask, FinishReconcile
<1>12. ASSUME NEW p \in Instances, NEW s \in Stages, Running(p, s) \/ ReturnRunner(p, s)
       PROVE  rec' = rec
  BY <1>12 DEF Running, CheckBudget, CallModel, Publish, CommitStale, Commit,
      FailStage, BlockStage, ReturnRunner
<1>13. ASSUME NEW p \in Instances, Requests(p) \/ StartProcess(p)
       PROVE  rec' = rec
  BY <1>13 DEF Requests, CreateTask, Pause, Resume, Cancel, SetBudget, UpdateApproval,
      StartProcess, procVars
<1>14. ASSUME NEW p \in Instances, Disturbances(p)
       PROVE  Knows(q)
  BY <1>2, <1>7, <1>10, <1>14 DEF Disturbances, LoseSession, StopProcess, AbortReconcile,
      RunnerError
<1>15. CASE UNCHANGED vars
  BY <1>2, <1>15 DEF vars, procVars
<1> QED
  BY <1>2, <1>5, <1>11, <1>12, <1>13, <1>14, <1>15 DEF Next, Woken, Recover, Finished

\* Only Publish sends a runner to park its stage, and only from an execution.
LEMMA ParkingStep ==
    ASSUME TypeOK, [Next]_vars, NEW q \in Instances, NEW t \in Stages,
           job'[q][t].pc = "block"
    PROVE  job[q][t].pc = "block" \/ (job[q][t].pc = "publish" /\ job[q][t].mode = "deliverable")
<1> DEFINE Goal == \/ job[q][t].pc = "block"
                   \/ job[q][t].pc = "publish" /\ job[q][t].mode = "deliverable"
<1>1. ASSUME job' = job
      PROVE  Goal
  BY <1>1
<1>2. ASSUME NEW p \in Instances, NEW s \in Stages, NEW j, j.pc # "block",
             job' = [job EXCEPT ![p][s] = j]
      PROVE  Goal
  <2>1. job'[q][t] = IF q = p /\ t = s THEN j ELSE job[q][t]
    BY <1>2 DEF TypeOK
  <2> QED
    BY <1>2, <2>1
<1>3. ASSUME NEW p \in Instances, NEW s \in Stages, NEW pc, Goto(p, s, pc), pc # "block"
      PROVE  Goal
  <2> DEFINE j == [job[p][s] EXCEPT !.pc = pc]
  <2>1. job[p][s] \in JobState
    BY DEF TypeOK
  <2>2. j.pc # "block"
    BY <1>3, <2>1 DEF JobState
  <2>3. job' = [job EXCEPT ![p][s] = j]
    BY <1>3 DEF Goto
  <2> HIDE DEF j
  <2> QED
    BY <1>2, <2>2, <2>3
<1>4. ASSUME NEW p \in Instances, NEW s \in Stages, Publish(p, s)
      PROVE  Goal
  <2>1. CASE Goto(p, s, "block")
    <3> DEFINE j == [job[p][s] EXCEPT !.pc = "block"]
    <3>1. job' = [job EXCEPT ![p][s] = j]
      BY <2>1 DEF Goto
    <3> HIDE DEF j
    <3>2. job'[q][t] = IF q = p /\ t = s THEN j ELSE job[q][t]
      BY <3>1 DEF TypeOK
    <3>3. job[p][s].pc = "publish" /\ (job[p][s].mode = "deliverable" \/ Goto(p, s, "commit"))
      BY <1>4 DEF Publish, At
    <3> QED
      BY <1>3, <3>2, <3>3
  <2>2. CASE ~Goto(p, s, "block")
    BY <1>3, <1>4, <2>2 DEF Publish
  <2> QED
    BY <2>1, <2>2
<1>5. ASSUME NEW p \in Instances, NEW s \in Stages, NEW o, Claim(p, s, o)
      PROVE  Goal
  <2> DEFINE row == rec[p].rows[s]
             j == [pc |-> FirstStep(s), row |-> Claimed(s, row), iter |-> 0,
                   mode |-> IF row.status = "executing" THEN "deliverable" ELSE "plan"]
  <2>1. job' = job \/ job' = [job EXCEPT ![p][s] = j]
    BY <1>5 DEF Claim
  <2>2. j.pc # "block"
    BY DEF FirstStep
  <2> HIDE DEF j
  <2> QED
    BY <1>1, <1>2, <2>1, <2>2
<1>6. ASSUME NEW p \in Instances, NEW s \in Stages, CallModel(p, s)
      PROVE  Goal
  <2> DEFINE j == [job[p][s] EXCEPT !.pc = "check", !.iter = @ + 1]
  <2>1. job[p][s] \in JobState
    BY DEF TypeOK
  <2>2. j.pc # "block"
    BY <2>1 DEF JobState
  <2>3. Goto(p, s, "exit") \/ Goto(p, s, "commit") \/ job' = [job EXCEPT ![p][s] = j]
    BY <1>6 DEF CallModel
  <2> HIDE DEF j
  <2> QED
    BY <1>2, <1>3, <2>2, <2>3
<1>7. ASSUME NEW p \in Instances, NEW s \in Stages,
             \/ CommitStale(p, s) \/ RunnerError(p, s)
             \/ \E o \in Outcomes : \/ CheckBudget(p, s, o) \/ Commit(p, s, o)
                                   \/ FailStage(p, s, o) \/ BlockStage(p, s, o)
      PROVE  Goal
  <2>1. \E pc : Goto(p, s, pc) /\ pc # "block"
    BY <1>7 DEF CommitStale, RunnerError, CheckBudget, Commit, FailStage, BlockStage
  <2> QED
    BY <1>3, <2>1
<1>8. ASSUME NEW p \in Instances, NEW s \in Stages, ReturnRunner(p, s)
      PROVE  Goal
  BY <1>2, <1>8 DEF ReturnRunner, NoJob
<1>9. ASSUME NEW p \in Instances, StopProcess(p)
      PROVE  Goal
  <2>1. job'[q][t] = IF q = p THEN NoJob ELSE job[q][t]
    BY <1>9 DEF StopProcess, TypeOK
  <2> QED
    BY <2>1 DEF NoJob
<1>10. ASSUME NEW p \in Instances,
             Requests(p) \/ StartProcess(p) \/ BeginReconcile(p) \/ LoseSession(p)
             \/ DefinitionLost(p) \/ AbortReconcile(p)
       PROVE  job' = job
  BY <1>10 DEF Requests, CreateTask, Pause, Resume, Cancel, SetBudget, UpdateApproval,
      StartProcess, BeginReconcile, LoseSession, DefinitionLost, AbortReconcile, procVars
<1>11. ASSUME NEW p \in Instances, Reconciling(p)
       PROVE  Goal
  BY <1>1, <1>5, <1>11 DEF Reconciling, ReadStages, FailTask, StartTask, SkipClaim,
      RefuseClaim, FinishReconcile
<1>12. ASSUME UNCHANGED vars
       PROVE  Goal
  BY <1>1, <1>12 DEF vars, procVars
<1> HIDE DEF Goal
<1>13. Goal
  BY <1>1, <1>4, <1>6, <1>7, <1>8, <1>9, <1>10, <1>11, <1>12
  DEF Next, Running, Disturbances, Woken, Recover, Finished
<1> QED
  BY <1>13 DEF Goal

\* Every step keeps what the processes know of the task.
LEMMA ReachedStep ==
    ASSUME TypeOK, Reached, [Next]_vars
    PROVE  Reached'
<1>1. Begun => Begun'
  BY StaysBegun
<1>2. Kept
  BY RowsKept
<1>3. ASSUME NEW p \in Instances, NEW s \in Stages, NEW o, Claim(p, s, o)
      PROVE  Begun /\ Begun'
  BY <1>1, <1>3 DEF Claim, Reached, RecReached
<1>4. ASSUME NEW p \in Instances, NEW s \in Stages, job'[p][s].pc # "none"
      PROVE  Begun'
  BY <1>1, <1>2, <1>3, <1>4 DEF Kept, KeptOrClaimed, Reached, JobReached
<1>5. ASSUME NEW p \in Instances, NEW s \in Stages, job'[p][s].pc = "block"
      PROVE  job'[p][s].mode = "deliverable"
  <2>1. job[p][s].pc # "none" /\ job[p][s].mode = "deliverable"
    BY <1>5, ParkingStep DEF Reached, JobReached
  <2>2. CASE job'[p][s].mode = job[p][s].mode
    BY <2>1, <2>2
  <2>3. ASSUME NEW o, Claim(p, s, o), o = "ok"
        PROVE  FALSE
    <3> DEFINE row == rec[p].rows[s]
               j == [pc |-> FirstStep(s), row |-> Claimed(s, row), iter |-> 0,
                     mode |-> IF row.status = "executing" THEN "deliverable" ELSE "plan"]
    <3>1. job' = [job EXCEPT ![p][s] = j]
      BY <2>3 DEF Claim
    <3>2. j.pc # "block"
      BY DEF FirstStep
    <3> HIDE DEF j
    <3>3. job'[p][s] = j
      BY <3>1 DEF TypeOK
    <3> QED
      BY <1>5, <3>2, <3>3
  <2> QED
    BY <1>2, <1>5, <2>2, <2>3 DEF Kept, KeptOrClaimed
<1>6. approvals' # {} => Begun'
  <2>1. CASE approvals' = approvals
    BY <1>1, <2>1 DEF Reached
  <2>2. ASSUME NEW p \in Instances, NEW s \in Stages, NEW o, Commit(p, s, o)
        PROVE  Begun
    BY <2>2 DEF Commit, At, Reached, JobReached
  <2>3. ASSUME NEW p \in Instances, NEW a \in approvals
        PROVE  Begun
    BY <2>3 DEF Reached
  <2>4. ASSUME NEW p \in Instances, Reconciling(p)
        PROVE  approvals' = approvals
    BY <2>4 DEF Reconciling, ReadStages, FailTask, StartTask, SkipClaim, RefuseClaim, Claim,
        FinishReconcile, dbVars
  <2>5. ASSUME NEW p \in Instances, NEW s \in Stages, Running(p, s) \/ ReturnRunner(p, s)
        PROVE  approvals' = approvals \/ Begun
    BY <2>2, <2>5 DEF Running, CheckBudget, CallModel, Publish, CommitStale, FailStage,
        BlockStage, ReturnRunner, dbVars
  <2>6. ASSUME NEW p \in Instances, Requests(p)
        PROVE  approvals' = approvals \/ Begun
    BY <2>3, <2>6 DEF Requests, CreateTask, Pause, Resume, Cancel, SetBudget
  <2>7. ASSUME NEW p \in Instances,
               Woken(p) \/ Recover(p) \/ Disturbances(p) \/ StartProcess(p)
        PROVE  approvals' = approvals
    BY <2>7 DEF Woken, Recover, BeginReconcile, Disturbances, StartProcess, LoseSession,
        StopProcess, DefinitionLost, AbortReconcile, RunnerError, dbVars
  <2>8. CASE UNCHANGED vars
    BY <2>1, <2>8 DEF vars, dbVars
  <2> QED
    BY <1>1, <2>1, <2>4, <2>5, <2>6, <2>7, <2>8 DEF Next, Finished
<1> QED
  BY <1>4, <1>5, <1>6, RecReachedStep DEF Reached, JobReached

(***************************************************************************)
(* What a step does to the rows.                                           *)
(***************************************************************************)
SameRetries(new, old) == new.planRetry = old.planRetry /\ new.delRetry = old.delRetry

\* The rows stay; the status is left alone, moved by a request or a failure, or
\* derived from the rows.
Rests ==
    /\ stage' = stage /\ approvals' = approvals
    /\ \/ status' = status
       \/ status = "none" /\ status' = "queued"
       \/ status = "queued" /\ status' = "running"
       \/ status \in {"running", "waiting_approval"} /\ status' = "paused"
       \/ Begun /\ status' = Derive(status, stage)
       \/ status # "none" /\ ~Terminal(status) /\ status' \in {"failed", "cancelled"}

\* A claim takes a stage that is ready or at work.
Takes(s) ==
    /\ Begun /\ ~Halted(status) /\ status' = status /\ approvals' = approvals
    /\ stage[s].status \in {"pending", "planning", "executing"}
    /\ stage[s].status = "pending" => Ready(s, stage)
    /\ \E new \in StageRow :
         /\ stage' = [stage EXCEPT ![s] = new]
         /\ new.status = IF stage[s].status = "executing" THEN "executing" ELSE "planning"
         /\ new.plan = stage[s].plan /\ SameRetries(new, stage[s])

\* The request that hands in the result of a phase.
Handed(s, kind) ==
    [stage |-> s, kind |-> kind, retry |-> RetryOf(stage[s], kind),
     content |-> stage[s].attempt, status |-> "pending"]

\* A transaction that derives the status of the rows it leaves behind.
Derives == Begun /\ ~Terminal(status) /\ status' = Derive(status, stage')

\* A phase at work hands in its result.
HandsIn(s, kind) ==
    /\ Derives /\ stage[s].status = WorkOf(kind)
    /\ \E new \in StageRow :
         /\ stage' = [stage EXCEPT ![s] = new]
         /\ new.status = IF kind \in Gates[s] THEN ReviewOf(kind) ELSE DoneOf(kind)
         /\ new.plan = IF kind = "plan" THEN [by |-> stage[s].attempt, edited |-> FALSE]
                       ELSE stage[s].plan
         /\ SameRetries(new, stage[s])
    /\ approvals' = IF kind \in Gates[s] THEN approvals \cup {Handed(s, kind)} ELSE approvals

\* A publisher at work parks its stage.
Parks(s) ==
    /\ Derives /\ stage[s].status = "executing" /\ approvals' = approvals
    /\ \E new \in StageRow :
         /\ stage' = [stage EXCEPT ![s] = new]
         /\ new.status = "blocked" /\ new.blocked = "publish"
         /\ new.plan = stage[s].plan /\ SameRetries(new, stage[s])

\* A reviewer decides a pending approval of a stage that is in review.
Decides(a, d) ==
    /\ Derives /\ a.status = "pending" /\ stage[a.stage].status = ReviewOf(a.kind)
    /\ stage' = UpdateStage(a.stage, Decide(stage[a.stage], a.kind, d))
    /\ approvals' = (approvals \ {a}) \cup {[a EXCEPT !.status = Verdict(d)]}

\* A resume sends the blocked stages of a blocked task back to work.
Resumes ==
    /\ status \in {"paused", "blocked"} /\ status' = "running" /\ approvals' = approvals
    /\ stage' = [s \in Stages |->
                   IF status = "blocked" /\ stage[s].status = "blocked"
                   THEN [Unblocked(stage[s]) EXCEPT !.version = @ + 1] ELSE stage[s]]

Effect ==
    \/ Rests \/ Resumes
    \/ \E s \in Stages : Takes(s) \/ Parks(s)
    \/ \E s \in Stages, kind \in Kinds : HandsIn(s, kind)
    \/ \E a \in approvals, d \in Decisions : Decides(a, d)

\* A claim takes its stage.
LEMMA ClaimTakes ==
    ASSUME Fence, Reached, NEW p \in Instances, NEW s \in Stages, NEW o, Claim(p, s, o)
    PROVE  Takes(s)
<1> DEFINE row == rec[p].rows[s]
           new == [stage[s] EXCEPT !.status = Claimed(s, row).status,
                                   !.attempt = @ + 1, !.version = @ + 1]
<1>1. row \in StageRow /\ stage[s] \in StageRow
  BY DEF Fence, TypeOK, ReconcileState
<1>2. /\ row.status \in {"pending", "planning", "executing"} /\ stage[s].status = row.status
      /\ ~Halted(status) /\ (stage[s].status = "pending" => Ready(s, stage))
  BY DEF Fence, CopiesFenced, Claim, ClaimStale, ClaimMatches
<1>3. Claimed(s, row).status = IF stage[s].status = "executing" THEN "executing" ELSE "planning"
  BY <1>1, <1>2 DEF Claimed, StageRow
<1>4. PICK st, n, m : st = Claimed(s, row).status /\ n = stage[s].attempt + 1
                       /\ m = stage[s].version + 1
  OBVIOUS
<1>5. new = [stage[s] EXCEPT !.status = st, !.attempt = n, !.version = m]
  BY <1>4, Zenon
<1>6. stage' = [stage EXCEPT ![s] = new]
  BY DEF Claim
<1>7. st \in StageStatuses /\ n \in Nat /\ m \in Nat
  BY <1>1, <1>3, <1>4 DEF StageRow, StageStatuses
<1> HIDE DEF new, row
<1>8. /\ new \in StageRow /\ new.status = st
      /\ new.plan = stage[s].plan /\ SameRetries(new, stage[s])
  BY <1>1, <1>5, <1>7 DEF StageRow, SameRetries
<1>9. Begun /\ status' = status /\ approvals' = approvals
  BY DEF Claim, Reached, RecReached
<1> QED
  BY <1>2, <1>3, <1>4, <1>6, <1>8, <1>9 DEF Takes

\* The fence: a commit that matches writes the result of the current row.
LEMMA CommitHandsIn ==
    ASSUME Fence, Reached, NEW p \in Instances, NEW s \in Stages, NEW o, Commit(p, s, o)
    PROVE  job[p][s].mode \in Kinds /\ HandsIn(s, job[p][s].mode)
<1> DEFINE j == job[p][s]
           new == [Result(s, j) EXCEPT !.version = @ + 1]
<1>1. j \in JobState /\ j.row \in StageRow /\ j.mode \in Kinds /\ j.pc # "none"
  BY DEF Fence, Commit, At, TypeOK, JobState
<1>2. j.row = stage[s] /\ stage[s].status = WorkOf(j.mode)
  BY <1>1 DEF Fence, Commit, Matches, CopiesFenced, StageRow, TypeOK
<1>3. Result(s, j) \in StageRow
  BY <1>1, ResultType
<1>4. /\ Result(s, j).status = IF j.mode \in Gates[s] THEN ReviewOf(j.mode) ELSE DoneOf(j.mode)
      /\ Result(s, j).plan = IF j.mode = "plan" THEN [by |-> stage[s].attempt, edited |-> FALSE]
                             ELSE stage[s].plan
      /\ SameRetries(Result(s, j), stage[s])
  BY <1>1, <1>2 DEF Result, StageRow, SameRetries
<1>5. stage' = [stage EXCEPT ![s] = new]
  BY DEF Commit, UpdateStage
<1>6. /\ new \in StageRow /\ new.status = Result(s, j).status
      /\ new.plan = Result(s, j).plan /\ SameRetries(new, Result(s, j))
  BY <1>3 DEF StageRow, SameRetries
<1>7. Request(s, j) = Handed(s, j.mode)
  BY <1>2 DEF Request, Handed
<1>8. approvals' = IF j.mode \in Gates[s] THEN approvals \cup {Handed(s, j.mode)} ELSE approvals
  BY <1>7 DEF Commit
<1>9. Derives
  BY <1>1 DEF Commit, Settled, Derives, Reached, JobReached
<1> HIDE DEF new, j
<1>10. SameRetries(new, stage[s])
  BY <1>4, <1>6 DEF SameRetries
<1>11. HandsIn(s, j.mode)
  BY <1>2, <1>4, <1>5, <1>6, <1>8, <1>9, <1>10 DEF HandsIn
<1> QED
  BY <1>1, <1>11 DEF j

\* The fence: a publisher that matches parks the current row.
LEMMA BlockParks ==
    ASSUME Fence, Reached, NEW p \in Instances, NEW s \in Stages, NEW o,
           BlockStage(p, s, o), <<stage, status>>' # <<stage, status>>
    PROVE  Parks(s)
<1> DEFINE j == job[p][s]
           parked == [j.row EXCEPT !.status = "blocked", !.blocked = "publish"]
           new == [parked EXCEPT !.version = @ + 1]
<1>1. j.row \in StageRow /\ j.pc = "block" /\ j.mode = "deliverable"
  BY DEF Fence, BlockStage, At, TypeOK, JobState, Reached, JobReached
<1>2. /\ Matches(s, j.row, j.row.status) /\ ~Terminal(status)
      /\ stage' = [stage EXCEPT ![s] = new] /\ status' = Derive(status, stage')
      /\ approvals' = approvals
  BY DEF BlockStage, UpdateStage, Settled
<1>3. j.row = stage[s] /\ stage[s].status = "executing"
  <2>1. /\ j.row.status = WorkOf(j.mode)
        /\ j.row = stage[s] \/ j.row.version < stage[s].version
    BY <1>1 DEF Fence, CopiesFenced
  <2>2. j.row.version = stage[s].version /\ j.row.version \in Nat
    BY <1>1, <1>2 DEF Matches, StageRow
  <2> QED
    BY <1>1, <2>1, <2>2 DEF WorkOf
<1>4. /\ new \in StageRow /\ new.status = "blocked" /\ new.blocked = "publish"
      /\ new.plan = stage[s].plan /\ SameRetries(new, stage[s])
  <2>1. /\ parked \in StageRow /\ parked.status = "blocked" /\ parked.blocked = "publish"
        /\ parked.plan = stage[s].plan /\ SameRetries(parked, stage[s])
    BY <1>1, <1>3 DEF StageRow, StageStatuses, SameRetries
  <2> HIDE DEF parked
  <2> QED
    BY <2>1 DEF StageRow, SameRetries
<1>5. Derives
  BY <1>1, <1>2 DEF Derives, Reached, JobReached
<1> HIDE DEF new, j
<1> QED
  BY <1>2, <1>3, <1>4, <1>5 DEF Parks

\* There are no other effects on the rows.
LEMMA EveryStepEffect ==
    ASSUME Fence, Reached, [Next]_vars
    PROVE  Effect
<1>1. ASSUME UNCHANGED <<stage, approvals, status>>
      PROVE  Effect
  BY <1>1 DEF Effect, Rests
<1>2. ASSUME NEW p \in Instances, FinishReconcile(p)
      PROVE  Effect
  BY <1>2 DEF FinishReconcile, Settled, Effect, Rests, Reached, RecReached
<1>3. ASSUME NEW p \in Instances, NEW o, FailTask(p, o) \/ StartTask(p, o)
      PROVE  Effect
  BY <1>3 DEF FailTask, StartTask, Effect, Rests, Reached, RecReached
<1>4. ASSUME NEW p \in Instances, Reconciling(p)
      PROVE  Effect
  BY <1>1, <1>2, <1>3, <1>4, ClaimTakes
  DEF Reconciling, ReadStages, SkipClaim, RefuseClaim, dbVars, Effect
<1>5. ASSUME NEW p \in Instances, NEW s \in Stages, NEW o,
             CheckBudget(p, s, o) \/ FailStage(p, s, o)
      PROVE  Effect
  <2>1. status # "none"
    BY <1>5 DEF CheckBudget, FailStage, At, Reached, JobReached, Begun
  <2> QED
    BY <1>5, <2>1 DEF CheckBudget, FailStage, Effect, Rests
<1>6. ASSUME NEW p \in Instances, NEW s \in Stages, NEW o, BlockStage(p, s, o)
      PROVE  Effect
  <2>1. approvals' = approvals
    BY <1>6 DEF BlockStage
  <2> QED
    BY <1>1, <1>6, <2>1, BlockParks DEF Effect
<1>7. ASSUME NEW p \in Instances, NEW s \in Stages, NEW o, Commit(p, s, o)
      PROVE  Effect
  BY <1>7, CommitHandsIn DEF Effect
<1>8. ASSUME NEW p \in Instances, NEW s \in Stages, Running(p, s) \/ ReturnRunner(p, s)
      PROVE  Effect
  <2>1. ASSUME \/ CallModel(p, s) \/ Publish(p, s) \/ CommitStale(p, s)
               \/ ReturnRunner(p, s)
        PROVE  UNCHANGED <<stage, approvals, status>>
    BY <2>1 DEF CallModel, Publish, CommitStale, ReturnRunner, dbVars
  <2> QED
    BY <1>1, <1>5, <1>6, <1>7, <1>8, <2>1 DEF Running
<1>9. ASSUME NEW p \in Instances, NEW a \in approvals, NEW d \in Decisions, NEW o,
             UpdateApproval(p, a, d, o)
      PROVE  Effect
  <2>1. Begun
    BY DEF Reached
  <2>2. Decides(a, d)
    BY <1>9, <2>1 DEF UpdateApproval, Settled, Decides, Derives
  <2> QED
    BY <2>2 DEF Effect
<1>10. ASSUME NEW p \in Instances, NEW o, Resume(p, o)
       PROVE  Effect
  <2>1. Resumes
    BY <1>10 DEF Resume, MayTransition, Resumes
  <2> QED
    BY <2>1 DEF Effect
<1>11. ASSUME NEW p \in Instances, Requests(p)
       PROVE  Effect
  <2>1. ASSUME NEW b, NEW o,
               SetBudget(p, b) \/ Pause(p) \/ CreateTask(p, b, o) \/ Cancel(p, o)
        PROVE  Effect
    BY <2>1 DEF SetBudget, Pause, CreateTask, Cancel, MayTransition, Effect, Rests
  <2> QED
    BY <1>9, <1>10, <1>11, <2>1 DEF Requests
<1>12. ASSUME NEW p \in Instances,
              Woken(p) \/ Recover(p) \/ Disturbances(p) \/ StartProcess(p)
       PROVE  UNCHANGED <<stage, approvals, status>>
  BY <1>12 DEF Woken, Recover, BeginReconcile, Disturbances, StartProcess, LoseSession,
      StopProcess, DefinitionLost, AbortReconcile, RunnerError, dbVars
<1>13. ASSUME UNCHANGED vars
       PROVE  Effect
  BY <1>1, <1>13 DEF vars, dbVars
<1> QED
  BY <1>1, <1>4, <1>8, <1>11, <1>12, <1>13 DEF Next, Finished

(***************************************************************************)
(* The approval rows are the history of the stage rows.                    *)
(***************************************************************************)
Mine(s, kind) == {a \in approvals : a.stage = s /\ a.kind = kind}

\* What ReviewHistory says of one phase, and what it needs to last: an approval
\* exists only where the pipeline asks for one, and every approval that is not
\* rejected is of the current retry.
Recorded(s, kind) ==
    LET now == RetryOf(stage[s], kind) IN
    /\ Mine(s, kind) # {} => kind \in Gates[s]
    /\ \A n \in Nat : n < now <=> \E a \in Mine(s, kind) : a.status = "rejected" /\ a.retry = n
    /\ \A a, b \in Mine(s, kind) : a.retry = b.retry => a = b
    /\ \A a \in Mine(s, kind) : a.status # "rejected" => a.retry = now
    /\ stage[s].status = ReviewOf(kind) <=> \E a \in Mine(s, kind) : a.status = "pending"
    /\ (kind \in Gates[s] /\ Past(s, kind))
         <=> \E a \in Mine(s, kind) : a.status \in {"approved", "edited"}

Records == \A s \in Stages, kind \in Kinds : Recorded(s, kind)

\* A parked stage says why.
Parked == \A s \in Stages : stage[s].status = "blocked" => stage[s].blocked # "none"

\* The approval that accepted this plan text of stage s.
AcceptedPlan(s, text) ==
    \E a \in Mine(s, "plan") : /\ a.status \in {"approved", "edited"}
                               /\ text = [by |-> a.content, edited |-> a.status = "edited"]

\* A plan in review is the one that the request shows, and a plan past its
\* review the one that was accepted.
Plans ==
    \A s \in Stages : "plan" \in Gates[s] =>
        /\ stage[s].status = "plan_review" =>
             \A a \in Mine(s, "plan") : a.status = "pending"
                 => stage[s].plan = [by |-> a.content, edited |-> FALSE]
        /\ Past(s, "plan") => AcceptedPlan(s, stage[s].plan)

\* So is every copy of a plan that somebody executes or is about to execute.
PlanCopies ==
    \A p \in Instances, s \in Stages : "plan" \in Gates[s] =>
        /\ s \in rec[p].todo /\ rec[p].rows[s].status = "executing"
             => AcceptedPlan(s, rec[p].rows[s].plan)
        /\ job[p][s].pc # "none" /\ job[p][s].mode = "deliverable"
             => AcceptedPlan(s, job[p][s].row.plan)

\* The retry counters are natural numbers, and so are the retries of approvals.
LEMMA RetryType ==
    ASSUME TypeOK, NEW s \in Stages, NEW kind \in Kinds
    PROVE  /\ stage[s] \in StageRow /\ RetryOf(stage[s], kind) \in Nat
           /\ \A a \in Mine(s, kind) : a \in Approval /\ a.retry \in Nat
BY DEF TypeOK, StageRow, RetryOf, Mine, Approval

\* While a phase is at work nothing of it is under review: its approvals are the
\* rejections of earlier retries.
LEMMA WorkIsFresh ==
    ASSUME TypeOK, Records, NEW s \in Stages, NEW kind \in Kinds,
           stage[s].status = WorkOf(kind)
    PROVE  /\ \A a \in Mine(s, kind) : a.status = "rejected" /\ a.retry < RetryOf(stage[s], kind)
           /\ \A k \in Kinds : \A a \in Mine(s, k) : a.status # "pending"
<1>1. \A k \in Kinds : stage[s].status # ReviewOf(k)
  BY DEF WorkOf, ReviewOf
<1>2. ~Past(s, kind)
  BY DEF Past, WorkOf, DoneOf, Kinds
<1>3. \A k \in Kinds : \A a \in Mine(s, k) : a.status # "pending"
  BY <1>1 DEF Records, Recorded
<1>4. \A a \in Mine(s, kind) : a.status \notin {"approved", "edited"}
  BY <1>2 DEF Records, Recorded
<1>5. \A a \in Mine(s, kind) : a.status = "rejected"
  BY <1>3, <1>4, RetryType DEF Approval
<1> QED
  BY <1>3, <1>5, RetryType DEF Records, Recorded

\* A phase keeps its record when neither its approvals, its retry nor its place
\* before, in or after the review changes.
LEMMA RecordedKeeps ==
    ASSUME NEW s \in Stages, NEW kind \in Kinds, Recorded(s, kind),
           Mine(s, kind)' = Mine(s, kind),
           RetryOf(stage'[s], kind) = RetryOf(stage[s], kind),
           stage'[s].status = ReviewOf(kind) <=> stage[s].status = ReviewOf(kind),
           kind \in Gates[s] => (Past(s, kind)' <=> Past(s, kind))
    PROVE  Recorded(s, kind)'
BY DEF Recorded

\* The other stages keep their records.
LEMMA OthersRecorded ==
    ASSUME NEW s \in Stages, NEW kind \in Kinds, Recorded(s, kind),
           Mine(s, kind)' = Mine(s, kind), stage'[s] = stage[s]
    PROVE  Recorded(s, kind)'
<1>1. Past(s, kind)' <=> Past(s, kind)
  BY DEF Past
<1> QED
  BY <1>1, RecordedKeeps

\* Handing in a result records one pending request of the current retry.
LEMMA HandsInRecords ==
    ASSUME TypeOK, Records, NEW s \in Stages, NEW kind \in Kinds, HandsIn(s, kind)
    PROVE  Records'
<1> SUFFICES ASSUME NEW t \in Stages, NEW k \in Kinds
             PROVE  Recorded(t, k)'
  BY DEF Records
<1>1. PICK new \in StageRow :
        /\ stage' = [stage EXCEPT ![s] = new]
        /\ new.status = IF kind \in Gates[s] THEN ReviewOf(kind) ELSE DoneOf(kind)
        /\ SameRetries(new, stage[s])
  BY DEF HandsIn
<1>2. stage'[t] = IF t = s THEN new ELSE stage[t]
  BY <1>1 DEF TypeOK
<1>3. RetryOf(stage'[t], k) = RetryOf(stage[t], k)
  BY <1>1, <1>2 DEF SameRetries, RetryOf
<1>4. stage[s].status = WorkOf(kind)
  BY DEF HandsIn
<1>5. Recorded(t, k)
  BY DEF Records
<1>6. CASE t = s /\ k = kind /\ kind \in Gates[s]
  <2> DEFINE b == Handed(s, kind)
             now == RetryOf(stage[s], kind)
  <2>1. b.stage = s /\ b.kind = kind /\ b.retry = now /\ b.status = "pending"
    BY DEF Handed
  <2>2. Mine(s, kind)' = Mine(s, kind) \cup {b}
    BY <1>6, <2>1 DEF HandsIn, Mine
  <2>3. \A a \in Mine(s, kind) : a.status = "rejected" /\ a.retry < now
    BY <1>4, WorkIsFresh
  <2>4. now \in Nat /\ \A a \in Mine(s, kind) : a.retry \in Nat
    BY RetryType
  <2>5. stage'[s].status = ReviewOf(kind) /\ ~Past(s, kind)'
    BY <1>1, <1>2, <1>6 DEF Past, ReviewOf, DoneOf, Kinds
  <2> HIDE DEF b, now
  <2>6. RetryOf(stage'[s], kind) = now
    BY <1>3, <1>6 DEF now
  <2>7. \A n \in Nat : n < now <=> \E a \in Mine(s, kind)' : a.status = "rejected" /\ a.retry = n
    BY <1>5, <1>6, <2>1, <2>2 DEF Recorded, now
  <2>8. \A a, c \in Mine(s, kind)' : a.retry = c.retry => a = c
    BY <1>5, <1>6, <2>1, <2>2, <2>3, <2>4 DEF Recorded
  <2>9. \A a \in Mine(s, kind)' : a.status # "rejected" => a.retry = now
    BY <2>1, <2>2, <2>3
  <2>10. /\ \E a \in Mine(s, kind)' : a.status = "pending"
         /\ ~\E a \in Mine(s, kind)' : a.status \in {"approved", "edited"}
    BY <2>1, <2>2, <2>3
  <2> QED
    BY <1>6, <2>5, <2>6, <2>7, <2>8, <2>9, <2>10 DEF Recorded
<1>7. CASE ~(t = s /\ k = kind /\ kind \in Gates[s])
  <2>1. Mine(t, k)' = Mine(t, k)
    BY <1>7 DEF HandsIn, Mine, Handed
  <2>2. CASE t # s
    BY <1>2, <1>5, <2>1, <2>2, OthersRecorded
  <2>3. CASE t = s
    <3>1. stage'[s].status = ReviewOf(k) <=> stage[s].status = ReviewOf(k)
      BY <1>1, <1>2, <1>4, <1>7, <2>3 DEF ReviewOf, WorkOf, DoneOf, Kinds
    <3>2. k \in Gates[s] => (Past(s, k)' <=> Past(s, k))
      BY <1>1, <1>2, <1>4, <1>7, <2>3 DEF Past, ReviewOf, WorkOf, DoneOf, Kinds
    <3> QED
      BY <1>3, <1>5, <2>1, <2>3, <3>1, <3>2, RecordedKeeps
  <2> QED
    BY <2>2, <2>3
<1> QED
  BY <1>6, <1>7

\* Raising the version leaves the rest of a row alone.
LEMMA VersionOnly ==
    ASSUME NEW row \in StageRow
    PROVE  \A new : new = [row EXCEPT !.version = @ + 1] =>
             /\ new \in StageRow /\ new.status = row.status /\ new.plan = row.plan
             /\ new.blocked = row.blocked /\ SameRetries(new, row)
BY DEF StageRow, SameRetries

Voted(row, kind, d) == [Decide(row, kind, d) EXCEPT !.version = @ + 1]

\* Where a rejection of this kind sends the stage.
SentBack(new, row, kind) ==
    IF RetryOf(row, kind) + 1 >= MaxRetries THEN new.status = "blocked" /\ new.blocked = kind
    ELSE new.status = WorkOf(kind)

\* A rejection counts one retry of its phase and sends the stage back to work, or
\* parks it for that phase once the retries are used up.
LEMMA RejectWrites ==
    ASSUME NEW row \in StageRow, NEW kind \in Kinds,
           NEW new, new = Voted(row, kind, "reject")
    PROVE  /\ new \in StageRow /\ new.plan = row.plan
           /\ \A k \in Kinds : RetryOf(new, k) =
                IF k = kind THEN RetryOf(row, k) + 1 ELSE RetryOf(row, k)
           /\ SentBack(new, row, kind)
<1> DEFINE mid == Decide(row, kind, "reject")
           n == RetryOf(row, kind) + 1
<1>1. row.planRetry \in Nat /\ row.delRetry \in Nat /\ n \in Nat
  BY DEF StageRow, RetryOf
<1>2. PICK m : m = n
  OBVIOUS
<1>3. mid \in StageRow
  BY DecideType
<1>4. /\ new \in StageRow /\ new.status = mid.status /\ new.plan = mid.plan
      /\ new.blocked = mid.blocked /\ \A k \in Kinds : RetryOf(new, k) = RetryOf(mid, k)
  BY <1>3, VersionOnly DEF SameRetries, RetryOf, Voted
<1>5. mid = [row EXCEPT !.planRetry = IF kind = "plan" THEN m ELSE @,
                        !.delRetry = IF kind = "plan" THEN @ ELSE m,
                        !.status = IF m >= MaxRetries THEN "blocked" ELSE WorkOf(kind),
                        !.blocked = IF m >= MaxRetries THEN kind ELSE @]
  BY <1>2, Zenon DEF Decide, Rejected
<1> HIDE DEF mid
<1>6. /\ \A k \in Kinds : RetryOf(mid, k) = IF k = kind THEN m ELSE RetryOf(row, k)
      /\ mid.plan = row.plan
      /\ m >= MaxRetries => mid.status = "blocked" /\ mid.blocked = kind
      /\ ~(m >= MaxRetries) => mid.status = WorkOf(kind)
  BY <1>5 DEF StageRow, RetryOf, Kinds
<1> QED
  BY <1>2, <1>4, <1>6 DEF SentBack

\* The plan text after acceptance.
PlanAfter(row, kind, d) ==
    IF kind = "plan" /\ d = "edit" THEN [by |-> row.plan.by, edited |-> TRUE] ELSE row.plan

\* Acceptance moves the stage on; an edit marks the plan.
LEMMA AcceptWrites ==
    ASSUME NEW row \in StageRow, NEW kind \in Kinds, NEW d \in Decisions \ {"reject"},
           NEW new, new = Voted(row, kind, d)
    PROVE  /\ new \in StageRow /\ new.status = DoneOf(kind) /\ SameRetries(new, row)
           /\ new.plan = PlanAfter(row, kind, d)
<1> DEFINE mid == Decide(row, kind, d)
<1>1. mid \in StageRow
  BY DecideType
<1>2. /\ new \in StageRow /\ new.status = mid.status /\ new.plan = mid.plan
      /\ SameRetries(new, mid)
  BY <1>1, VersionOnly DEF Voted
<1>3. mid = [row EXCEPT !.status = DoneOf(kind), !.plan = PlanAfter(row, kind, d)]
  BY Zenon DEF Decide, Accepted, PlanAfter
<1> HIDE DEF mid
<1>4. /\ SameRetries(mid, row) /\ mid.status = DoneOf(kind)
      /\ mid.plan = PlanAfter(row, kind, d)
  BY <1>3 DEF StageRow, SameRetries
<1> QED
  BY <1>2, <1>4 DEF SameRetries

\* A decision replaces the pending approval by its verdict.
LEMMA DecidesMine ==
    ASSUME TypeOK, NEW a \in approvals, NEW d \in Decisions, Decides(a, d)
    PROVE  LET b == [a EXCEPT !.status = Verdict(d)] IN
           /\ a.stage \in Stages /\ a.kind \in Kinds /\ a \in Mine(a.stage, a.kind)
           /\ b.retry = a.retry /\ b.content = a.content
           /\ b.status = IF d = "reject" THEN "rejected" ELSE IF d = "edit" THEN "edited" ELSE "approved"
           /\ Mine(a.stage, a.kind)' = (Mine(a.stage, a.kind) \ {a}) \cup {b}
           /\ \A t \in Stages, k \in Kinds : (t # a.stage \/ k # a.kind) => Mine(t, k)' = Mine(t, k)
<1> DEFINE b == [a EXCEPT !.status = Verdict(d)]
<1>1. a \in Approval
  BY DEF TypeOK
<1>2. /\ b.stage = a.stage /\ b.kind = a.kind /\ b.retry = a.retry /\ b.content = a.content
      /\ b.status = Verdict(d)
  BY <1>1 DEF Approval
<1>3. Verdict(d) = IF d = "reject" THEN "rejected" ELSE IF d = "edit" THEN "edited" ELSE "approved"
  BY DEF Verdict, Decisions
<1>4. approvals' = (approvals \ {a}) \cup {b}
  BY DEF Decides
<1> HIDE DEF b
<1>5. Mine(a.stage, a.kind)' = (Mine(a.stage, a.kind) \ {a}) \cup {b}
  BY <1>2, <1>4 DEF Mine
<1>6. \A t \in Stages, k \in Kinds : (t # a.stage \/ k # a.kind) => Mine(t, k)' = Mine(t, k)
  BY <1>2, <1>4 DEF Mine
<1>7. a.stage \in Stages /\ a.kind \in Kinds /\ a \in Mine(a.stage, a.kind)
  BY <1>1 DEF Approval, Mine
<1> QED
  BY <1>2, <1>3, <1>5, <1>6, <1>7 DEF b

Rewrites(s, new) == stage' = [stage EXCEPT ![s] = new]

\* The stage leaves the review of this kind.
Leaves(new, kind) ==
    \/ new.status = "blocked" /\ new.blocked = kind
    \/ new.status \in {WorkOf(kind), DoneOf(kind)}

\* A decision changes the record of no other phase.
LEMMA DecidesOthers ==
    ASSUME TypeOK, Records, NEW a \in approvals, NEW d \in Decisions, Decides(a, d),
           NEW s \in Stages, NEW kind \in Kinds, s = a.stage, kind = a.kind,
           NEW new \in StageRow, Rewrites(s, new),
           \A k \in Kinds : k # kind => RetryOf(new, k) = RetryOf(stage[s], k),
           Leaves(new, kind),
           NEW t \in Stages, NEW k \in Kinds, t # s \/ k # kind
    PROVE  Recorded(t, k)'
<1>1. Mine(t, k)' = Mine(t, k)
  BY DecidesMine
<1>2. stage'[t] = IF t = s THEN new ELSE stage[t]
  BY DEF TypeOK, Rewrites
<1>3. Recorded(t, k)
  BY DEF Records
<1>4. CASE t # s
  BY <1>1, <1>2, <1>3, <1>4, OthersRecorded
<1>5. CASE t = s
  <2>1. stage[s].status = ReviewOf(kind) /\ k # kind
    BY <1>5 DEF Decides
  <2>2. RetryOf(stage'[s], k) = RetryOf(stage[s], k)
    BY <1>2, <1>5, <2>1
  <2>3. stage'[s].status = ReviewOf(k) <=> stage[s].status = ReviewOf(k)
    BY <1>2, <1>5, <2>1 DEF Leaves, ReviewOf, WorkOf, DoneOf, Kinds
  <2>4. Past(s, k)' <=> Past(s, k)
    BY <1>2, <1>5, <2>1 DEF Leaves, Past, ReviewOf, WorkOf, DoneOf, Kinds
  <2> QED
    BY <1>1, <1>3, <1>5, <2>2, <2>3, <2>4, RecordedKeeps
<1> QED
  BY <1>4, <1>5

\* A decision turns the pending request into a rejection of that retry or into
\* the acceptance of the phase.
LEMMA DecidesRecords ==
    ASSUME TypeOK, Records, NEW a \in approvals, NEW d \in Decisions, Decides(a, d)
    PROVE  Records'
<1>1. a.stage \in Stages /\ a.kind \in Kinds /\ a \in Mine(a.stage, a.kind)
  BY DecidesMine
<1>2. PICK s \in Stages, kind \in Kinds : s = a.stage /\ kind = a.kind
  BY <1>1
<1>3. PICK b : /\ b.retry = a.retry
               /\ b.status = IF d = "reject" THEN "rejected"
                             ELSE IF d = "edit" THEN "edited" ELSE "approved"
               /\ Mine(s, kind)' = (Mine(s, kind) \ {a}) \cup {b}
  BY <1>2, DecidesMine, Zenon
<1>4. PICK row \in StageRow : row = stage[s]
  BY DEF TypeOK
<1>5. PICK new : new = Voted(row, kind, d)
  OBVIOUS
<1>6. Rewrites(s, new)
  BY <1>2, <1>4, <1>5 DEF Decides, UpdateStage, Voted, Rewrites
<1>7. stage[s].status = ReviewOf(kind) /\ a.status = "pending" /\ a \in Mine(s, kind)
  BY <1>1, <1>2 DEF Decides
<1>8. PICK now \in Nat : now = RetryOf(stage[s], kind)
  BY RetryType
<1>9. Recorded(s, kind)
  BY DEF Records
<1>10. kind \in Gates[s] /\ a.retry = now /\ b.retry = now
  BY <1>3, <1>7, <1>8, <1>9 DEF Recorded
<1>11. \A c \in Mine(s, kind) : c # a => c.status = "rejected" /\ c.retry < now /\ c.retry \in Nat
  <2>1. \A c \in Mine(s, kind) : c.status # "rejected" => c = a
    BY <1>7, <1>8, <1>9, <1>10 DEF Recorded
  <2> QED
    BY <1>8, <1>9, <2>1, RetryType DEF Recorded
<1>12. \A c, e \in Mine(s, kind)' : c.retry = e.retry => c = e
  BY <1>3, <1>9, <1>10, <1>11 DEF Recorded
<1>13. \A n \in Nat : n < now <=>
         \E c \in Mine(s, kind) : c # a /\ c.status = "rejected" /\ c.retry = n
  BY <1>7, <1>8, <1>9 DEF Recorded
<1>14. CASE d = "reject"
  <2>1. new = Voted(row, kind, "reject")
    BY <1>5, <1>14
  <2>2. /\ new \in StageRow
        /\ \A k \in Kinds : RetryOf(new, k) =
             IF k = kind THEN RetryOf(row, k) + 1 ELSE RetryOf(row, k)
        /\ (new.status = "blocked" /\ new.blocked = kind) \/ new.status = WorkOf(kind)
    <3>1. /\ new \in StageRow /\ SentBack(new, row, kind)
          /\ \A k \in Kinds : RetryOf(new, k) =
               IF k = kind THEN RetryOf(row, k) + 1 ELSE RetryOf(row, k)
      BY <2>1, RejectWrites
    <3> QED
      BY <3>1 DEF SentBack
  <2>3. stage'[s] = new /\ RetryOf(new, kind) = now + 1
    BY <1>4, <1>6, <1>8, <2>2 DEF TypeOK, Rewrites
  <2>4. stage'[s].status # ReviewOf(kind) /\ ~Past(s, kind)'
    BY <2>2, <2>3 DEF Past, ReviewOf, WorkOf, DoneOf, Kinds
  <2>5. b.status = "rejected"
    BY <1>3, <1>14
  <2>6. \A c \in Mine(s, kind)' : c.status = "rejected"
    BY <1>3, <1>11, <2>5
  <2>7. \A n \in Nat : n < now + 1 <=>
          \E c \in Mine(s, kind)' : c.status = "rejected" /\ c.retry = n
    <3>1. \A n \in Nat : n < now + 1 <=> n < now \/ n = now
      OBVIOUS
    <3> QED
      BY <1>3, <1>10, <1>13, <2>5, <3>1
  <2>8. Recorded(s, kind)'
    BY <1>10, <1>12, <2>3, <2>4, <2>6, <2>7 DEF Recorded
  <2>9. ASSUME NEW t \in Stages, NEW k \in Kinds, t # s \/ k # kind
        PROVE  Recorded(t, k)'
    <3>1. Leaves(new, kind)
      BY <2>2 DEF Leaves
    <3>2. \A i \in Kinds : i # kind => RetryOf(new, i) = RetryOf(stage[s], i)
      BY <1>4, <2>2
    <3> QED
      BY <1>2, <1>6, <2>2, <2>9, <3>1, <3>2, DecidesOthers
  <2> QED
    BY <2>8, <2>9 DEF Records
<1>15. CASE d # "reject"
  <2>1. /\ new \in StageRow /\ new.status = DoneOf(kind) /\ SameRetries(new, row)
    <3>1. d \in Decisions \ {"reject"}
      BY <1>15
    <3> QED
      BY <1>5, <3>1, AcceptWrites, Zenon
  <2>2. \A k \in Kinds : RetryOf(new, k) = RetryOf(row, k)
    BY <2>1 DEF SameRetries, RetryOf
  <2>3. stage'[s] = new /\ RetryOf(new, kind) = now
    BY <1>4, <1>6, <1>8, <2>2 DEF TypeOK, Rewrites
  <2>4. stage'[s].status # ReviewOf(kind) /\ Past(s, kind)'
    BY <2>1, <2>3 DEF Past, ReviewOf, DoneOf, Kinds
  <2>5. b.status \in {"approved", "edited"} /\ b.status \notin {"rejected", "pending"}
    BY <1>3, <1>15
  <2>6. /\ \A c \in Mine(s, kind)' : c.status # "rejected" => c.retry = now
        /\ \A c \in Mine(s, kind)' : c.status # "pending"
        /\ \E c \in Mine(s, kind)' : c.status \in {"approved", "edited"}
    BY <1>3, <1>10, <1>11, <2>5
  <2>7. \A n \in Nat : n < now <=>
          \E c \in Mine(s, kind)' : c.status = "rejected" /\ c.retry = n
    BY <1>3, <1>13, <2>5
  <2>8. Recorded(s, kind)'
    BY <1>10, <1>12, <2>3, <2>4, <2>6, <2>7 DEF Recorded
  <2>9. ASSUME NEW t \in Stages, NEW k \in Kinds, t # s \/ k # kind
        PROVE  Recorded(t, k)'
    <3>1. Leaves(new, kind)
      BY <2>1 DEF Leaves
    <3>2. \A i \in Kinds : i # kind => RetryOf(new, i) = RetryOf(stage[s], i)
      BY <1>4, <2>2
    <3> QED
      BY <1>2, <1>6, <2>1, <2>9, <3>1, <3>2, DecidesOthers
  <2> QED
    BY <2>8, <2>9 DEF Records
<1> QED
  BY <1>14, <1>15

\* Claiming or parking a stage neither asks for a review nor ends one.
LEMMA WorkRecords ==
    ASSUME TypeOK, Records, NEW s \in Stages, Takes(s) \/ Parks(s)
    PROVE  Records'
<1> SUFFICES ASSUME NEW t \in Stages, NEW k \in Kinds
             PROVE  Recorded(t, k)'
  BY DEF Records
<1>1. PICK new \in StageRow :
        /\ stage' = [stage EXCEPT ![s] = new]
        /\ \/ stage[s].status = "executing" /\ new.status = "blocked" /\ new.blocked = "publish"
           \/ stage[s].status \in {"pending", "planning"} /\ new.status = "planning"
           \/ stage[s].status = "executing" /\ new.status = "executing"
        /\ SameRetries(new, stage[s])
  BY DEF Takes, Parks
<1>2. stage'[t] = IF t = s THEN new ELSE stage[t]
  BY <1>1 DEF TypeOK
<1>3. Mine(t, k)' = Mine(t, k)
  BY DEF Takes, Parks, Mine
<1>4. Recorded(t, k)
  BY DEF Records
<1>5. CASE t # s
  BY <1>2, <1>3, <1>4, <1>5, OthersRecorded
<1>6. CASE t = s
  <2>1. RetryOf(stage'[s], k) = RetryOf(stage[s], k)
    BY <1>1, <1>2, <1>6 DEF SameRetries, RetryOf
  <2>2. stage'[s].status = ReviewOf(k) <=> stage[s].status = ReviewOf(k)
    BY <1>1, <1>2, <1>6 DEF ReviewOf
  <2>3. Past(s, k)' <=> Past(s, k)
    BY <1>1, <1>2, <1>6 DEF Past, DoneOf
  <2> QED
    BY <1>3, <1>4, <1>6, <2>1, <2>2, <2>3, RecordedKeeps
<1> QED
  BY <1>5, <1>6

\* What a resume does to one stage.
LEMMA ResumesRow ==
    ASSUME TypeOK, Resumes, NEW s \in Stages
    PROVE  \/ stage'[s] = stage[s] /\ (status = "blocked" => stage[s].status # "blocked")
           \/ /\ status = "blocked" /\ stage[s].status = "blocked"
              /\ stage'[s].status = IF stage[s].blocked \in {"deliverable", "publish"}
                                    THEN "executing" ELSE "planning"
              /\ stage'[s].plan = stage[s].plan /\ SameRetries(stage'[s], stage[s])
<1>1. stage[s] \in StageRow
  BY DEF TypeOK
<1>2. CASE ~(status = "blocked" /\ stage[s].status = "blocked")
  BY <1>2 DEF Resumes
<1>3. CASE status = "blocked" /\ stage[s].status = "blocked"
  <2>1. stage'[s] = [Unblocked(stage[s]) EXCEPT !.version = @ + 1]
    BY <1>3 DEF Resumes
  <2>2. Unblocked(stage[s]) \in StageRow
    BY <1>1, UnblockedType
  <2>3. LET new == Unblocked(stage[s]) IN
        /\ stage'[s].status = new.status /\ stage'[s].plan = new.plan
        /\ SameRetries(stage'[s], new)
    BY <2>1, <2>2, VersionOnly
  <2>4. LET new == Unblocked(stage[s]) IN
        /\ new.status = IF stage[s].blocked \in {"deliverable", "publish"}
                        THEN "executing" ELSE "planning"
        /\ new.plan = stage[s].plan /\ SameRetries(new, stage[s])
    BY <1>1 DEF Unblocked, StageRow, SameRetries
  <2> QED
    BY <1>3, <2>3, <2>4 DEF SameRetries
<1> QED
  BY <1>2, <1>3

\* A resume neither asks for a review nor ends one.
LEMMA ResumesRecords ==
    ASSUME TypeOK, Records, Resumes
    PROVE  Records'
<1> SUFFICES ASSUME NEW s \in Stages, NEW k \in Kinds
             PROVE  Recorded(s, k)'
  BY DEF Records
<1>1. Mine(s, k)' = Mine(s, k)
  BY DEF Resumes, Mine
<1>2. Recorded(s, k)
  BY DEF Records
<1>3. CASE stage'[s] = stage[s]
  BY <1>1, <1>2, <1>3, OthersRecorded
<1>4. CASE stage'[s] # stage[s]
  <2>1. /\ stage[s].status = "blocked"
        /\ stage'[s].status = IF stage[s].blocked \in {"deliverable", "publish"}
                              THEN "executing" ELSE "planning"
        /\ SameRetries(stage'[s], stage[s])
    BY <1>4, ResumesRow
  <2>2. RetryOf(stage'[s], k) = RetryOf(stage[s], k)
    BY <2>1 DEF SameRetries, RetryOf
  <2>3. stage'[s].status = ReviewOf(k) <=> stage[s].status = ReviewOf(k)
    BY <2>1 DEF ReviewOf
  <2>4. Past(s, k)' <=> Past(s, k)
    BY <2>1 DEF Past, DoneOf, Kinds
  <2> QED
    BY <1>1, <1>2, <2>2, <2>3, <2>4, RecordedKeeps
<1> QED
  BY <1>3, <1>4

\* Every effect on the rows keeps the records.
LEMMA EffectRecords ==
    ASSUME TypeOK, Records, Effect
    PROVE  Records'
<1>1. CASE Rests
  <2> SUFFICES ASSUME NEW s \in Stages, NEW k \in Kinds
               PROVE  Recorded(s, k)'
    BY DEF Records
  <2>1. Mine(s, k)' = Mine(s, k) /\ stage'[s] = stage[s] /\ Recorded(s, k)
    BY <1>1 DEF Rests, Mine, Records
  <2> QED
    BY <2>1, OthersRecorded
<1> QED
  BY <1>1, HandsInRecords, DecidesRecords, WorkRecords, ResumesRecords DEF Effect

\* Every effect leaves a reason with each parked stage.
LEMMA EffectParks ==
    ASSUME TypeOK, Parked, Effect
    PROVE  Parked'
<1> SUFFICES ASSUME NEW t \in Stages, stage'[t].status = "blocked"
             PROVE  stage'[t].blocked # "none"
  BY DEF Parked
<1>1. CASE stage'[t] = stage[t]
  BY <1>1 DEF Parked
<1>2. ASSUME NEW s \in Stages, Takes(s) \/ Parks(s)
      PROVE  stage'[t].blocked # "none"
  <2>1. PICK new \in StageRow :
          /\ stage' = [stage EXCEPT ![s] = new]
          /\ new.status = "blocked" => new.blocked = "publish"
    BY <1>2 DEF Takes, Parks
  <2>2. stage'[t] = IF t = s THEN new ELSE stage[t]
    BY <2>1 DEF TypeOK
  <2> QED
    BY <1>1, <2>1, <2>2
<1>3. ASSUME NEW s \in Stages, NEW kind \in Kinds, HandsIn(s, kind)
      PROVE  stage'[t].blocked # "none"
  <2>1. PICK new \in StageRow :
          /\ stage' = [stage EXCEPT ![s] = new]
          /\ new.status = IF kind \in Gates[s] THEN ReviewOf(kind) ELSE DoneOf(kind)
    BY <1>3 DEF HandsIn
  <2>2. stage'[t] = IF t = s THEN new ELSE stage[t]
    BY <2>1 DEF TypeOK
  <2>3. new.status # "blocked"
    BY <2>1 DEF ReviewOf, DoneOf
  <2> QED
    BY <1>1, <2>2, <2>3
<1>4. ASSUME NEW a \in approvals, NEW d \in Decisions, Decides(a, d)
      PROVE  stage'[t].blocked # "none"
  <2>1. PICK s \in Stages, kind \in Kinds : s = a.stage /\ kind = a.kind
    BY <1>4, DecidesMine
  <2>2. PICK row \in StageRow : row = stage[s]
    BY DEF TypeOK
  <2>3. PICK new : new = Voted(row, kind, d)
    OBVIOUS
  <2>4. stage'[t] = IF t = s THEN new ELSE stage[t]
    BY <1>4, <2>1, <2>2, <2>3 DEF Decides, UpdateStage, Voted, TypeOK
  <2>5. CASE d = "reject"
    <3>1. new = Voted(row, kind, "reject")
      BY <2>3, <2>5
    <3>2. SentBack(new, row, kind)
      BY <3>1, RejectWrites
    <3>3. new.status = "blocked" => new.blocked # "none"
      BY <3>2 DEF SentBack, WorkOf, Kinds
    <3> QED
      BY <1>1, <2>4, <3>3
  <2>6. CASE d # "reject"
    <3>1. d \in Decisions \ {"reject"}
      BY <2>6
    <3>2. new.status = DoneOf(kind)
      BY <2>3, <3>1, AcceptWrites, Zenon
    <3> QED
      BY <1>1, <2>4, <3>2 DEF DoneOf
  <2> QED
    BY <2>5, <2>6
<1>5. CASE Resumes
  BY <1>1, <1>5, ResumesRow
<1>6. CASE Rests
  BY <1>1, <1>6 DEF Rests
<1> QED
  BY <1>2, <1>3, <1>4, <1>5, <1>6 DEF Effect

(***************************************************************************)
(* The plan that is executed is the plan that was accepted.                *)
(***************************************************************************)

\* What Plans says of one stage.
PlanShown(s) ==
    /\ stage[s].status = "plan_review" =>
         \A a \in Mine(s, "plan") : a.status = "pending"
             => stage[s].plan = [by |-> a.content, edited |-> FALSE]
    /\ Past(s, "plan") => AcceptedPlan(s, stage[s].plan)

\* An acceptance is never taken back.
LEMMA AcceptedStays ==
    ASSUME Effect, NEW s, NEW text, AcceptedPlan(s, text)
    PROVE  AcceptedPlan(s, text)'
<1>1. ASSUME NEW c \in approvals, c.status \in {"approved", "edited"}
      PROVE  c \in approvals'
  <2>1. ASSUME NEW a \in approvals, NEW d \in Decisions, Decides(a, d)
        PROVE  c \in approvals'
    <3>1. a # c
      BY <1>1, <2>1 DEF Decides
    <3> QED
      BY <2>1, <3>1 DEF Decides
  <2> QED
    BY <2>1 DEF Effect, Rests, Resumes, Takes, Parks, HandsIn
<1> QED
  BY <1>1 DEF AcceptedPlan, Mine

\* A stage whose plan, place and requests stay shows the same plan.
LEMMA PlanKept ==
    ASSUME TypeOK, Plans, Effect, NEW s \in Stages, "plan" \in Gates[s],
           stage'[s].plan = stage[s].plan,
           Past(s, "plan")' => Past(s, "plan"),
           stage'[s].status = "plan_review" =>
               stage[s].status = "plan_review" /\ Mine(s, "plan")' = Mine(s, "plan")
    PROVE  PlanShown(s)'
<1>1. PlanShown(s)
  BY DEF Plans, PlanShown
<1>2. Past(s, "plan")' => AcceptedPlan(s, stage[s].plan)
  BY <1>1 DEF PlanShown
<1>3. PICK text : text = stage[s].plan
  OBVIOUS
<1>4. Past(s, "plan")' => AcceptedPlan(s, text)'
  BY <1>2, <1>3, AcceptedStays
<1>5. Past(s, "plan")' => AcceptedPlan(s, stage[s].plan)'
  BY <1>3, <1>4 DEF AcceptedPlan
<1> QED
  BY <1>1, <1>5 DEF PlanShown

\* Work on a stage keeps its plan, but for a plan that is handed in anew.
LEMMA WorkShowsPlan ==
    ASSUME TypeOK, Records, Plans, Effect, NEW s \in Stages, NEW t \in Stages, NEW kind \in Kinds,
           Takes(s) \/ Parks(s) \/ HandsIn(s, kind), "plan" \in Gates[t]
    PROVE  PlanShown(t)'
<1>1. PICK new \in StageRow :
        /\ stage' = [stage EXCEPT ![s] = new]
        /\ \/ stage[s].status = "executing" /\ new.status = "blocked" /\ new.plan = stage[s].plan
           \/ stage[s].status \in {"pending", "planning"} /\ new.status = "planning"
              /\ new.plan = stage[s].plan
           \/ stage[s].status = "executing" /\ new.status = "executing" /\ new.plan = stage[s].plan
           \/ /\ HandsIn(s, kind) /\ stage[s].status = WorkOf(kind)
              /\ new.status = IF kind \in Gates[s] THEN ReviewOf(kind) ELSE DoneOf(kind)
              /\ new.plan = IF kind = "plan" THEN [by |-> stage[s].attempt, edited |-> FALSE]
                            ELSE stage[s].plan
  BY DEF Takes, Parks, HandsIn
<1>2. stage'[t] = IF t = s THEN new ELSE stage[t]
  BY <1>1 DEF TypeOK
<1>3. CASE t # s
  <2>1. stage'[t] = stage[t] /\ Mine(t, "plan")' = Mine(t, "plan")
    BY <1>2, <1>3 DEF Takes, Parks, HandsIn, Handed, Mine
  <2> QED
    BY <2>1, PlanKept DEF Past
<1>4. CASE t = s /\ ~(HandsIn(s, kind) /\ kind = "plan")
  <2>1. stage'[s].plan = stage[s].plan /\ stage'[s].status # "plan_review"
    BY <1>1, <1>2, <1>4 DEF ReviewOf, DoneOf
  <2>2. Past(s, "plan")' => Past(s, "plan")
    BY <1>1, <1>2, <1>4 DEF Past, WorkOf, DoneOf, ReviewOf, Kinds
  <2> QED
    BY <1>4, <2>1, <2>2, PlanKept
<1>5. CASE t = s /\ HandsIn(s, kind) /\ kind = "plan"
  <2>1. "plan" \in Kinds /\ stage[s].status = WorkOf("plan")
    BY <1>5 DEF HandsIn, Kinds
  <2>2. PICK b : b = Handed(s, "plan") /\ b.content = stage[s].attempt
                 /\ approvals' = approvals \cup {b}
    BY <1>5 DEF HandsIn, Handed
  <2>3. \A a \in Mine(s, "plan") : a.status # "pending"
    BY <2>1, WorkIsFresh
  <2>4. \A a \in Mine(s, "plan")' : a.status = "pending" => a.content = stage[s].attempt
    BY <2>2, <2>3 DEF Mine
  <2>5. stage'[s].status = "plan_review"
    BY <1>2, <1>5 DEF HandsIn, ReviewOf, TypeOK
  <2>6. stage'[s].plan = [by |-> stage[s].attempt, edited |-> FALSE]
    BY <1>2, <1>5 DEF HandsIn, TypeOK
  <2>7. ~Past(s, "plan")'
    BY <2>5 DEF Past, DoneOf
  <2> QED
    BY <1>5, <2>4, <2>6, <2>7 DEF PlanShown
<1> QED
  BY <1>3, <1>4, <1>5

\* The plan after an acceptance is the one the approval row describes.
LEMMA DecidesShowsPlan ==
    ASSUME TypeOK, Records, Plans, Effect, NEW a \in approvals, NEW d \in Decisions, Decides(a, d),
           NEW t \in Stages, "plan" \in Gates[t]
    PROVE  PlanShown(t)'
<1>1. PICK s \in Stages, kind \in Kinds : s = a.stage /\ kind = a.kind
  BY DecidesMine
<1>2. PICK row \in StageRow : row = stage[s]
  BY DEF TypeOK
<1>3. PICK new : new = Voted(row, kind, d)
  OBVIOUS
<1>4. stage'[t] = IF t = s THEN new ELSE stage[t]
  BY <1>1, <1>2, <1>3 DEF Decides, UpdateStage, Voted, TypeOK
<1>5. row.status = ReviewOf(kind) /\ a.status = "pending" /\ a \in Mine(s, kind)
  BY <1>1, <1>2, DecidesMine DEF Decides
<1>6. CASE t # s
  <2>1. "plan" \in Kinds
    BY DEF Kinds
  <2>2. stage'[t] = stage[t] /\ Mine(t, "plan")' = Mine(t, "plan")
    BY <1>1, <1>4, <1>6, <2>1, DecidesMine
  <2> QED
    BY <2>2, PlanKept DEF Past
<1>7. CASE t = s /\ d = "reject"
  <2>1. new = Voted(row, kind, "reject")
    BY <1>3, <1>7
  <2>2. SentBack(new, row, kind) /\ new.plan = row.plan
    BY <2>1, RejectWrites
  <2>3. \/ new.status = "blocked" /\ new.blocked = kind
        \/ new.status = WorkOf(kind)
    BY <2>2 DEF SentBack
  <2>4. stage'[s].plan = stage[s].plan /\ stage'[s].status # "plan_review"
    BY <1>2, <1>4, <1>7, <2>2, <2>3 DEF WorkOf
  <2>5. Past(s, "plan")' => Past(s, "plan")
    BY <1>2, <1>4, <1>5, <1>7, <2>3 DEF Past, WorkOf, ReviewOf, DoneOf, Kinds
  <2> QED
    BY <1>7, <2>4, <2>5, PlanKept
<1>8. CASE t = s /\ d # "reject"
  <2>1. d \in Decisions \ {"reject"}
    BY <1>8
  <2>2. new.status = DoneOf(kind) /\ new.plan = PlanAfter(row, kind, d)
    BY <1>3, <2>1, AcceptWrites, Zenon
  <2>3. stage'[s].status # "plan_review"
    BY <1>4, <1>8, <2>2 DEF DoneOf
  <2>4. CASE kind # "plan"
    <3>1. stage'[s].plan = stage[s].plan
      BY <1>2, <1>4, <1>8, <2>2, <2>4 DEF PlanAfter
    <3>2. Past(s, "plan")
      BY <1>2, <1>5, <2>4 DEF Past, ReviewOf
    <3> QED
      BY <1>8, <2>3, <3>1, <3>2, PlanKept
  <2>5. CASE kind = "plan"
    <3>1. row.plan = [by |-> a.content, edited |-> FALSE]
      BY <1>2, <1>5, <1>8, <2>5 DEF Plans, ReviewOf
    <3>2. PICK b : /\ b.content = a.content
                   /\ b.status = IF d = "reject" THEN "rejected"
                                 ELSE IF d = "edit" THEN "edited" ELSE "approved"
                   /\ b \in Mine(s, kind)'
      <4>1. LET b == [a EXCEPT !.status = Verdict(d)] IN
              /\ b.content = a.content
              /\ b.status = IF d = "reject" THEN "rejected"
                            ELSE IF d = "edit" THEN "edited" ELSE "approved"
              /\ Mine(s, kind)' = (Mine(s, kind) \ {a}) \cup {b}
        BY <1>1, DecidesMine, Zenon
      <4> QED
        BY <4>1, Zenon
    <3>3. new.plan = [by |-> b.content, edited |-> b.status = "edited"]
      <4>1. row.plan.by = a.content
        BY <3>1
      <4>2. CASE d = "edit"
        <5>1. new.plan = [by |-> a.content, edited |-> TRUE]
          BY <2>2, <2>5, <4>1, <4>2, Zenon DEF PlanAfter
        <5>2. (b.status = "edited") = TRUE
          BY <3>2, <4>2
        <5> QED
          BY <3>2, <5>1, <5>2, Zenon
      <4>3. CASE d # "edit"
        <5>1. new.plan = [by |-> a.content, edited |-> FALSE]
          BY <2>2, <3>1, <4>3, Zenon DEF PlanAfter
        <5>2. (b.status = "edited") = FALSE
          BY <1>8, <3>2, <4>3
        <5> QED
          BY <3>2, <5>1, <5>2, Zenon
      <4> QED
        BY <4>2, <4>3
    <3>4. b.status \in {"approved", "edited"}
      BY <1>8, <3>2
    <3>5. stage'[s].plan = new.plan
      BY <1>4, <1>8
    <3> QED
      BY <1>8, <2>3, <2>5, <3>2, <3>3, <3>4, <3>5 DEF PlanShown, AcceptedPlan
  <2> QED
    BY <2>4, <2>5
<1> QED
  BY <1>6, <1>7, <1>8

\* Every effect keeps the plans that the rows show.
LEMMA EffectPlans ==
    ASSUME TypeOK, Records, Plans, Effect
    PROVE  Plans'
<1> SUFFICES ASSUME NEW t \in Stages, "plan" \in Gates[t]
             PROVE  PlanShown(t)'
  BY DEF Plans, PlanShown
<1>1. CASE Rests
  <2>1. stage'[t] = stage[t] /\ Mine(t, "plan")' = Mine(t, "plan")
    BY <1>1 DEF Rests, Mine
  <2> QED
    BY <2>1, PlanKept DEF Past
<1>2. CASE Resumes
  <2>1. Mine(t, "plan")' = Mine(t, "plan")
    BY <1>2 DEF Resumes, Mine
  <2>2. stage'[t].plan = stage[t].plan
    BY <1>2, ResumesRow
  <2>3. stage'[t].status = "plan_review" => stage[t].status = "plan_review"
    BY <1>2, ResumesRow
  <2>4. Past(t, "plan")' => Past(t, "plan")
    BY <1>2, ResumesRow DEF Past, DoneOf
  <2> QED
    BY <2>1, <2>2, <2>3, <2>4, PlanKept
<1>3. "plan" \in Kinds
  BY DEF Kinds
<1> QED
  BY <1>1, <1>2, <1>3, WorkShowsPlan, DecidesShowsPlan DEF Effect

\* Every copy of a plan is read from a row that shows it and kept as it was read.
LEMMA CopiesStep ==
    ASSUME TypeOK, Plans, PlanCopies, Effect, [Next]_vars
    PROVE  PlanCopies'
<1>1. Held /\ Kept
  BY RowsHeld, RowsKept
<1>2. ASSUME NEW p \in Instances, NEW s \in Stages, "plan" \in Gates[s],
             s \in rec'[p].todo, rec'[p].rows[s].status = "executing"
      PROVE  AcceptedPlan(s, rec[p].rows[s].plan)'
  <2>1. PICK row : row = rec'[p].rows[s]
    OBVIOUS
  <2>2. \/ s \in rec[p].todo /\ row = rec[p].rows[s]
        \/ row = stage[s]
    BY <1>1, <1>2, <2>1 DEF Held, HeldOrRead
  <2>3. row.status = "executing"
    BY <1>2, <2>1
  <2>4. AcceptedPlan(s, row.plan)
    BY <1>2, <2>2, <2>3 DEF PlanCopies, Plans, Past, DoneOf
  <2>5. PICK text : text = row.plan
    OBVIOUS
  <2>6. AcceptedPlan(s, text)'
    BY <2>4, <2>5, AcceptedStays
  <2> QED
    BY <2>1, <2>5, <2>6
<1>3. ASSUME NEW p \in Instances, NEW s \in Stages, "plan" \in Gates[s],
             job'[p][s].pc # "none", job'[p][s].mode = "deliverable"
      PROVE  AcceptedPlan(s, job[p][s].row.plan)'
  <2>1. PICK text : text = job'[p][s].row.plan
    OBVIOUS
  <2>2. CASE /\ job[p][s].pc # "none" /\ job'[p][s].row = job[p][s].row
             /\ job'[p][s].mode = job[p][s].mode
    <3>1. AcceptedPlan(s, text)
      BY <1>3, <2>1, <2>2 DEF PlanCopies
    <3> QED
      BY <2>1, <3>1, AcceptedStays
  <2>3. CASE Claim(p, s, "ok")
    <3> DEFINE row == rec[p].rows[s]
               j == [pc |-> FirstStep(s), row |-> Claimed(s, row), iter |-> 0,
                     mode |-> IF row.status = "executing" THEN "deliverable" ELSE "plan"]
    <3>1. job' = [job EXCEPT ![p][s] = j] /\ s \in rec[p].todo
      BY <2>3 DEF Claim
    <3>2. j.row = Claimed(s, row)
          /\ j.mode = IF row.status = "executing" THEN "deliverable" ELSE "plan"
      OBVIOUS
    <3> HIDE DEF j
    <3>3. job'[p][s] = j
      BY <3>1 DEF TypeOK
    <3>4. row \in StageRow
      BY DEF TypeOK, ReconcileState
    <3>5. Claimed(s, row).plan = row.plan
      BY <3>4 DEF Claimed, StageRow
    <3>6. row.status = "executing" /\ text = row.plan
      BY <1>3, <2>1, <3>2, <3>3, <3>5
    <3>7. AcceptedPlan(s, text)
      BY <1>3, <3>1, <3>6 DEF PlanCopies
    <3> QED
      BY <2>1, <3>7, AcceptedStays
  <2> QED
    BY <1>1, <1>3, <2>2, <2>3 DEF Kept, KeptOrClaimed
<1> QED
  BY <1>2, <1>3 DEF PlanCopies

(***************************************************************************)
(* The invariant, and what it says.                                        *)
(***************************************************************************)
History == Fence /\ Reached /\ Records /\ Parked /\ Plans /\ PlanCopies

\* The history is empty before the first process starts.
LEMMA HistoryInit == Init => History
<1> SUFFICES ASSUME Init PROVE History
  OBVIOUS
<1>1. Fence
  BY FenceInit
<1>2. \A p \in Instances, s \in Stages :
        rec[p].pc = "idle" /\ s \notin rec[p].todo /\ job[p][s].pc = "none"
  BY DEF Init, Idle, NoJob
<1>3. \A p \in Instances : rec[p].pc = "idle"
  BY DEF Init, Idle
<1>4. Reached
  BY <1>2, <1>3 DEF Reached, RecReached, JobReached, Init
<1>5. \A s \in Stages : /\ stage[s].status = "pending"
                        /\ stage[s].planRetry = 0 /\ stage[s].delRetry = 0
  BY DEF Init, NewRow
<1>6. ASSUME NEW s \in Stages, NEW kind \in Kinds
      PROVE  Recorded(s, kind) /\ ~Past(s, kind)
  <2>1. Mine(s, kind) = {}
    BY DEF Init, Mine
  <2>2. RetryOf(stage[s], kind) = 0 /\ stage[s].status # ReviewOf(kind) /\ ~Past(s, kind)
    BY <1>5 DEF RetryOf, ReviewOf, Past, DoneOf
  <2> QED
    BY <2>1, <2>2 DEF Recorded
<1>7. Records /\ Parked /\ Plans /\ PlanCopies
  BY <1>2, <1>5, <1>6 DEF Records, Parked, Plans, PlanCopies, Kinds
<1> QED
  BY <1>1, <1>4, <1>7 DEF History

\* Every step keeps the history.
LEMMA HistoryStep ==
    ASSUME History, [Next]_vars
    PROVE  History'
<1>1. TypeOK /\ Fence /\ Reached /\ Records /\ Parked /\ Plans /\ PlanCopies
  BY DEF History, Fence
<1>2. Effect
  BY <1>1, EveryStepEffect
<1>3. Fence' /\ Reached'
  BY <1>1, FenceStep, ReachedStep
<1> QED
  BY <1>1, <1>2, <1>3, EffectRecords, EffectParks, EffectPlans, CopiesStep DEF History

\* The records are the history that ReviewHistory speaks of.
LEMMA RecordsTell ==
    ASSUME TypeOK, Records
    PROVE  ReviewHistory
<1> SUFFICES ASSUME NEW s \in Stages, NEW kind \in Kinds
             PROVE  LET mine == Mine(s, kind)
                        now == RetryOf(stage[s], kind)
                    IN  /\ {a.retry : a \in {b \in mine : b.status = "rejected"}} = 0 .. now - 1
                        /\ \A a, b \in mine : a.retry = b.retry => a = b
                        /\ (stage[s].status = ReviewOf(kind))
                              <=> \E a \in mine : a.retry = now /\ a.status = "pending"
                        /\ (kind \in Gates[s] /\ Past(s, kind))
                              <=> \E a \in mine : a.retry = now /\ a.status \in {"approved", "edited"}
  BY DEF ReviewHistory, Mine
<1>1. PICK now \in Nat : now = RetryOf(stage[s], kind)
  BY RetryType
<1>2. PICK mine : mine = Mine(s, kind)
  OBVIOUS
<1>3. /\ \A n \in Nat : n < now <=> \E a \in mine : a.status = "rejected" /\ a.retry = n
      /\ \A a, b \in mine : a.retry = b.retry => a = b
      /\ \A a \in mine : a.status # "rejected" => a.retry = now
      /\ stage[s].status = ReviewOf(kind) <=> \E a \in mine : a.status = "pending"
      /\ (kind \in Gates[s] /\ Past(s, kind))
           <=> \E a \in mine : a.status \in {"approved", "edited"}
      /\ \A a \in mine : a.retry \in Nat
  BY <1>1, <1>2, RetryType DEF Records, Recorded
<1>4. {a.retry : a \in {b \in mine : b.status = "rejected"}} = 0 .. now - 1
  <2>1. \A n : n \in 0 .. now - 1 <=> n \in Nat /\ n < now
    OBVIOUS
  <2> QED
    BY <1>3, <2>1
<1>5. /\ (stage[s].status = ReviewOf(kind))
            <=> \E a \in mine : a.retry = now /\ a.status = "pending"
      /\ (kind \in Gates[s] /\ Past(s, kind))
            <=> \E a \in mine : a.retry = now /\ a.status \in {"approved", "edited"}
  BY <1>3
<1> QED
  BY <1>1, <1>2, <1>3, <1>4, <1>5

\* The approval rows are the history of the stage rows, whatever the processes
\* and their requests did in between: no review is lost, repeated or decided
\* twice.
THEOREM ReviewsAreRecorded == Spec => []ReviewHistory
<1>1. History => ReviewHistory
  BY RecordsTell DEF History, Fence
<1> QED
  BY <1>1, HistoryInit, HistoryStep, PTL DEF Spec

\* The unique indexes of the approval table never refuse a commit that passed
\* the fences.
THEOREM RetriesAreFresh == Spec => []RetryFresh
<1>1. ASSUME History
      PROVE  RetryFresh
  <2> SUFFICES ASSUME NEW p \in Instances, NEW s \in Stages,
                      job[p][s].pc = "commit", job[p][s].mode \in Gates[s],
                      Matches(s, job[p][s].row, job[p][s].row.status), NEW a \in approvals
               PROVE  ~Conflicts(a, Request(s, job[p][s]))
    BY DEF RetryFresh
  <2>1. PICK j \in JobState : j = job[p][s]
    BY <1>1 DEF History, Fence, TypeOK
  <2>2. /\ j.row.status = WorkOf(j.mode) /\ j.mode \in Kinds
        /\ j.row = stage[s] \/ j.row.version < stage[s].version
    BY <1>1, <2>1 DEF History, Fence, CopiesFenced, JobState
  <2>3. stage[s].version = j.row.version /\ j.row.version \in Nat
    BY <2>1 DEF Matches, JobState, StageRow
  <2>4. j.row = stage[s]
    BY <2>2, <2>3
  <2>5. a \in Approval
    BY <1>1 DEF History, Fence, TypeOK
  <2>6. /\ \A c \in Mine(s, j.mode) : c.retry < RetryOf(stage[s], j.mode) /\ c.retry \in Nat
        /\ \A k \in Kinds : \A c \in Mine(s, k) : c.status # "pending"
        /\ RetryOf(stage[s], j.mode) \in Nat
    BY <1>1, <2>2, <2>4, WorkIsFresh, RetryType DEF History, Fence
  <2>7. PICK r : r = Request(s, j)
    OBVIOUS
  <2>8. r.stage = s /\ r.kind = j.mode /\ r.retry = RetryOf(j.row, j.mode)
    BY <2>7 DEF Request
  <2>9. a.stage = s => a.status # "pending"
    BY <2>5, <2>6 DEF Mine, Approval
  <2>10. a.stage = s /\ a.kind = j.mode => a.retry # RetryOf(stage[s], j.mode)
    BY <2>6 DEF Mine
  <2>11. ~Conflicts(a, r)
    BY <2>4, <2>8, <2>9, <2>10 DEF Conflicts
  <2> QED
    BY <2>1, <2>7, <2>11
<1> QED
  BY <1>1, HistoryInit, HistoryStep, PTL DEF Spec

\* Where the pipeline asks for plan approval, every runner that executes, be it
\* late or current, executes a plan text that a reviewer accepted.
THEOREM AcceptedPlansRun == Spec => []ExecutesAcceptedPlan
<1>1. History => ExecutesAcceptedPlan
  BY DEF History, PlanCopies, AcceptedPlan, Mine, ExecutesAcceptedPlan
<1> QED
  BY <1>1, HistoryInit, HistoryStep, PTL DEF Spec

(***************************************************************************)
(* Every effect is a step of StageFlow.                                    *)
(***************************************************************************)
FlowNow == [s \in Stages |-> FlowOf(stage[s])]
Asked == {<<a.stage, a.kind, a.retry>> : a \in approvals}

\* Where a row stands in the flow.
LEMMA FlowOfRow ==
    ASSUME NEW row \in StageRow
    PROVE  LET f == FlowOf(row) IN
           /\ f = [status |-> f.status, plan |-> row.planRetry, deliverable |-> row.delRetry]
           /\ row.status # "blocked" => f.status = row.status
           /\ row.status = "blocked" =>
                f.status = IF row.blocked = "plan" THEN "plan_blocked" ELSE "work_blocked"
           /\ \A st \in StageStatuses \ {"blocked"} : f.status = st <=> row.status = st
BY DEF FlowOf, StageRow, StageStatuses

\* The two views of the rows agree: deriveTx computes the status of the diagram.
LEMMA ViewDerives ==
    ASSUME NEW rows \in [Stages -> StageRow], NEW f, f = [s \in Stages |-> FlowOf(rows[s])],
           ~Terminal(status), status \notin {"paused", "queued"}
    PROVE  Derive(status, rows) = Flow!View(f)
<1>1. \A s \in Stages : rows[s] \in StageRow /\ f[s] = FlowOf(rows[s])
  OBVIOUS
<1>2. \A s \in Stages : /\ \A st \in StageStatuses \ {"blocked"} : f[s].status = st <=> rows[s].status = st
                        /\ f[s].status \in {"plan_blocked", "work_blocked"} <=> rows[s].status = "blocked"
  BY <1>1 DEF FlowOf, StageRow, StageStatuses
<1>3. InReview(rows) <=> \E s \in Stages : f[s].status \in {"plan_review", "deliverable_review"}
  BY <1>2 DEF InReview, StageStatuses
<1>4. AllApproved(rows) <=> (Stages # {} /\ \A s \in Stages : f[s].status = "approved")
  BY <1>2 DEF AllApproved, StageStatuses
<1>5. Runnable(rows) <=>
        \/ \E s \in Stages : /\ f[s].status = "pending"
                             /\ \A d \in Deps[s] : f[d].status = "approved"
        \/ \E s \in Stages : f[s].status \in {"planning", "executing"}
  <2>1. \A s \in Stages : Deps[s] \subseteq Stages
    BY PipelineAssumption
  <2> QED
    BY <1>2, <2>1 DEF Runnable, Ready, StageStatuses
<1>6. HasBlocked(rows) <=> \E s \in Stages : f[s].status \in {"plan_blocked", "work_blocked"}
  BY <1>2 DEF HasBlocked
<1> QED
  BY <1>3, <1>4, <1>5, <1>6, Zenon DEF Derive, Flow!View

\* A transaction that derives the status lets the flow become what the rows say.
LEMMA DerivesBecomes ==
    ASSUME TypeOK, TypeOK', Derives
    PROVE  \A g : g = FlowNow' => Flow!Become(g)
<1>1. stage' \in [Stages -> StageRow]
  BY DEF TypeOK
<1> SUFFICES ASSUME NEW g, g = FlowNow' PROVE Flow!Become(g)
  OBVIOUS
<1>2. status' = IF status = "paused" THEN status ELSE Flow!View(g)
  <2>1. CASE status = "paused"
    BY <2>1 DEF Derives, Derive
  <2>2. CASE status # "paused"
    <3>1. status \notin {"paused", "queued"} /\ ~Terminal(status) /\ status' = Derive(status, stage')
      BY <2>2 DEF Derives, Begun
    <3>2. g = [s \in Stages |-> FlowOf(stage'[s])]
      BY DEF FlowNow
    <3> QED
      BY <1>1, <2>2, <3>1, <3>2, ViewDerives
  <2> QED
    BY <2>1, <2>2
<1> QED
  BY <1>2 DEF Flow!Become, FlowNow

\* Writing one row that keeps its retries moves one stage of the flow.
LEMMA FlowMoves ==
    ASSUME TypeOK, NEW s \in Stages, NEW new \in StageRow, Rewrites(s, new),
           SameRetries(new, stage[s]), NEW to, FlowOf(new).status = to
    PROVE  FlowNow' = Flow!Move(s, to)
<1>1. PICK old \in StageRow : old = stage[s]
  BY DEF TypeOK
<1>2. FlowOf(new) = [FlowOf(old) EXCEPT !.status = to]
  <2>1. FlowOf(new) = [status |-> to, plan |-> new.planRetry, deliverable |-> new.delRetry]
    BY DEF FlowOf
  <2>2. PICK st : FlowOf(old) = [status |-> st, plan |-> old.planRetry, deliverable |-> old.delRetry]
    BY DEF FlowOf
  <2>3. new.planRetry = old.planRetry /\ new.delRetry = old.delRetry
    BY <1>1 DEF SameRetries
  <2> QED
    BY <2>1, <2>2, <2>3
<1>3. \A t \in Stages : stage'[t] = IF t = s THEN new ELSE stage[t]
  BY DEF TypeOK, Rewrites
<1>4. PICK one : one = FlowOf(new)
  OBVIOUS
<1>5. FlowNow' = [t \in Stages |-> IF t = s THEN one ELSE FlowOf(stage[t])]
  BY <1>3, <1>4 DEF FlowNow
<1>6. Flow!Move(s, to) = [FlowNow EXCEPT ![s] = [FlowNow[s] EXCEPT !.status = to]]
  BY DEF Flow!Move, FlowNow
<1>7. FlowNow[s] = FlowOf(old) /\ FlowNow = [t \in Stages |-> FlowOf(stage[t])]
  BY <1>1 DEF FlowNow
<1>8. [FlowNow[s] EXCEPT !.status = to] = one
  BY <1>2, <1>4, <1>7, Zenon
<1>9. Flow!Move(s, to) = [FlowNow EXCEPT ![s] = one]
  BY <1>6, <1>8, Zenon
<1> QED
  BY <1>5, <1>7, <1>9

\* The flow and the reviews asked for, as StageFlow names them.
LEMMA FlowNames ==
    ASSUME NEW s \in Stages
    PROVE  /\ (Flow!Ended <=> Terminal(status))
           /\ \A kind \in Kinds : /\ Flow!Work(kind) = WorkOf(kind)
                                  /\ Flow!Review(kind) = ReviewOf(kind)
                                  /\ Flow!Onward(kind) = DoneOf(kind)
BY DEF Flow!Ended, Terminal, Flow!Work, WorkOf, Flow!Review, ReviewOf, Flow!Onward, DoneOf

\* A publisher that parks its stage takes the step Park.
LEMMA ParksFlow ==
    ASSUME TypeOK, TypeOK', NEW s \in Stages, Parks(s)
    PROVE  Flow!Park(s)
<1>1. PICK new \in StageRow :
        /\ Rewrites(s, new) /\ SameRetries(new, stage[s])
        /\ new.status = "blocked" /\ new.blocked = "publish"
  BY DEF Parks, Rewrites
<1>2. FlowOf(new).status = "work_blocked"
  BY <1>1 DEF FlowOf
<1>3. FlowNow' = Flow!Move(s, "work_blocked")
  BY <1>1, <1>2, FlowMoves
<1>4. Flow!Become(Flow!Move(s, "work_blocked"))
  BY <1>3, DerivesBecomes DEF Parks
<1>5. FlowNow[s].status = "executing"
  BY DEF Parks, FlowNow, FlowOf
<1>6. ~Flow!Ended
  BY FlowNames DEF Parks, Derives
<1>7. Asked' = Asked
  BY DEF Parks, Asked
<1> QED
  BY <1>4, <1>5, <1>6, <1>7 DEF Flow!Park, FlowNow, Asked

\* A claim begins a pending stage and is invisible otherwise.
LEMMA TakesFlow ==
    ASSUME TypeOK, NEW s \in Stages, Takes(s)
    PROVE  Flow!Begin(s) \/ UNCHANGED <<status, FlowNow, Asked>>
<1>1. PICK new \in StageRow :
        /\ Rewrites(s, new) /\ SameRetries(new, stage[s])
        /\ new.status = IF stage[s].status = "executing" THEN "executing" ELSE "planning"
  BY DEF Takes, Rewrites
<1>2. PICK to : to = new.status
  OBVIOUS
<1>3. FlowOf(new).status = to
  BY <1>1, <1>2 DEF FlowOf
<1>4. FlowNow' = Flow!Move(s, to)
  BY <1>1, <1>3, FlowMoves
<1>5. Asked' = Asked /\ status' = status
  BY DEF Takes, Asked
<1>6. stage[s] \in StageRow /\ FlowNow[s] = FlowOf(stage[s])
  BY DEF TypeOK, FlowNow
<1>7. CASE stage[s].status = "pending"
  <2>1. status \in {"running", "waiting_approval"}
    BY DEF Takes, Halted, Terminal, Begun, TypeOK, AnyStatus, TaskStatuses
  <2>2. FlowNow[s].status = "pending" /\ to = "planning"
    BY <1>1, <1>2, <1>6, <1>7 DEF FlowOf
  <2>3. \A d \in Deps[s] : FlowNow[d].status = "approved"
    <3>1. Ready(s, stage) /\ Deps[s] \subseteq Stages
      BY <1>7, PipelineAssumption DEF Takes
    <3> QED
      BY <3>1 DEF Ready, FlowNow, FlowOf
  <2> QED
    BY <1>4, <1>5, <2>1, <2>2, <2>3 DEF Flow!Begin, FlowNow, Asked
<1>8. CASE stage[s].status # "pending"
  <2>1. to = stage[s].status
    BY <1>1, <1>2, <1>8 DEF Takes
  <2>2. PICK old \in StageRow : old = stage[s]
    BY <1>6
  <2>3. FlowOf(new) = FlowOf(old)
    BY <1>1, <1>2, <2>1, <2>2 DEF FlowOf, SameRetries, Takes
  <2>4. \A t \in Stages : stage'[t] = IF t = s THEN new ELSE stage[t]
    BY <1>1 DEF TypeOK, Rewrites
  <2>5. \A t \in Stages : FlowOf(stage'[t]) = FlowOf(stage[t])
    BY <2>2, <2>3, <2>4
  <2>6. FlowNow' = FlowNow
    BY <2>5 DEF FlowNow
  <2> QED
    BY <1>5, <2>6
<1> QED
  BY <1>7, <1>8

\* The counters of the flow are the retries of the rows.
LEMMA FlowCounts ==
    ASSUME TypeOK, NEW s \in Stages
    PROVE  /\ FlowNow[s] = FlowOf(stage[s])
           /\ \A kind \in Kinds : FlowNow[s][kind] = RetryOf(stage[s], kind)
           /\ \A st \in StageStatuses \ {"blocked"} :
                stage[s].status = st => FlowNow[s].status = st
<1>1. FlowNow[s] = FlowOf(stage[s])
  BY DEF FlowNow
<1>2. PICK st, n, m : /\ FlowOf(stage[s]) = [status |-> st, plan |-> n, deliverable |-> m]
                      /\ n = stage[s].planRetry /\ m = stage[s].delRetry
  BY DEF FlowOf
<1>3. \A kind \in Kinds : FlowNow[s][kind] = RetryOf(stage[s], kind)
  BY <1>1, <1>2 DEF Kinds, RetryOf
<1>4. \A to \in StageStatuses \ {"blocked"} :
         stage[s].status = to => FlowNow[s].status = to
  BY <1>1 DEF FlowOf
<1> QED
  BY <1>1, <1>3, <1>4

\* A phase that hands in its result takes the step Submit: the review that a
\* gated phase asks for was not asked for before.
LEMMA HandsInFlow ==
    ASSUME TypeOK, TypeOK', Records, NEW s \in Stages, NEW kind \in Kinds, HandsIn(s, kind)
    PROVE  Flow!Submit(s, kind)
<1>1. PICK new \in StageRow :
        /\ Rewrites(s, new) /\ SameRetries(new, stage[s])
        /\ new.status = IF kind \in Gates[s] THEN ReviewOf(kind) ELSE DoneOf(kind)
  BY DEF HandsIn, Rewrites
<1>2. PICK to : to = new.status
  OBVIOUS
<1>3. FlowOf(new).status = to
  BY <1>1, <1>2 DEF FlowOf, ReviewOf, DoneOf
<1>4. FlowNow' = Flow!Move(s, to)
  BY <1>1, <1>3, FlowMoves
<1>5. Flow!Become(Flow!Move(s, to))
  BY <1>4, DerivesBecomes DEF HandsIn
<1>6. ~Flow!Ended
  BY FlowNames DEF HandsIn, Derives
<1>7. FlowNow[s].status = Flow!Work(kind)
  <2>1. WorkOf(kind) \in StageStatuses \ {"blocked"} /\ stage[s].status = WorkOf(kind)
    BY DEF WorkOf, StageStatuses, HandsIn
  <2> QED
    BY <2>1, FlowCounts, FlowNames
<1>8. PICK n \in Nat : n = RetryOf(stage[s], kind)
  BY RetryType
<1>9. FlowNow[s][kind] = n
  BY <1>8, FlowCounts
<1>10. CASE kind \in Gates[s]
  <2>1. to = Flow!Review(kind)
    BY <1>1, <1>2, <1>10, FlowNames
  <2>2. <<s, kind, n>> \notin Asked
    <3>1. SUFFICES ASSUME NEW a \in approvals, <<a.stage, a.kind, a.retry>> = <<s, kind, n>>
                   PROVE  FALSE
      BY DEF Asked
    <3>2. a \in Mine(s, kind) /\ a.retry = n
      BY <3>1 DEF Mine
    <3>3. a.retry < n
      BY <1>8, <3>2, WorkIsFresh DEF HandsIn
    <3> QED
      BY <3>2, <3>3
  <2>3. Asked' = Asked \cup {<<s, kind, n>>}
    <3>1. PICK h : h = Handed(s, kind)
      OBVIOUS
    <3>2. approvals' = approvals \cup {h}
      BY <1>10, <3>1 DEF HandsIn
    <3>3. h.stage = s /\ h.kind = kind /\ h.retry = n
      BY <1>8, <3>1 DEF Handed
    <3> QED
      BY <3>2, <3>3 DEF Asked
  <2> QED
    BY <1>5, <1>6, <1>7, <1>9, <1>10, <2>1, <2>2, <2>3 DEF Flow!Submit, FlowNow, Asked
<1>11. CASE kind \notin Gates[s]
  <2>1. to = Flow!Onward(kind)
    BY <1>1, <1>2, <1>11, FlowNames
  <2>2. Asked' = Asked
    BY <1>11 DEF HandsIn, Asked
  <2> QED
    BY <1>5, <1>6, <1>7, <1>11, <2>1, <2>2 DEF Flow!Submit, FlowNow, Asked
<1> QED
  BY <1>10, <1>11

\* A decision asks for nothing new.
LEMMA DecidesAsked ==
    ASSUME TypeOK, NEW a \in approvals, NEW d \in Decisions, Decides(a, d)
    PROVE  Asked' = Asked
<1>1. PICK b : b = [a EXCEPT !.status = Verdict(d)]
  OBVIOUS
<1>2. a \in Approval
  BY DEF TypeOK
<1>3. b.stage = a.stage /\ b.kind = a.kind /\ b.retry = a.retry
  BY <1>1, <1>2 DEF Approval
<1>4. approvals' = (approvals \ {a}) \cup {b}
  BY <1>1 DEF Decides
<1> QED
  BY <1>3, <1>4 DEF Asked

\* A stage of the flow, with its two counters.
FlowRow(st, n1, n2) == [status |-> st, plan |-> n1, deliverable |-> n2]

\* Of the counters n1 and n2 the one of this kind becomes m.
Counts(kind, m, n1, n2, m1, m2) ==
    \/ kind = "plan" /\ m1 = m /\ m2 = n2
    \/ kind = "deliverable" /\ m1 = n1 /\ m2 = m

\* Updating one counter and the status of a stage of the flow.
LEMMA OneCounted ==
    ASSUME NEW kind \in Kinds, NEW f, NEW st, NEW n1, NEW n2, NEW m, NEW m1, NEW m2, NEW to,
           NEW one, f = FlowRow(st, n1, n2), one = FlowRow(to, m1, m2),
           Counts(kind, m, n1, n2, m1, m2)
    PROVE  [f EXCEPT ![kind] = m, !.status = to] = one
<1>1. PICK g : g = [f EXCEPT ![kind] = m, !.status = to]
  OBVIOUS
<1>2. DOMAIN f = {"status", "plan", "deliverable"} /\ DOMAIN one = DOMAIN f
  BY DEF FlowRow
<1>3. DOMAIN g = DOMAIN f /\ \A x \in DOMAIN g : g[x] = one[x]
  <2>1. CASE kind = "plan"
    <3>1. one.status = to /\ one.plan = m /\ one.deliverable = n2
      BY <2>1 DEF FlowRow, Counts
    <3>2. g = [f EXCEPT !.plan = m, !.status = to]
      BY <1>1, <2>1
    <3>3. DOMAIN g = DOMAIN f /\ g.status = to /\ g.plan = m /\ g.deliverable = n2
      BY <1>2, <3>2 DEF FlowRow
    <3> QED
      BY <1>2, <3>1, <3>3
  <2>2. CASE kind = "deliverable"
    <3>1. one.status = to /\ one.plan = n1 /\ one.deliverable = m
      BY <2>2 DEF FlowRow, Counts
    <3>2. g = [f EXCEPT !.deliverable = m, !.status = to]
      BY <1>1, <2>2
    <3>3. DOMAIN g = DOMAIN f /\ g.status = to /\ g.plan = n1 /\ g.deliverable = m
      BY <1>2, <3>2 DEF FlowRow
    <3> QED
      BY <1>2, <3>1, <3>3
  <2> QED
    BY <2>1, <2>2 DEF Kinds
<1>4. g = [x \in DOMAIN g |-> g[x]] /\ one = [x \in DOMAIN one |-> one[x]]
  BY <1>1 DEF FlowRow
<1>5. g = one
  BY <1>2, <1>3, <1>4
<1> QED
  BY <1>1, <1>5

\* A rejection changes one stage of the flow: it counts, and goes back or parks.
LEMMA RejectMoves ==
    ASSUME TypeOK, NEW s \in Stages, NEW kind \in Kinds, NEW row \in StageRow, row = stage[s],
           NEW new, new = Voted(row, kind, "reject"), Rewrites(s, new)
    PROVE  FlowNow' = [FlowNow EXCEPT ![s] =
                [FlowNow[s] EXCEPT ![kind] = @ + 1,
                                   !.status = IF FlowNow[s][kind] + 1 >= MaxRetries
                                              THEN Flow!Parked(kind) ELSE Flow!Work(kind)]]
<1>1. /\ new \in StageRow /\ SentBack(new, row, kind)
      /\ \A k \in Kinds : RetryOf(new, k) =
           IF k = kind THEN RetryOf(row, k) + 1 ELSE RetryOf(row, k)
  BY RejectWrites
<1>2. PICK n \in Nat : n = RetryOf(row, kind) /\ FlowNow[s][kind] = n
  BY RetryType, FlowCounts
<1>3. PICK to : to = IF n + 1 >= MaxRetries THEN Flow!Parked(kind) ELSE Flow!Work(kind)
  OBVIOUS
<1>4. FlowOf(new).status = to
  BY <1>1, <1>2, <1>3 DEF SentBack, FlowOf, Flow!Parked, Flow!Work, WorkOf, Kinds
<1>5. PICK one : one = FlowOf(new)
  OBVIOUS
<1>6. one = [status |-> to, plan |-> RetryOf(new, "plan"), deliverable |-> RetryOf(new, "deliverable")]
  BY <1>4, <1>5 DEF FlowOf, RetryOf
<1>7. PICK st : FlowNow[s] = [status |-> st, plan |-> RetryOf(row, "plan"),
                              deliverable |-> RetryOf(row, "deliverable")]
  BY DEF FlowNow, FlowOf, RetryOf
<1>8. [FlowNow[s] EXCEPT ![kind] = @ + 1, !.status = to] = one
  <2>1. PICK n1, n2 : n1 = RetryOf(row, "plan") /\ n2 = RetryOf(row, "deliverable")
    OBVIOUS
  <2>2. PICK f : f = FlowNow[s]
    OBVIOUS
  <2>3. f = FlowRow(st, n1, n2)
    BY <1>7, <2>1, <2>2 DEF FlowRow
  <2>4. PICK m : m = n + 1
    OBVIOUS
  <2>5. f[kind] + 1 = m
    BY <1>2, <2>2, <2>4
  <2>6. PICK m1, m2 : one = FlowRow(to, m1, m2) /\ Counts(kind, m, n1, n2, m1, m2)
    BY <1>1, <1>2, <1>6, <2>1, <2>4 DEF Kinds, FlowRow, Counts
  <2>7. [f EXCEPT ![kind] = m, !.status = to] = one
    BY <2>3, <2>6, OneCounted, ZenonT(60)
  <2> QED
    BY <2>2, <2>5, <2>7, Zenon
<1>9. \A t \in Stages : stage'[t] = IF t = s THEN new ELSE stage[t]
  BY DEF TypeOK, Rewrites
<1>10. FlowNow' = [FlowNow EXCEPT ![s] = one]
  BY <1>5, <1>9 DEF FlowNow
<1>11. to = IF FlowNow[s][kind] + 1 >= MaxRetries THEN Flow!Parked(kind) ELSE Flow!Work(kind)
  BY <1>2, <1>3
<1> QED
  BY <1>8, <1>10, <1>11, Zenon

\* A decision takes the step Reject or Accept.
LEMMA DecidesFlow ==
    ASSUME TypeOK, TypeOK', NEW a \in approvals, NEW d \in Decisions, Decides(a, d)
    PROVE  \E s \in Stages, kind \in Kinds : Flow!Accept(s, kind) \/ Flow!Reject(s, kind)
<1>1. PICK s \in Stages, kind \in Kinds : s = a.stage /\ kind = a.kind
  BY DecidesMine
<1>2. PICK row \in StageRow : row = stage[s]
  BY DEF TypeOK
<1>3. PICK new : new = Voted(row, kind, d)
  OBVIOUS
<1>4. Rewrites(s, new)
  BY <1>1, <1>2, <1>3 DEF Decides, UpdateStage, Voted, Rewrites
<1>5. ~Flow!Ended
  BY FlowNames DEF Decides, Derives
<1>6. FlowNow[s].status = Flow!Review(kind)
  <2>1. ReviewOf(kind) \in StageStatuses \ {"blocked"} /\ stage[s].status = ReviewOf(kind)
    BY <1>1 DEF ReviewOf, StageStatuses, Decides
  <2> QED
    BY <2>1, FlowCounts, FlowNames
<1>7. Asked' = Asked
  BY DecidesAsked
<1>8. CASE d = "reject"
  <2>1. new = Voted(row, kind, "reject")
    BY <1>3, <1>8
  <2>2. PICK g : g = [FlowNow EXCEPT ![s] =
                [FlowNow[s] EXCEPT ![kind] = @ + 1,
                                   !.status = IF FlowNow[s][kind] + 1 >= MaxRetries
                                              THEN Flow!Parked(kind) ELSE Flow!Work(kind)]]
    OBVIOUS
  <2>3. FlowNow' = g
    BY <1>2, <1>4, <2>1, <2>2, RejectMoves, Zenon
  <2>4. Flow!Become(g)
    BY <2>3, DerivesBecomes DEF Decides
  <2>5. Flow!Reject(s, kind)
    BY <1>5, <1>6, <1>7, <2>2, <2>4, Zenon DEF Flow!Reject, FlowNow, Asked
  <2> QED
    BY <2>5
<1>9. CASE d # "reject"
  <2>1. /\ new \in StageRow /\ new.status = DoneOf(kind) /\ SameRetries(new, row)
    <3>1. d \in Decisions \ {"reject"}
      BY <1>9
    <3> QED
      BY <1>3, <3>1, AcceptWrites, Zenon
  <2>2. FlowOf(new).status = Flow!Onward(kind)
    BY <2>1, FlowNames DEF FlowOf, DoneOf
  <2>3. FlowNow' = Flow!Move(s, Flow!Onward(kind))
    BY <1>2, <1>4, <2>1, <2>2, FlowMoves
  <2>4. Flow!Become(Flow!Move(s, Flow!Onward(kind)))
    BY <2>3, DerivesBecomes DEF Decides
  <2>5. Flow!Accept(s, kind)
    BY <1>5, <1>6, <1>7, <2>4 DEF Flow!Accept, FlowNow, Asked
  <2> QED
    BY <2>5
<1> QED
  BY <1>8, <1>9

\* A resume takes the step Resume: why a stage was parked decides where it
\* returns to.
LEMMA ResumesFlow ==
    ASSUME TypeOK, TypeOK', Parked, Resumes
    PROVE  Flow!Resume
<1>1. status \in {"paused", "blocked"} /\ status' = "running" /\ Asked' = Asked
  BY DEF Resumes, Asked
<1>2. CASE status = "paused"
  <2>1. \A s \in Stages : stage'[s] = stage[s]
    BY <1>2, ResumesRow
  <2>2. FlowNow' = FlowNow
    BY <2>1 DEF FlowNow
  <2> QED
    BY <1>1, <1>2, <2>2 DEF Flow!Resume, FlowNow, Asked
<1>3. CASE status = "blocked"
  <2> DEFINE Back(f) == [f EXCEPT !.status = CASE @ = "plan_blocked" -> "planning"
                                               [] @ = "work_blocked" -> "executing"
                                               [] OTHER -> @]
  <2>1. ASSUME NEW s \in Stages
        PROVE  FlowOf(stage'[s]) = Back(FlowNow[s])
    <3>1. PICK old \in StageRow : old = stage[s]
      BY DEF TypeOK
    <3>2. PICK new \in StageRow : new = stage'[s]
      BY DEF TypeOK
    <3>3. FlowNow[s] = FlowOf(old)
      BY <3>1, FlowCounts
    <3>4. PICK st, to : st = FlowOf(old).status /\ to = FlowOf(new).status
      OBVIOUS
    <3>5. /\ FlowOf(old) = [status |-> st, plan |-> old.planRetry, deliverable |-> old.delRetry]
          /\ FlowOf(new) = [status |-> to, plan |-> new.planRetry, deliverable |-> new.delRetry]
      BY <3>4 DEF FlowOf
    <3>6. CASE old.status # "blocked"
      <4>1. new = old
        BY <3>1, <3>2, <3>6, ResumesRow
      <4>2. st \notin {"plan_blocked", "work_blocked"} /\ to = st
        BY <3>4, <3>6, <4>1 DEF FlowOf, StageRow, StageStatuses
      <4> QED
        BY <3>2, <3>3, <3>5, <4>1, <4>2
    <3>7. CASE old.status = "blocked"
      <4>1. /\ new.status = IF old.blocked \in {"deliverable", "publish"}
                            THEN "executing" ELSE "planning"
            /\ new.planRetry = old.planRetry /\ new.delRetry = old.delRetry
        BY <1>3, <3>1, <3>2, <3>7, ResumesRow DEF SameRetries
      <4>2. old.blocked \in {"plan", "deliverable", "publish"}
        BY <3>1, <3>7 DEF Parked, StageRow, Kinds
      <4>3. /\ st = IF old.blocked = "plan" THEN "plan_blocked" ELSE "work_blocked"
            /\ to = IF old.blocked = "plan" THEN "planning" ELSE "executing"
        BY <3>4, <3>7, <4>1, <4>2 DEF FlowOf
      <4> QED
        BY <3>2, <3>3, <3>5, <4>1, <4>3
    <3> QED
      BY <3>6, <3>7
  <2>2. FlowNow' = [s \in Stages |-> Back(FlowNow[s])]
    BY <2>1 DEF FlowNow
  <2> QED
    BY <1>1, <1>3, <2>2, Zenon DEF Flow!Resume, FlowNow, Asked
<1> QED
  BY <1>1, <1>2, <1>3

\* A step that leaves the rows alone moves the task as a request, a failure or
\* Settle does, or not at all.
LEMMA RestsFlow ==
    ASSUME TypeOK, Rests
    PROVE  \/ UNCHANGED <<status, FlowNow, Asked>>
           \/ Flow!Create \/ Flow!Start \/ Flow!Pause \/ Flow!Settle \/ Flow!Stop
<1>1. FlowNow' = FlowNow /\ Asked' = Asked
  BY DEF Rests, FlowNow, Asked
<1>2. CASE status' = status
  BY <1>1, <1>2
<1>3. CASE status = "none" /\ status' = "queued"
  BY <1>1, <1>3 DEF Flow!Create, FlowNow, Asked
<1>4. CASE status = "queued" /\ status' = "running"
  BY <1>1, <1>4 DEF Flow!Start, FlowNow, Asked
<1>5. CASE status \in {"running", "waiting_approval"} /\ status' = "paused"
  BY <1>1, <1>5 DEF Flow!Pause, FlowNow, Asked
<1>6. CASE status # "none" /\ ~Terminal(status) /\ status' \in {"failed", "cancelled"}
  BY <1>1, <1>6, PipelineAssumption DEF Flow!Stop, Flow!Ended, Terminal, FlowNow, Asked
<1>7. CASE Begun /\ status' = Derive(status, stage)
  <2>1. CASE Terminal(status) \/ status = "paused"
    BY <1>1, <1>7, <2>1 DEF Derive
  <2>2. CASE ~Terminal(status) /\ status # "paused"
    <3>1. status \in {"running", "waiting_approval", "blocked"}
      BY <1>7, <2>2 DEF Begun, Terminal, TypeOK, AnyStatus, TaskStatuses
    <3>2. stage \in [Stages -> StageRow] /\ FlowNow = [s \in Stages |-> FlowOf(stage[s])]
      BY DEF TypeOK, FlowNow
    <3>3. status \notin {"paused", "queued"}
      BY <3>1
    <3>4. status' = Flow!View(FlowNow)
      BY <1>7, <2>2, <3>2, <3>3, ViewDerives
    <3> QED
      BY <1>1, <3>1, <3>4 DEF Flow!Settle, FlowNow, Asked
  <2> QED
    BY <2>1, <2>2
<1> QED
  BY <1>2, <1>3, <1>4, <1>5, <1>6, <1>7 DEF Rests

\* Every step of the orchestrator is a step of the flow or none.
LEMMA FlowStep ==
    ASSUME TypeOK, TypeOK', Records, Parked, Effect
    PROVE  Flow!FlowNext \/ UNCHANGED <<status, FlowNow, Asked>>
<1>1. CASE Rests
  BY <1>1, RestsFlow DEF Flow!FlowNext
<1>2. CASE Resumes
  BY <1>2, ResumesFlow DEF Flow!FlowNext
<1>3. ASSUME NEW s \in Stages, Takes(s)
      PROVE  Flow!FlowNext \/ UNCHANGED <<status, FlowNow, Asked>>
  BY <1>3, TakesFlow DEF Flow!FlowNext
<1>4. ASSUME NEW s \in Stages, Parks(s)
      PROVE  Flow!FlowNext
  BY <1>4, ParksFlow DEF Flow!FlowNext
<1>5. ASSUME NEW s \in Stages, NEW kind \in Kinds, HandsIn(s, kind)
      PROVE  Flow!FlowNext
  BY <1>5, HandsInFlow DEF Flow!FlowNext, Kinds
<1>6. ASSUME NEW a \in approvals, NEW d \in Decisions, Decides(a, d)
      PROVE  Flow!FlowNext
  BY <1>6, DecidesFlow DEF Flow!FlowNext, Kinds
<1> QED
  BY <1>1, <1>2, <1>3, <1>4, <1>5, <1>6 DEF Effect

\* Crashes, overlapping processes, stale runners, lost acknowledgements and
\* re-runs are invisible in the flow of a task: for every pipeline, any number
\* of processes and any bounds, the orchestrator implements StageFlow.
THEOREM FlowIsImplemented == Spec => ImplementsFlow
<1>1. Init => Flow!FlowInit
  <2>1. FlowOf(NewRow) = [status |-> "pending", plan |-> 0, deliverable |-> 0]
    BY DEF FlowOf, NewRow
  <2> QED
    BY <2>1 DEF Init, Flow!FlowInit
<1>2. History /\ History' /\ [Next]_vars => [Flow!FlowNext]_(Flow!flowVars)
  <2> SUFFICES ASSUME History, History', [Next]_vars
               PROVE  [Flow!FlowNext]_(Flow!flowVars)
    OBVIOUS
  <2>1. TypeOK /\ TypeOK'
    BY DEF History, Fence
  <2>2. Effect
    BY EveryStepEffect DEF History
  <2>3. Flow!FlowNext \/ UNCHANGED <<status, FlowNow, Asked>>
    BY <2>1, <2>2, FlowStep DEF History
  <2> QED
    BY <2>3 DEF Flow!flowVars, FlowNow, Asked
<1>3. Spec => []History
  BY HistoryInit, HistoryStep, PTL DEF Spec
<1> QED
  BY <1>1, <1>2, <1>3, PTL DEF Spec, ImplementsFlow, Flow!FlowSpec

(***************************************************************************)
(* Who works on a stage, and what the calls cost.                          *)
(***************************************************************************)

\* The runner has not yet stored its result, failed or returned.
Works(p, s) == job[p][s].pc \in {"check", "call", "publish", "commit", "block"}

\* A Reconcile claims no stage that taskRun.running holds.
Unclaimed ==
    \A p \in Instances, s \in Stages : s \in rec[p].todo => job[p][s].pc = "none"

\* A runner's attempt is one that was claimed, and by no other process.
Attempts ==
    \A p \in Instances, s \in Stages : job[p][s].pc # "none" =>
        /\ job[p][s].row.attempt <= stage[s].attempt
        /\ \A q \in Instances :
             job[q][s].pc # "none" /\ job[q][s].row.attempt = job[p][s].row.attempt => q = p

\* What a step does to one runner: nothing that matters, an end, a move to
\* another step of its work, a check of the budget that passes, or a claim.
RunnerMoves(q, t) ==
    \/ job'[q][t].pc = job[q][t].pc
    \/ job'[q][t].pc \in {"none", "exit", "fail"}
    \/ Works(q, t) /\ job'[q][t].pc # "call"
    \/ Works(q, t) /\ job[q][t].pc # "call" /\ used < budget /\ used' = used
    \/ Claim(q, t, "ok")

\* Every step moves each runner in one of these ways.
LEMMA EveryRunnerMoves ==
    ASSUME TypeOK, [Next]_vars, NEW q \in Instances, NEW t \in Stages
    PROVE  RunnerMoves(q, t)
<1>1. ASSUME job' = job
      PROVE  RunnerMoves(q, t)
  BY <1>1 DEF RunnerMoves
<1>2. ASSUME NEW p \in Instances, NEW s \in Stages, NEW j, job' = [job EXCEPT ![p][s] = j]
      PROVE  job'[q][t] = job[q][t] \/ (q = p /\ t = s /\ job'[q][t] = j)
  BY <1>2 DEF TypeOK
<1>3. ASSUME NEW p \in Instances, NEW s \in Stages, NEW pc, Goto(p, s, pc)
      PROVE  job'[q][t] = job[q][t] \/ (q = p /\ t = s /\ job'[q][t].pc = pc)
  <2> DEFINE j == [job[p][s] EXCEPT !.pc = pc]
  <2>1. job[p][s] \in JobState
    BY DEF TypeOK
  <2>2. j.pc = pc
    BY <2>1 DEF JobState
  <2>3. job' = [job EXCEPT ![p][s] = j]
    BY <1>3 DEF Goto
  <2> HIDE DEF j
  <2> QED
    BY <1>2, <2>2, <2>3
<1>4. ASSUME NEW p \in Instances, NEW s \in Stages, CallModel(p, s)
      PROVE  RunnerMoves(q, t)
  <2> DEFINE j == [job[p][s] EXCEPT !.pc = "check", !.iter = @ + 1]
  <2>1. job[p][s] \in JobState /\ job[p][s].pc = "call"
    BY <1>4 DEF TypeOK, CallModel, At
  <2>2. j.pc = "check"
    BY <2>1 DEF JobState
  <2>3. Goto(p, s, "exit") \/ Goto(p, s, "commit") \/ job' = [job EXCEPT ![p][s] = j]
    BY <1>4 DEF CallModel
  <2> HIDE DEF j
  <2>4. \/ job'[q][t] = job[q][t]
        \/ q = p /\ t = s /\ job'[q][t].pc \in {"exit", "commit", "check"}
    BY <1>2, <1>3, <2>2, <2>3
  <2> QED
    BY <2>1, <2>4 DEF RunnerMoves, Works
<1>5. ASSUME NEW p \in Instances, NEW s \in Stages, NEW o, CheckBudget(p, s, o)
      PROVE  RunnerMoves(q, t)
  <2>1. job[p][s].pc = "check" /\ used' = used
    BY <1>5 DEF CheckBudget, At
  <2>2. CASE Goto(p, s, "call") /\ ~Exhausted
    <3>1. used < budget
      BY <2>2 DEF TypeOK, Exhausted
    <3>2. job'[q][t] = job[q][t] \/ (q = p /\ t = s)
      BY <1>3, <2>2
    <3> QED
      BY <2>1, <3>1, <3>2 DEF RunnerMoves, Works
  <2>3. CASE Goto(p, s, "exit") \/ Goto(p, s, "fail")
    <3>1. job'[q][t] = job[q][t] \/ job'[q][t].pc \in {"exit", "fail"}
      BY <1>3, <2>3
    <3> QED
      BY <3>1 DEF RunnerMoves
  <2> QED
    BY <1>5, <2>2, <2>3 DEF CheckBudget
<1>6. ASSUME NEW p \in Instances, NEW s \in Stages, Publish(p, s)
      PROVE  RunnerMoves(q, t)
  <2>1. /\ job[p][s].pc = "publish"
        /\ \E pc \in {"commit", "block", "exit"} : Goto(p, s, pc)
    BY <1>6 DEF Publish, At
  <2>2. \/ job'[q][t] = job[q][t]
        \/ q = p /\ t = s /\ job'[q][t].pc \in {"commit", "block", "exit"}
    BY <1>3, <2>1
  <2> QED
    BY <2>1, <2>2 DEF RunnerMoves, Works
<1>7. ASSUME NEW p \in Instances, NEW s \in Stages,
             \/ CommitStale(p, s) \/ RunnerError(p, s)
             \/ \E o \in Outcomes : \/ Commit(p, s, o) \/ FailStage(p, s, o)
                                   \/ BlockStage(p, s, o)
      PROVE  RunnerMoves(q, t)
  <2>1. \E pc \in {"exit", "fail"} : Goto(p, s, pc)
    BY <1>7 DEF CommitStale, RunnerError, Commit, FailStage, BlockStage
  <2>2. job'[q][t] = job[q][t] \/ job'[q][t].pc \in {"exit", "fail"}
    BY <1>3, <2>1
  <2> QED
    BY <2>2 DEF RunnerMoves
<1>8. ASSUME NEW p \in Instances, NEW s \in Stages, NEW o, Claim(p, s, o)
      PROVE  RunnerMoves(q, t)
  <2>1. CASE o = "ok" /\ q = p /\ t = s
    BY <1>8, <2>1 DEF RunnerMoves
  <2>2. CASE ~(o = "ok" /\ q = p /\ t = s)
    <3>1. job'[q][t] = job[q][t]
      BY <1>8, <2>2 DEF Claim, TypeOK
    <3> QED
      BY <3>1 DEF RunnerMoves
  <2> QED
    BY <2>1, <2>2
<1>9. ASSUME NEW p \in Instances, NEW s \in Stages, ReturnRunner(p, s)
      PROVE  RunnerMoves(q, t)
  <2>1. job'[q][t] = job[q][t] \/ job'[q][t] = NoJob
    BY <1>2, <1>9 DEF ReturnRunner
  <2> QED
    BY <2>1 DEF NoJob, RunnerMoves
<1>10. ASSUME NEW p \in Instances, StopProcess(p)
       PROVE  RunnerMoves(q, t)
  <2>1. job'[q][t] = IF q = p THEN NoJob ELSE job[q][t]
    BY <1>10 DEF StopProcess, TypeOK
  <2> QED
    BY <2>1 DEF NoJob, RunnerMoves
<1>11. ASSUME NEW p \in Instances,
              Requests(p) \/ StartProcess(p) \/ BeginReconcile(p) \/ LoseSession(p)
              \/ DefinitionLost(p) \/ AbortReconcile(p)
       PROVE  job' = job
  BY <1>11 DEF Requests, CreateTask, Pause, Resume, Cancel, SetBudget, UpdateApproval,
      StartProcess, BeginReconcile, LoseSession, DefinitionLost, AbortReconcile, procVars
<1>12. ASSUME NEW p \in Instances, Reconciling(p)
       PROVE  RunnerMoves(q, t)
  BY <1>1, <1>8, <1>12 DEF Reconciling, ReadStages, FailTask, StartTask, SkipClaim,
      RefuseClaim, FinishReconcile
<1>13. ASSUME UNCHANGED vars
       PROVE  RunnerMoves(q, t)
  BY <1>1, <1>13 DEF vars, procVars
<1> QED
  BY <1>1, <1>4, <1>5, <1>6, <1>7, <1>9, <1>10, <1>11, <1>12, <1>13
  DEF Next, Running, Disturbances, Woken, Recover, Finished

\* A Reconcile that reads the stages chooses only those without a runner.
LEMMA ChoosesUnclaimed ==
    ASSUME TypeOK, [Next]_vars, NEW q \in Instances, NEW t \in Stages, t \in rec'[q].todo
    PROVE  t \in rec[q].todo \/ job[q][t].pc = "none"
<1> DEFINE Goal == t \in rec[q].todo \/ job[q][t].pc = "none"
<1>1. ASSUME rec' = rec
      PROVE  Goal
  BY <1>1
<1>2. ASSUME NEW p \in Instances, NEW r, r.todo \subseteq rec[p].todo,
             rec' = [rec EXCEPT ![p] = r]
      PROVE  Goal
  BY <1>2 DEF TypeOK
<1>3. ASSUME NEW p \in Instances, rec' = [rec EXCEPT ![p] = Idle]
      PROVE  Goal
  BY <1>2, <1>3 DEF Idle
<1>4. ASSUME NEW p \in Instances, BeginReconcile(p)
      PROVE  Goal
  BY <1>2, <1>4 DEF BeginReconcile, Idle
<1>5. ASSUME NEW p \in Instances, DefinitionLost(p)
      PROVE  Goal
  BY <1>2, <1>5 DEF DefinitionLost, Idle
<1>6. ASSUME NEW p \in Instances, NEW o, StartTask(p, o)
      PROVE  Goal
  <2>1. rec[p] \in ReconcileState
    BY DEF TypeOK
  <2>2. [rec[p] EXCEPT !.pc = "claim"].todo = rec[p].todo
    BY <2>1 DEF ReconcileState
  <2> QED
    BY <1>2, <1>3, <1>6, <2>2 DEF StartTask
<1>7. ASSUME NEW p \in Instances, NEW s \in Stages, rec' = Without(p, s)
      PROVE  Goal
  <2>1. rec[p] \in ReconcileState
    BY DEF TypeOK
  <2>2. [rec[p] EXCEPT !.todo = @ \ {s}, !.rows[s] = NewRow].todo = rec[p].todo \ {s}
    BY <2>1 DEF ReconcileState
  <2> QED
    BY <1>2, <1>7, <2>2 DEF Without
<1>8. ASSUME NEW p \in Instances, ReadStages(p)
      PROVE  Goal
  <2>1. CASE rec' = [rec EXCEPT ![p] = Idle]
    BY <1>3, <2>1
  <2>2. CASE rec' # [rec EXCEPT ![p] = Idle]
    <3>1. rec' = [rec EXCEPT ![p] =
                       [pc |-> IF rec[p].seen = "queued" THEN "start" ELSE "claim",
                        seen |-> "none", todo |-> Claimable(p),
                        rows |-> [s \in Stages |-> IF s \in Claimable(p)
                                                   THEN stage[s] ELSE NewRow]]]
      BY <1>8, <2>2 DEF ReadStages
    <3>2. rec'[q] = rec[q] \/ (q = p /\ rec'[q].todo = Claimable(q))
      BY <3>1 DEF TypeOK
    <3> QED
      BY <3>2 DEF Claimable
  <2> QED
    BY <2>1, <2>2
<1>9. ASSUME NEW p \in Instances, Reconciling(p)
      PROVE  Goal
  BY <1>3, <1>6, <1>7, <1>8, <1>9 DEF Reconciling, FailTask, FinishReconcile, SkipClaim,
      RefuseClaim, Claim
<1>10. ASSUME NEW p \in Instances, NEW s \in Stages, Running(p, s) \/ ReturnRunner(p, s)
       PROVE  rec' = rec
  BY <1>10 DEF Running, CheckBudget, CallModel, Publish, CommitStale, Commit,
      FailStage, BlockStage, ReturnRunner
<1>11. ASSUME NEW p \in Instances, Requests(p) \/ StartProcess(p)
       PROVE  rec' = rec
  BY <1>11 DEF Requests, CreateTask, Pause, Resume, Cancel, SetBudget, UpdateApproval,
      StartProcess, procVars
<1>12. ASSUME NEW p \in Instances, Disturbances(p)
       PROVE  Goal
  BY <1>1, <1>3, <1>5, <1>12 DEF Disturbances, LoseSession, StopProcess, AbortReconcile,
      RunnerError
<1>13. ASSUME UNCHANGED vars
       PROVE  Goal
  BY <1>1, <1>13 DEF vars, procVars
<1> HIDE DEF Goal
<1>14. Goal
  BY <1>1, <1>4, <1>9, <1>10, <1>11, <1>12, <1>13 DEF Next, Woken, Recover, Finished
<1> QED
  BY <1>14 DEF Goal

\* Every step keeps a Reconcile away from the stages that have a runner.
LEMMA UnclaimedStep ==
    ASSUME TypeOK, Unclaimed, [Next]_vars
    PROVE  Unclaimed'
<1> SUFFICES ASSUME NEW p \in Instances, NEW s \in Stages, s \in rec'[p].todo
             PROVE  job'[p][s].pc = "none"
  BY DEF Unclaimed
<1>1. job[p][s].pc = "none"
  BY ChoosesUnclaimed DEF Unclaimed
<1>2. ~Claim(p, s, "ok")
  <2> SUFFICES ASSUME Claim(p, s, "ok") PROVE FALSE
    OBVIOUS
  <2>1. rec' = Without(p, s) /\ rec[p] \in ReconcileState
    BY DEF Claim, TypeOK
  <2>2. [rec[p] EXCEPT !.todo = @ \ {s}, !.rows[s] = NewRow].todo = rec[p].todo \ {s}
    BY <2>1 DEF ReconcileState
  <2>3. rec'[p].todo = rec[p].todo \ {s}
    BY <2>1, <2>2 DEF Without, TypeOK
  <2> QED
    BY <2>3
<1>3. Kept
  BY RowsKept
<1> QED
  BY <1>1, <1>2, <1>3 DEF Kept, KeptOrClaimed

\* What a claim writes, and what its runner starts with.
LEMMA ClaimWrites ==
    ASSUME TypeOK, NEW p \in Instances, NEW s \in Stages, NEW o, Claim(p, s, o)
    PROVE  /\ stage'[s].attempt = stage[s].attempt + 1
           /\ \A t \in Stages : t # s => stage'[t] = stage[t]
           /\ s \in rec[p].todo
           /\ o = "ok" =>
                /\ job'[p][s].pc \in {"check", "publish"}
                /\ job'[p][s].row.attempt = stage'[s].attempt
                /\ job'[p][s].row.status = stage'[s].status
<1> DEFINE row == rec[p].rows[s]
           claimed == Claimed(s, row)
           new == [stage[s] EXCEPT !.status = claimed.status,
                                   !.attempt = @ + 1, !.version = @ + 1]
           j == [pc |-> FirstStep(s), row |-> claimed, iter |-> 0,
                 mode |-> IF row.status = "executing" THEN "deliverable" ELSE "plan"]
<1>1. row \in StageRow /\ stage[s] \in StageRow
  BY DEF TypeOK, ReconcileState
<1>2. stage' = [stage EXCEPT ![s] = new] /\ s \in rec[p].todo
  BY DEF Claim
<1>3. o = "ok" => job' = [job EXCEPT ![p][s] = j]
  BY DEF Claim
<1>4. claimed.attempt = stage[s].attempt + 1
  BY <1>1 DEF Claimed, StageRow
<1>5. PICK st, n, m : st = claimed.status /\ n = stage[s].attempt + 1
                       /\ m = stage[s].version + 1
  OBVIOUS
<1>6. new = [stage[s] EXCEPT !.status = st, !.attempt = n, !.version = m]
  BY <1>5, Zenon
<1>7. new.attempt = n /\ new.status = st
  <2> HIDE DEF new, claimed
  <2> QED
    BY <1>1, <1>6 DEF StageRow
<1>8. j.pc \in {"check", "publish"} /\ j.row = claimed
  BY DEF FirstStep
<1> HIDE DEF row, claimed, new, j
<1>9. stage'[s] = new /\ \A t \in Stages : t # s => stage'[t] = stage[t]
  BY <1>2 DEF TypeOK
<1>10. o = "ok" => job'[p][s] = j
  BY <1>3 DEF TypeOK
<1> QED
  BY <1>2, <1>4, <1>5, <1>7, <1>8, <1>9, <1>10

\* What a step does to the claim that a stage row stands for: the row keeps its
\* attempt, and its status too if it was at work, unless a process claims the
\* stage or a runner ends its work on it.
ClaimMoves(t) ==
    \/ /\ stage'[t].attempt = stage[t].attempt
       /\ stage'[t].status = stage[t].status \/ stage[t].status \notin {"planning", "executing"}
    \/ /\ stage'[t].attempt = stage[t].attempt
       /\ \E p \in Instances : Works(p, t) /\ job'[p][t].pc \in {"exit", "fail"}
    \/ \E p \in Instances, o \in Outcomes : Claim(p, t, o)

\* Every step moves each claim in one of these ways.
LEMMA EveryClaimMoves ==
    ASSUME Fence, [Next]_vars, NEW t \in Stages
    PROVE  ClaimMoves(t)
<1>1. ASSUME stage'[t] = stage[t]
      PROVE  ClaimMoves(t)
  BY <1>1 DEF ClaimMoves
<1>2. ASSUME NEW p \in Instances, NEW s \in Stages, NEW pc, Goto(p, s, pc)
      PROVE  job'[p][s].pc = pc
  <2> DEFINE j == [job[p][s] EXCEPT !.pc = pc]
  <2>1. job[p][s] \in JobState
    BY DEF Fence, TypeOK
  <2>2. j.pc = pc
    BY <2>1 DEF JobState
  <2>3. job' = [job EXCEPT ![p][s] = j]
    BY <1>2 DEF Goto
  <2> HIDE DEF j
  <2>4. job'[p][s] = j
    BY <2>3 DEF Fence, TypeOK
  <2> QED
    BY <2>2, <2>4
<1>3. ASSUME NEW p \in Instances, NEW s \in Stages, NEW o \in Outcomes, Claim(p, s, o)
      PROVE  ClaimMoves(t)
  <2>1. t # s => stage'[t] = stage[t]
    BY <1>3, ClaimWrites DEF Fence
  <2> QED
    BY <1>1, <1>3, <2>1 DEF ClaimMoves
<1>4. ASSUME NEW p \in Instances, NEW s \in Stages, NEW o, Commit(p, s, o)
      PROVE  ClaimMoves(t)
  <2> DEFINE j == job[p][s]
             new == [Result(s, j) EXCEPT !.version = @ + 1]
  <2>1. j \in JobState /\ j.row \in StageRow /\ j.pc = "commit"
    BY <1>4 DEF Fence, Commit, At, TypeOK, JobState
  <2>2. j.row.attempt = stage[s].attempt
    BY <1>4 DEF Commit, Matches
  <2>3. Result(s, j) \in StageRow /\ Result(s, j).attempt = stage[s].attempt
    BY <2>1, <2>2, ResultType DEF Result, StageRow
  <2>4. new.attempt = stage[s].attempt
    BY <2>3 DEF StageRow
  <2>5. stage' = [stage EXCEPT ![s] = new]
    BY <1>4 DEF Commit, UpdateStage
  <2>6. Goto(p, s, "exit") \/ Goto(p, s, "fail")
    BY <1>4 DEF Commit
  <2>7. job'[p][s].pc \in {"exit", "fail"}
    BY <1>2, <2>6
  <2>8. Works(p, s)
    BY <2>1 DEF Works
  <2> HIDE DEF new, j
  <2>9. t # s => stage'[t] = stage[t]
    BY <2>5 DEF Fence, TypeOK
  <2>10. stage'[s] = new
    BY <2>5 DEF Fence, TypeOK
  <2> QED
    BY <1>1, <2>4, <2>7, <2>8, <2>9, <2>10 DEF ClaimMoves
<1>5. ASSUME NEW p \in Instances, NEW s \in Stages, NEW o, BlockStage(p, s, o)
      PROVE  ClaimMoves(t)
  <2> DEFINE row == job[p][s].row
             parked == [row EXCEPT !.status = "blocked", !.blocked = "publish"]
             new == [parked EXCEPT !.version = @ + 1]
  <2>1. row \in StageRow /\ job[p][s].pc = "block"
    BY <1>5 DEF Fence, BlockStage, At, TypeOK, JobState
  <2>2. CASE stage' = stage
    BY <1>1, <2>2
  <2>3. CASE stage' # stage
    <3>1. row.attempt = stage[s].attempt /\ stage' = [stage EXCEPT ![s] = new]
      BY <1>5, <2>3 DEF BlockStage, Matches, UpdateStage
    <3>2. parked \in StageRow /\ parked.attempt = row.attempt
      BY <2>1 DEF StageRow, StageStatuses
    <3> HIDE DEF parked
    <3>3. new.attempt = stage[s].attempt
      BY <3>1, <3>2 DEF StageRow
    <3>4. job'[p][s].pc \in {"exit", "fail"} /\ Works(p, s)
      BY <1>2, <1>5, <2>1 DEF BlockStage, Works
    <3> HIDE DEF new, row
    <3>5. (t # s => stage'[t] = stage[t]) /\ stage'[s] = new
      BY <3>1 DEF Fence, TypeOK
    <3> QED
      BY <1>1, <3>3, <3>4, <3>5 DEF ClaimMoves
  <2> QED
    BY <2>2, <2>3
<1>6. ASSUME NEW p \in Instances, NEW a \in approvals, NEW d, NEW o,
             UpdateApproval(p, a, d, o)
      PROVE  ClaimMoves(t)
  <2> DEFINE s == a.stage
             decided == Decide(stage[s], a.kind, d)
             new == [decided EXCEPT !.version = @ + 1]
  <2>1. s \in Stages /\ a.kind \in Kinds /\ stage[s] \in StageRow
    BY DEF Fence, TypeOK, Approval
  <2>2. stage[s].status \notin {"planning", "executing"}
    BY <1>6 DEF UpdateApproval, ReviewOf
  <2>3. decided \in StageRow /\ decided.attempt = stage[s].attempt
    BY <2>1, DecideType, DecideKeeps
  <2>4. stage' = [stage EXCEPT ![s] = new]
    BY <1>6 DEF UpdateApproval, UpdateStage
  <2> HIDE DEF s, decided
  <2>5. new.attempt = stage[s].attempt
    BY <2>3 DEF StageRow
  <2> HIDE DEF new
  <2>6. (t # s => stage'[t] = stage[t]) /\ stage'[s] = new
    BY <2>1, <2>4 DEF Fence, TypeOK
  <2> QED
    BY <1>1, <2>2, <2>5, <2>6 DEF ClaimMoves
<1>7. ASSUME NEW p \in Instances, NEW o, Resume(p, o)
      PROVE  ClaimMoves(t)
  <2>1. stage[t] \in StageRow
    BY DEF Fence, TypeOK
  <2>2. \/ stage'[t] = stage[t]
        \/ /\ stage[t].status = "blocked"
           /\ stage'[t] = [Unblocked(stage[t]) EXCEPT !.version = @ + 1]
    BY <1>7 DEF Resume
  <2>3. Unblocked(stage[t]) \in StageRow /\ Unblocked(stage[t]).attempt = stage[t].attempt
    BY <2>1, UnblockedType DEF Unblocked, StageRow
  <2>4. stage'[t].attempt = stage[t].attempt
    BY <2>2, <2>3 DEF StageRow
  <2> QED
    BY <2>2, <2>4 DEF ClaimMoves
<1>8. ASSUME NEW p \in Instances, Reconciling(p)
      PROVE  ClaimMoves(t)
  BY <1>1, <1>3, <1>8
  DEF Reconciling, ReadStages, FailTask, StartTask, SkipClaim, RefuseClaim,
      FinishReconcile, dbVars
<1>9. ASSUME NEW p \in Instances, NEW s \in Stages, Running(p, s) \/ ReturnRunner(p, s)
      PROVE  ClaimMoves(t)
  BY <1>1, <1>4, <1>5, <1>9
  DEF Running, CheckBudget, CallModel, Publish, CommitStale, FailStage, ReturnRunner, dbVars
<1>10. ASSUME NEW p \in Instances, Requests(p)
       PROVE  ClaimMoves(t)
  BY <1>1, <1>6, <1>7, <1>10 DEF Requests, CreateTask, Pause, Cancel, SetBudget
<1>11. ASSUME NEW p \in Instances,
              Woken(p) \/ Recover(p) \/ Disturbances(p) \/ StartProcess(p)
       PROVE  stage' = stage
  BY <1>11 DEF Woken, Recover, BeginReconcile, Disturbances, StartProcess, LoseSession,
      StopProcess, DefinitionLost, AbortReconcile, RunnerError, dbVars
<1>12. ASSUME UNCHANGED vars
       PROVE  ClaimMoves(t)
  BY <1>1, <1>12 DEF vars, dbVars
<1> QED
  BY <1>1, <1>8, <1>9, <1>10, <1>11, <1>12 DEF Next, Finished

\* A step is a claim of one process.
LEMMA OneClaims ==
    ASSUME TypeOK, NEW p \in Instances, NEW q \in Instances, NEW s \in Stages,
           Claim(p, s, "ok"), Claim(q, s, "ok")
    PROVE  q = p
<1> SUFFICES ASSUME q # p PROVE FALSE
  OBVIOUS
<1>1. rec' = Without(p, s) /\ rec' = Without(q, s) /\ s \in rec[q].todo
  BY DEF Claim
<1>2. rec[q] \in ReconcileState
  BY DEF TypeOK
<1>3. [rec[q] EXCEPT !.todo = @ \ {s}, !.rows[s] = NewRow].todo = rec[q].todo \ {s}
  BY <1>2 DEF ReconcileState
<1>4. rec'[q].todo = rec[q].todo \ {s}
  BY <1>1, <1>3 DEF Without, TypeOK
<1>5. rec'[q] = rec[q]
  BY <1>1 DEF Without, TypeOK
<1> QED
  BY <1>1, <1>4, <1>5

\* Every step keeps the attempts apart.
LEMMA AttemptsStep ==
    ASSUME Fence, Attempts, [Next]_vars
    PROVE  Attempts'
<1>1. TypeOK /\ Kept /\ Moves
  BY RowsKept, StageMoves DEF Fence
<1>2. ASSUME NEW p \in Instances, NEW s \in Stages, job[p][s].pc # "none"
      PROVE  job[p][s].row.attempt \in Nat /\ job[p][s].row.attempt <= stage[s].attempt
  <2>1. job[p][s].row \in StageRow
    BY <1>1 DEF TypeOK, JobState
  <2> QED
    BY <1>2, <2>1 DEF Attempts, StageRow
<1>3. ASSUME NEW s \in Stages
      PROVE  /\ stage[s].attempt \in Nat /\ stage'[s].attempt \in Nat
             /\ stage'[s].attempt >= stage[s].attempt
  <2>1. stage[s] \in StageRow /\ stage'[s] \in StageRow
    BY <1>1, TypeStep DEF TypeOK
  <2> QED
    BY <1>1, <2>1 DEF Moves, Written, StageRow
<1>4. ASSUME NEW p \in Instances, NEW s \in Stages, Claim(p, s, "ok")
      PROVE  /\ job'[p][s].row.attempt = stage[s].attempt + 1
             /\ stage'[s].attempt = stage[s].attempt + 1
  BY <1>1, <1>4, ClaimWrites
<1>5. ASSUME NEW p \in Instances, NEW s \in Stages, job'[p][s].pc # "none"
      PROVE  \/ job[p][s].pc # "none" /\ job'[p][s].row = job[p][s].row
             \/ Claim(p, s, "ok")
  BY <1>1, <1>5 DEF Kept, KeptOrClaimed
<1> SUFFICES ASSUME NEW p \in Instances, NEW s \in Stages, job'[p][s].pc # "none"
             PROVE  /\ job'[p][s].row.attempt <= stage'[s].attempt
                    /\ \A q \in Instances :
                         job'[q][s].pc # "none"
                           /\ job'[q][s].row.attempt = job'[p][s].row.attempt => q = p
  BY DEF Attempts
<1>6. job'[p][s].row.attempt <= stage'[s].attempt
  <2>1. CASE Claim(p, s, "ok")
    BY <1>3, <1>4, <2>1
  <2>2. CASE job[p][s].pc # "none" /\ job'[p][s].row = job[p][s].row
    BY <1>2, <1>3, <2>2
  <2> QED
    BY <1>5, <2>1, <2>2
<1>7. ASSUME NEW q \in Instances, job'[q][s].pc # "none",
             job'[q][s].row.attempt = job'[p][s].row.attempt
      PROVE  q = p
  <2>1. CASE Claim(p, s, "ok") /\ Claim(q, s, "ok")
    BY <1>1, <2>1, OneClaims
  <2>2. CASE Claim(p, s, "ok") /\ job[q][s].pc # "none" /\ job'[q][s].row = job[q][s].row
    BY <1>2, <1>3, <1>4, <1>7, <2>2
  <2>3. CASE Claim(q, s, "ok") /\ job[p][s].pc # "none" /\ job'[p][s].row = job[p][s].row
    BY <1>2, <1>3, <1>4, <1>7, <2>3
  <2>4. CASE /\ job[p][s].pc # "none" /\ job'[p][s].row = job[p][s].row
             /\ job[q][s].pc # "none" /\ job'[q][s].row = job[q][s].row
    BY <1>7, <2>4 DEF Attempts
  <2> QED
    BY <1>5, <1>7, <2>1, <2>2, <2>3, <2>4
<1> QED
  BY <1>6, <1>7

(***************************************************************************)
(* One process at a time: its runners are current.                         *)
(***************************************************************************)
OneUp == \A p, q \in up : p = q

\* Only a process that is up reconciles or has runners.
Alive ==
    \A p \in Instances :
        p \notin up => rec[p].pc = "idle" /\ \A s \in Stages : job[p][s].pc = "none"

\* Only a process that is up begins to reconcile.
LEMMA ReconcilesUp ==
    ASSUME TypeOK, [Next]_vars, NEW q \in Instances, rec'[q].pc # "idle"
    PROVE  rec[q].pc # "idle" \/ q \in up
<1> DEFINE Goal == rec[q].pc # "idle" \/ q \in up
<1>1. ASSUME rec' = rec
      PROVE  Goal
  BY <1>1
<1>2. ASSUME NEW p \in Instances, rec[p].pc # "idle" \/ p \in up, NEW r,
             rec' = [rec EXCEPT ![p] = r]
      PROVE  Goal
  <2>1. rec'[q] = rec[q] \/ q = p
    BY <1>2 DEF TypeOK
  <2> QED
    BY <1>2, <2>1
<1>3. ASSUME NEW p \in Instances, Reconciling(p) \/ BeginReconcile(p) \/ DefinitionLost(p)
                                  \/ AbortReconcile(p)
      PROVE  Goal
  BY <1>2, <1>3 DEF Reconciling, ReadStages, FailTask, StartTask, SkipClaim, RefuseClaim, Claim,
      FinishReconcile, Without, BeginReconcile, DefinitionLost, AbortReconcile
<1>4. ASSUME NEW p \in Instances, StopProcess(p)
      PROVE  Goal
  BY <1>2, <1>4 DEF StopProcess
<1>5. ASSUME NEW p \in Instances, NEW s \in Stages,
             Running(p, s) \/ ReturnRunner(p, s) \/ RunnerError(p, s)
      PROVE  rec' = rec
  BY <1>5 DEF Running, CheckBudget, CallModel, Publish, CommitStale, Commit,
      FailStage, BlockStage, ReturnRunner, RunnerError
<1>6. ASSUME NEW p \in Instances, Requests(p) \/ StartProcess(p) \/ LoseSession(p)
      PROVE  rec' = rec
  BY <1>6 DEF Requests, CreateTask, Pause, Resume, Cancel, SetBudget, UpdateApproval,
      StartProcess, LoseSession, procVars
<1>7. ASSUME UNCHANGED vars
      PROVE  Goal
  BY <1>1, <1>7 DEF vars, procVars
<1> HIDE DEF Goal
<1>8. Goal
  BY <1>1, <1>3, <1>4, <1>5, <1>6, <1>7
  DEF Next, Woken, Recover, Disturbances, Finished
<1> QED
  BY <1>8 DEF Goal

\* A process goes down only by stopping.
LEMMA GoesDown ==
    ASSUME [Next]_vars, NEW q \in Instances, q \in up, q \notin up'
    PROVE  StopProcess(q)
<1> DEFINE Goal == StopProcess(q)
<1>1. ASSUME up' = up
      PROVE  Goal
  BY <1>1
<1>2. ASSUME NEW p \in Instances, StopProcess(p)
      PROVE  Goal
  <2>1. up' = up \ {p}
    BY <1>2 DEF StopProcess
  <2>2. q = p
    BY <2>1
  <2> QED
    BY <1>2, <2>2
<1>3. ASSUME NEW p \in Instances, StartProcess(p)
      PROVE  Goal
  BY <1>3 DEF StartProcess
<1>4. ASSUME NEW p \in Instances, Reconciling(p) \/ BeginReconcile(p) \/ DefinitionLost(p)
                                  \/ AbortReconcile(p) \/ LoseSession(p)
      PROVE  up' = up
  BY <1>4 DEF Reconciling, ReadStages, FailTask, StartTask, SkipClaim, RefuseClaim, Claim,
      FinishReconcile, BeginReconcile, DefinitionLost, AbortReconcile, LoseSession
<1>5. ASSUME NEW p \in Instances, NEW s \in Stages,
             Running(p, s) \/ ReturnRunner(p, s) \/ RunnerError(p, s)
      PROVE  up' = up
  BY <1>5 DEF Running, CheckBudget, CallModel, Publish, CommitStale, Commit,
      FailStage, BlockStage, ReturnRunner, RunnerError
<1>6. ASSUME NEW p \in Instances, Requests(p)
      PROVE  up' = up
  BY <1>6 DEF Requests, CreateTask, Pause, Resume, Cancel, SetBudget, UpdateApproval, procVars
<1>7. ASSUME UNCHANGED vars
      PROVE  Goal
  BY <1>1, <1>7 DEF vars, procVars
<1> HIDE DEF Goal
<1>8. Goal
  BY <1>1, <1>2, <1>3, <1>4, <1>5, <1>6, <1>7
  DEF Next, Woken, Recover, Disturbances, Finished
<1> QED
  BY <1>8 DEF Goal

\* Every step leaves the processes that are down without work.
LEMMA AliveStep ==
    ASSUME TypeOK, Alive, [Next]_vars
    PROVE  Alive'
<1> SUFFICES ASSUME NEW p \in Instances, p \notin up'
             PROVE  rec'[p].pc = "idle" /\ \A s \in Stages : job'[p][s].pc = "none"
  BY DEF Alive
<1>1. CASE p \in up
  <2>1. /\ rec' = [rec EXCEPT ![p] = Idle]
        /\ job' = [job EXCEPT ![p] = [s \in Stages |-> NoJob]]
    BY <1>1, GoesDown DEF StopProcess
  <2> QED
    BY <2>1 DEF TypeOK, Idle, NoJob
<1>2. CASE p \notin up
  <2>1. rec'[p].pc = "idle"
    BY <1>2, ReconcilesUp DEF Alive
  <2>2. ASSUME NEW s \in Stages
        PROVE  job'[p][s].pc = "none"
    <3>1. Kept
      BY RowsKept
    <3>2. ASSUME NEW o PROVE ~Claim(p, s, o)
      BY <1>2 DEF Alive, Claim
    <3> QED
      BY <1>2, <3>1, <3>2 DEF Alive, Kept, KeptOrClaimed
  <2> QED
    BY <2>1, <2>2
<1> QED
  BY <1>1, <1>2

Current ==
    \A p \in Instances, s \in Stages : Works(p, s) =>
        /\ stage[s].attempt = job[p][s].row.attempt
        /\ stage[s].status = job[p][s].row.status

\* With one process up, every step leaves its runners current.
LEMMA CurrentStep ==
    ASSUME OneUp, Alive, Fence, Unclaimed, Current, [Next]_vars
    PROVE  Current'
<1> SUFFICES ASSUME NEW p \in Instances, NEW s \in Stages, Works(p, s)'
             PROVE  /\ stage'[s].attempt = job'[p][s].row.attempt
                    /\ stage'[s].status = job'[p][s].row.status
  BY DEF Current
<1>1. TypeOK /\ Kept /\ ClaimMoves(s) /\ RunnerMoves(p, s)
  BY RowsKept, EveryClaimMoves, EveryRunnerMoves DEF Fence
<1>2. CASE Claim(p, s, "ok")
  BY <1>1, <1>2, ClaimWrites
<1>3. CASE ~Claim(p, s, "ok")
  <2>1. job[p][s].pc # "none" /\ job'[p][s].row = job[p][s].row
    BY <1>1, <1>3 DEF Kept, KeptOrClaimed, Works
  <2>2. Works(p, s)
    BY <1>1, <1>3 DEF RunnerMoves, Works
  <2>3. /\ stage[s].attempt = job[p][s].row.attempt
        /\ stage[s].status = job[p][s].row.status
        /\ job[p][s].row.status \in {"planning", "executing"}
    BY <2>1, <2>2 DEF Current, Fence, CopiesFenced, WorkOf
  <2>4. ~(\E q \in Instances, o \in Outcomes : Claim(q, s, o))
    <3> SUFFICES ASSUME NEW q \in Instances, NEW o, Claim(q, s, o) PROVE FALSE
      OBVIOUS
    <3>1. s \in rec[q].todo
      BY <1>1, ClaimWrites
    <3>2. p \in up /\ q \in up
      BY <2>1 DEF Alive, Claim
    <3> QED
      BY <2>1, <3>1, <3>2 DEF Unclaimed, OneUp
  <2>5. ~(\E q \in Instances : Works(q, s) /\ job'[q][s].pc \in {"exit", "fail"})
    <3> SUFFICES ASSUME NEW q \in Instances, Works(q, s), job'[q][s].pc \in {"exit", "fail"}
                 PROVE  FALSE
      OBVIOUS
    <3>1. p \in up /\ q \in up
      BY <2>1 DEF Alive, Works
    <3> QED
      BY <3>1 DEF OneUp, Works
  <2> QED
    BY <1>1, <2>1, <2>3, <2>4, <2>5 DEF ClaimMoves
<1> QED
  BY <1>2, <1>3

\* As long as no two processes are up together, no runner works for nothing:
\* until it stores its result the stage stays claimed for it, through pauses,
\* resumes, decisions about other stages, lost acknowledgements, crashes and
\* restarts.
THEOREM RunnersStayCurrent == Spec /\ []OneUp => []RunnersCurrent
<1> DEFINE Inv == Fence /\ Alive /\ Unclaimed /\ Current
<1>1. Init => Inv
  <2> SUFFICES ASSUME Init PROVE Inv
    OBVIOUS
  <2>1. \A p \in Instances : rec[p].pc = "idle" /\ rec[p].todo = {}
    BY DEF Init, Idle
  <2>2. \A p \in Instances, s \in Stages : job[p][s].pc = "none"
    BY DEF Init, NoJob
  <2> QED
    BY <2>1, <2>2, FenceInit DEF Alive, Unclaimed, Current, Works
<1>2. Inv /\ OneUp /\ [Next]_vars => Inv'
  <2> SUFFICES ASSUME Inv, OneUp, [Next]_vars PROVE Inv'
    OBVIOUS
  <2>1. TypeOK
    BY DEF Fence
  <2> QED
    BY <2>1, FenceStep, AliveStep, UnclaimedStep, CurrentStep
<1>3. Inv => RunnersCurrent
  BY DEF Current, Works, RunnersCurrent, Stale
<1> QED
  BY <1>1, <1>2, <1>3, PTL DEF Spec

(***************************************************************************)
(* What the calls cost.                                                    *)
(***************************************************************************)

\* The stages whose current runner passed the check and has not paid yet.
Due ==
    {s \in Stages : \E p \in Instances :
        job[p][s].pc = "call" /\ job[p][s].row.attempt = stage[s].attempt}

\* What was used and what is due stay under the bound of BudgetOvershoot.
Spending ==
    \E b \in Budgets : used + Cost * Cardinality(Due) < b + Cost * Cardinality(Stages)

\* A task has one of the budgets.
Budgeted == status # "none" => budget \in Budgets

\* The cost of a call and the budgets stay what they are.
LEMMA PricesStay ==
    ASSUME TypeOK, [Next]_vars
    PROVE  /\ Cost' = Cost /\ Cost \in Nat
           /\ Budgets' = Budgets /\ Budgets \subseteq Nat \ {0} /\ Budgets # {}
<1>1. Cost' = Cost /\ Budgets' = Budgets
  BY SceneStep DEF TypeOK, Later, Cost, Budgets
<1>2. Cost \in Nat /\ Budgets \subseteq Nat \ {0} /\ Budgets # {}
  BY DEF TypeOK, Scene, Cost, Budgets
<1> QED
  BY <1>1, <1>2

\* Fewer calls cost no more, and one call less costs one call less.
LEMMA CallsCost ==
    ASSUME NEW c \in Nat, NEW m \in Nat, NEW n \in Nat
    PROVE  /\ c * m \in Nat
           /\ m <= n => c * m <= c * n
           /\ m <= n - 1 => c * m + c <= c * n
<1>1. c * m \in Nat
  OBVIOUS
<1>2. ASSUME NEW k \in Nat, n = m + k
      PROVE  c * n = c * m + c * k /\ c * k \in Nat
  BY <1>2
<1>3. ASSUME m <= n
      PROVE  c * m <= c * n
  <2>1. PICK k \in Nat : n = m + k
    <3>1. n - m \in Nat /\ n = m + (n - m)
      BY <1>3
    <3> QED
      BY <3>1
  <2> QED
    BY <1>1, <1>2, <2>1
<1>4. ASSUME m <= n - 1
      PROVE  c * m + c <= c * n
  <2>1. PICK k \in Nat : n = m + k /\ k >= 1
    <3>1. n - m \in Nat /\ n = m + (n - m) /\ n - m >= 1
      BY <1>4
    <3> QED
      BY <3>1
  <2>2. c * k >= c
    BY <2>1
  <2> QED
    BY <1>1, <1>2, <2>1, <2>2
<1> QED
  BY <1>1, <1>3, <1>4

\* The budget of a task changes only to one of the budgets.
LEMMA BudgetedStep ==
    ASSUME TypeOK, Reached, Budgeted, [Next]_vars
    PROVE  Budgeted'
<1> DEFINE Goal == status' # "none" => budget' \in Budgets
<1>1. ASSUME status # "none" \/ status' = status, budget' = budget
      PROVE  Goal
  BY <1>1 DEF Budgeted
<1>2. ASSUME NEW p \in Instances, NEW s \in Stages, Running(p, s) \/ ReturnRunner(p, s)
      PROVE  Goal
  <2>1. job[p][s].pc # "none" /\ budget' = budget
    BY <1>2 DEF Running, CheckBudget, CallModel, Publish, CommitStale, Commit, FailStage,
        BlockStage, ReturnRunner, At, dbVars
  <2>2. status # "none"
    BY <2>1 DEF Reached, JobReached, Begun
  <2> QED
    BY <1>1, <2>1, <2>2
<1>3. ASSUME NEW p \in Instances, Reconciling(p)
      PROVE  Goal
  <2>1. rec[p].pc # "idle" /\ budget' = budget
    BY <1>3 DEF Reconciling, ReadStages, FailTask, StartTask, SkipClaim, RefuseClaim, Claim,
        FinishReconcile, dbVars
  <2>2. status # "none"
    BY <2>1 DEF Reached, RecReached
  <2> QED
    BY <1>1, <2>1, <2>2
<1>4. ASSUME NEW p \in Instances, Requests(p)
      PROVE  Goal
  <2>1. ASSUME NEW b \in Budgets, NEW o, CreateTask(p, b, o) \/ SetBudget(p, b)
        PROVE  Goal
    BY <2>1 DEF CreateTask, SetBudget
  <2>2. ASSUME NEW o, Pause(p) \/ Resume(p, o) \/ Cancel(p, o)
        PROVE  Goal
    BY <1>1, <2>2 DEF Pause, Resume, Cancel, MayTransition
  <2>3. ASSUME NEW a \in approvals, NEW d, NEW o, UpdateApproval(p, a, d, o)
        PROVE  Goal
    <3>1. status # "none"
      BY <2>3 DEF Reached, Begun
    <3> QED
      BY <1>1, <2>3, <3>1 DEF UpdateApproval
  <2> HIDE DEF Goal
  <2> QED
    BY <1>4, <2>1, <2>2, <2>3 DEF Requests
<1>5. ASSUME NEW p \in Instances,
             Woken(p) \/ Recover(p) \/ Disturbances(p) \/ StartProcess(p)
      PROVE  status' = status /\ budget' = budget
  BY <1>5 DEF Woken, Recover, BeginReconcile, Disturbances, StartProcess, LoseSession,
      StopProcess, DefinitionLost, AbortReconcile, RunnerError, dbVars
<1>6. ASSUME UNCHANGED vars
      PROVE  status' = status /\ budget' = budget
  BY <1>6 DEF vars, dbVars
<1> HIDE DEF Goal
<1>7. Goal
  BY <1>1, <1>2, <1>3, <1>4, <1>5, <1>6 DEF Next, Finished
<1> QED
  BY <1>7, PricesStay DEF Goal, Budgeted

\* Only a call that is not stale is recorded.
LEMMA UsedStep ==
    ASSUME [Next]_vars
    PROVE  \/ used' = used
           \/ \E p \in Instances, s \in Stages :
                /\ CallModel(p, s) /\ ~Stale(s, job[p][s].row)
                /\ used' = used + Cost
<1> DEFINE Goal == \/ used' = used
                   \/ \E p \in Instances, s \in Stages :
                        /\ CallModel(p, s) /\ ~Stale(s, job[p][s].row)
                        /\ used' = used + Cost
<1>1. ASSUME NEW p \in Instances, NEW s \in Stages, CallModel(p, s)
      PROVE  Goal
  <2>1. used' = used \/ (~Stale(s, job[p][s].row) /\ used' = used + Cost)
    BY <1>1 DEF CallModel
  <2> QED
    BY <1>1, <2>1
<1>2. ASSUME NEW p \in Instances, NEW s \in Stages, Running(p, s) \/ ReturnRunner(p, s)
      PROVE  Goal
  <2> HIDE DEF Goal
  <2>1. ASSUME ~CallModel(p, s)
        PROVE  used' = used
    BY <1>2, <2>1 DEF Running, CheckBudget, Publish, CommitStale, Commit, FailStage,
        BlockStage, ReturnRunner, dbVars
  <2> QED
    BY <1>1, <2>1 DEF Goal
<1>3. ASSUME NEW p \in Instances, Reconciling(p) \/ Requests(p)
      PROVE  used' = used
  BY <1>3 DEF Reconciling, ReadStages, FailTask, StartTask, SkipClaim, RefuseClaim, Claim,
      FinishReconcile, Requests, CreateTask, SetBudget, Pause, Resume, Cancel, UpdateApproval,
      dbVars
<1>4. ASSUME NEW p \in Instances,
             Woken(p) \/ Recover(p) \/ Disturbances(p) \/ StartProcess(p)
      PROVE  used' = used
  BY <1>4 DEF Woken, Recover, BeginReconcile, Disturbances, StartProcess, LoseSession,
      StopProcess, DefinitionLost, AbortReconcile, RunnerError, dbVars
<1>5. ASSUME UNCHANGED vars
      PROVE  used' = used
  BY <1>5 DEF vars, dbVars
<1>6. ASSUME used' = used
      PROVE  Goal
  BY <1>6
<1> HIDE DEF Goal
<1>7. Goal
  BY <1>2, <1>3, <1>4, <1>5, <1>6 DEF Next, Finished
<1> QED
  BY <1>7 DEF Goal

\* A stage becomes due only by a check that passes.
LEMMA DueStep ==
    ASSUME Fence, Attempts, [Next]_vars, NEW s \in Stages, s \in Due', s \notin Due
    PROVE  used < budget /\ used' = used /\ \E p \in Instances : job[p][s].pc # "none"
<1>1. PICK p \in Instances : job'[p][s].pc = "call" /\ job'[p][s].row.attempt = stage'[s].attempt
  BY DEF Due
<1>2. TypeOK /\ Kept /\ ClaimMoves(s) /\ RunnerMoves(p, s)
  BY RowsKept, EveryClaimMoves, EveryRunnerMoves DEF Fence
<1>3. ~Claim(p, s, "ok")
  BY <1>1, <1>2, ClaimWrites
<1>4. job[p][s].pc # "none" /\ job'[p][s].row = job[p][s].row
  BY <1>1, <1>2, <1>3 DEF Kept, KeptOrClaimed
<1>5. stage'[s].attempt = stage[s].attempt
  <2>1. ASSUME NEW q \in Instances, NEW o, Claim(q, s, o)
        PROVE  FALSE
    <3>1. stage'[s].attempt = stage[s].attempt + 1
      BY <1>2, <2>1, ClaimWrites
    <3>2. job[p][s].row.attempt <= stage[s].attempt /\ stage[s].attempt \in Nat
      BY <1>2, <1>4 DEF Attempts, TypeOK, StageRow
    <3> QED
      BY <1>1, <1>4, <3>1, <3>2
  <2> QED
    BY <1>2, <2>1 DEF ClaimMoves
<1>6. job[p][s].pc # "call"
  BY <1>1, <1>4, <1>5 DEF Due
<1> QED
  BY <1>1, <1>2, <1>3, <1>4, <1>6 DEF RunnerMoves

\* A call that is recorded was due and is no longer.
LEMMA PaidStep ==
    ASSUME TypeOK, Attempts, NEW p \in Instances, NEW s \in Stages,
           CallModel(p, s), ~Stale(s, job[p][s].row)
    PROVE  s \in Due /\ s \notin Due'
<1>1. /\ job[p][s].pc = "call" /\ job[p][s].row.attempt = stage[s].attempt
      /\ stage' = stage
  BY DEF CallModel, At, Stale
<1>2. s \in Due
  BY <1>1 DEF Due
<1>3. \A q \in Instances : (q # p => job'[q][s] = job[q][s]) /\ job'[p][s].pc # "call"
  <2> DEFINE j1 == [job[p][s] EXCEPT !.pc = "exit"]
             j2 == [job[p][s] EXCEPT !.pc = "commit"]
             j3 == [job[p][s] EXCEPT !.pc = "check", !.iter = @ + 1]
  <2>1. job[p][s] \in JobState
    BY DEF TypeOK
  <2>2. j1.pc # "call" /\ j2.pc # "call" /\ j3.pc # "call"
    BY <2>1 DEF JobState
  <2>3. \/ job' = [job EXCEPT ![p][s] = j1] \/ job' = [job EXCEPT ![p][s] = j2]
        \/ job' = [job EXCEPT ![p][s] = j3]
    BY DEF CallModel, Goto
  <2> HIDE DEF j1, j2, j3
  <2> QED
    BY <2>2, <2>3 DEF TypeOK
<1>4. ASSUME NEW q \in Instances, job'[q][s].pc = "call",
             job'[q][s].row.attempt = stage'[s].attempt
      PROVE  FALSE
  <2>1. q # p /\ job'[q][s] = job[q][s]
    BY <1>3, <1>4
  <2>2. q = p
    BY <1>1, <1>4, <2>1 DEF Attempts
  <2> QED
    BY <2>1, <2>2
<1> QED
  BY <1>2, <1>4 DEF Due

\* Every step keeps what was used and what is due under the bound.
LEMMA SpendingStep ==
    ASSUME Fence, Reached, Attempts, Budgeted, Spending, [Next]_vars
    PROVE  Spending'
<1> DEFINE all == Cardinality(Stages)
           before == Cardinality(Due)
           after == Cardinality(Due')
           Goal == \E b \in Budgets : used' + Cost * after < b + Cost * all
<1>1. /\ IsFiniteSet(Stages) /\ Cost \in Nat /\ Budgets \subseteq Nat
      /\ Cost' = Cost /\ Budgets' = Budgets
  BY PipelineAssumption, PricesStay DEF Fence
<1>2. TypeOK /\ used \in Nat /\ used' \in Nat
  BY TypeStep DEF Fence, TypeOK
<1>3. Due \in SUBSET Stages /\ Due' \in SUBSET Stages
  BY DEF Due
<1>4. /\ IsFiniteSet(Due) /\ IsFiniteSet(Due') /\ all \in Nat /\ before \in Nat /\ after \in Nat
      /\ after <= all
  BY <1>1, <1>3, FS_Subset, FS_CardinalityType
<1>5. CASE \E s \in Stages : s \in Due' /\ s \notin Due
  <2>1. /\ used < budget /\ used' = used
        /\ \E p \in Instances, s \in Stages : job[p][s].pc # "none"
    BY <1>5, DueStep
  <2>2. budget \in Budgets
    BY <2>1 DEF Reached, JobReached, Begun, Budgeted
  <2>3. Cost * after <= Cost * all /\ Cost * after \in Nat /\ Cost * all \in Nat
    BY <1>1, <1>4, CallsCost
  <2>4. used' + Cost * after < budget + Cost * all
    <3> HIDE DEF all, before, after
    <3>1. PICK x, y : x = Cost * after /\ y = Cost * all
      OBVIOUS
    <3> QED
      BY <1>1, <1>2, <2>1, <2>2, <2>3, <3>1
  <2>5. Goal
    BY <2>2, <2>4
  <2> QED
    BY <1>1, <2>5 DEF Spending
<1>6. CASE Due' \subseteq Due
  <2>1. PICK b \in Budgets : used + Cost * before < b + Cost * all
    BY DEF Spending
  <2>2. /\ Cost * before \in Nat /\ Cost * after \in Nat /\ Cost * all \in Nat /\ b \in Nat
        /\ after <= before => Cost * after <= Cost * before
        /\ after <= before - 1 => Cost * after + Cost <= Cost * before
    BY <1>1, <1>4, CallsCost
  <2>3. CASE used' = used
    <3>1. after <= before
      BY <1>4, <1>6, FS_Subset
    <3>2. used' + Cost * after < b + Cost * all
      <4> HIDE DEF all, before, after
      <4>1. PICK x, y, z : x = Cost * after /\ y = Cost * all /\ z = Cost * before
        OBVIOUS
      <4> QED
        BY <1>2, <2>1, <2>2, <2>3, <3>1, <4>1
    <3>3. Goal
      BY <3>2
    <3> QED
      BY <1>1, <3>3 DEF Spending
  <2>4. ASSUME NEW p \in Instances, NEW s \in Stages,
               CallModel(p, s), ~Stale(s, job[p][s].row), used' = used + Cost
        PROVE  Spending'
    <3>1. s \in Due /\ s \notin Due'
      BY <1>2, <2>4, PaidStep
    <3>2. Due' \in SUBSET (Due \ {s})
      BY <1>6, <3>1
    <3>3. IsFiniteSet(Due \ {s}) /\ Cardinality(Due \ {s}) = before - 1
      BY <1>4, <3>1, FS_RemoveElement
    <3>4. after <= before - 1
      BY <3>2, <3>3, FS_Subset
    <3>5. used' + Cost * after < b + Cost * all
      <4> HIDE DEF all, before, after
      <4>1. PICK x, y, z : x = Cost * after /\ y = Cost * all /\ z = Cost * before
        OBVIOUS
      <4> QED
        BY <1>1, <1>2, <2>1, <2>2, <2>4, <3>4, <4>1
    <3>6. Goal
      BY <3>5
    <3> QED
      BY <1>1, <3>6 DEF Spending
  <2> QED
    BY <2>3, <2>4, UsedStep
<1> QED
  BY <1>3, <1>5, <1>6

\* However many processes overlap and whatever is lost or raised, the usage
\* records pass the largest budget by at most one call of each stage: a runner
\* whose claim was taken over records nothing.
THEOREM BudgetsBound == Spec => []BudgetOvershoot
<1> DEFINE Inv == History /\ Attempts /\ Budgeted /\ Spending
<1>1. Init => Inv
  <2> SUFFICES ASSUME Init PROVE Inv
    OBVIOUS
  <2>1. \A p \in Instances, s \in Stages : job[p][s].pc = "none"
    BY DEF Init, NoJob
  <2>2. Due = {} /\ Cardinality(Due) = 0
    <3>1. Due = {}
      BY <2>1 DEF Due
    <3> QED
      BY <3>1, FS_EmptySet
  <2>a. TypeOK
    BY HistoryInit DEF History, Fence
  <2>3. PICK b \in Budgets : b \in Nat /\ b > 0
    <3>1. Budgets # {} /\ Budgets \subseteq Nat \ {0}
      BY <2>a DEF TypeOK, Scene, Budgets
    <3>2. PICK c : c \in Budgets
      BY <3>1
    <3> QED
      BY <3>1, <3>2
  <2>4. Cost \in Nat /\ Cardinality(Stages) \in Nat
    BY <2>a, PipelineAssumption, FS_CardinalityType DEF TypeOK, Scene, Cost
  <2>5. Cost * Cardinality(Stages) \in Nat /\ Cost * Cardinality(Due) = 0
    BY <2>2, <2>4, CallsCost
  <2>6. Spending
    BY <2>3, <2>5 DEF Init, Spending
  <2> QED
    BY <2>1, <2>6, HistoryInit DEF Init, Attempts, Budgeted
<1>2. Inv /\ [Next]_vars => Inv'
  <2> SUFFICES ASSUME Inv, [Next]_vars PROVE Inv'
    OBVIOUS
  <2>1. Fence /\ Reached /\ TypeOK
    BY DEF History, Fence
  <2> QED
    BY <2>1, HistoryStep, AttemptsStep, BudgetedStep, SpendingStep
<1>3. Inv => BudgetOvershoot
  <2> SUFFICES ASSUME Inv PROVE BudgetOvershoot
    OBVIOUS
  <2>1. PICK b \in Budgets : used + Cost * Cardinality(Due) < b + Cost * Cardinality(Stages)
    BY DEF Spending
  <2>2. IsFiniteSet(Due)
    <3>1. Due \in SUBSET Stages /\ IsFiniteSet(Stages)
      BY PipelineAssumption DEF Due
    <3> QED
      BY <3>1, FS_Subset
  <2>b. Cost \in Nat /\ Budgets \subseteq Nat /\ used \in Nat
    BY DEF History, Fence, TypeOK, Scene, Cost, Budgets
  <2>3. /\ Cost * Cardinality(Due) \in Nat /\ Cost * Cardinality(Stages) \in Nat
        /\ b \in Nat /\ used \in Nat
    BY <2>2, <2>b, PipelineAssumption, FS_CardinalityType, CallsCost
  <2>4. used < b + Cost * Cardinality(Stages)
    <3>1. PICK x, y : x = Cost * Cardinality(Due) /\ y = Cost * Cardinality(Stages)
      OBVIOUS
    <3> QED
      BY <2>1, <2>3, <3>1
  <2> QED
    BY <2>4 DEF BudgetOvershoot
<1> QED
  BY <1>1, <1>2, <1>3, PTL DEF Spec
=============================================================================
