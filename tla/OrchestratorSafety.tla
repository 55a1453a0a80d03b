------------------------ MODULE OrchestratorSafety --------------------------
(***************************************************************************)
(* The types and the safety of Orchestrator, for every pipeline, every     *)
(* policy and any number of processes and disturbances.  Everything rests  *)
(* on one invariant, CopiesFenced: a copy of a stage row that a process    *)
(* holds, however old, is the row itself or has a smaller version.  A      *)
(* write that matches on the version therefore writes over exactly the row *)
(* that was read.  The last part is about the task status and the end of   *)
(* the event stream.                                                       *)
(***************************************************************************)
EXTENDS Orchestrator, TLAPS

(***************************************************************************)
(* What the operators of Domain return.                                    *)
(***************************************************************************)

\* NewRow and NoJob are values of their types.
LEMMA EmptyTypes ==
    NewRow \in StageRow /\ NoJob \in JobState /\ Idle \in ReconcileState
BY DEF NewRow, StageRow, StageStatuses, Kinds, Text, NoText, NoJob, JobState,
       Idle, ReconcileState, AnyStatus, TaskStatuses

\* A decision turns a stage row into a stage row.
LEMMA DecideType ==
    ASSUME NEW row \in StageRow, NEW kind \in Kinds, NEW decision
    PROVE  Decide(row, kind, decision) \in StageRow
<1>1. Rejected(row, kind) \in StageRow
  <2> DEFINE n == RetryOf(row, kind) + 1
  <2>1. n \in Nat /\ row.planRetry \in Nat /\ row.delRetry \in Nat
    BY DEF RetryOf, StageRow
  <2>2. CASE n >= MaxRetries
    BY <2>1, <2>2 DEF Rejected, StageRow, StageStatuses, Kinds
  <2>3. CASE ~(n >= MaxRetries)
    BY <2>1, <2>3 DEF Rejected, WorkOf, StageRow, StageStatuses, Kinds
  <2> QED
    BY <2>2, <2>3
<1>2. [by |-> row.plan.by, edited |-> TRUE] \in Text
  BY DEF StageRow, Text
<1>3. Accepted(row, kind, decision) \in StageRow
  BY <1>2 DEF Accepted, DoneOf, StageRow, StageStatuses, Kinds
<1> QED
  BY <1>1, <1>3 DEF Decide

\* Unblocking turns a stage row into a stage row.
LEMMA UnblockedType ==
    ASSUME NEW row \in StageRow
    PROVE  Unblocked(row) \in StageRow
BY DEF Unblocked, StageRow, StageStatuses, Kinds

\* The derived status of a task is a task status.
LEMMA DeriveType ==
    ASSUME NEW st \in AnyStatus, NEW rows
    PROVE  Derive(st, rows) \in AnyStatus
BY DEF Derive, AnyStatus, TaskStatuses

(***************************************************************************)
(* Type correctness.                                                       *)
(***************************************************************************)
\* A scene in which only what may still happen has changed.
Later(old, new) == new \in Scene /\ new.cost = old.cost /\ new.budgets = old.budgets

\* Using up a fault leaves a scene.
LEMMA OutcomeType ==
    ASSUME scene \in Scene, NEW o, Outcome(o)
    PROVE  Later(scene, scene')
BY DEF Outcome, Scene, Later

\* Using up a request leaves a scene.
LEMMA OperationType ==
    ASSUME scene \in Scene, NEW o, Operation(o)
    PROVE  Later(scene, scene')
<1> DEFINE faults == IF o = "ok" THEN scene.faults ELSE scene.faults - 1
<1>1. scene.ops - 1 \in Nat /\ faults \in Nat
  BY DEF Operation, Scene
<1>2. scene' = [scene EXCEPT !.ops = scene.ops - 1, !.faults = faults]
  BY DEF Operation
<1> HIDE DEF faults
<1> QED
  BY <1>1, <1>2 DEF Scene, Later

\* Every step leaves a scene with the same costs and budgets.
LEMMA SceneStep ==
    ASSUME scene \in Scene, [Next]_vars
    PROVE  Later(scene, scene')
<1>1. ASSUME scene' = scene
      PROVE  Later(scene, scene')
  BY <1>1 DEF Later
<1>2. ASSUME NEW p \in Instances, BeginReconcile(p)
      PROVE  Later(scene, scene')
  <2>1. scene' = scene \/ (scene.overlaps > 0 /\ scene' = [scene EXCEPT !.overlaps = @ - 1])
    BY <1>2 DEF BeginReconcile
  <2> QED
    BY <2>1 DEF Scene, Later
<1>3. ASSUME NEW p \in Instances, LoseSession(p) \/ StopProcess(p)
      PROVE  Later(scene, scene')
  <2>1. scene' = scene \/ (scene.stops > 0 /\ scene' = [scene EXCEPT !.stops = @ - 1])
    BY <1>3 DEF LoseSession, StopProcess
  <2> QED
    BY <2>1 DEF Scene, Later
<1>4. ASSUME NEW p \in Instances, Reconciling(p) \/ \E s \in Stages : Running(p, s) \/ ReturnRunner(p, s)
      PROVE  Later(scene, scene')
  <2>1. ASSUME Reconciling(p)
        PROVE  scene' = scene \/ \E o : Outcome(o)
    BY <2>1, Zenon DEF Reconciling, ReadStages, FailTask, StartTask, SkipClaim, RefuseClaim, Claim,
        FinishReconcile
  <2>2. ASSUME NEW s \in Stages, ReturnRunner(p, s) \/ CallModel(p, s) \/ Publish(p, s)
        PROVE  scene' = scene
    BY <2>2 DEF ReturnRunner, CallModel, Publish
  <2>3. ASSUME NEW s \in Stages, NEW o,
               \/ CommitStale(p, s) \/ CheckBudget(p, s, o) \/ Commit(p, s, o)
               \/ FailStage(p, s, o) \/ BlockStage(p, s, o)
        PROVE  scene' = scene \/ \E w : Outcome(w)
    BY <2>3, Zenon DEF CommitStale, CheckBudget, Commit, FailStage, BlockStage
  <2> QED
    BY <1>1, <1>4, <2>1, <2>2, <2>3, OutcomeType DEF Running
<1>5. ASSUME NEW p \in Instances, Requests(p)
      PROVE  Later(scene, scene')
  <2>1. (\E o : Outcome(o)) \/ (\E o : Operation(o))
    BY <1>5, Zenon DEF Requests, CreateTask, SetBudget, Pause, Resume, Cancel, UpdateApproval
  <2> QED
    BY <2>1, OutcomeType, OperationType
<1>6. ASSUME NEW p \in Instances, Disturbances(p)
      PROVE  Later(scene, scene')
  <2>1. LoseSession(p) \/ StopProcess(p) \/ \E o : Outcome(o)
    BY <1>6, Zenon DEF Disturbances, DefinitionLost, AbortReconcile, RunnerError
  <2> QED
    BY <1>3, <2>1, OutcomeType
<1>7. ASSUME NEW p \in Instances, StartProcess(p)
      PROVE  scene' = scene
  BY <1>7 DEF StartProcess
<1>8. CASE Finished \/ UNCHANGED vars
  <2>1. scene' = scene
    BY <1>8 DEF Finished, vars
  <2> QED
    BY <1>1, <2>1
<1> QED
  BY <1>1, <1>2, <1>4, <1>5, <1>6, <1>7, <1>8 DEF Next, Woken, Recover

\* The event stream stays a sequence of statuses.
LEMMA EmittedType ==
    ASSUME tail \in Seq(AnyStatus), NEW to \in AnyStatus
    PROVE  Emitted(to) \in Seq(AnyStatus)
BY DEF Emitted

\* deriveTx computes a task status.
LEMMA SettledType ==
    ASSUME status \in AnyStatus, NEW rows
    PROVE  Settled(rows) \in AnyStatus
BY DeriveType DEF Settled

\* Writing a row keeps the table a table of rows.
LEMMA UpdateStageType ==
    ASSUME stage \in [Stages -> StageRow], NEW s \in Stages, NEW row \in StageRow
    PROVE  UpdateStage(s, row) \in [Stages -> StageRow]
<1>1. [row EXCEPT !.version = @ + 1] \in StageRow
  BY DEF StageRow
<1> QED
  BY <1>1 DEF UpdateStage

\* Replacing one runner keeps the runners well typed.
LEMMA RunnerType ==
    ASSUME job \in [Instances -> [Stages -> JobState]],
           NEW p \in Instances, NEW s \in Stages, NEW j \in JobState
    PROVE  [job EXCEPT ![p][s] = j] \in [Instances -> [Stages -> JobState]]
<1>1. [job[p] EXCEPT ![s] = j] \in [Stages -> JobState]
  OBVIOUS
<1> QED
  BY <1>1

\* Moving a runner to its next step keeps the runners well typed.
LEMMA GotoType ==
    ASSUME job \in [Instances -> [Stages -> JobState]],
           NEW p \in Instances, NEW s \in Stages,
           NEW pc \in {"none", "check", "call", "publish", "commit", "fail", "block", "exit"},
           Goto(p, s, pc)
    PROVE  job' \in [Instances -> [Stages -> JobState]]
<1>1. job[p][s] \in JobState
  OBVIOUS
<1>2. [job[p][s] EXCEPT !.pc = pc] \in JobState
  BY <1>1 DEF JobState
<1>3. job' = [job EXCEPT ![p][s] = [job[p][s] EXCEPT !.pc = pc]]
  BY DEF Goto
<1> QED
  BY <1>2, <1>3, RunnerType

\* The result of a runner is a stage row, its request an approval row.
LEMMA ResultType ==
    ASSUME NEW s \in Stages, NEW j \in JobState
    PROVE  Result(s, j) \in StageRow /\ Request(s, j) \in Approval
<1>1. j.row \in StageRow /\ j.mode \in Kinds /\ j.row.attempt \in Nat
  BY DEF JobState, StageRow
<1>2. [by |-> j.row.attempt, edited |-> FALSE] \in Text
  BY <1>1 DEF Text
<1>3. ReviewOf(j.mode) \in StageStatuses /\ DoneOf(j.mode) \in StageStatuses
  BY DEF ReviewOf, DoneOf, StageStatuses
<1>4. Result(s, j) \in StageRow
  BY <1>1, <1>2, <1>3 DEF Result, StageRow
<1>5. Request(s, j) \in Approval
  BY <1>1 DEF Request, RetryOf, Approval, StageRow
<1> QED
  BY <1>4, <1>5

\* Dropping a stage keeps a Reconcile well typed.
LEMMA WithoutType ==
    ASSUME rec \in [Instances -> ReconcileState], NEW p \in Instances, NEW s \in Stages
    PROVE  Without(p, s) \in [Instances -> ReconcileState]
<1>1. [rec[p] EXCEPT !.todo = @ \ {s}, !.rows[s] = NewRow] \in ReconcileState
  BY EmptyTypes DEF ReconcileState
<1> QED
  BY <1>1 DEF Without

\* Every step keeps the state well typed.
LEMMA TypeStep ==
    ASSUME TypeOK, [Next]_vars
    PROVE  TypeOK'
<1>0. scene' \in Scene
  BY SceneStep DEF Later, TypeOK
<1>a. Cost \in Nat /\ \A b \in Budgets : b \in Nat
  BY DEF Cost, Budgets, TypeOK, Scene
<1>1. ASSUME NEW p \in Instances, NEW b \in Budgets, NEW o, CreateTask(p, b, o)
      PROVE  TypeOK'
  BY <1>0, <1>a, <1>1 DEF TypeOK, CreateTask, AnyStatus, TaskStatuses
<1>2. ASSUME NEW p \in Instances, BeginReconcile(p)
      PROVE  TypeOK'
  <2>1. [Idle EXCEPT !.pc = "stages", !.seen = status] \in ReconcileState
    BY EmptyTypes DEF ReconcileState, TypeOK
  <2> QED
    BY <1>0, <1>2, <2>1 DEF TypeOK, BeginReconcile, dbVars
<1>3. ASSUME NEW p \in Instances, ReadStages(p)
      PROVE  TypeOK'
  <2>1. /\ cancelled' \in [Instances -> BOOLEAN]
        /\ rec' \in [Instances -> ReconcileState]
    <3>1. Claimable(p) \in SUBSET Stages
      BY DEF Claimable
    <3>2. [s \in Stages |-> IF s \in Claimable(p) THEN stage[s] ELSE NewRow]
            \in [Stages -> StageRow]
      BY EmptyTypes DEF TypeOK
    <3>3. [pc |-> IF rec[p].seen = "queued" THEN "start" ELSE "claim",
           seen |-> "none", todo |-> Claimable(p),
           rows |-> [s \in Stages |-> IF s \in Claimable(p) THEN stage[s] ELSE NewRow]]
            \in ReconcileState
      BY <3>1, <3>2 DEF ReconcileState, AnyStatus
    <3> QED
      BY <1>3, <3>3, EmptyTypes DEF TypeOK, ReadStages
  <2> QED
    BY <1>3, <2>1 DEF TypeOK, ReadStages, dbVars
<1>4. ASSUME NEW p \in Instances, DefinitionLost(p)
      PROVE  TypeOK'
  <2>1. [Idle EXCEPT !.pc = "broken"] \in ReconcileState
    BY EmptyTypes DEF ReconcileState
  <2> QED
    BY <1>0, <1>4, <2>1 DEF TypeOK, DefinitionLost, dbVars
<1>5. ASSUME NEW p \in Instances, AbortReconcile(p)
      PROVE  TypeOK'
  BY <1>0, <1>5, EmptyTypes DEF TypeOK, AbortReconcile, dbVars
<1>6. ASSUME NEW p \in Instances, NEW o, FailTask(p, o)
      PROVE  TypeOK'
  <2>1. "failed" \in AnyStatus
    BY DEF AnyStatus, TaskStatuses
  <2>2. cancelled' \in [Instances -> BOOLEAN]
    BY <1>6 DEF TypeOK, FailTask
  <2> QED
    BY <1>0, <1>6, <2>1, <2>2, EmptyTypes, EmittedType DEF TypeOK, FailTask
<1>7. ASSUME NEW p \in Instances, NEW o, StartTask(p, o)
      PROVE  TypeOK'
  <2>1. "running" \in AnyStatus
    BY DEF AnyStatus, TaskStatuses
  <2>2. [rec[p] EXCEPT !.pc = "claim"] \in ReconcileState
    BY DEF TypeOK, ReconcileState
  <2> QED
    BY <1>0, <1>7, <2>1, <2>2, EmptyTypes, EmittedType DEF TypeOK, StartTask
<1>8. ASSUME NEW p \in Instances, NEW s \in Stages, NEW o, Claim(p, s, o)
      PROVE  TypeOK'
  <2> DEFINE row == rec[p].rows[s]
             new == [stage[s] EXCEPT !.status = Claimed(s, row).status,
                                     !.attempt = @ + 1, !.version = @ + 1]
             runner == [pc |-> FirstStep(s), row |-> Claimed(s, row), iter |-> 0,
                        mode |-> IF row.status = "executing" THEN "deliverable" ELSE "plan"]
  <2>1. row \in StageRow /\ stage[s] \in StageRow
    BY DEF TypeOK, ReconcileState
  <2>2. Claimed(s, row) \in StageRow
    <3>1. stage[s].attempt + 1 \in Nat /\ row.version + 1 \in Nat
      BY <2>1 DEF StageRow
    <3>2. (IF row.status = "executing" THEN "executing" ELSE "planning") \in StageStatuses
      BY DEF StageStatuses
    <3> HIDE DEF row
    <3> QED
      BY <2>1, <3>1, <3>2 DEF Claimed, StageRow
  <2>3. new \in StageRow
    <3>1. Claimed(s, row).status \in StageStatuses
      BY <2>2 DEF StageRow
    <3>2. stage[s].attempt + 1 \in Nat /\ stage[s].version + 1 \in Nat
      BY <2>1 DEF StageRow
    <3> QED
      BY <2>1, <3>1, <3>2 DEF StageRow
  <2>4. stage' \in [Stages -> StageRow]
    <3>1. stage' = [stage EXCEPT ![s] = new]
      BY <1>8 DEF Claim
    <3> HIDE DEF new
    <3> QED
      BY <2>3, <3>1 DEF TypeOK
  <2>5. runner \in JobState
    BY <2>2 DEF JobState, FirstStep, Kinds
  <2>6. Without(p, s) \in [Instances -> ReconcileState]
    BY WithoutType DEF TypeOK
  <2>7. /\ rec' \in [Instances -> ReconcileState]
        /\ job' \in [Instances -> [Stages -> JobState]]
    <3>1. \/ job' = [job EXCEPT ![p][s] = runner] /\ rec' = Without(p, s)
          \/ job' = job /\ rec' = [rec EXCEPT ![p] = Idle]
      BY <1>8 DEF Claim
    <3> HIDE DEF runner
    <3>2. [job EXCEPT ![p][s] = runner] \in [Instances -> [Stages -> JobState]]
      BY <2>5, RunnerType DEF TypeOK
    <3>3. [rec EXCEPT ![p] = Idle] \in [Instances -> ReconcileState]
      BY EmptyTypes DEF TypeOK
    <3> QED
      BY <3>1, <3>2, <3>3, <2>6 DEF TypeOK
  <2>8. tail' \in Seq(AnyStatus)
    BY <1>8, EmittedType DEF TypeOK, Claim
  <2> QED
    BY <1>0, <1>8, <2>4, <2>7, <2>8 DEF TypeOK, Claim
<1>9. ASSUME NEW p \in Instances, NEW s \in Stages, SkipClaim(p, s) \/ RefuseClaim(p, s)
      PROVE  TypeOK'
  <2>1. rec' \in [Instances -> ReconcileState]
    <3>1. Without(p, s) \in [Instances -> ReconcileState]
      BY WithoutType DEF TypeOK
    <3>2. [rec EXCEPT ![p] = Idle] \in [Instances -> ReconcileState]
      BY EmptyTypes DEF TypeOK
    <3> QED
      BY <1>9, <3>1, <3>2 DEF SkipClaim, RefuseClaim
  <2> QED
    BY <1>9, <2>1 DEF TypeOK, SkipClaim, RefuseClaim, dbVars
<1>10. ASSUME NEW p \in Instances, FinishReconcile(p)
       PROVE  TypeOK'
  <2>1. status' \in AnyStatus /\ tail' \in Seq(AnyStatus)
    BY <1>10, SettledType, EmittedType DEF TypeOK, FinishReconcile
  <2> QED
    BY <1>10, <2>1, EmptyTypes DEF TypeOK, FinishReconcile
<1>11. ASSUME NEW p \in Instances, NEW s \in Stages, NEW o, CheckBudget(p, s, o)
       PROVE  TypeOK'
  <2>1. job' \in [Instances -> [Stages -> JobState]]
    BY <1>11, GotoType DEF TypeOK, CheckBudget
  <2>2. status' \in AnyStatus /\ tail' \in Seq(AnyStatus)
    <3>1. "paused" \in AnyStatus
      BY DEF AnyStatus, TaskStatuses
    <3> QED
      BY <1>11, <3>1, EmittedType DEF TypeOK, CheckBudget
  <2> QED
    BY <1>0, <1>11, <2>1, <2>2 DEF TypeOK, CheckBudget
<1>12. ASSUME NEW p \in Instances, NEW s \in Stages, CallModel(p, s)
       PROVE  TypeOK'
  <2>1. job' \in [Instances -> [Stages -> JobState]]
    <3>1. [job[p][s] EXCEPT !.pc = "check", !.iter = @ + 1] \in JobState
      <4>1. job[p][s] \in JobState /\ job[p][s].iter + 1 \in Nat
        BY DEF TypeOK, JobState
      <4> QED
        BY <4>1 DEF JobState
    <3>2. \/ Goto(p, s, "exit") \/ Goto(p, s, "commit")
          \/ job' = [job EXCEPT ![p][s] = [job[p][s] EXCEPT !.pc = "check", !.iter = @ + 1]]
      BY <1>12 DEF CallModel
    <3> DEFINE again == [job[p][s] EXCEPT !.pc = "check", !.iter = @ + 1]
    <3> HIDE DEF again
    <3>3. [job EXCEPT ![p][s] = again] \in [Instances -> [Stages -> JobState]]
      BY <3>1, RunnerType DEF TypeOK, again
    <3> QED
      BY <3>2, <3>3, GotoType DEF TypeOK, again
  <2>2. used' \in Nat /\ tail' \in Seq(AnyStatus)
    BY <1>a, <1>12, EmittedType DEF TypeOK, CallModel
  <2> QED
    BY <1>12, <2>1, <2>2 DEF TypeOK, CallModel
<1>13. ASSUME NEW p \in Instances, NEW s \in Stages, Publish(p, s)
       PROVE  TypeOK'
  <2>1. job' \in [Instances -> [Stages -> JobState]] /\ tail' \in Seq(AnyStatus)
    BY <1>13, GotoType, EmittedType DEF TypeOK, Publish
  <2> QED
    BY <1>13, <2>1 DEF TypeOK, Publish
<1>14. ASSUME NEW p \in Instances, NEW s \in Stages,
              RunnerError(p, s) \/ CommitStale(p, s)
       PROVE  TypeOK'
  <2>1. job' \in [Instances -> [Stages -> JobState]]
    BY <1>14, GotoType DEF TypeOK, RunnerError, CommitStale
  <2> QED
    BY <1>0, <1>14, <2>1 DEF TypeOK, RunnerError, CommitStale, dbVars
<1>15. ASSUME NEW p \in Instances, NEW s \in Stages, NEW o, Commit(p, s, o)
       PROVE  TypeOK'
  <2>1. job[p][s] \in JobState
    BY DEF TypeOK
  <2>2. stage' \in [Stages -> StageRow] /\ approvals' \subseteq Approval
    BY <1>15, <2>1, ResultType, UpdateStageType DEF TypeOK, Commit
  <2>3. status' \in AnyStatus /\ tail' \in Seq(AnyStatus)
    BY <1>15, SettledType, EmittedType DEF TypeOK, Commit
  <2>4. job' \in [Instances -> [Stages -> JobState]]
    BY <1>15, GotoType DEF TypeOK, Commit
  <2> QED
    BY <1>0, <1>15, <2>2, <2>3, <2>4 DEF TypeOK, Commit
<1>16. ASSUME NEW p \in Instances, NEW s \in Stages, NEW o, FailStage(p, s, o)
       PROVE  TypeOK'
  <2>1. status' \in AnyStatus /\ tail' \in Seq(AnyStatus)
    <3>1. "failed" \in AnyStatus
      BY DEF AnyStatus, TaskStatuses
    <3> QED
      BY <1>16, <3>1, EmittedType DEF TypeOK, FailStage
  <2>2. job' \in [Instances -> [Stages -> JobState]]
    BY <1>16, GotoType DEF TypeOK, FailStage
  <2>3. cancelled' \in [Instances -> BOOLEAN]
    BY <1>16 DEF TypeOK, FailStage
  <2> QED
    BY <1>0, <1>16, <2>1, <2>2, <2>3 DEF TypeOK, FailStage
<1>17. ASSUME NEW p \in Instances, NEW s \in Stages, NEW o, BlockStage(p, s, o)
       PROVE  TypeOK'
  <2> DEFINE row == [job[p][s].row EXCEPT !.status = "blocked", !.blocked = "publish"]
  <2>1. row \in StageRow
    <3>1. job[p][s].row \in StageRow
      BY DEF TypeOK, JobState
    <3> QED
      BY <3>1 DEF StageRow, StageStatuses
  <2>2. UpdateStage(s, row) \in [Stages -> StageRow]
    BY <2>1, UpdateStageType DEF TypeOK
  <2>3. stage' = UpdateStage(s, row) \/ stage' = stage
    BY <1>17 DEF BlockStage
  <2>4. status' \in AnyStatus /\ tail' \in Seq(AnyStatus)
    BY <1>17, SettledType, EmittedType DEF TypeOK, BlockStage
  <2>5. job' \in [Instances -> [Stages -> JobState]]
    BY <1>17, GotoType DEF TypeOK, BlockStage
  <2> HIDE DEF row
  <2> QED
    BY <1>0, <1>17, <2>2, <2>3, <2>4, <2>5 DEF TypeOK, BlockStage
<1>18. ASSUME NEW p \in Instances, NEW s \in Stages, ReturnRunner(p, s)
       PROVE  TypeOK'
  <2>1. job' = [job EXCEPT ![p] = [job[p] EXCEPT ![s] = NoJob]]
    BY <1>18 DEF ReturnRunner
  <2> QED
    BY <1>18, <2>1, EmptyTypes DEF TypeOK, ReturnRunner, dbVars
<1>19. ASSUME NEW p \in Instances, NEW a \in approvals, NEW d \in Decisions, NEW o,
              UpdateApproval(p, a, d, o)
       PROVE  TypeOK'
  <2>1. a \in Approval /\ a.stage \in Stages /\ a.kind \in Kinds
    BY DEF TypeOK, Approval
  <2>2. Verdict(d) \in {"approved", "rejected", "edited"}
    BY DEF Decisions, Verdict
  <2>3. [a EXCEPT !.status = Verdict(d)] \in Approval
    BY <2>1, <2>2 DEF Approval
  <2>4. approvals' \subseteq Approval
    BY <1>19, <2>3 DEF TypeOK, UpdateApproval
  <2>5. stage' \in [Stages -> StageRow]
    BY <1>19, <2>1, DecideType, UpdateStageType DEF TypeOK, UpdateApproval
  <2>6. status' \in AnyStatus /\ tail' \in Seq(AnyStatus)
    BY <1>19, SettledType, EmittedType DEF TypeOK, UpdateApproval
  <2>7. wake' \in [Instances -> BOOLEAN]
    BY <1>19 DEF TypeOK, UpdateApproval
  <2> QED
    BY <1>0, <1>19, <2>4, <2>5, <2>6, <2>7 DEF TypeOK, UpdateApproval
<1>20. ASSUME NEW p \in Instances, Pause(p)
       PROVE  TypeOK'
  <2>1. "paused" \in AnyStatus
    BY DEF AnyStatus, TaskStatuses
  <2> QED
    BY <1>0, <1>20, <2>1, EmittedType DEF TypeOK, Pause, procVars
<1>21. ASSUME NEW p \in Instances, NEW o, Resume(p, o)
       PROVE  TypeOK'
  <2>1. "running" \in AnyStatus
    BY DEF AnyStatus, TaskStatuses
  <2>2. ASSUME NEW s \in Stages
        PROVE  [Unblocked(stage[s]) EXCEPT !.version = @ + 1] \in StageRow
    <3>1. Unblocked(stage[s]) \in StageRow
      BY UnblockedType DEF TypeOK
    <3> QED
      BY <3>1 DEF StageRow
  <2>3. stage' \in [Stages -> StageRow]
    BY <1>21, <2>2 DEF TypeOK, Resume
  <2>4. wake' \in [Instances -> BOOLEAN]
    BY <1>21 DEF TypeOK, Resume
  <2> QED
    BY <1>0, <1>21, <2>1, <2>3, <2>4, EmittedType DEF TypeOK, Resume
<1>22. ASSUME NEW p \in Instances, NEW o, Cancel(p, o)
       PROVE  TypeOK'
  <2>1. "cancelled" \in AnyStatus
    BY DEF AnyStatus, TaskStatuses
  <2>2. cancelled' \in [Instances -> BOOLEAN]
    BY <1>22 DEF TypeOK, Cancel
  <2> QED
    BY <1>0, <1>22, <2>1, <2>2, EmittedType DEF TypeOK, Cancel
<1>23. ASSUME NEW p \in Instances, NEW b \in Budgets, SetBudget(p, b)
       PROVE  TypeOK'
  BY <1>0, <1>a, <1>23 DEF TypeOK, SetBudget, procVars
<1>24. ASSUME NEW p \in Instances, StartProcess(p) \/ LoseSession(p)
       PROVE  TypeOK'
  BY <1>0, <1>24 DEF TypeOK, StartProcess, LoseSession, dbVars
<1>25. ASSUME NEW p \in Instances, StopProcess(p)
       PROVE  TypeOK'
  <2>2. /\ job' \in [Instances -> [Stages -> JobState]]
        /\ rec' \in [Instances -> ReconcileState]
    <3> DEFINE none == [s \in Stages |-> NoJob]
    <3>1. none \in [Stages -> JobState]
      BY EmptyTypes
    <3>2. job' = [job EXCEPT ![p] = none] /\ rec' = [rec EXCEPT ![p] = Idle]
      BY <1>25 DEF StopProcess
    <3> HIDE DEF none
    <3>3. [job EXCEPT ![p] = none] \in [Instances -> [Stages -> JobState]]
      BY <3>1 DEF TypeOK
    <3> QED
      BY <3>2, <3>3, EmptyTypes DEF TypeOK
  <2>3. /\ wake' \in [Instances -> BOOLEAN] /\ cancelled' \in [Instances -> BOOLEAN]
        /\ up' \subseteq Instances /\ leader' \in Instances \cup {NoInstance}
    BY <1>25 DEF TypeOK, StopProcess
  <2> QED
    BY <1>0, <1>25, <2>2, <2>3 DEF TypeOK, StopProcess, dbVars
<1>26. CASE UNCHANGED vars
  BY <1>26 DEF TypeOK, vars, dbVars, procVars
<1> QED
  BY <1>1, <1>2, <1>3, <1>4, <1>5, <1>6, <1>7, <1>8, <1>9, <1>10, <1>11, <1>12, <1>13,
     <1>14, <1>15, <1>16, <1>17, <1>18, <1>19, <1>20, <1>21, <1>22, <1>23, <1>24,
     <1>25, <1>26
  DEF Next, Woken, Recover, Reconciling, Running, Requests, Disturbances, Finished

\* The initial state is well typed.
LEMMA TypeInit == Init => TypeOK
BY EmptyTypes, ModelAssumption DEF Init, TypeOK, AnyStatus

\* Every state of the system is well typed, for every pipeline and any number
\* of processes, faults and requests.
THEOREM TypeCorrect == Spec => []TypeOK
BY TypeInit, TypeStep, PTL DEF Spec

(***************************************************************************)
(* What a step does to one stage row: nothing, or one write that neither   *)
(* touches an approved stage nor returns one to pending, that starts a     *)
(* stage only when it is ready, and that lets no counter run backwards.    *)
(***************************************************************************)
Written(s) ==
    /\ stage[s].status # "approved"
    /\ stage'[s].status # "pending"
    /\ stage[s].status = "pending" => Ready(s, stage)
    /\ stage'[s].version = stage[s].version + 1
    /\ stage'[s].attempt >= stage[s].attempt
    /\ stage'[s].planRetry >= stage[s].planRetry
    /\ stage'[s].delRetry >= stage[s].delRetry

Moves == \A s \in Stages : stage'[s] = stage[s] \/ Written(s)

\* A decision on a reviewed row leaves attempt and version alone, never lowers
\* a retry counter and never returns the stage to pending.
LEMMA DecideKeeps ==
    ASSUME NEW row \in StageRow, NEW kind \in Kinds, NEW decision
    PROVE  LET new == Decide(row, kind, decision) IN
           /\ new.status # "pending" /\ new.version = row.version
           /\ new.attempt = row.attempt
           /\ new.planRetry >= row.planRetry /\ new.delRetry >= row.delRetry
<1>1. /\ row.planRetry \in Nat /\ row.delRetry \in Nat
      /\ row.version \in Nat /\ row.attempt \in Nat
  BY DEF StageRow
<1>2. LET new == Rejected(row, kind) IN
      /\ new.version = row.version /\ new.attempt = row.attempt
      /\ new.planRetry >= row.planRetry /\ new.delRetry >= row.delRetry
      /\ new.status # "pending"
  BY <1>1 DEF Rejected, RetryOf, WorkOf, StageRow
<1>3. LET new == Accepted(row, kind, decision) IN
      /\ new.version = row.version /\ new.attempt = row.attempt
      /\ new.planRetry >= row.planRetry /\ new.delRetry >= row.delRetry
      /\ new.status # "pending"
  BY <1>1 DEF Accepted, DoneOf, StageRow
<1> QED
  BY <1>2, <1>3 DEF Decide

\* Every write of a stage row is a Written step.
LEMMA StageMoves ==
    ASSUME TypeOK, CopiesFenced, [Next]_vars
    PROVE  Moves
<1>1. ASSUME NEW p \in Instances, NEW s \in Stages, NEW o, Claim(p, s, o)
      PROVE  Moves
  <2> DEFINE row == rec[p].rows[s]
  <2>1. /\ row.status \in {"pending", "planning", "executing"}
        /\ stage[s].status = row.status
        /\ stage[s].status = "pending" => Ready(s, stage)
    BY <1>1 DEF Claim, ClaimStale, ClaimMatches, CopiesFenced
  <2>2. Claimed(s, row).status \in {"planning", "executing"}
    <3>1. row \in StageRow
      BY DEF TypeOK, ReconcileState
    <3> QED
      BY <3>1 DEF Claimed, StageRow
  <2>3. stage' = [stage EXCEPT ![s] = [stage[s] EXCEPT !.status = Claimed(s, row).status,
                                                      !.attempt = @ + 1, !.version = @ + 1]]
    BY <1>1 DEF Claim
  <2>4. stage[s] \in StageRow
    BY DEF TypeOK
  <2>5. Written(s)
    BY <2>1, <2>2, <2>3, <2>4 DEF Written, StageRow, TypeOK
  <2>6. \A t \in Stages : t # s => stage'[t] = stage[t]
    BY <2>3 DEF TypeOK
  <2> QED
    BY <2>5, <2>6 DEF Moves
<1>2. ASSUME NEW p \in Instances, NEW s \in Stages, NEW o, Commit(p, s, o)
      PROVE  Moves
  <2> DEFINE j == job[p][s]
  <2>1. j \in JobState /\ j.row \in StageRow /\ j.pc # "none"
    BY <1>2 DEF Commit, At, TypeOK, JobState
  <2>2. j.row = stage[s] /\ stage[s].status = WorkOf(j.mode)
    BY <1>2, <2>1 DEF Commit, Matches, CopiesFenced, StageRow, TypeOK
  <2>3. /\ Result(s, j).status # "pending"
        /\ Result(s, j).version = stage[s].version
        /\ Result(s, j).attempt = stage[s].attempt
        /\ Result(s, j).planRetry = stage[s].planRetry
        /\ Result(s, j).delRetry = stage[s].delRetry
    BY <2>1, <2>2 DEF Result, ReviewOf, DoneOf, StageRow
  <2>4. stage' = [stage EXCEPT ![s] = [Result(s, j) EXCEPT !.version = @ + 1]]
    BY <1>2 DEF Commit, UpdateStage
  <2>5. Result(s, j) \in StageRow
    BY <2>1, ResultType
  <2>6. Written(s)
    BY <2>2, <2>3, <2>4, <2>5 DEF Written, WorkOf, StageRow, TypeOK
  <2>7. \A t \in Stages : t # s => stage'[t] = stage[t]
    BY <2>4 DEF TypeOK
  <2> QED
    BY <2>6, <2>7 DEF Moves
<1>3. ASSUME NEW p \in Instances, NEW s \in Stages, NEW o, BlockStage(p, s, o)
      PROVE  Moves
  <2> DEFINE row == job[p][s].row
             new == [row EXCEPT !.status = "blocked", !.blocked = "publish"]
  <2>1. CASE stage' = stage
    BY <2>1 DEF Moves
  <2>2. CASE stage' # stage
    <3>1. row \in StageRow /\ job[p][s].pc # "none"
      BY <1>3 DEF BlockStage, At, TypeOK, JobState
    <3>2. row = stage[s] /\ stage[s].status = WorkOf(job[p][s].mode)
      BY <1>3, <2>2, <3>1 DEF BlockStage, Matches, CopiesFenced, StageRow, TypeOK
    <3>3. stage' = [stage EXCEPT ![s] = [new EXCEPT !.version = @ + 1]]
      BY <1>3, <2>2 DEF BlockStage, UpdateStage
    <3>4. Written(s)
      BY <3>1, <3>2, <3>3 DEF Written, WorkOf, StageRow, TypeOK
    <3>5. \A t \in Stages : t # s => stage'[t] = stage[t]
      BY <3>3 DEF TypeOK
    <3> QED
      BY <3>4, <3>5 DEF Moves
  <2> QED
    BY <2>1, <2>2
<1>4. ASSUME NEW p \in Instances, NEW a \in approvals, NEW d, NEW o,
             UpdateApproval(p, a, d, o)
      PROVE  Moves
  <2> DEFINE s == a.stage
             new == Decide(stage[s], a.kind, d)
  <2>1. s \in Stages /\ a.kind \in Kinds /\ stage[s] \in StageRow
    BY DEF TypeOK, Approval
  <2>2. stage[s].status = ReviewOf(a.kind)
    BY <1>4 DEF UpdateApproval
  <2>3. /\ new \in StageRow
        /\ new.status # "pending" /\ new.version = stage[s].version
        /\ new.attempt = stage[s].attempt
        /\ new.planRetry >= stage[s].planRetry /\ new.delRetry >= stage[s].delRetry
    BY <2>1, DecideType, DecideKeeps
  <2>4. stage' = [stage EXCEPT ![s] = [new EXCEPT !.version = @ + 1]]
    BY <1>4 DEF UpdateApproval, UpdateStage
  <2> HIDE DEF s, new
  <2>5. Written(s)
    BY <2>1, <2>2, <2>3, <2>4 DEF Written, ReviewOf, StageRow, TypeOK
  <2>6. \A t \in Stages : t # s => stage'[t] = stage[t]
    BY <2>4 DEF TypeOK
  <2> QED
    BY <2>5, <2>6 DEF Moves
<1>5. ASSUME NEW p \in Instances, NEW o, Resume(p, o)
      PROVE  Moves
  <2> SUFFICES ASSUME NEW s \in Stages
               PROVE  stage'[s] = stage[s] \/ Written(s)
    BY DEF Moves
  <2>1. stage[s] \in StageRow
    BY DEF TypeOK
  <2>2. \/ stage'[s] = stage[s]
        \/ /\ stage[s].status = "blocked"
           /\ stage'[s] = [Unblocked(stage[s]) EXCEPT !.version = @ + 1]
    BY <1>5 DEF Resume
  <2>3. LET new == Unblocked(stage[s]) IN
        /\ new \in StageRow /\ new.status # "pending" /\ new.version = stage[s].version
        /\ new.attempt = stage[s].attempt
        /\ new.planRetry = stage[s].planRetry /\ new.delRetry = stage[s].delRetry
    BY <2>1, UnblockedType DEF Unblocked, StageRow
  <2> QED
    BY <2>1, <2>2, <2>3 DEF Written, StageRow
<1>6. CASE stage' = stage
  BY <1>6 DEF Moves
<1>7. ASSUME NEW p \in Instances, Reconciling(p)
      PROVE  Moves
  BY <1>1, <1>6, <1>7
  DEF Reconciling, ReadStages, FailTask, StartTask, SkipClaim, RefuseClaim,
      FinishReconcile, dbVars
<1>8. ASSUME NEW p \in Instances, NEW s \in Stages, Running(p, s) \/ ReturnRunner(p, s)
      PROVE  Moves
  BY <1>2, <1>3, <1>6, <1>8
  DEF Running, CheckBudget, CallModel, Publish, CommitStale,
      FailStage, ReturnRunner, dbVars
<1>9. ASSUME NEW p \in Instances, Requests(p)
      PROVE  Moves
  BY <1>4, <1>5, <1>6, <1>9 DEF Requests, CreateTask, Pause, Cancel, SetBudget
<1>10. ASSUME NEW p \in Instances,
              Woken(p) \/ Recover(p) \/ Disturbances(p) \/ StartProcess(p)
       PROVE  stage' = stage
  BY <1>10 DEF Woken, Recover, BeginReconcile, Disturbances, StartProcess, LoseSession,
      StopProcess, DefinitionLost, AbortReconcile, RunnerError, dbVars
<1>11. CASE UNCHANGED vars
  BY <1>6, <1>11 DEF vars, dbVars
<1> QED
  BY <1>6, <1>7, <1>8, <1>9, <1>10, <1>11 DEF Next, Finished
(***************************************************************************)
(* What a step does to the copies that a process holds.                    *)
(***************************************************************************)

\* A Reconcile's row is one it had before, or the current row read now.
HeldOrRead(p, s) ==
    s \in rec'[p].todo =>
        \/ s \in rec[p].todo /\ rec'[p].rows[s] = rec[p].rows[s]
        \/ /\ rec'[p].rows[s] = stage[s] /\ stage'[s] = stage[s]
           /\ stage[s].status \in {"pending", "planning", "executing"}

\* A runner's row is the one it had before, or was claimed now.
KeptOrClaimed(p, s) ==
    job'[p][s].pc # "none" =>
        \/ /\ job[p][s].pc # "none"
           /\ job'[p][s].row = job[p][s].row /\ job'[p][s].mode = job[p][s].mode
        \/ \E o : Claim(p, s, o) /\ o = "ok"

Held == \A p \in Instances, s \in Stages : HeldOrRead(p, s)
Kept == \A p \in Instances, s \in Stages : KeptOrClaimed(p, s)

\* A Reconcile that forgets its stages holds no rows.
LEMMA IdleHolds ==
    ASSUME TypeOK, NEW p \in Instances, NEW r, r.todo = {}, rec' = [rec EXCEPT ![p] = r]
    PROVE  Held
BY DEF TypeOK, Held, HeldOrRead

\* Dropping a stage keeps the rows of the others.
LEMMA WithoutHolds ==
    ASSUME TypeOK, NEW p \in Instances, NEW s \in Stages, rec' = Without(p, s)
    PROVE  Held
<1> SUFFICES ASSUME NEW q \in Instances, NEW t \in Stages
             PROVE  HeldOrRead(q, t)
  BY DEF Held
<1>1. CASE q # p
  BY <1>1 DEF TypeOK, Without, HeldOrRead
<1>2. CASE q = p
  <2>1. rec[p] \in ReconcileState
    BY DEF TypeOK
  <2>2. rec'[p] = [rec[p] EXCEPT !.todo = @ \ {s}, !.rows[s] = NewRow]
    BY DEF TypeOK, Without
  <2>3. rec'[p].todo = rec[p].todo \ {s} /\ (t # s => rec'[p].rows[t] = rec[p].rows[t])
    BY <2>1, <2>2 DEF ReconcileState
  <2> QED
    BY <1>2, <2>3 DEF HeldOrRead
<1> QED
  BY <1>1, <1>2

\* Every step lets each Reconcile hold only rows it had or reads now.
LEMMA RowsHeld ==
    ASSUME TypeOK, [Next]_vars
    PROVE  Held
<1>1. CASE rec' = rec
  BY <1>1 DEF Held, HeldOrRead
<1>2. ASSUME NEW p \in Instances, rec' = [rec EXCEPT ![p] = Idle]
      PROVE  Held
  BY <1>2, IdleHolds DEF Idle
<1>3. ASSUME NEW p \in Instances, BeginReconcile(p)
      PROVE  Held
  BY <1>3, IdleHolds DEF BeginReconcile, Idle
<1>4. ASSUME NEW p \in Instances, ReadStages(p)
      PROVE  Held
  <2>1. CASE rec' = [rec EXCEPT ![p] = Idle]
    BY <1>2, <2>1
  <2>2. CASE rec' # [rec EXCEPT ![p] = Idle]
    <3> SUFFICES ASSUME NEW q \in Instances, NEW t \in Stages
                 PROVE  HeldOrRead(q, t)
      BY DEF Held
    <3>1. rec' = [rec EXCEPT ![p] =
                       [pc |-> IF rec[p].seen = "queued" THEN "start" ELSE "claim",
                        seen |-> "none", todo |-> Claimable(p),
                        rows |-> [s \in Stages |-> IF s \in Claimable(p)
                                                   THEN stage[s] ELSE NewRow]]]
      BY <1>4, <2>2 DEF ReadStages
    <3>2. CASE q # p
      BY <3>1, <3>2 DEF TypeOK, HeldOrRead
    <3>3. CASE q = p
      <4>1. rec'[p].todo = Claimable(p) /\ (t \in Claimable(p) => rec'[p].rows[t] = stage[t])
        BY <3>1 DEF TypeOK
      <4>2. t \in Claimable(p) => stage[t].status \in {"pending", "planning", "executing"}
        BY DEF Claimable
      <4>3. stage' = stage
        BY <1>4 DEF ReadStages, dbVars
      <4> QED
        BY <3>3, <4>1, <4>2, <4>3 DEF HeldOrRead
    <3> QED
      BY <3>2, <3>3
  <2> QED
    BY <2>1, <2>2
<1>5. ASSUME NEW p \in Instances, DefinitionLost(p)
      PROVE  Held
  BY <1>5, IdleHolds DEF DefinitionLost, Idle
<1>6. ASSUME NEW p \in Instances, NEW o, StartTask(p, o)
      PROVE  Held
  <2>1. CASE rec' = [rec EXCEPT ![p] = Idle]
    BY <1>2, <2>1
  <2>2. CASE rec' = [rec EXCEPT ![p] = [rec[p] EXCEPT !.pc = "claim"]]
    <3>1. rec[p] \in ReconcileState
      BY DEF TypeOK
    <3>2. [rec[p] EXCEPT !.pc = "claim"].todo = rec[p].todo
          /\ [rec[p] EXCEPT !.pc = "claim"].rows = rec[p].rows
      BY <3>1 DEF ReconcileState
    <3> QED
      BY <2>2, <3>2 DEF TypeOK, Held, HeldOrRead
  <2> QED
    BY <1>6, <2>1, <2>2 DEF StartTask
<1>7. ASSUME NEW p \in Instances, NEW s \in Stages,
             SkipClaim(p, s) \/ RefuseClaim(p, s) \/ \E o : Claim(p, s, o)
      PROVE  Held
  BY <1>2, <1>7, WithoutHolds DEF SkipClaim, RefuseClaim, Claim
<1>8. ASSUME NEW p \in Instances, Reconciling(p)
      PROVE  Held
  BY <1>2, <1>4, <1>6, <1>7, <1>8 DEF Reconciling, FailTask, FinishReconcile
<1>9. ASSUME NEW p \in Instances, NEW s \in Stages, Running(p, s) \/ ReturnRunner(p, s)
      PROVE  rec' = rec
  BY <1>9 DEF Running, CheckBudget, CallModel, Publish, CommitStale, Commit,
      FailStage, BlockStage, ReturnRunner
<1>10. ASSUME NEW p \in Instances, Requests(p) \/ StartProcess(p)
       PROVE  rec' = rec
  BY <1>10 DEF Requests, CreateTask, Pause, Resume, Cancel, SetBudget, UpdateApproval,
      StartProcess, procVars
<1>11. ASSUME NEW p \in Instances, Disturbances(p)
       PROVE  Held
  BY <1>1, <1>2, <1>5, <1>11 DEF Disturbances, LoseSession, StopProcess, AbortReconcile,
      RunnerError
<1>12. CASE UNCHANGED vars
  BY <1>1, <1>12 DEF vars, procVars
<1> QED
  BY <1>1, <1>3, <1>8, <1>9, <1>10, <1>11, <1>12 DEF Next, Woken, Recover, Finished

\* A runner that moves to its next step keeps its row.
LEMMA GotoKeeps ==
    ASSUME TypeOK, NEW p \in Instances, NEW s \in Stages, NEW j,
           job[p][s].pc # "none", j.row = job[p][s].row, j.mode = job[p][s].mode,
           job' = [job EXCEPT ![p][s] = j]
    PROVE  Kept
<1> SUFFICES ASSUME NEW q \in Instances, NEW t \in Stages
             PROVE  KeptOrClaimed(q, t)
  BY DEF Kept
<1>1. job'[q][t] = IF q = p /\ t = s THEN j ELSE job[q][t]
  BY DEF TypeOK
<1> QED
  BY <1>1 DEF KeptOrClaimed

\* Every step lets each runner work only on the row it had or claims now.
LEMMA RowsKept ==
    ASSUME TypeOK, [Next]_vars
    PROVE  Kept
<1>1. CASE job' = job
  BY <1>1 DEF Kept, KeptOrClaimed
<1>2. ASSUME NEW p \in Instances, NEW s \in Stages, NEW pc, Goto(p, s, pc),
             job[p][s].pc # "none"
      PROVE  Kept
  <2> DEFINE j == [job[p][s] EXCEPT !.pc = pc]
  <2>1. job[p][s] \in JobState
    BY DEF TypeOK
  <2>2. j.row = job[p][s].row /\ j.mode = job[p][s].mode
    BY <2>1 DEF JobState
  <2>3. job' = [job EXCEPT ![p][s] = j]
    BY <1>2 DEF Goto
  <2> HIDE DEF j
  <2> QED
    BY <1>2, <2>2, <2>3, GotoKeeps
<1>3. ASSUME NEW p \in Instances, NEW s \in Stages, NEW o, Claim(p, s, o)
      PROVE  Kept
  <2> SUFFICES ASSUME NEW q \in Instances, NEW t \in Stages
               PROVE  KeptOrClaimed(q, t)
    BY DEF Kept
  <2>1. CASE o = "ok" /\ q = p /\ t = s
    BY <1>3, <2>1 DEF KeptOrClaimed
  <2>2. CASE ~(o = "ok" /\ q = p /\ t = s)
    <3>1. job'[q][t] = job[q][t]
      BY <1>3, <2>2 DEF Claim, TypeOK
    <3> QED
      BY <3>1 DEF KeptOrClaimed
  <2> QED
    BY <2>1, <2>2
<1>4. ASSUME NEW p \in Instances, Reconciling(p)
      PROVE  Kept
  BY <1>1, <1>3, <1>4 DEF Reconciling, ReadStages, FailTask, StartTask, SkipClaim,
      RefuseClaim, FinishReconcile
<1>5. ASSUME NEW p \in Instances, NEW s \in Stages, CallModel(p, s)
      PROVE  Kept
  <2> DEFINE j == [job[p][s] EXCEPT !.pc = "check", !.iter = @ + 1]
  <2>1. job[p][s] \in JobState /\ job[p][s].pc # "none"
    BY <1>5 DEF TypeOK, CallModel, At
  <2>2. j.row = job[p][s].row /\ j.mode = job[p][s].mode
    BY <2>1 DEF JobState
  <2>3. \/ Goto(p, s, "exit") \/ Goto(p, s, "commit")
        \/ job' = [job EXCEPT ![p][s] = j]
    BY <1>5 DEF CallModel
  <2> HIDE DEF j
  <2> QED
    BY <1>2, <2>1, <2>2, <2>3, GotoKeeps
<1>6. ASSUME NEW p \in Instances, NEW s \in Stages,
             \/ Publish(p, s) \/ CommitStale(p, s) \/ RunnerError(p, s)
             \/ \E o \in Outcomes : \/ CheckBudget(p, s, o) \/ Commit(p, s, o)
                                   \/ FailStage(p, s, o) \/ BlockStage(p, s, o)
      PROVE  Kept
  <2>1. job[p][s].pc # "none" /\ \E pc : Goto(p, s, pc)
    BY <1>6 DEF Publish, CommitStale, RunnerError, CheckBudget, Commit,
        FailStage, BlockStage, At
  <2> QED
    BY <1>2, <2>1
<1>7. ASSUME NEW p \in Instances, NEW s \in Stages, ReturnRunner(p, s)
      PROVE  Kept
  <2> SUFFICES ASSUME NEW q \in Instances, NEW t \in Stages
               PROVE  KeptOrClaimed(q, t)
    BY DEF Kept
  <2>1. job'[q][t] = IF q = p /\ t = s THEN NoJob ELSE job[q][t]
    BY <1>7 DEF ReturnRunner, TypeOK
  <2> QED
    BY <2>1 DEF KeptOrClaimed, NoJob
<1>8. ASSUME NEW p \in Instances, StopProcess(p)
      PROVE  Kept
  <2> SUFFICES ASSUME NEW q \in Instances, NEW t \in Stages
               PROVE  KeptOrClaimed(q, t)
    BY DEF Kept
  <2>1. job'[q][t] = IF q = p THEN NoJob ELSE job[q][t]
    BY <1>8 DEF StopProcess, TypeOK
  <2> QED
    BY <2>1 DEF KeptOrClaimed, NoJob
<1>9. ASSUME NEW p \in Instances,
             Requests(p) \/ StartProcess(p) \/ BeginReconcile(p) \/ LoseSession(p)
             \/ DefinitionLost(p) \/ AbortReconcile(p)
      PROVE  job' = job
  BY <1>9 DEF Requests, CreateTask, Pause, Resume, Cancel, SetBudget, UpdateApproval,
      StartProcess, BeginReconcile, LoseSession, DefinitionLost, AbortReconcile, procVars
<1>10. CASE UNCHANGED vars
  BY <1>1, <1>10 DEF vars, procVars
<1> QED
  BY <1>1, <1>4, <1>5, <1>6, <1>7, <1>8, <1>9, <1>10
  DEF Next, Running, Disturbances, Woken, Recover, Finished

(***************************************************************************)
(* The fence, and what follows from it.                                    *)
(***************************************************************************)
Fence == TypeOK /\ CopiesFenced

\* Every step keeps the copies fenced.
LEMMA FenceStep ==
    ASSUME Fence, [Next]_vars
    PROVE  Fence'
<1>1. TypeOK /\ CopiesFenced /\ TypeOK'
  BY TypeStep DEF Fence
<1>2. Moves /\ Held /\ Kept
  BY <1>1, StageMoves, RowsHeld, RowsKept
<1>3. ASSUME NEW p \in Instances, NEW s \in Stages, s \in rec'[p].todo
      PROVE  /\ rec'[p].rows[s].status \in {"pending", "planning", "executing"}
             /\ rec'[p].rows[s] = stage'[s] \/ rec'[p].rows[s].version < stage'[s].version
  <2>1. CASE rec'[p].rows[s] = stage[s] /\ stage'[s] = stage[s]
             /\ stage[s].status \in {"pending", "planning", "executing"}
    BY <2>1
  <2>2. CASE s \in rec[p].todo /\ rec'[p].rows[s] = rec[p].rows[s]
    <3> DEFINE row == rec[p].rows[s]
    <3>1. /\ row.status \in {"pending", "planning", "executing"}
          /\ row = stage[s] \/ row.version < stage[s].version
      BY <1>1, <2>2 DEF CopiesFenced
    <3>2. row.version \in Nat /\ stage[s].version \in Nat
      <4>1. row \in StageRow /\ stage[s] \in StageRow
        BY <1>1 DEF TypeOK, ReconcileState
      <4> QED
        BY <4>1 DEF StageRow
    <3>3. stage'[s] = stage[s] \/ stage'[s].version = stage[s].version + 1
      BY <1>2 DEF Moves, Written
    <3> QED
      BY <2>2, <3>1, <3>2, <3>3
  <2> QED
    BY <1>2, <1>3, <2>1, <2>2 DEF Held, HeldOrRead
<1>4. ASSUME NEW p \in Instances, NEW s \in Stages, job'[p][s].pc # "none"
      PROVE  /\ job'[p][s].row.status = WorkOf(job'[p][s].mode)
             /\ job'[p][s].row = stage'[s] \/ job'[p][s].row.version < stage'[s].version
  <2>1. CASE /\ job[p][s].pc # "none"
             /\ job'[p][s].row = job[p][s].row /\ job'[p][s].mode = job[p][s].mode
    <3> DEFINE row == job[p][s].row
    <3>1. /\ row.status = WorkOf(job[p][s].mode)
          /\ row = stage[s] \/ row.version < stage[s].version
      BY <1>1, <2>1 DEF CopiesFenced
    <3>2. row.version \in Nat /\ stage[s].version \in Nat
      <4>1. row \in StageRow /\ stage[s] \in StageRow
        BY <1>1 DEF TypeOK, JobState
      <4> QED
        BY <4>1 DEF StageRow
    <3>3. stage'[s] = stage[s] \/ stage'[s].version = stage[s].version + 1
      BY <1>2 DEF Moves, Written
    <3> QED
      BY <2>1, <3>1, <3>2, <3>3
  <2>2. CASE Claim(p, s, "ok")
    <3> DEFINE row == rec[p].rows[s]
               new == [stage[s] EXCEPT !.status = Claimed(s, row).status,
                                       !.attempt = @ + 1, !.version = @ + 1]
    <3>1. row \in StageRow /\ stage[s] \in StageRow
      BY <1>1 DEF TypeOK, ReconcileState
    <3>2. /\ row.status \in {"pending", "planning", "executing"}
          /\ row = stage[s] \/ row.version < stage[s].version
      BY <1>1, <2>2 DEF CopiesFenced, Claim
    <3>3. stage'[s] = new
      BY <1>1, <2>2 DEF Claim, TypeOK
    <3>4. /\ job'[p][s].row = Claimed(s, row)
          /\ job'[p][s].mode = IF row.status = "executing" THEN "deliverable" ELSE "plan"
      BY <1>1, <2>2 DEF Claim, TypeOK
    <3>5. /\ Claimed(s, row).version = row.version + 1
          /\ Claimed(s, row).status = IF row.status = "executing" THEN "executing" ELSE "planning"
      BY <3>1 DEF Claimed, StageRow
    <3>6. row = stage[s] => Claimed(s, row) = new
      BY <3>1, <3>5 DEF Claimed, StageRow
    <3>7. new.version = stage[s].version + 1
      BY <3>1 DEF StageRow
    <3>8. row.version \in Nat /\ stage[s].version \in Nat
      BY <3>1 DEF StageRow
    <3> HIDE DEF row, new
    <3> QED
      BY <3>2, <3>3, <3>4, <3>5, <3>6, <3>7, <3>8 DEF WorkOf
  <2> QED
    BY <1>2, <1>4, <2>1, <2>2 DEF Kept, KeptOrClaimed
<1> QED
  BY <1>1, <1>3, <1>4 DEF Fence, CopiesFenced

\* The fence holds before the first process starts.
LEMMA FenceInit == Init => Fence
<1> SUFFICES ASSUME Init PROVE Fence
  OBVIOUS
<1>1. TypeOK
  BY TypeInit
<1>2. \A p \in Instances, s \in Stages : s \notin rec[p].todo /\ job[p][s].pc = "none"
  BY DEF Init, Idle, NoJob
<1> QED
  BY <1>1, <1>2 DEF Fence, CopiesFenced

\* However many processes overlap and whatever is lost, every copy of a stage
\* row that a process holds is the row itself or has an older version.
THEOREM CopiesAreFenced == Spec => []CopiesFenced
<1>1. Fence => CopiesFenced
  BY DEF Fence
<1> QED
  BY <1>1, FenceInit, FenceStep, PTL DEF Spec

\* No late writer undoes a decision: approved stages stay as they are and the
\* counters of a stage only grow.
THEOREM DecisionsStand == Spec => NeverUndone
<1> DEFINE Keeps ==
      \A s \in Stages :
         /\ stage[s].status = "approved" => stage'[s] = stage[s]
         /\ stage'[s].attempt >= stage[s].attempt
         /\ stage'[s].planRetry >= stage[s].planRetry
         /\ stage'[s].delRetry >= stage[s].delRetry
<1>1. Fence /\ [Next]_vars => [Keeps]_vars
  <2> SUFFICES ASSUME Fence, [Next]_vars, NEW s \in Stages
               PROVE  /\ stage[s].status = "approved" => stage'[s] = stage[s]
                      /\ stage'[s].attempt >= stage[s].attempt
                      /\ stage'[s].planRetry >= stage[s].planRetry
                      /\ stage'[s].delRetry >= stage[s].delRetry
    OBVIOUS
  <2>1. stage'[s] = stage[s] \/ Written(s)
    BY StageMoves DEF Fence, Moves
  <2>2. stage[s].attempt \in Nat /\ stage[s].planRetry \in Nat /\ stage[s].delRetry \in Nat
    BY DEF Fence, TypeOK, StageRow
  <2> QED
    BY <2>1, <2>2 DEF Written
<1>2. NeverUndone <=> [][Keeps]_vars
  BY DEF NeverUndone
<1> QED
  BY <1>1, <1>2, FenceInit, FenceStep, PTL DEF Spec

\* A stage runs only on approved dependencies, and they stay approved under it.
THEOREM DependenciesHold == Spec => []DependenciesFirst
<1>1. Init => DependenciesFirst
  BY DEF Init, DependenciesFirst, NewRow
<1>2. ASSUME Fence, DependenciesFirst, [Next]_vars
      PROVE  DependenciesFirst'
  <2> SUFFICES ASSUME NEW s \in Stages, stage'[s].status # "pending", NEW d \in Deps[s]
               PROVE  stage'[d].status = "approved"
    BY DEF DependenciesFirst
  <2>1. Moves
    BY <1>2, StageMoves DEF Fence
  <2>2. d \in Stages
    BY PipelineAssumption
  <2>3. stage[d].status = "approved"
    BY <1>2, <2>1 DEF Moves, Written, Ready, DependenciesFirst
  <2> QED
    BY <2>1, <2>2, <2>3 DEF Moves, Written
<1> QED
  BY <1>1, <1>2, FenceInit, FenceStep, PTL DEF Spec

(***************************************************************************)
(* How a step treats the status and the event stream.                      *)
(***************************************************************************)

\* A step that stores its new status together with an event.
Announced == ~Terminal(status) /\ tail' = Emitted(status')

\* A step that stores no event and does not end the run.
Silent == tail' = tail /\ (status' = status \/ (~Terminal(status) /\ ~Terminal(status')))

\* The last branch of deriveTx is dead code: in a pipeline without cycles some
\* stage is in review, runs, could run or is blocked until all are approved.
LEMMA DeriveCovers ==
    ASSUME NEW rows \in [Stages -> StageRow]
    PROVE  InReview(rows) \/ AllApproved(rows) \/ Runnable(rows) \/ HasBlocked(rows)
<1> DEFINE open == {s \in Stages : rows[s].status # "approved"}
<1>1. CASE open = {}
  BY <1>1, PipelineAssumption DEF AllApproved
<1>2. CASE open # {}
  <2>1. PICK s \in open : Deps[s] \cap open = {}
    BY <1>2, PipelineAssumption
  <2>2. Deps[s] \subseteq Stages
    BY PipelineAssumption
  <2>3. Ready(s, rows)
    BY <2>1, <2>2 DEF Ready
  <2>4. rows[s].status \in StageStatuses \ {"approved"}
    BY <2>1 DEF StageRow
  <2> QED
    BY <2>1, <2>3, <2>4 DEF StageStatuses, InReview, Runnable, HasBlocked
<1> QED
  BY <1>1, <1>2

\* A status that deriveTx computes does not depend on the one before.
LEMMA DeriveAgrees ==
    ASSUME NEW rows \in [Stages -> StageRow], NEW st,
           ~Terminal(st), st \notin {"paused", "queued"}
    PROVE  Derive(st, rows) = Derive("running", rows)
BY DeriveCovers DEF Derive, Terminal

\* deriveTx ends a run only when every stage is approved.
LEMMA DeriveEnds ==
    ASSUME NEW rows, NEW st, ~Terminal(st), Terminal(Derive(st, rows))
    PROVE  Derive(st, rows) = "completed" /\ AllApproved(rows)
BY DEF Derive, Terminal

\* A commit without an event does not end the run: it hands in a plan that
\* nobody reviews, so its stage is not approved.
LEMMA CommitAnnounces ==
    ASSUME TypeOK, NEW p \in Instances, NEW s \in Stages, NEW o, Commit(p, s, o)
    PROVE  Announced \/ Silent
<1> DEFINE j == job[p][s]
           rows == UpdateStage(s, Result(s, j))
<1>1. status' = Derive(status, rows) /\ ~Terminal(status)
  BY DEF Commit, Settled
<1>2. CASE j.mode \in Gates[s] \/ j.mode = "deliverable"
  BY <1>1, <1>2 DEF Commit, Announced
<1>3. CASE ~(j.mode \in Gates[s] \/ j.mode = "deliverable")
  <2>1. j \in JobState /\ j.mode = "plan"
    BY <1>3 DEF TypeOK, JobState, Kinds
  <2>2. Result(s, j).status = "executing" /\ Result(s, j) \in StageRow
    BY <1>3, <2>1, ResultType DEF Result, DoneOf, JobState, StageRow
  <2>3. rows[s].status = "executing"
    BY <2>2 DEF UpdateStage, StageRow, TypeOK
  <2>4. ~AllApproved(rows)
    BY <2>3 DEF AllApproved
  <2>5. tail' = tail
    BY <1>3 DEF Commit
  <2> HIDE DEF rows
  <2> QED
    BY <1>1, <2>4, <2>5, DeriveEnds DEF Silent
<1> QED
  BY <1>2, <1>3

\* Every step announces its status or is silent.
LEMMA EveryStepAnnounces ==
    ASSUME TypeOK, [Next]_vars
    PROVE  Announced \/ Silent
<1>1. CASE UNCHANGED <<status, tail>>
  BY <1>1 DEF Silent
<1>2. ASSUME NEW p \in Instances, FinishReconcile(p)
      PROVE  Announced \/ Silent
  <2>1. CASE Terminal(status)
    BY <1>2, <2>1 DEF FinishReconcile, Settled, Derive, Silent
  <2>2. CASE ~Terminal(status)
    <3>1. status' = Derive(status, stage)
      BY <1>2 DEF FinishReconcile, Settled
    <3>2. Terminal(status') => status' = "completed"
      BY <2>2, <3>1, DeriveEnds
    <3>3. tail' = IF status' # status /\ status' = "completed" THEN Emitted(status') ELSE tail
      BY <1>2 DEF FinishReconcile
    <3> QED
      BY <2>2, <3>2, <3>3 DEF Announced, Silent, Terminal
  <2> QED
    BY <2>1, <2>2
<1>3. ASSUME NEW p \in Instances, NEW s \in Stages, NEW o, Claim(p, s, o)
      PROVE  Announced \/ Silent
  BY <1>3 DEF Claim, ClaimStale, Halted, Announced, Silent
<1>4. ASSUME NEW p \in Instances, NEW o, FailTask(p, o) \/ StartTask(p, o)
      PROVE  Announced \/ Silent
  BY <1>4 DEF FailTask, StartTask, Terminal, Announced, Silent
<1>5. ASSUME NEW p \in Instances, Reconciling(p)
      PROVE  Announced \/ Silent
  BY <1>1, <1>2, <1>3, <1>4, <1>5
  DEF Reconciling, ReadStages, SkipClaim, RefuseClaim, dbVars
<1>6. ASSUME NEW p \in Instances, NEW s \in Stages, NEW o,
             CheckBudget(p, s, o) \/ FailStage(p, s, o) \/ BlockStage(p, s, o)
      PROVE  Announced \/ Silent
  BY <1>6 DEF CheckBudget, FailStage, BlockStage, Terminal, Announced, Silent
<1>7. ASSUME NEW p \in Instances, NEW s \in Stages, CallModel(p, s) \/ Publish(p, s)
      PROVE  Announced \/ Silent
  BY <1>7 DEF CallModel, Publish, Stale, Announced, Silent
<1>8. ASSUME NEW p \in Instances, NEW s \in Stages, Running(p, s) \/ ReturnRunner(p, s)
      PROVE  Announced \/ Silent
  BY <1>1, <1>6, <1>7, <1>8, CommitAnnounces
  DEF Running, CommitStale, ReturnRunner, dbVars
<1>9. ASSUME NEW p \in Instances, NEW b, NEW o, CreateTask(p, b, o)
      PROVE  Silent
  BY <1>9 DEF CreateTask, Terminal, Silent
<1>10. ASSUME NEW p \in Instances, NEW a, NEW d, NEW o,
              \/ UpdateApproval(p, a, d, o) \/ Resume(p, o) \/ Cancel(p, o) \/ Pause(p)
       PROVE  Announced
  BY <1>10 DEF UpdateApproval, Resume, Cancel, Pause, MayTransition, Terminal, Announced
<1>11. ASSUME NEW p \in Instances, Requests(p)
       PROVE  Announced \/ Silent
  BY <1>1, <1>9, <1>10, <1>11 DEF Requests, SetBudget
<1>12. ASSUME NEW p \in Instances,
              Woken(p) \/ Recover(p) \/ Disturbances(p) \/ StartProcess(p)
       PROVE  UNCHANGED <<status, tail>>
  BY <1>12 DEF Woken, Recover, BeginReconcile, Disturbances, StartProcess, LoseSession,
      StopProcess, DefinitionLost, AbortReconcile, RunnerError, dbVars
<1>13. CASE UNCHANGED vars
  BY <1>1, <1>13 DEF vars, dbVars
<1> QED
  BY <1>1, <1>5, <1>8, <1>11, <1>12, <1>13 DEF Next, Finished

\* A run ends once: the terminal status and its event are stored together and
\* no event follows.
THEOREM RunsEndOnce == Spec => []RunEndsOnce
<1>1. Init => RunEndsOnce
  BY DEF Init, RunEndsOnce, Terminal
<1>2. ASSUME TypeOK, RunEndsOnce, [Next]_vars
      PROVE  RunEndsOnce'
  <2>1. CASE Announced
    BY <1>2, <2>1 DEF RunEndsOnce, Announced, Emitted
  <2>2. CASE Silent
    BY <1>2, <2>2 DEF RunEndsOnce, Silent
  <2> QED
    BY <1>2, <2>1, <2>2, EveryStepAnnounces
<1> QED
  BY <1>1, <1>2, TypeCorrect, PTL DEF Spec

(***************************************************************************)
(* Honesty of the status.                                                  *)
(***************************************************************************)
Settling(st) == st \in {"waiting_approval", "blocked", "completed"}

\* A transaction that derives the status of the rows it leaves behind.
Derived == ~Terminal(status) /\ status' = Derive(status, stage')

\* A step that leaves the rows alone, or leaves them to Reconcile.
Aside == (stage' = stage /\ status' = status) \/ ~Settling(status')

\* Claiming a stage does not hide the review for which the task waits.
LEMMA ClaimHonest ==
    ASSUME TypeOK, CopiesFenced, StatusHonest,
           NEW p \in Instances, NEW s \in Stages, NEW o, Claim(p, s, o)
    PROVE  StatusHonest'
<1>1. status' = status /\ status \notin {"blocked", "completed"}
  BY DEF Claim, ClaimStale, Halted, Terminal
<1>2. CASE status = "waiting_approval"
  <2>1. InReview(stage)
    BY <1>2 DEF StatusHonest, Derive, Terminal
  <2>2. PICK t \in Stages : stage[t].status \in {"plan_review", "deliverable_review"}
    BY <2>1 DEF InReview
  <2>3. stage[s].status \in {"pending", "planning", "executing"}
    BY DEF Claim, ClaimMatches, CopiesFenced
  <2>4. stage'[t] = stage[t]
    BY <2>2, <2>3 DEF Claim, TypeOK
  <2>5. InReview(stage')
    BY <2>2, <2>4 DEF InReview
  <2> QED
    BY <1>1, <1>2, <2>5 DEF StatusHonest, Derive, Terminal
<1>3. CASE status # "waiting_approval"
  BY <1>1, <1>3 DEF StatusHonest
<1> QED
  BY <1>2, <1>3

\* Every other step derives the status or leaves it aside.
LEMMA EveryStepDerives ==
    ASSUME TypeOK, [Next]_vars
    PROVE  \/ Derived \/ Aside
           \/ \E p \in Instances, s \in Stages, o \in Outcomes : Claim(p, s, o)
<1> DEFINE Claims == \E p \in Instances, s \in Stages, o \in Outcomes : Claim(p, s, o)
<1>1. ASSUME UNCHANGED <<status, stage>>
      PROVE  Aside
  BY <1>1 DEF Aside
<1>2. ASSUME NEW p \in Instances, FinishReconcile(p)
      PROVE  Derived \/ Aside
  BY <1>2 DEF FinishReconcile, Settled, Derive, Derived, Aside
<1>3. ASSUME NEW p \in Instances, NEW o, FailTask(p, o) \/ StartTask(p, o)
      PROVE  Aside
  BY <1>3 DEF FailTask, StartTask, Aside, Settling
<1>4. ASSUME NEW p \in Instances, Reconciling(p)
      PROVE  Derived \/ Aside \/ Claims
  BY <1>1, <1>2, <1>3, <1>4
  DEF Reconciling, ReadStages, SkipClaim, RefuseClaim, dbVars
<1>5. ASSUME NEW p \in Instances, NEW s \in Stages, NEW o,
             CheckBudget(p, s, o) \/ FailStage(p, s, o)
      PROVE  Aside
  BY <1>5 DEF CheckBudget, FailStage, Aside, Settling
<1>6. ASSUME NEW p \in Instances, NEW s \in Stages, NEW o,
             Commit(p, s, o) \/ BlockStage(p, s, o)
      PROVE  Derived \/ Aside
  BY <1>6 DEF Commit, BlockStage, Settled, Derived, Aside
<1>7. ASSUME NEW p \in Instances, NEW s \in Stages, Running(p, s) \/ ReturnRunner(p, s)
      PROVE  Derived \/ Aside
  <2>1. ASSUME \/ CallModel(p, s) \/ Publish(p, s) \/ CommitStale(p, s)
               \/ ReturnRunner(p, s)
        PROVE  UNCHANGED <<status, stage>>
    BY <2>1 DEF CallModel, Publish, CommitStale, ReturnRunner, dbVars
  <2> QED
    BY <1>1, <1>5, <1>6, <1>7, <2>1 DEF Running
<1>8. ASSUME NEW p \in Instances, NEW a, NEW d, NEW o, UpdateApproval(p, a, d, o)
      PROVE  Derived
  BY <1>8 DEF UpdateApproval, Settled, Derived
<1>9. ASSUME NEW p \in Instances, Requests(p)
      PROVE  Derived \/ Aside
  BY <1>1, <1>8, <1>9 DEF Requests, CreateTask, Pause, Resume, Cancel, SetBudget, Aside, Settling
<1>10. ASSUME NEW p \in Instances,
              Woken(p) \/ Recover(p) \/ Disturbances(p) \/ StartProcess(p)
       PROVE  UNCHANGED <<status, stage>>
  BY <1>10 DEF Woken, Recover, BeginReconcile, Disturbances, StartProcess, LoseSession,
      StopProcess, DefinitionLost, AbortReconcile, RunnerError, dbVars
<1>11. CASE UNCHANGED vars
  BY <1>1, <1>11 DEF vars, dbVars
<1> QED
  BY <1>1, <1>4, <1>7, <1>9, <1>10, <1>11 DEF Next, Finished

\* A task that is waiting for a reviewer, blocked or completed is so for a
\* reason that its stage rows show.
THEOREM StatusIsHonest == Spec => []StatusHonest
<1>1. Init => StatusHonest
  BY DEF Init, StatusHonest
<1>2. ASSUME Fence, StatusHonest, [Next]_vars
      PROVE  StatusHonest'
  <2>1. TypeOK /\ CopiesFenced /\ TypeOK'
    BY <1>2, TypeStep DEF Fence
  <2>2. CASE Derived
    <3>1. stage' \in [Stages -> StageRow]
      BY <2>1 DEF TypeOK
    <3>2. CASE status \in {"paused", "queued"}
      BY <2>2, <3>2 DEF Derived, Derive, StatusHonest
    <3>3. CASE status \notin {"paused", "queued"}
      BY <2>2, <3>1, <3>3, DeriveAgrees DEF Derived, StatusHonest
    <3> QED
      BY <3>2, <3>3
  <2>3. CASE Aside
    BY <1>2, <2>3 DEF Aside, Settling, StatusHonest
  <2> QED
    BY <1>2, <2>1, <2>2, <2>3, ClaimHonest, EveryStepDerives
<1> QED
  BY <1>1, <1>2, FenceInit, FenceStep, PTL DEF Spec
=============================================================================
