------------------------------- MODULE Domain -------------------------------
(***************************************************************************)
(* The pure rules of internal/domain/state.go: which task statuses are     *)
(* final, which user actions a status allows, when a stage may start, the  *)
(* task status that a set of stage rows stands for, and what a reviewer's  *)
(* decision does to a stage row.  The other modules build on these         *)
(* operators; none of them has state of its own.                           *)
(***************************************************************************)
EXTENDS Integers, FiniteSets

CONSTANTS
    Stages,      \* the stages of the task's pipeline
    Deps,        \* Deps[s]: the stages that stage s depends on
    Gates,       \* Gates[s]: the approvals the pipeline asks for at s
    MaxRetries   \* policy.max_retries

Kinds == {"plan", "deliverable"}

\* What ParsePipeline checks before a task exists.  The last conjunct is the
\* absence of a cycle, without which Levels would find an empty level.
ASSUME PipelineAssumption ==
    /\ Stages # {} /\ IsFiniteSet(Stages)
    /\ Deps \in [Stages -> SUBSET Stages]
    /\ Gates \in [Stages -> SUBSET Kinds]
    /\ MaxRetries \in Nat \ {0}
    /\ \A part \in SUBSET Stages : part # {} => \E s \in part : Deps[s] \cap part = {}

(***************************************************************************)
(* Rows.  A plan text is told apart by the attempt that wrote it and by    *)
(* whether the reviewer edited it; NoText is SQL NULL.                     *)
(***************************************************************************)
TaskStatuses == {"queued", "running", "waiting_approval", "blocked", "paused",
                 "completed", "failed", "cancelled"}

StageStatuses == {"pending", "planning", "plan_review", "executing",
                  "deliverable_review", "approved", "blocked"}

Text == [by : Nat, edited : BOOLEAN]
NoText == [by |-> 0, edited |-> FALSE]

StageRow == [status : StageStatuses, attempt : Nat, version : Nat, plan : Text,
             planRetry : Nat, delRetry : Nat,
             blocked : Kinds \cup {"none", "publish"}]

NewRow == [status |-> "pending", attempt |-> 0, version |-> 0, plan |-> NoText,
           planRetry |-> 0, delRetry |-> 0, blocked |-> "none"]

(***************************************************************************)
(* Task statuses.                                                          *)
(***************************************************************************)
Terminal(status) == status \in {"completed", "failed", "cancelled"}

\* The statuses in which neither Reconcile nor claim touches a stage.
Halted(status) == Terminal(status) \/ status \in {"paused", "blocked"}

\* TaskTransition allows a user action only from these statuses; every other
\* pair is refused with 409 INVALID_TRANSITION.
MayTransition(status, action) ==
    \/ action = "pause" /\ status \in {"running", "waiting_approval"}
    \/ action = "resume" /\ status \in {"paused", "blocked"}
    \/ action = "cancel" /\ status # "none" /\ ~Terminal(status)

(***************************************************************************)
(* Stage rows.                                                             *)
(***************************************************************************)
\* Mutant: a dependency counts before its deliverable is approved.
EagerReady(s, rows) ==
    \A d \in Deps[s] : rows[d].status \in {"deliverable_review", "approved"}

Ready(s, rows) == \A d \in Deps[s] : rows[d].status = "approved"

InReview(rows) ==
    \E s \in Stages : rows[s].status \in {"plan_review", "deliverable_review"}

AllApproved(rows) == Stages # {} /\ \A s \in Stages : rows[s].status = "approved"

Runnable(rows) ==
    \E s \in Stages : \/ rows[s].status \in {"planning", "executing"}
                      \/ rows[s].status = "pending" /\ Ready(s, rows)

HasBlocked(rows) == \E s \in Stages : rows[s].status = "blocked"

\* The task status that the rows stand for.  A paused or queued task and a
\* finished one keep their status whatever the rows say.
Derive(status, rows) ==
    IF Terminal(status) \/ status \in {"paused", "queued"} THEN status
    ELSE IF InReview(rows) THEN "waiting_approval"
    ELSE IF AllApproved(rows) THEN "completed"
    ELSE IF Runnable(rows) THEN "running"
    ELSE IF HasBlocked(rows) THEN "blocked"
    ELSE status

(***************************************************************************)
(* The two phases of a stage, named by the kind of their approval: the     *)
(* status in which the runner works, the one in which the reviewer reads,  *)
(* the one that acceptance leads to, and the retry counter.                *)
(***************************************************************************)
WorkOf(kind) == IF kind = "plan" THEN "planning" ELSE "executing"
\* Mutant: a status that the check constraint of the stage table does not know.
VagueReviewOf(kind) == "review"

ReviewOf(kind) == IF kind = "plan" THEN "plan_review" ELSE "deliverable_review"
DoneOf(kind) == IF kind = "plan" THEN "executing" ELSE "approved"
RetryOf(row, kind) == IF kind = "plan" THEN row.planRetry ELSE row.delRetry

\* Mutant: a rejected deliverable is not counted as a retry.
UncountedRejected(row, kind) ==
    [row EXCEPT !.planRetry = IF kind = "plan" THEN @ + 1 ELSE @, !.status = WorkOf(kind)]

\* A rejection counts one retry of that phase and sends the stage back to
\* work, or parks it once the counter reaches MaxRetries.
Rejected(row, kind) ==
    LET n == RetryOf(row, kind) + 1
        exhausted == n >= MaxRetries
    IN  [row EXCEPT !.planRetry = IF kind = "plan" THEN n ELSE @,
                    !.delRetry = IF kind = "plan" THEN @ ELSE n,
                    !.status = IF exhausted THEN "blocked" ELSE WorkOf(kind),
                    !.blocked = IF exhausted THEN kind ELSE @]

\* Mutant: the reviewer's edit of a plan is dropped.
UneditedAccepted(row, kind, decision) == [row EXCEPT !.status = DoneOf(kind)]

\* Approval and edit move the stage on; an edited plan replaces the plan text,
\* an edited deliverable only its summary.
Accepted(row, kind, decision) ==
    [row EXCEPT !.status = DoneOf(kind),
                !.plan = IF kind = "plan" /\ decision = "edit"
                         THEN [by |-> row.plan.by, edited |-> TRUE] ELSE @]

Decisions == {"approve", "reject", "edit"}

Decide(row, kind, decision) ==
    IF decision = "reject" THEN Rejected(row, kind) ELSE Accepted(row, kind, decision)

\* Mutant: a resumed stage starts with fresh retries.
FreshUnblocked(row) ==
    [row EXCEPT !.status = IF row.blocked \in {"deliverable", "publish"}
                           THEN "executing" ELSE "planning",
                !.planRetry = 0, !.delRetry = 0, !.blocked = "none"]

\* What UpdateTask's resume does to a stage that is blocked.
Unblocked(row) ==
    [row EXCEPT !.status = IF row.blocked \in {"deliverable", "publish"}
                           THEN "executing" ELSE "planning",
                !.blocked = "none"]
=============================================================================
