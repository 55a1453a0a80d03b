------------------------------- MODULE Workspace -------------------------------
(***************************************************************************)
(* The files of one task: the directory that CreateTask prepares           *)
(* (internal/workspace/prepare.go), the git repository in it, which        *)
(* Reconcile and the runners use (workspace/git.go, orchestrator.go), the  *)
(* branches and pull requests of the publisher stage (publish.go,          *)
(* scm/github.go), and Recover's cleanup of directories without a task.    *)
(*                                                                         *)
(* One server process, which may crash and start again.  Of the stage rows *)
(* only what decides about files is kept: Orchestrator has the rest.  The  *)
(* phase before an approved plan touches no file and is one step (Plan);   *)
(* a stage that is blocked and resumed is one that goes on executing.      *)
(***************************************************************************)
EXTENDS Integers, FiniteSets

CONSTANTS
    Stages,       \* the stages of the pipeline
    Publisher,    \* the publisher stage
    Deps,         \* Deps[s]: the stages that s depends on
    Reviewed,     \* the stages whose deliverable is reviewed
    Files,        \* the files that the agents own
    Owner,        \* Owner[f]: the stage whose write_paths match f (OneOwner of Definition)
    Tracked,      \* the files that the project has at the start
    Modes,        \* the values of policy.pr.mode; "local": there is no remote repository
    Bounds        \* limits: attempts of a stage, stops of the process, faults

Writers == Stages \ {Publisher}

ASSUME WorkspaceAssumption ==
    /\ Publisher \in Stages
    /\ {"free", "reconcile", "all"} \cap Stages = {}   \* tags of this model, not stages
    /\ Deps \in [Stages -> SUBSET Stages]
    /\ Reviewed \subseteq Stages
    /\ Owner \in [Files -> Writers]
    /\ Tracked \subseteq Files
    /\ Modes \subseteq {"single", "per-role", "local"}
    /\ Bounds \in [attempts : Nat, stops : Nat, faults : Nat]

(***************************************************************************)
(* What a file holds: nothing, what the project had, or what an attempt    *)
(* wrote.  A tree gives every file its content.                            *)
(***************************************************************************)
Absent == 0
Original == 1
WrittenBy(attempt) == attempt + 1

Trees == [Files -> Nat]
NoTree == [f \in {} |-> Absent]
Base == [f \in Files |-> IF f \in Tracked THEN Original ELSE Absent]
OwnedBy(s) == {f \in Files : Owner[f] = s}

VARIABLES
    mode,        \* policy.pr.mode of the task
    create,      \* how far CreateTask is
    dir,         \* the directory: "none", "temp" (.preparing-*) or "dest"
    aged,        \* has the directory not changed for an hour?
    sweep,       \* "unknown": a Recover is under way whose list of tasks lacks this one
    stored,      \* the task row exists
    over,        \* the task failed or was cancelled
    row,         \* stage rows: status and attempt
    delivered,   \* delivered[s]: what the runner left when its result was stored
    work, index, head,  \* working tree, git index, HEAD
    approved,    \* refs/devsquad/approved/<stage>
    locked,      \* .git/index.lock, left by a git that was killed
    mu,          \* holder of Manager.mu
    rec,         \* the Reconcile of this task
    job,         \* the runners
    remote,      \* branches of the remote repository
    pulls,       \* branches with an open pull request
    left         \* what is left of the bounds

dirVars == <<mode, create, dir, aged, sweep, stored>>
rowVars == <<over, row, delivered>>
treeVars == <<work, index, head, approved>>
procVars == <<mu, rec, job>>
remoteVars == <<remote, pulls>>
vars == <<dirVars, rowVars, treeVars, locked, procVars, remoteVars, left>>

\* One branch for everything, or one for each role.
Branches == {"all"} \cup Writers

NoJob == [pc |-> "none", attempt |-> 0, todo |-> {}, tree |-> NoTree,
          branch |-> Publisher, pushed |-> {}]
NoRec == [pc |-> "idle", todo |-> {}, claims |-> {}, stage |-> Publisher]
NewRow == [status |-> "pending", attempt |-> 0]

Init ==
    /\ mode \in Modes
    /\ create = "none" /\ dir = "none" /\ aged = FALSE /\ sweep = "none" /\ stored = FALSE
    /\ over = FALSE
    /\ row = [s \in Stages |-> NewRow]
    /\ delivered = [s \in Writers |-> NoTree]
    /\ work = Base /\ index = Base /\ head = Base
    /\ approved = [s \in Writers |-> NoTree]
    /\ locked = FALSE
    /\ mu = "free"
    /\ rec = NoRec
    /\ job = [s \in Stages |-> NoJob]
    /\ remote = [b \in Branches |-> NoTree]
    /\ pulls = {}
    /\ left = Bounds

Spend(kind) == left[kind] > 0 /\ left' = [left EXCEPT ![kind] = @ - 1]

(***************************************************************************)
(* CreateTask.                                                             *)
(***************************************************************************)
\* Prepare or Clone: a temporary directory is filled ...
MakeTemp ==
    /\ create = "none"
    /\ create' = "copying" /\ dir' = "temp" /\ aged' = FALSE
    /\ UNCHANGED <<mode, sweep, stored, rowVars, treeVars, locked, procVars, remoteVars, left>>

\* ... committed as the base, and renamed.
Rename ==
    /\ create = "copying" /\ dir = "temp"
    /\ create' = "loading" /\ dir' = "dest" /\ aged' = FALSE
    /\ UNCHANGED <<mode, sweep, stored, rowVars, treeVars, locked, procVars, remoteVars, left>>

\* LoadDefinition, the checks of models and tools, SaveDefinition.
SaveDefinition ==
    /\ create = "loading" /\ dir = "dest"
    /\ create' = "saved" /\ aged' = FALSE
    /\ UNCHANGED <<mode, dir, sweep, stored, rowVars, treeVars, locked, procVars, remoteVars, left>>

\* An error on the way: the deferred RemoveAll of Prepare, Clone or CreateTask.
CreateFails ==
    /\ create \in {"copying", "loading", "saved"}
    /\ create' = "failed" /\ dir' = "none"
    /\ UNCHANGED <<mode, aged, sweep, stored, rowVars, treeVars, locked, procVars, remoteVars, left>>

\* Mutant: the directory is removed after every error of the transaction.
ForgetfulStoreTask ==
    /\ create = "saved"
    /\ stored' = TRUE
    /\ \/ create' = "done" /\ UNCHANGED <<dir, left>>
       \/ create' = "done" /\ dir' = "none" /\ Spend("faults")
    /\ UNCHANGED <<mode, aged, sweep, rowVars, treeVars, locked, procVars, remoteVars>>

\* The transaction; when its acknowledgement is lost the directory stays.
StoreTask ==
    /\ create = "saved"
    /\ stored' = TRUE
    /\ create' = "done"
    /\ UNCHANGED left \/ Spend("faults")
    /\ UNCHANGED <<mode, dir, aged, sweep, rowVars, treeVars, locked, procVars, remoteVars>>

(***************************************************************************)
(* Recover: read the tasks, then remove old directories of unknown ones.   *)
(***************************************************************************)
\* (A pass that knows the task leaves its directory alone; it is no step here.)
RecoverRead ==
    /\ sweep = "none" /\ ~stored
    /\ sweep' = "unknown"
    /\ UNCHANGED <<mode, create, dir, aged, stored, rowVars, treeVars, locked, procVars, remoteVars, left>>

\* Mutant: unfinished preparations are not recognised.
ShyCleanup ==
    /\ sweep = "unknown"
    /\ sweep' = "none"
    /\ dir' = IF aged /\ dir = "dest" THEN "none" ELSE dir
    /\ UNCHANGED <<mode, create, aged, stored, rowVars, treeVars, locked, procVars, remoteVars, left>>

Cleanup ==
    /\ sweep = "unknown"
    /\ sweep' = "none"
    /\ dir' = IF aged THEN "none" ELSE dir
    /\ UNCHANGED <<mode, create, aged, stored, rowVars, treeVars, locked, procVars, remoteVars, left>>

\* An hour passes without a change.  No request takes that long, and neither does
\* the pass of Recover that missed a task: so only an abandoned directory ages.
Age ==
    /\ dir # "none" /\ ~aged /\ create = "failed"
    /\ aged' = TRUE
    /\ UNCHANGED <<mode, create, dir, sweep, stored, rowVars, treeVars, locked, procVars, remoteVars, left>>

(***************************************************************************)
(* The rows, as far as they matter here.                                   *)
(***************************************************************************)
SetStatus(s, status) == row' = [row EXCEPT ![s].status = status]

\* A pending stage is claimed, planned, and its plan accepted.
Plan(s) ==
    /\ stored /\ ~over
    /\ row[s].status = "pending" /\ \A d \in Deps[s] : row[d].status = "approved"
    /\ SetStatus(s, "executing")
    /\ UNCHANGED <<dirVars, over, delivered, treeVars, locked, procVars, remoteVars, left>>

\* UpdateApproval of a deliverable.
Decide(s, verdict) ==
    /\ ~over /\ row[s].status = "review"
    /\ SetStatus(s, verdict)
    /\ UNCHANGED <<dirVars, over, delivered, treeVars, locked, procVars, remoteVars, left>>

Cancel ==
    /\ stored /\ ~over
    /\ over' = TRUE
    /\ UNCHANGED <<dirVars, row, delivered, treeVars, locked, procVars, remoteVars, left>>

(***************************************************************************)
(* Reconcile: read the rows, Accept what is approved, then claim.          *)
(***************************************************************************)
\* Mutant: a completed task is left alone.
HastyBeginReconcile ==
    /\ stored /\ dir = "dest" /\ ~over /\ rec.pc = "idle"
    /\ \E s \in Stages : row[s].status # "approved"
    /\ rec' = [rec EXCEPT !.pc = "accept",
                          !.todo = {s \in Writers : row[s].status = "approved"},
                          !.claims = {s \in Stages : row[s].status = "executing" /\ job[s].pc = "none"}]
    /\ UNCHANGED <<dirVars, rowVars, treeVars, locked, mu, job, remoteVars, left>>

BeginReconcile ==
    /\ stored /\ dir = "dest" /\ ~over /\ rec.pc = "idle"
    /\ rec' = [rec EXCEPT !.pc = "accept",
                          !.todo = {s \in Writers : row[s].status = "approved"},
                          !.claims = {s \in Stages : row[s].status = "executing" /\ job[s].pc = "none"}]
    /\ UNCHANGED <<dirVars, rowVars, treeVars, locked, mu, job, remoteVars, left>>

\* Accept(s): rev-parse finds the ref ...
AcceptKnown(s) ==
    /\ rec.pc = "accept" /\ s \in rec.todo /\ mu = "free"
    /\ approved[s] # NoTree
    /\ rec' = [rec EXCEPT !.todo = @ \ {s}]
    /\ UNCHANGED <<dirVars, rowVars, treeVars, locked, mu, job, remoteVars, left>>

\* ... or not.
AcceptBegin(s) ==
    /\ rec.pc = "accept" /\ s \in rec.todo /\ mu = "free"
    /\ approved[s] = NoTree
    /\ rec' = [rec EXCEPT !.pc = "add", !.stage = s]
    /\ mu' = "reconcile"
    /\ UNCHANGED <<dirVars, rowVars, treeVars, locked, job, remoteVars, left>>

\* files: what HEAD or the working tree have of the files that s owns.
files(s) == {f \in OwnedBy(s) : head[f] # Absent \/ work[f] # Absent}

\* Mutant: git add -A of the whole tree.
GreedyAcceptAdd ==
    /\ rec.pc = "add" /\ ~locked
    /\ index' = work
    /\ rec' = [rec EXCEPT !.pc = "commit"]
    /\ UNCHANGED <<dirVars, rowVars, work, head, approved, locked, mu, job, remoteVars, left>>

\* Mutant: git add -u, which leaves new files out.
PartialAcceptAdd ==
    /\ rec.pc = "add" /\ ~locked
    /\ index' = [f \in Files |-> IF f \in files(rec.stage) /\ head[f] # Absent THEN work[f] ELSE index[f]]
    /\ rec' = [rec EXCEPT !.pc = "commit"]
    /\ UNCHANGED <<dirVars, rowVars, work, head, approved, locked, mu, job, remoteVars, left>>

AcceptAdd ==
    /\ rec.pc = "add" /\ ~locked
    /\ index' = [f \in Files |-> IF f \in files(rec.stage) THEN work[f] ELSE index[f]]
    /\ rec' = [rec EXCEPT !.pc = "commit"]
    /\ UNCHANGED <<dirVars, rowVars, work, head, approved, locked, mu, job, remoteVars, left>>

AcceptCommit ==
    /\ rec.pc = "commit" /\ ~locked
    /\ head' = index
    /\ rec' = [rec EXCEPT !.pc = "ref"]
    /\ UNCHANGED <<dirVars, rowVars, work, index, approved, locked, mu, job, remoteVars, left>>

AcceptRef ==
    /\ rec.pc = "ref"
    /\ approved' = [approved EXCEPT ![rec.stage] = head]
    /\ rec' = [rec EXCEPT !.pc = "accept", !.todo = @ \ {rec.stage}]
    /\ mu' = "free"
    /\ UNCHANGED <<dirVars, rowVars, work, index, head, locked, job, remoteVars, left>>

\* An error ends the Reconcile; a left-over index.lock always is one.
ReconcileFails ==
    /\ rec.pc # "idle"
    /\ \/ rec.pc \in {"add", "commit"} /\ locked /\ UNCHANGED left
       \/ Spend("faults")
    /\ rec' = NoRec
    /\ mu' = IF rec.pc \in {"add", "commit", "ref"} THEN "free" ELSE mu
    /\ UNCHANGED <<dirVars, rowVars, treeVars, locked, job, remoteVars>>

\* Mutant: stages are claimed before the approved ones are accepted.
EagerClaim(s) ==
    /\ rec.pc = "accept" /\ s \in rec.claims
    /\ ~over /\ row[s].status = "executing" /\ row[s].attempt < Bounds.attempts
    /\ row' = [row EXCEPT ![s].attempt = @ + 1]
    /\ job' = [job EXCEPT ![s] = [NoJob EXCEPT !.pc = IF s = Publisher THEN "report" ELSE "reset",
                                               !.attempt = row[s].attempt + 1]]
    /\ rec' = [rec EXCEPT !.claims = @ \ {s}]
    /\ UNCHANGED <<dirVars, over, delivered, treeVars, locked, mu, remoteVars, left>>

\* claim and the start of the runner; a stage that moved on is skipped.
Claim(s) ==
    /\ rec.pc = "accept" /\ rec.todo = {} /\ s \in rec.claims
    /\ ~over /\ row[s].status = "executing" /\ row[s].attempt < Bounds.attempts
    /\ row' = [row EXCEPT ![s].attempt = @ + 1]
    /\ job' = [job EXCEPT ![s] = [NoJob EXCEPT !.pc = IF s = Publisher THEN "report" ELSE "reset",
                                               !.attempt = row[s].attempt + 1]]
    /\ rec' = [rec EXCEPT !.claims = @ \ {s}]
    /\ UNCHANGED <<dirVars, over, delivered, treeVars, locked, mu, remoteVars, left>>

\* The end: every stage was claimed, or may not be claimed any more.
EndReconcile ==
    /\ rec.pc = "accept" /\ rec.todo = {}
    /\ \A s \in rec.claims : over \/ row[s].status # "executing" \/ row[s].attempt = Bounds.attempts
    /\ rec' = NoRec
    /\ UNCHANGED <<dirVars, rowVars, treeVars, locked, mu, job, remoteVars, left>>

(***************************************************************************)
(* A runner of a writer: Reset, then the tools write, then the result is   *)
(* stored.                                                                 *)
(***************************************************************************)
ResetBegin(s) ==
    /\ job[s].pc = "reset" /\ mu = "free"
    /\ job' = [job EXCEPT ![s].pc = "resetting", ![s].todo = files(s)]
    /\ mu' = s
    /\ UNCHANGED <<dirVars, rowVars, treeVars, locked, rec, remoteVars, left>>

\* Mutant: only files that HEAD knows are restored.
TrackedResetFile(s, f) ==
    /\ job[s].pc = "resetting" /\ f \in job[s].todo
    /\ IF head[f] = Absent THEN UNCHANGED <<work, index>>
       ELSE ~locked /\ work' = [work EXCEPT ![f] = head[f]] /\ index' = [index EXCEPT ![f] = head[f]]
    /\ job' = [job EXCEPT ![s].todo = @ \ {f}]
    /\ UNCHANGED <<dirVars, rowVars, head, approved, locked, mu, rec, remoteVars, left>>

\* git restore from HEAD, or Remove of a file that HEAD does not know.
ResetFile(s, f) ==
    /\ job[s].pc = "resetting" /\ f \in job[s].todo
    /\ \/ /\ head[f] # Absent /\ ~locked
          /\ work' = [work EXCEPT ![f] = head[f]]
          /\ index' = [index EXCEPT ![f] = head[f]]
       \/ /\ head[f] = Absent
          /\ work' = [work EXCEPT ![f] = Absent]
          /\ UNCHANGED index
    /\ job' = [job EXCEPT ![s].todo = @ \ {f}]
    /\ UNCHANGED <<dirVars, rowVars, head, approved, locked, mu, rec, remoteVars, left>>

ResetEnd(s) ==
    /\ job[s].pc = "resetting" /\ job[s].todo = {}
    /\ job' = [job EXCEPT ![s].pc = "work"]
    /\ mu' = "free"
    /\ UNCHANGED <<dirVars, rowVars, treeVars, locked, rec, remoteVars, left>>

\* write_file; the sandbox admits only files of the stage.
Write(s, f) ==
    /\ job[s].pc = "work" /\ Owner[f] = s
    /\ work' = [work EXCEPT ![f] = WrittenBy(job[s].attempt)]
    /\ UNCHANGED <<dirVars, rowVars, index, head, approved, locked, procVars, remoteVars, left>>

Current(s) == ~over /\ row[s].status = "executing" /\ row[s].attempt = job[s].attempt

\* commit: the result is stored for review, or approved at once.
HandIn(s) ==
    /\ job[s].pc = IF s = Publisher THEN "open" ELSE "work"
    /\ s = Publisher => job[s].todo = {}
    /\ Current(s)
    /\ SetStatus(s, IF s \in Reviewed THEN "review" ELSE "approved")
    /\ delivered' = IF s = Publisher THEN delivered
                    ELSE [delivered EXCEPT ![s] = [f \in OwnedBy(s) |-> work[f]]]
    /\ job' = [job EXCEPT ![s] = NoJob]
    /\ UNCHANGED <<dirVars, over, treeVars, locked, mu, rec, remoteVars, left>>

Released(s) == IF mu = s THEN "free" ELSE mu

\* The runner returns without a result: its task is over, its budget spent, or an
\* error (a left-over index.lock among them) that fails the task.
RunnerStops(s) ==
    /\ job[s].pc # "none"
    /\ \/ over /\ UNCHANGED <<over, left>>
       \/ ~over /\ over' = over /\ Spend("faults")
       \/ ~over /\ over' = TRUE /\ Spend("faults")
       \/ /\ job[s].pc = "resetting" /\ locked /\ \E f \in job[s].todo : head[f] # Absent
          /\ over' = TRUE /\ UNCHANGED left
    /\ job' = [job EXCEPT ![s] = NoJob]
    /\ mu' = Released(s)
    /\ UNCHANGED <<dirVars, row, delivered, treeVars, locked, rec, remoteVars>>

(***************************************************************************)
(* publish: the publisher stage.                                           *)
(***************************************************************************)
pub == job[Publisher]

\* report: the approved stages; each becomes a branch, or all of them one.
Report ==
    /\ pub.pc = "report"
    /\ LET reported == {s \in Writers : row[s].status = "approved"} IN
       job' = [job EXCEPT ![Publisher].pc = "build",
                 ![Publisher].todo = CASE mode = "single" -> {"all"}
                                       [] mode = "per-role" -> reported \cap {Owner[f] : f \in Files}
                                       [] OTHER -> {}]
    /\ UNCHANGED <<dirVars, rowVars, treeVars, locked, mu, rec, remoteVars, left>>

Source(b) == IF b = "all" THEN head ELSE approved[b]

Changes(b) ==
    {f \in Files : Source(b)[f] # Base[f] /\ (b = "all" \/ Owner[f] = b)}

\* BranchCommit: the changes of the branch on top of the base, if there are any.
BranchCommit(b) ==
    /\ pub.pc = "build" /\ b \in pub.todo /\ mu = "free" /\ Source(b) # NoTree
    /\ \/ /\ Changes(b) = {}
          /\ job' = [job EXCEPT ![Publisher].todo = @ \ {b}]
       \/ /\ Changes(b) # {}
          /\ job' = [job EXCEPT ![Publisher].pc = "push", ![Publisher].branch = b,
                       ![Publisher].tree = [f \in Files |->
                          IF f \in Changes(b) THEN Source(b)[f] ELSE Base[f]]]
    /\ UNCHANGED <<dirVars, rowVars, treeVars, locked, mu, rec, remoteVars, left>>

\* Push --force.
Push ==
    /\ pub.pc = "push" /\ mu = "free"
    /\ remote' = [remote EXCEPT ![pub.branch] = pub.tree]
    /\ job' = [job EXCEPT ![Publisher].pc = "build", ![Publisher].todo = @ \ {pub.branch},
                          ![Publisher].pushed = @ \cup {pub.branch}]
    /\ UNCHANGED <<dirVars, rowVars, treeVars, locked, mu, rec, pulls, left>>

\* Every branch is pushed.
AllPushed ==
    /\ pub.pc = "build" /\ pub.todo = {}
    /\ job' = [job EXCEPT ![Publisher].pc = "open", ![Publisher].todo = pub.pushed]
    /\ UNCHANGED <<dirVars, rowVars, treeVars, locked, mu, rec, remoteVars, left>>

\* GitHub.Open: a pull request is created, or the open one of the branch updated.
OpenPull(b) ==
    /\ pub.pc = "open" /\ b \in pub.todo
    /\ pulls' = pulls \cup {b}
    /\ job' = [job EXCEPT ![Publisher].todo = @ \ {b}]
    /\ UNCHANGED <<dirVars, rowVars, treeVars, locked, mu, rec, remote, left>>

\* A publishError parks the stage and a resume runs it again.  A push or a request
\* whose answer is lost has happened; an approved stage without its ref has no branch.
PublishFails ==
    /\ ~over
    /\ \/ /\ pub.pc = "build" /\ UNCHANGED <<remote, pulls, left>>
          /\ \E b \in pub.todo : Source(b) = NoTree
       \/ /\ pub.pc = "push" /\ Spend("faults") /\ UNCHANGED pulls
          /\ remote' \in {remote, [remote EXCEPT ![pub.branch] = pub.tree]}
       \/ /\ pub.pc = "open" /\ Spend("faults") /\ UNCHANGED remote
          /\ \E b \in pub.todo : pulls' \in {pulls, pulls \cup {b}}
    /\ job' = [job EXCEPT ![Publisher] = NoJob]
    /\ UNCHANGED <<dirVars, rowVars, treeVars, locked, mu, rec>>

(***************************************************************************)
(* Crashes.                                                                *)
(***************************************************************************)
\* A git command that writes the index may be under way.
IndexCommand ==
    rec.pc \in {"add", "commit"} \/ \E s \in Stages : job[s].pc = "resetting" /\ job[s].todo # {}

Gone ==
    /\ create' = IF create \in {"copying", "loading", "saved"} THEN "failed" ELSE create
    /\ sweep' = "none"
    /\ rec' = NoRec /\ job' = [s \in Stages |-> NoJob] /\ mu' = "free"
    /\ UNCHANGED <<mode, dir, aged, stored, rowVars, treeVars, remoteVars>>

\* The process ends between two commands and starts again.
Crash == Spend("stops") /\ Gone /\ UNCHANGED locked

\* It ends, or is stopped, and kills a git that holds index.lock.
KillGit == IndexCommand /\ Spend("stops") /\ Gone /\ locked' = TRUE

(***************************************************************************)
(* Specification.                                                          *)
(***************************************************************************)
Creating == MakeTemp \/ Rename \/ SaveDefinition \/ StoreTask
Recovering == RecoverRead \/ Cleanup \/ Age
Reconciling ==
    \/ BeginReconcile \/ AcceptAdd \/ AcceptCommit \/ AcceptRef \/ EndReconcile
    \/ \E s \in Writers : AcceptKnown(s) \/ AcceptBegin(s)
    \/ \E s \in Stages : Claim(s)
Running(s) == ResetBegin(s) \/ ResetEnd(s) \/ \E f \in OwnedBy(s) : ResetFile(s, f)
Publishing ==
    Report \/ Push \/ AllPushed \/ \E b \in Branches : BranchCommit(b) \/ OpenPull(b)

\* Nothing is done any more for a task that is over.
Quiet ==
    /\ over /\ rec.pc = "idle" /\ \A s \in Stages : job[s].pc = "none"
    /\ UNCHANGED vars

Next ==
    \/ Quiet \/ Creating \/ CreateFails \/ Recovering \/ Reconciling \/ ReconcileFails
    \/ Publishing \/ PublishFails \/ Cancel \/ Crash \/ KillGit
    \/ \E s \in Stages :
         \/ Running(s) \/ HandIn(s) \/ RunnerStops(s) \/ Plan(s)
         \/ \E verdict \in {"approved", "executing"} : Decide(s, verdict)
         \/ \E f \in OwnedBy(s) : Write(s, f)

Spec == Init /\ [][Next]_vars

\* The recovery loop comes round, and a Reconcile and a Reset that began go on.
\* Models, users, requests and the remote repository owe nothing.
FairSpec ==
    /\ Spec
    /\ WF_vars(RecoverRead \/ Cleanup) /\ WF_vars(Age)
    /\ WF_vars(Reconciling \/ ReconcileFails)
    /\ WF_vars(\E s \in Stages : Running(s))

(***************************************************************************)
(* Properties.                                                             *)
(***************************************************************************)
\* Every variable has its type, and Manager.mu is held exactly inside Accept and Reset.
TypeOK ==
    /\ mode \in Modes
    /\ create \in {"none", "copying", "loading", "saved", "done", "failed"}
    /\ dir \in {"none", "temp", "dest"} /\ aged \in BOOLEAN
    /\ sweep \in {"none", "unknown"} /\ stored \in BOOLEAN /\ over \in BOOLEAN
    /\ row \in [Stages -> [status : {"pending", "executing", "review", "approved"}, attempt : Nat]]
    /\ \A s \in Writers : delivered[s] \in {NoTree} \cup [OwnedBy(s) -> Nat]
    /\ work \in Trees /\ index \in Trees /\ head \in Trees
    /\ approved \in [Writers -> Trees \cup {NoTree}]
    /\ remote \in [Branches -> Trees \cup {NoTree}]
    /\ locked \in BOOLEAN
    /\ mu \in {"free", "reconcile"} \cup Stages
    /\ (mu = "reconcile") = (rec.pc \in {"add", "commit", "ref"})
    /\ \A s \in Stages : (mu = s) = (job[s].pc = "resetting")

\* The directory of a stored task exists, whatever becomes of the request that
\* created it and of the cleanups that did not know it.
WorkspaceLives == stored => dir = "dest"

\* What a reviewer approved is what the stage ends up with: it lies in the working
\* tree until Accept has committed it, and in HEAD and the stage's ref from then on.
\* (Holds with the types of the variables and the owner of the manager's mutex.)
ApprovedKept ==
    /\ TypeOK
    /\ \A s \in Writers : row[s].status = "approved" =>
        \A f \in OwnedBy(s) :
            IF approved[s] = NoTree THEN work[f] = delivered[s][f]
            ELSE approved[s][f] = delivered[s][f] /\ head[f] = delivered[s][f]

\* Only approved work is committed or published, although all stages share one
\* index and one Accept may be interrupted between add and commit.
OnlyApproved ==
    \A f \in Files : row[Owner[f]].status # "approved" =>
        /\ head[f] = Base[f]
        /\ \A b \in Branches : remote[b] = NoTree \/ remote[b][f] = Base[f]

\* An attempt starts from the committed files: nothing of an earlier attempt,
\* which was rejected or interrupted, is left in what it hands in.
CleanAttempt ==
    \A s \in Writers :
        /\ job[s].pc = "work" =>
             \A f \in OwnedBy(s) : work[f] \in {Base[f], WrittenBy(job[s].attempt)}
        /\ delivered[s] # NoTree =>
             \E a \in 1..row[s].attempt : \A f \in OwnedBy(s) :
                 delivered[s][f] \in {Base[f], WrittenBy(a)}

\* When the publisher has handed in, every stage that it depends on is on a branch
\* with a pull request, exactly as it was approved.
PublishedWhole ==
    (row[Publisher].status \in {"review", "approved"} /\ mode # "local") =>
        \A f \in Files :
            (Owner[f] \in Deps[Publisher] /\ delivered[Owner[f]][f] # Base[f]) =>
                \E b \in pulls : remote[b] # NoTree /\ remote[b][f] = delivered[Owner[f]][f]

\* Approved files are checkpointed in the end, also when the approval completed the
\* task and the process crashed; unless a killed git left its lock.
Checkpointed ==
    []<>(\/ over \/ locked
         \/ \A s \in Writers : row[s].status = "approved" => approved[s] # NoTree)

\* A directory whose task was never stored is removed in the end.
OrphansGo == (create = "failed") ~> (dir = "none")
=============================================================================
