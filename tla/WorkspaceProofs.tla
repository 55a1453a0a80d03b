---------------------------- MODULE WorkspaceProofs ----------------------------
(***************************************************************************)
(* The files of a task, for any pipeline, any files and owners, any number *)
(* of attempts, crashes and faults.                                        *)
(***************************************************************************)
EXTENDS Workspace, TLAPS

(***************************************************************************)
(* The directory.                                                          *)
(***************************************************************************)

\* Only a directory whose request failed grows old, and it is complete from the
\* rename on.
Kept ==
    /\ stored <=> create = "done"
    /\ aged => create = "failed"
    /\ create \in {"loading", "saved", "done"} => dir = "dest"

\* The directory of a stored task exists, whatever becomes of the request that
\* created it and of the cleanups that did not know it.
THEOREM WorkspaceIsKept == Spec => []WorkspaceLives
<1>1. Init => Kept
  BY DEF Init, Kept
<1>2. Kept /\ [Next]_vars => Kept'
  <2> SUFFICES ASSUME Kept, [Next]_vars PROVE Kept'
    OBVIOUS
  <2>1. CASE Creating \/ CreateFails \/ Recovering
    BY <2>1 DEF Kept, Creating, MakeTemp, Rename, SaveDefinition, StoreTask, CreateFails,
        Recovering, RecoverRead, Cleanup, Age
  <2>2. CASE Crash \/ KillGit
    BY <2>2 DEF Kept, Crash, KillGit, Gone
  <2>3. ASSUME UNCHANGED dirVars PROVE Kept'
    BY <2>3 DEF Kept, dirVars
  <2>4. CASE Reconciling
    BY <2>3, <2>4 DEF Reconciling, BeginReconcile, AcceptAdd, AcceptCommit, AcceptRef,
        EndReconcile, AcceptKnown, AcceptBegin, Claim
  <2>5. CASE Publishing \/ PublishFails \/ ReconcileFails \/ Cancel
    BY <2>3, <2>5 DEF Publishing, Report, Push, AllPushed, BranchCommit, OpenPull,
        PublishFails, ReconcileFails, Cancel
  <2>6. ASSUME NEW s \in Stages, Running(s) \/ HandIn(s) \/ RunnerStops(s) \/ Plan(s)
        PROVE  UNCHANGED dirVars
    BY <2>6 DEF Running, ResetBegin, ResetEnd, ResetFile, HandIn, RunnerStops, Plan
  <2>7. ASSUME NEW s, NEW verdict, NEW f, Decide(s, verdict) \/ Write(s, f)
        PROVE  UNCHANGED dirVars
    BY <2>7 DEF Decide, Write
  <2>8. CASE UNCHANGED vars
    BY <2>3, <2>8 DEF vars
  <2> QED
    BY <2>1, <2>2, <2>3, <2>4, <2>5, <2>6, <2>7, <2>8 DEF Next, Quiet
<1>3. Kept => WorkspaceLives
  BY DEF Kept, WorkspaceLives
<1> QED
  BY <1>1, <1>2, <1>3, PTL DEF Spec

(***************************************************************************)
(* Types.                                                                  *)
(***************************************************************************)
RowType == [status : {"pending", "executing", "review", "approved"}, attempt : Nat]

RecType == [pc : {"idle", "accept", "add", "commit", "ref"}, todo : SUBSET Writers,
            claims : SUBSET Stages, stage : Stages]

WriterSteps == {"reset", "resetting", "work"}
PublisherSteps == {"report", "build", "push", "open"}

JobType == [pc : {"none"} \cup WriterSteps \cup PublisherSteps, attempt : Nat,
            todo : SUBSET (Files \cup Branches), tree : Trees \cup {NoTree},
            branch : Branches \cup {Publisher}, pushed : SUBSET Branches]

\* The types of the variables that the files depend on.
Typed ==
    /\ mode \in Modes
    /\ row \in [Stages -> RowType]
    /\ delivered = [s \in Writers |-> delivered[s]]
    /\ \A s \in Writers : delivered[s] \in {NoTree} \cup [OwnedBy(s) -> Nat]
    /\ work \in Trees /\ index \in Trees /\ head \in Trees
    /\ approved \in [Writers -> Trees \cup {NoTree}]
    /\ remote \in [Branches -> Trees \cup {NoTree}]
    /\ mu \in {"free", "reconcile"} \cup Stages
    /\ rec \in RecType
    /\ job \in [Stages -> JobType]

\* The types of the rest.
Flags ==
    /\ create \in {"none", "copying", "loading", "saved", "done", "failed"}
    /\ dir \in {"none", "temp", "dest"} /\ aged \in BOOLEAN
    /\ sweep \in {"none", "unknown"} /\ stored \in BOOLEAN /\ over \in BOOLEAN
    /\ locked \in BOOLEAN

\* A job does what its stage does, and a Reset or a push has what it needs.
Roles ==
    \A s \in Stages :
        /\ job[s].pc \in WriterSteps => s \in Writers
        /\ job[s].pc \in PublisherSteps => s = Publisher
        /\ job[s].pc = "resetting" => job[s].todo \subseteq OwnedBy(s)
        /\ job[s].pc \in {"build", "push", "open"} => job[s].todo \subseteq Branches
        /\ job[s].pc = "push" => job[s].branch \in job[s].todo /\ job[s].tree \in Trees

\* Manager.mu is held exactly inside Accept and Reset.
Mutex ==
    /\ mu = "reconcile" <=> rec.pc \in {"add", "commit", "ref"}
    /\ \A s \in Stages : mu = s <=> job[s].pc = "resetting"

\* A runner works for the current attempt of a stage that executes; a stage is
\* claimed for no second runner; what Accept works on is approved for good.
Runs ==
    /\ \A s \in Stages : job[s].pc # "none" =>
         row[s].status = "executing" /\ job[s].attempt = row[s].attempt /\ job[s].attempt > 0
    /\ \A s \in rec.claims : job[s].pc = "none"
    /\ \A s \in rec.todo : row[s].status = "approved"
    /\ rec.pc \in {"add", "commit", "ref"} => rec.stage \in rec.todo
    /\ \A s \in Stages : row[s].status # "pending" =>
         \A d \in Deps[s] : row[d].status = "approved"

(***************************************************************************)
(* The trees.                                                              *)
(***************************************************************************)

\* Whatever a stage handed in lies in the working tree until it is rejected.
InTree(s) ==
    row[s].status \in {"review", "approved"} => \A f \in OwnedBy(s) : work[f] = delivered[s][f]

\* Nothing of a stage that is not approved is committed or in the index.
Uncommitted(s) ==
    row[s].status # "approved" =>
        approved[s] = NoTree /\ \A f \in OwnedBy(s) : head[f] = Base[f] /\ index[f] = Base[f]

\* Of an approved stage, each file is as it was or as it was delivered, and as
\* delivered once the stage has its ref.
Committed(s) ==
    row[s].status = "approved" => \A f \in OwnedBy(s) :
        /\ head[f] \in {Base[f], delivered[s][f]} /\ index[f] \in {Base[f], delivered[s][f]}
        /\ approved[s] # NoTree => /\ approved[s][f] = delivered[s][f]
                                   /\ head[f] = delivered[s][f] /\ index[f] = delivered[s][f]

\* How far Accept is with its stage.
Accepting ==
    /\ rec.pc \in {"commit", "ref"} =>
         \A f \in OwnedBy(rec.stage) : index[f] = delivered[rec.stage][f]
    /\ rec.pc = "ref" => \A f \in OwnedBy(rec.stage) : head[f] = delivered[rec.stage][f]

\* No file of the project disappears: there is no tool that removes one.
NoneLost == \A f \in Files : Absent \in {work[f], index[f], head[f]} => Base[f] = Absent

Tree ==
    /\ \A s \in Writers : InTree(s) /\ Uncommitted(s) /\ Committed(s)
    /\ Accepting /\ NoneLost

\* A tree that shows nothing of a stage that is not approved.
Discreet(tree) == \A f \in Files : row[Owner[f]].status # "approved" => tree[f] = Base[f]

\* What is pushed, or about to be, shows approved work only.
Pushed ==
    /\ \A b \in Branches : remote[b] = NoTree \/ Discreet(remote[b])
    /\ pub.pc = "push" => Discreet(pub.tree)

\* The inductive invariant.
Sound == Typed /\ Roles /\ Mutex /\ Runs /\ Tree /\ Pushed

(***************************************************************************)
(* Attempts.                                                               *)
(***************************************************************************)

\* A Reset leaves behind what is committed, file by file.
Clean ==
    \A s \in Writers :
        /\ job[s].pc = "resetting" =>
             \A f \in OwnedBy(s) \ job[s].todo : work[f] = Base[f]
        /\ job[s].pc = "work" =>
             \A f \in OwnedBy(s) : work[f] \in {Base[f], WrittenBy(job[s].attempt)}
        /\ delivered[s] # NoTree =>
             \E a \in 1..row[s].attempt : \A f \in OwnedBy(s) :
                 delivered[s][f] \in {Base[f], WrittenBy(a)}

(***************************************************************************)
(* Publication.                                                            *)
(***************************************************************************)

\* Accept is done with stage s, which may own nothing.
Checked(s) == OwnedBy(s) = {} \/ approved[s] # NoTree

\* The writers that stage s depends on.
Sources(s) == Deps[s] \cap Writers

\* A stage is claimed after Accept is done with everything it depends on.
ClaimsChecked ==
    /\ rec.pc # "idle" => \A s \in rec.claims : \A d \in Sources(s) :
         row[d].status = "approved" /\ (d \in rec.todo \/ Checked(d))
    /\ pub.pc # "none" => \A d \in Sources(Publisher) : Checked(d)

\* The files that the publisher must show, and the branch that shows them.
Shown ==
    {f \in Files : /\ Owner[f] \in Deps[Publisher] /\ row[Owner[f]].status = "approved"
                   /\ delivered[Owner[f]][f] # Base[f]}
BranchOf(f) == IF mode = "single" THEN "all" ELSE Owner[f]

\* Branch b of the remote repository has file f as it was approved.
Shows(b, f) == remote[b] # NoTree /\ remote[b][f] = delivered[Owner[f]][f]

\* How far the publisher is with file f.
Publishes(f) ==
    /\ pub.pc \in {"build", "push"} =>
         BranchOf(f) \in pub.todo \/ (BranchOf(f) \in pub.pushed /\ Shows(BranchOf(f), f))
    /\ pub.pc = "push" /\ pub.branch = BranchOf(f) => pub.tree[f] = delivered[Owner[f]][f]
    /\ pub.pc = "open" =>
         Shows(BranchOf(f), f) /\ (BranchOf(f) \in pub.todo \/ BranchOf(f) \in pulls)
    /\ row[Publisher].status \in {"review", "approved"} =>
         BranchOf(f) \in pulls /\ Shows(BranchOf(f), f)

Published == ClaimsChecked /\ (mode # "local" => \A f \in Shown : Publishes(f))

(***************************************************************************)
(* Types are kept.                                                         *)
(***************************************************************************)

\* The step concerns neither the rows nor the files nor who works on them.
Apart == UNCHANGED <<mode, row, delivered, treeVars, procVars, remoteVars>>

\* The steps of a request, of a cleanup and of a cancellation are apart.
LEMMA ApartSteps ==
    ASSUME Creating \/ CreateFails \/ Recovering \/ Cancel \/ Quiet \/ UNCHANGED vars
    PROVE  Apart
BY DEF Creating, MakeTemp, Rename, SaveDefinition, StoreTask, CreateFails, Recovering,
    RecoverRead, Cleanup, Age, Cancel, Quiet, Apart, vars, dirVars, rowVars, treeVars,
    procVars, remoteVars

\* A tree of nothing is no tree; the base is one, and so is an updated tree.
LEMMA TreeTypes ==
    /\ Base \in Trees /\ NoTree \in Trees \cup {NoTree}
    /\ \A t \in Trees, f \in Files, n \in Nat : [t EXCEPT ![f] = n] \in Trees
    /\ \A t \in Trees, f \in Files : t[f] \in Nat
BY DEF Base, Trees, NoTree, Original, Absent

\* The idle states have their types.
LEMMA IdleTypes == NoJob \in JobType /\ NoRec \in RecType /\ NewRow \in RowType
<1>1. Publisher \in Stages /\ NoTree \in Trees \cup {NoTree}
  BY WorkspaceAssumption, TreeTypes
<1>2. NoJob \in JobType
  BY <1>1 DEF NoJob, JobType
<1>3. NoRec \in RecType /\ NewRow \in RowType
  BY <1>1 DEF NoRec, RecType, NewRow, RowType
<1> QED
  BY <1>2, <1>3

\* The initial state has its types.
LEMMA TypedInit == ASSUME Init PROVE Typed
<1>1. delivered = [s \in Writers |-> delivered[s]] /\ \A s \in Writers : delivered[s] = NoTree
  BY DEF Init
<1>2. approved \in [Writers -> Trees \cup {NoTree}] /\ remote \in [Branches -> Trees \cup {NoTree}]
  BY TreeTypes DEF Init
<1>3. /\ row \in [Stages -> RowType] /\ job \in [Stages -> JobType] /\ rec \in RecType
  BY IdleTypes DEF Init
<1>4. work \in Trees /\ index \in Trees /\ head \in Trees
  BY TreeTypes DEF Init
<1>5. mode \in Modes /\ mu \in {"free", "reconcile"} \cup Stages
  BY DEF Init
<1> QED
  BY <1>1, <1>2, <1>3, <1>4, <1>5 DEF Typed

\* Stage s has a new job, and nobody else has.
Becomes(s, new) == job' = [job EXCEPT ![s] = new]

\* The job that changes at most in these fields.
Adjusted(new, old, pc, todo) ==
    /\ new.pc = pc /\ new.todo = todo /\ new.attempt = old.attempt
    /\ new.tree = old.tree /\ new.branch = old.branch /\ new.pushed = old.pushed

\* Moving a job on.
LEMMA AdjustJob ==
    ASSUME NEW j \in JobType, NEW pc \in {"none"} \cup WriterSteps \cup PublisherSteps,
           NEW todo \in SUBSET (Files \cup Branches),
           NEW new, new = [j EXCEPT !.pc = pc, !.todo = todo]
    PROVE  new \in JobType /\ Adjusted(new, j, pc, todo)
BY DEF JobType, Adjusted

\* A claim starts a runner for the next attempt.
LEMMA ClaimJob ==
    ASSUME Typed, NEW s \in Stages, Claim(s)
    PROVE  \E new \in JobType :
             /\ Becomes(s, new) /\ new.pc = IF s = Publisher THEN "report" ELSE "reset"
             /\ new.attempt = row[s].attempt + 1
<1>1. PICK pc : pc = IF s = Publisher THEN "report" ELSE "reset"
  OBVIOUS
<1>2. PICK n \in Nat : n = row[s].attempt + 1
  BY DEF Typed, RowType
<1>3. PICK new : new = [NoJob EXCEPT !.pc = pc, !.attempt = n]
  OBVIOUS
<1>4. Becomes(s, new)
  BY <1>1, <1>2, <1>3 DEF Claim, Becomes
<1>5. PICK no \in JobType : no = NoJob
  BY IdleTypes
<1>6. pc \in {"none"} \cup WriterSteps \cup PublisherSteps
  BY <1>1 DEF WriterSteps, PublisherSteps
<1>7. new \in JobType /\ new.pc = pc /\ new.attempt = n
  BY <1>3, <1>5, <1>6 DEF JobType
<1> QED
  BY <1>1, <1>2, <1>4, <1>7

\* A Reset begins with the files of its stage.
LEMMA ResetBeginJob ==
    ASSUME Typed, NEW s \in Stages, ResetBegin(s)
    PROVE  \E new \in JobType : Becomes(s, new) /\ Adjusted(new, job[s], "resetting", files(s))
<1>1. PICK todo \in SUBSET (Files \cup Branches) : todo = files(s)
  BY DEF files, OwnedBy
<1>2. PICK j \in JobType : j = job[s]
  BY DEF Typed
<1>3. PICK new : new = [j EXCEPT !.pc = "resetting", !.todo = todo]
  OBVIOUS
<1>4. Becomes(s, new)
  BY <1>1, <1>2, <1>3 DEF ResetBegin, Becomes, Typed
<1>5. "resetting" \in {"none"} \cup WriterSteps \cup PublisherSteps
  BY DEF WriterSteps
<1>6. new \in JobType /\ Adjusted(new, j, "resetting", todo)
  BY <1>3, <1>5, AdjustJob
<1> QED
  BY <1>1, <1>2, <1>4, <1>6

\* It goes from file to file ...
LEMMA ResetFileJob ==
    ASSUME Typed, NEW s \in Stages, NEW f, ResetFile(s, f)
    PROVE  \E new \in JobType :
             Becomes(s, new) /\ Adjusted(new, job[s], "resetting", job[s].todo \ {f})
<1>1. PICK j \in JobType : j = job[s]
  BY DEF Typed
<1>2. PICK new : new = [j EXCEPT !.todo = @ \ {f}]
  OBVIOUS
<1>3. Becomes(s, new)
  BY <1>1, <1>2 DEF ResetFile, Becomes, Typed
<1>4. new \in JobType /\ Adjusted(new, j, "resetting", j.todo \ {f})
  BY <1>1, <1>2 DEF JobType, Adjusted, ResetFile
<1> QED
  BY <1>1, <1>3, <1>4

\* ... and lets the runner work.
LEMMA ResetEndJob ==
    ASSUME Typed, NEW s \in Stages, ResetEnd(s)
    PROVE  \E new \in JobType : Becomes(s, new) /\ Adjusted(new, job[s], "work", {})
<1>1. PICK j \in JobType : j = job[s]
  BY DEF Typed
<1>2. PICK new : new = [j EXCEPT !.pc = "work"]
  OBVIOUS
<1>3. Becomes(s, new)
  BY <1>1, <1>2 DEF ResetEnd, Becomes, Typed
<1>4. new \in JobType /\ Adjusted(new, j, "work", {})
  BY <1>1, <1>2 DEF JobType, Adjusted, ResetEnd, WriterSteps
<1> QED
  BY <1>1, <1>3, <1>4

\* The branches that the publisher is to build.
ToBuild ==
    CASE mode = "single" -> {"all"}
      [] mode = "per-role" -> {s \in Writers : row[s].status = "approved"} \cap {Owner[f] : f \in Files}
      [] OTHER -> {}

\* The publisher starts with the branches of the approved stages.
LEMMA ReportJob ==
    ASSUME Typed, Report
    PROVE  /\ ToBuild \subseteq Branches
           /\ \E new \in JobType : Becomes(Publisher, new) /\ Adjusted(new, pub, "build", ToBuild)
<1>1. ToBuild \subseteq Branches
  BY DEF ToBuild, Branches
<1>2. PICK todo \in SUBSET (Files \cup Branches) : todo = ToBuild
  BY <1>1
<1>3. PICK j \in JobType : j = pub
  BY WorkspaceAssumption DEF Typed, pub
<1>4. PICK new : new = [j EXCEPT !.pc = "build", !.todo = todo]
  OBVIOUS
<1>5. job' = [job EXCEPT ![Publisher].pc = "build", ![Publisher].todo = todo]
  BY <1>2, Zenon DEF Report, ToBuild
<1>6. Becomes(Publisher, new)
  BY <1>3, <1>4, <1>5, WorkspaceAssumption DEF Becomes, Typed, pub
<1>7. "build" \in {"none"} \cup WriterSteps \cup PublisherSteps
  BY DEF PublisherSteps
<1>8. new \in JobType /\ Adjusted(new, j, "build", todo)
  BY <1>4, <1>7, AdjustJob
<1> QED
  BY <1>1, <1>2, <1>3, <1>6, <1>8

\* The commit of a branch.
TreeOf(b) == [f \in Files |-> IF f \in Changes(b) THEN Source(b)[f] ELSE Base[f]]

\* The publisher skips a branch without changes and pushes the others.
LEMMA BranchJob ==
    ASSUME Typed, NEW b \in Branches, BranchCommit(b)
    PROVE  \E new \in JobType :
             /\ Becomes(Publisher, new)
             /\ \/ Changes(b) = {} /\ Adjusted(new, pub, "build", pub.todo \ {b})
                \/ /\ Changes(b) # {} /\ new.pc = "push" /\ new.branch = b /\ new.tree = TreeOf(b)
                   /\ new.tree \in Trees /\ new.todo = pub.todo /\ new.attempt = pub.attempt
                   /\ new.pushed = pub.pushed
<1>1. PICK j \in JobType : j = pub
  BY WorkspaceAssumption DEF Typed, pub
<1>2. CASE Changes(b) = {}
  <2>1. PICK new : new = [j EXCEPT !.todo = @ \ {b}]
    OBVIOUS
  <2>2. Becomes(Publisher, new)
    BY <1>1, <1>2, <2>1, WorkspaceAssumption DEF BranchCommit, Becomes, Typed, pub
  <2>3. new \in JobType /\ Adjusted(new, j, "build", j.todo \ {b})
    BY <1>1, <2>1 DEF JobType, Adjusted, BranchCommit
  <2> QED
    BY <1>1, <1>2, <2>2, <2>3
<1>3. CASE Changes(b) # {}
  <2>1. Source(b) \in Trees
    BY DEF BranchCommit, Source, Typed, Branches
  <2>2. TreeOf(b) \in Trees
    <3>1. PICK src \in Trees : src = Source(b)
      BY <2>1
    <3> QED
      BY <3>1, TreeTypes DEF TreeOf, Trees
  <2>3. PICK tree \in Trees : tree = TreeOf(b)
    BY <2>2
  <2>4. PICK new : new = [j EXCEPT !.pc = "push", !.branch = b, !.tree = tree]
    OBVIOUS
  <2>5. job' = [job EXCEPT ![Publisher].pc = "push", ![Publisher].branch = b,
                           ![Publisher].tree = tree]
    BY <1>3, <2>3, Zenon DEF BranchCommit, TreeOf
  <2>6. Becomes(Publisher, new)
    BY <1>1, <2>4, <2>5, WorkspaceAssumption DEF Becomes, Typed, pub
  <2>7. /\ new \in JobType /\ new.pc = "push" /\ new.branch = b /\ new.tree = tree
        /\ new.todo = j.todo /\ new.attempt = j.attempt /\ new.pushed = j.pushed
    BY <2>4 DEF JobType, PublisherSteps
  <2> QED
    BY <1>1, <1>3, <2>3, <2>6, <2>7
<1> QED
  BY <1>2, <1>3

\* A pushed branch is noted.
LEMMA PushJob ==
    ASSUME Typed, Roles, Push
    PROVE  /\ pub.branch \in Branches /\ pub.branch \in pub.todo
           /\ \E new \in JobType :
                /\ Becomes(Publisher, new) /\ new.pc = "build" /\ new.todo = pub.todo \ {pub.branch}
                /\ new.pushed = pub.pushed \cup {pub.branch} /\ new.attempt = pub.attempt
<1>1. PICK j \in JobType : j = pub
  BY WorkspaceAssumption DEF Typed, pub
<1>2. j.branch \in Branches /\ j.branch \in j.todo /\ j.pc = "push"
  BY <1>1, WorkspaceAssumption DEF Roles, Push, pub
<1>3. PICK todo \in SUBSET (Files \cup Branches) : todo = j.todo \ {j.branch}
  BY DEF JobType
<1>4. PICK pushed \in SUBSET Branches : pushed = j.pushed \cup {j.branch}
  BY <1>2 DEF JobType
<1>5. PICK new : new = [j EXCEPT !.pc = "build", !.todo = todo, !.pushed = pushed]
  OBVIOUS
<1>6. job' = [job EXCEPT ![Publisher].pc = "build", ![Publisher].todo = todo,
                         ![Publisher].pushed = pushed]
  BY <1>1, <1>3, <1>4, WorkspaceAssumption DEF Push, pub, Typed
<1>7. Becomes(Publisher, new)
  BY <1>1, <1>5, <1>6, WorkspaceAssumption DEF Becomes, Typed, pub
<1>8. /\ new \in JobType /\ new.pc = "build" /\ new.todo = todo /\ new.pushed = pushed
      /\ new.attempt = j.attempt
  BY <1>5 DEF JobType, PublisherSteps
<1> QED
  BY <1>1, <1>2, <1>3, <1>4, <1>7, <1>8

\* When all are pushed, the pull requests follow ...
LEMMA AllPushedJob ==
    ASSUME Typed, AllPushed
    PROVE  \E new \in JobType : Becomes(Publisher, new) /\ Adjusted(new, pub, "open", pub.pushed)
<1>1. PICK j \in JobType : j = pub
  BY WorkspaceAssumption DEF Typed, pub
<1>2. PICK todo \in SUBSET (Files \cup Branches) : todo = j.pushed
  BY DEF JobType
<1>3. PICK new : new = [j EXCEPT !.pc = "open", !.todo = todo]
  OBVIOUS
<1>4. Becomes(Publisher, new)
  BY <1>1, <1>2, <1>3, WorkspaceAssumption DEF AllPushed, Becomes, Typed, pub
<1>5. "open" \in {"none"} \cup WriterSteps \cup PublisherSteps
  BY DEF PublisherSteps
<1>6. new \in JobType /\ Adjusted(new, j, "open", todo)
  BY <1>3, <1>5, AdjustJob
<1> QED
  BY <1>1, <1>2, <1>4, <1>6

\* ... one after the other.
LEMMA OpenJob ==
    ASSUME Typed, NEW b, OpenPull(b)
    PROVE  \E new \in JobType : Becomes(Publisher, new) /\ Adjusted(new, pub, "open", pub.todo \ {b})
<1>1. PICK j \in JobType : j = pub
  BY WorkspaceAssumption DEF Typed, pub
<1>2. PICK new : new = [j EXCEPT !.todo = @ \ {b}]
  OBVIOUS
<1>3. Becomes(Publisher, new)
  BY <1>1, <1>2, WorkspaceAssumption DEF OpenPull, Becomes, Typed, pub
<1>4. new \in JobType /\ Adjusted(new, j, "open", j.todo \ {b})
  BY <1>1, <1>2 DEF JobType, Adjusted, OpenPull
<1> QED
  BY <1>1, <1>3, <1>4

\* Reconcile keeps the types.
LEMMA TypedReconcile ==
    ASSUME Typed, Reconciling \/ ReconcileFails
    PROVE  Typed'
<1>1. rec \in RecType
  BY DEF Typed
<1>2. CASE BeginReconcile
  <2>1. rec' \in RecType
    BY <1>1, <1>2 DEF BeginReconcile, RecType, Writers
  <2> QED
    BY <1>2, <2>1 DEF Typed, BeginReconcile, dirVars, rowVars, treeVars, remoteVars
<1>3. CASE AcceptAdd
  <2>1. rec' \in RecType
    BY <1>1, <1>3 DEF AcceptAdd, RecType
  <2>2. index' \in Trees
    BY <1>3 DEF AcceptAdd, Trees, Typed
  <2> QED
    BY <1>3, <2>1, <2>2 DEF Typed, AcceptAdd, dirVars, rowVars, treeVars, remoteVars
<1>4. CASE AcceptCommit
  <2>1. rec' \in RecType
    BY <1>1, <1>4 DEF AcceptCommit, RecType
  <2> QED
    BY <1>4, <2>1 DEF Typed, AcceptCommit, dirVars, rowVars, treeVars, remoteVars
<1>5. CASE AcceptRef
  <2>1. rec' \in RecType
    BY <1>1, <1>5 DEF AcceptRef, RecType
  <2>2. approved' \in [Writers -> Trees \cup {NoTree}]
    BY <1>5 DEF AcceptRef, Typed
  <2> QED
    BY <1>5, <2>1, <2>2 DEF Typed, AcceptRef, dirVars, rowVars, treeVars, remoteVars
<1>6. CASE EndReconcile \/ ReconcileFails
  <2>1. rec' \in RecType
    BY <1>6, IdleTypes DEF EndReconcile, ReconcileFails
  <2> QED
    BY <1>6, <2>1 DEF Typed, EndReconcile, ReconcileFails, dirVars, rowVars, treeVars, remoteVars
<1>7. ASSUME NEW s \in Writers, AcceptKnown(s)
      PROVE  Typed'
  <2>1. rec' \in RecType
    BY <1>1, <1>7 DEF AcceptKnown, RecType
  <2> QED
    BY <1>7, <2>1 DEF Typed, AcceptKnown, dirVars, rowVars, treeVars, remoteVars
<1>8. ASSUME NEW s \in Writers, AcceptBegin(s)
      PROVE  Typed'
  <2>1. rec' \in RecType
    BY <1>1, <1>8 DEF AcceptBegin, RecType, Writers
  <2> QED
    BY <1>8, <2>1 DEF Typed, AcceptBegin, dirVars, rowVars, treeVars, remoteVars
<1>9. ASSUME NEW s \in Stages, Claim(s)
      PROVE  Typed'
  <2>1. rec' \in RecType
    BY <1>1, <1>9 DEF Claim, RecType
  <2>2. row' \in [Stages -> RowType]
    BY <1>9 DEF Claim, Typed, RowType
  <2>3. job' \in [Stages -> JobType]
    BY <1>9, ClaimJob DEF Typed, Becomes
  <2> QED
    BY <1>9, <2>1, <2>2, <2>3 DEF Typed, Claim, dirVars, treeVars, remoteVars
<1> QED
  BY <1>2, <1>3, <1>4, <1>5, <1>6, <1>7, <1>8, <1>9 DEF Reconciling

\* So do the runners.
LEMMA TypedRun ==
    ASSUME Typed, Roles, NEW s \in Stages,
           Running(s) \/ HandIn(s) \/ RunnerStops(s) \/ Plan(s)
           \/ (\E verdict \in {"approved", "executing"} : Decide(s, verdict))
           \/ (\E f \in OwnedBy(s) : Write(s, f))
    PROVE  Typed'
<1>1. job[s] \in JobType /\ row[s] \in RowType
  BY DEF Typed
<1>2. CASE ResetBegin(s)
  <2>1. job' \in [Stages -> JobType]
    BY <1>2, ResetBeginJob DEF Typed, Becomes
  <2> QED
    BY <1>2, <2>1 DEF Typed, ResetBegin, dirVars, rowVars, treeVars, remoteVars
<1>3. CASE ResetEnd(s)
  <2>1. job' \in [Stages -> JobType]
    BY <1>3 DEF ResetEnd, Typed, JobType, WriterSteps
  <2> QED
    BY <1>3, <2>1 DEF Typed, ResetEnd, dirVars, rowVars, treeVars, remoteVars
<1>4. ASSUME NEW f \in OwnedBy(s), ResetFile(s, f)
      PROVE  Typed'
  <2>1. f \in Files
    BY DEF OwnedBy
  <2>2. job' \in [Stages -> JobType]
    BY <1>4 DEF ResetFile, Typed, JobType
  <2>3. work' \in Trees /\ index' \in Trees
    BY <1>4, <2>1 DEF ResetFile, Typed, Trees, Absent
  <2> QED
    BY <1>4, <2>2, <2>3 DEF Typed, ResetFile, dirVars, rowVars, treeVars, remoteVars
<1>5. CASE HandIn(s)
  <2>1. job' \in [Stages -> JobType]
    BY <1>5, IdleTypes DEF HandIn, Typed
  <2>2. row' \in [Stages -> RowType]
    BY <1>5 DEF HandIn, SetStatus, Typed, RowType
  <2>3. CASE s = Publisher
    BY <1>5, <2>1, <2>2, <2>3 DEF Typed, HandIn, dirVars, treeVars, remoteVars
  <2>4. CASE s # Publisher
    <3>1. PICK new : new = [f \in OwnedBy(s) |-> work[f]]
      OBVIOUS
    <3>2. new \in [OwnedBy(s) -> Nat]
      BY <3>1 DEF Typed, Trees, OwnedBy
    <3>3. s \in Writers /\ delivered' = [delivered EXCEPT ![s] = new]
      BY <1>5, <2>4, <3>1 DEF HandIn, Writers
    <3>4. /\ delivered' = [t \in Writers |-> delivered'[t]]
          /\ \A t \in Writers : delivered'[t] \in {NoTree} \cup [OwnedBy(t) -> Nat]
      BY <3>2, <3>3 DEF Typed
    <3> QED
      BY <1>5, <2>1, <2>2, <3>4 DEF Typed, HandIn, dirVars, treeVars, remoteVars
  <2> QED
    BY <2>3, <2>4
<1>6. CASE RunnerStops(s)
  <2>1. job' \in [Stages -> JobType]
    BY <1>6, IdleTypes DEF RunnerStops, Typed
  <2> QED
    BY <1>6, <2>1 DEF Typed, RunnerStops, Released, dirVars, treeVars, remoteVars
<1>7. ASSUME NEW verdict \in {"approved", "executing"}, Plan(s) \/ Decide(s, verdict)
      PROVE  Typed'
  <2>1. row' \in [Stages -> RowType]
    BY <1>7 DEF Plan, Decide, SetStatus, Typed, RowType
  <2> QED
    BY <1>7, <2>1 DEF Typed, Plan, Decide, dirVars, treeVars, procVars, remoteVars
<1>8. ASSUME NEW f \in OwnedBy(s), Write(s, f)
      PROVE  Typed'
  <2>1. WrittenBy(job[s].attempt) \in Nat
    BY <1>1 DEF JobType, WrittenBy
  <2>2. work' \in Trees
    BY <1>8, <2>1 DEF Write, Typed, Trees, OwnedBy
  <2> QED
    BY <1>8, <2>2 DEF Typed, Write, dirVars, rowVars, treeVars, procVars, remoteVars
<1> QED
  BY <1>2, <1>3, <1>4, <1>5, <1>6, <1>7, <1>8 DEF Running

\* So does the publisher.
LEMMA TypedPublish ==
    ASSUME Typed, Roles, Publishing \/ PublishFails
    PROVE  Typed'
<1> USE WorkspaceAssumption
<1>1. CASE Report
  <2>1. job' \in [Stages -> JobType]
    BY <1>1, ReportJob DEF Typed, Becomes
  <2> QED
    BY <1>1, <2>1 DEF Typed, Report, dirVars, rowVars, treeVars, remoteVars
<1>2. CASE AllPushed
  <2>1. job' \in [Stages -> JobType]
    BY <1>2, AllPushedJob DEF Typed, Becomes
  <2> QED
    BY <1>2, <2>1 DEF Typed, AllPushed, dirVars, rowVars, treeVars, remoteVars
<1>3. ASSUME NEW b \in Branches, BranchCommit(b)
      PROVE  Typed'
  <2>0. PICK new \in JobType : Becomes(Publisher, new)
    BY <1>3, BranchJob
  <2>1. job' \in [Stages -> JobType]
    BY <2>0 DEF Typed, Becomes
  <2> QED
    BY <1>3, <2>1 DEF Typed, BranchCommit, dirVars, rowVars, treeVars, remoteVars
<1>4. ASSUME NEW b \in Branches, OpenPull(b)
      PROVE  Typed'
  <2>1. job' \in [Stages -> JobType]
    BY <1>4, OpenJob DEF Typed, Becomes
  <2> QED
    BY <1>4, <2>1 DEF Typed, OpenPull, dirVars, rowVars, treeVars, remoteVars
<1>5. pub.pc = "push" => pub.tree \in Trees /\ pub.branch \in Branches
  BY DEF Roles, pub
<1>6. CASE Push
  <2>1. job' \in [Stages -> JobType]
    BY <1>6, PushJob DEF Typed, Becomes
  <2>2. remote' \in [Branches -> Trees \cup {NoTree}]
    BY <1>5, <1>6 DEF Push, Typed
  <2> QED
    BY <1>6, <2>1, <2>2 DEF Typed, Push, dirVars, rowVars, treeVars, remoteVars
<1>7. CASE PublishFails
  <2>1. job' \in [Stages -> JobType]
    BY <1>7, IdleTypes DEF PublishFails, Typed
  <2>2. remote' \in [Branches -> Trees \cup {NoTree}]
    BY <1>5, <1>7 DEF PublishFails, Typed
  <2> QED
    BY <1>7, <2>1, <2>2 DEF Typed, PublishFails, dirVars, rowVars, treeVars, remoteVars
<1> QED
  BY <1>1, <1>2, <1>3, <1>4, <1>6, <1>7 DEF Publishing

\* Every step keeps the types.
LEMMA TypedStep ==
    ASSUME Typed, Roles, [Next]_vars
    PROVE  Typed'
<1>1. ASSUME Apart PROVE Typed'
  BY <1>1 DEF Typed, Apart, treeVars, procVars, remoteVars
<1>2. CASE Crash \/ KillGit
  <2>1. job' \in [Stages -> JobType] /\ rec' \in RecType /\ mu' = "free"
    BY <1>2, IdleTypes DEF Crash, KillGit, Gone
  <2> QED
    BY <1>2, <2>1 DEF Typed, Crash, KillGit, Gone, rowVars, treeVars, remoteVars
<1>3. CASE \E s \in Stages :
             \/ Running(s) \/ HandIn(s) \/ RunnerStops(s) \/ Plan(s)
             \/ \E verdict \in {"approved", "executing"} : Decide(s, verdict)
             \/ \E f \in OwnedBy(s) : Write(s, f)
  BY <1>3, TypedRun
<1> QED
  BY <1>1, <1>2, <1>3, ApartSteps, TypedReconcile, TypedPublish DEF Next

(***************************************************************************)
(* Jobs, rows and the mutex.                                               *)
(***************************************************************************)

\* What Roles says of one job.
Fits(s, j) ==
    /\ j.pc \in WriterSteps => s \in Writers
    /\ j.pc \in PublisherSteps => s = Publisher
    /\ j.pc = "resetting" => j.todo \subseteq OwnedBy(s)
    /\ j.pc \in {"build", "push", "open"} => j.todo \subseteq Branches
    /\ j.pc = "push" => j.branch \in j.todo /\ j.tree \in Trees

\* No job fits every stage.
LEMMA NoJobFits == \A s : Fits(s, NoJob)
BY DEF Fits, NoJob, WriterSteps, PublisherSteps

\* A job that fits replaces another.
LEMMA RolesBecome ==
    ASSUME Typed, Roles, NEW s \in Stages, NEW new, Becomes(s, new), Fits(s, new)
    PROVE  Roles'
<1>1. \A t \in Stages : job'[t] = IF t = s THEN new ELSE job[t]
  BY DEF Becomes, Typed
<1>2. \A t \in Stages : Fits(t, job[t])
  BY DEF Roles, Fits
<1>3. \A t \in Stages : Fits(t, job'[t])
  BY <1>1, <1>2
<1> QED
  BY <1>3 DEF Roles, Fits

\* Every job is one of its stage.
LEMMA RolesStep ==
    ASSUME Typed, Roles, [Next]_vars
    PROVE  Roles'
<1> USE WorkspaceAssumption
<1>0. \A t \in Stages : Fits(t, job[t])
  BY DEF Roles, Fits
<1>1. ASSUME job' = job PROVE Roles'
  BY <1>1 DEF Roles
<1>2. CASE Crash \/ KillGit
  <2>1. \A s \in Stages : job'[s] = NoJob
    BY <1>2 DEF Crash, KillGit, Gone
  <2> QED
    BY <2>1, NoJobFits DEF Roles, Fits
<1>3. ASSUME NEW s \in Stages, Becomes(s, NoJob) PROVE Roles'
  BY <1>3, NoJobFits, RolesBecome
<1>4. CASE Reconciling \/ ReconcileFails
  <2>1. ASSUME NEW s \in Stages, Claim(s) PROVE Roles'
    <3>1. PICK new \in JobType :
            Becomes(s, new) /\ new.pc = IF s = Publisher THEN "report" ELSE "reset"
      BY <2>1, ClaimJob
    <3>2. Fits(s, new)
      BY <3>1 DEF Fits, Writers, WriterSteps, PublisherSteps
    <3> QED
      BY <3>1, <3>2, RolesBecome
  <2> QED
    BY <1>1, <1>4, <2>1 DEF Reconciling, BeginReconcile, AcceptAdd, AcceptCommit, AcceptRef,
        EndReconcile, AcceptKnown, AcceptBegin, ReconcileFails
<1>5. ASSUME NEW s \in Stages, Running(s) PROVE Roles'
  <2>1. CASE ResetBegin(s)
    <3>1. PICK new \in JobType : Becomes(s, new) /\ Adjusted(new, job[s], "resetting", files(s))
      BY <2>1, ResetBeginJob
    <3>2. s \in Writers
      BY <2>1 DEF ResetBegin, Roles, WriterSteps
    <3>3. Fits(s, new)
      BY <3>1, <3>2 DEF Fits, Adjusted, files, WriterSteps, PublisherSteps
    <3> QED
      BY <3>1, <3>3, RolesBecome
  <2>2. CASE ResetEnd(s)
    <3>1. PICK new \in JobType : Becomes(s, new) /\ Adjusted(new, job[s], "work", {})
      BY <2>2, ResetEndJob
    <3>2. s \in Writers
      BY <2>2 DEF ResetEnd, Roles, WriterSteps
    <3>3. Fits(s, new)
      BY <3>1, <3>2 DEF Fits, Adjusted, WriterSteps, PublisherSteps
    <3> QED
      BY <3>1, <3>3, RolesBecome
  <2>3. ASSUME NEW f \in OwnedBy(s), ResetFile(s, f) PROVE Roles'
    <3>1. PICK new \in JobType :
            Becomes(s, new) /\ Adjusted(new, job[s], "resetting", job[s].todo \ {f})
      BY <2>3, ResetFileJob
    <3>2. s \in Writers /\ job[s].todo \subseteq OwnedBy(s)
      BY <2>3 DEF ResetFile, Roles, WriterSteps
    <3>3. Fits(s, new)
      BY <3>1, <3>2 DEF Fits, Adjusted, WriterSteps, PublisherSteps
    <3> QED
      BY <3>1, <3>3, RolesBecome
  <2> QED
    BY <1>5, <2>1, <2>2, <2>3 DEF Running
<1>6. ASSUME NEW s \in Stages, HandIn(s) \/ RunnerStops(s) PROVE Roles'
  BY <1>3, <1>6 DEF HandIn, RunnerStops, Becomes
<1>7. ASSUME NEW s, NEW verdict, NEW f, Plan(s) \/ Decide(s, verdict) \/ Write(s, f)
      PROVE  job' = job
  BY <1>7 DEF Plan, Decide, Write, procVars
<1>8. CASE Publishing \/ PublishFails
  <2>1. CASE Report
    <3>1. PICK new \in JobType : Becomes(Publisher, new) /\ Adjusted(new, pub, "build", ToBuild)
      BY <2>1, ReportJob
    <3>2. Fits(Publisher, new)
      BY <2>1, <3>1, ReportJob DEF Fits, Adjusted, WriterSteps, PublisherSteps
    <3> QED
      BY <3>1, <3>2, RolesBecome
  <2>2. ASSUME NEW b \in Branches, BranchCommit(b) PROVE Roles'
    <3>1. PICK new \in JobType :
            /\ Becomes(Publisher, new)
            /\ \/ Changes(b) = {} /\ Adjusted(new, pub, "build", pub.todo \ {b})
               \/ /\ new.pc = "push" /\ new.branch = b /\ new.tree \in Trees
                  /\ new.todo = pub.todo
      BY <2>2, BranchJob
    <3>2. pub.todo \subseteq Branches /\ b \in pub.todo
      BY <2>2 DEF BranchCommit, Roles, pub
    <3>3. Fits(Publisher, new)
      BY <3>1, <3>2 DEF Fits, Adjusted, WriterSteps, PublisherSteps
    <3> QED
      BY <3>1, <3>3, RolesBecome
  <2>3. CASE Push
    <3>1. PICK new \in JobType :
            Becomes(Publisher, new) /\ new.pc = "build" /\ new.todo = pub.todo \ {pub.branch}
      BY <2>3, PushJob
    <3>2. pub.todo \subseteq Branches
      BY <2>3 DEF Push, Roles, pub
    <3>3. Fits(Publisher, new)
      BY <3>1, <3>2 DEF Fits, WriterSteps, PublisherSteps
    <3> QED
      BY <3>1, <3>3, RolesBecome
  <2>4. CASE AllPushed
    <3>1. PICK new \in JobType : Becomes(Publisher, new) /\ Adjusted(new, pub, "open", pub.pushed)
      BY <2>4, AllPushedJob
    <3>2. pub.pushed \subseteq Branches
      BY DEF pub, Typed, JobType
    <3>3. Fits(Publisher, new)
      BY <3>1, <3>2 DEF Fits, Adjusted, WriterSteps, PublisherSteps
    <3> QED
      BY <3>1, <3>3, RolesBecome
  <2>5. ASSUME NEW b \in Branches, OpenPull(b) PROVE Roles'
    <3>1. PICK new \in JobType : Becomes(Publisher, new) /\ Adjusted(new, pub, "open", pub.todo \ {b})
      BY <2>5, OpenJob
    <3>2. pub.todo \subseteq Branches
      BY <2>5 DEF OpenPull, Roles, pub
    <3>3. Fits(Publisher, new)
      BY <3>1, <3>2 DEF Fits, Adjusted, WriterSteps, PublisherSteps
    <3> QED
      BY <3>1, <3>3, RolesBecome
  <2>6. CASE PublishFails
    BY <1>3, <2>6 DEF PublishFails, Becomes
  <2> QED
    BY <1>8, <2>1, <2>2, <2>3, <2>4, <2>5, <2>6 DEF Publishing
<1>9. ASSUME Apart PROVE Roles'
  BY <1>1, <1>9 DEF Apart, procVars
<1> QED
  BY <1>1, <1>2, <1>4, <1>5, <1>6, <1>7, <1>8, <1>9, ApartSteps DEF Next

\* What a Reconcile reads.
LEMMA BeginRec ==
    ASSUME Typed, BeginReconcile
    PROVE  /\ rec.pc = "idle" /\ rec'.pc = "accept"
           /\ rec'.todo = {s \in Writers : row[s].status = "approved"}
           /\ rec'.claims = {s \in Stages : row[s].status = "executing" /\ job[s].pc = "none"}
<1>1. PICK todo : todo = {s \in Writers : row[s].status = "approved"}
  OBVIOUS
<1>2. PICK claims : claims = {s \in Stages : row[s].status = "executing" /\ job[s].pc = "none"}
  OBVIOUS
<1>3. rec' = [rec EXCEPT !.pc = "accept", !.todo = todo, !.claims = claims] /\ rec.pc = "idle"
  BY <1>1, <1>2, Zenon DEF BeginReconcile
<1>4. rec'.pc = "accept" /\ rec'.todo = todo /\ rec'.claims = claims
  BY <1>3 DEF Typed, RecType
<1> QED
  BY <1>1, <1>2, <1>3, <1>4

\* Accept has the mutex.
Inside == rec.pc \in {"add", "commit", "ref"}

\* A step outside Reset and Accept leaves the mutex where it is.
LEMMA MutexBecome ==
    ASSUME Typed, Mutex, NEW s \in Stages, NEW new, Becomes(s, new), mu' = mu, Inside' <=> Inside,
           new.pc = "resetting" <=> job[s].pc = "resetting"
    PROVE  Mutex'
<1>1. \A t \in Stages : job'[t] = IF t = s THEN new ELSE job[t]
  BY DEF Becomes, Typed
<1> QED
  BY <1>1 DEF Mutex, Inside

\* What the publisher does to its job, and to nobody's files.
LEMMA PublisherMoves ==
    ASSUME Typed, Roles, Publishing \/ PublishFails
    PROVE  /\ UNCHANGED <<mode, row, delivered, treeVars, mu, rec>>
           /\ pub.pc \in PublisherSteps
           /\ \E new \in JobType : /\ Becomes(Publisher, new)
                                   /\ \/ new.pc = "none"
                                      \/ new.pc \in PublisherSteps /\ new.attempt = pub.attempt
<1> DEFINE Moved == \E new \in JobType :
                      /\ Becomes(Publisher, new)
                      /\ \/ new.pc = "none"
                         \/ new.pc \in PublisherSteps /\ new.attempt = pub.attempt
<1>1. UNCHANGED <<mode, row, delivered, treeVars, mu, rec>> /\ pub.pc \in PublisherSteps
  BY DEF Publishing, Report, BranchCommit, Push, AllPushed, OpenPull, PublishFails,
      dirVars, rowVars, PublisherSteps
<1>2. ASSUME Report PROVE Moved
  <2>1. PICK new \in JobType : Becomes(Publisher, new) /\ Adjusted(new, pub, "build", ToBuild)
    BY <1>2, ReportJob
  <2> QED
    BY <2>1 DEF Adjusted, PublisherSteps
<1>3. ASSUME NEW b \in Branches, BranchCommit(b) PROVE Moved
  <2>1. PICK new \in JobType :
            /\ Becomes(Publisher, new)
            /\ \/ Changes(b) = {} /\ Adjusted(new, pub, "build", pub.todo \ {b})
               \/ new.pc = "push" /\ new.attempt = pub.attempt
    BY <1>3, BranchJob
  <2> QED
    BY <2>1 DEF Adjusted, PublisherSteps
<1>4. ASSUME Push PROVE Moved
  <2>1. PICK new \in JobType : Becomes(Publisher, new) /\ new.pc = "build" /\ new.attempt = pub.attempt
    BY <1>4, PushJob
  <2> QED
    BY <2>1 DEF PublisherSteps
<1>5. ASSUME AllPushed PROVE Moved
  <2>1. PICK new \in JobType : Becomes(Publisher, new) /\ Adjusted(new, pub, "open", pub.pushed)
    BY <1>5, AllPushedJob
  <2> QED
    BY <2>1 DEF Adjusted, PublisherSteps
<1>6. ASSUME NEW b \in Branches, OpenPull(b) PROVE Moved
  <2>1. PICK new \in JobType : Becomes(Publisher, new) /\ Adjusted(new, pub, "open", pub.todo \ {b})
    BY <1>6, OpenJob
  <2> QED
    BY <2>1 DEF Adjusted, PublisherSteps
<1>7. ASSUME PublishFails PROVE Moved
  <2>1. Becomes(Publisher, NoJob) /\ NoJob.pc = "none"
    BY <1>7 DEF PublishFails, Becomes, NoJob
  <2> QED
    BY <2>1, IdleTypes
<1>8. Moved
  BY <1>2, <1>3, <1>4, <1>5, <1>6, <1>7 DEF Publishing
<1> QED
  BY <1>1, <1>8

\* The mutex is held exactly inside Accept and Reset.
LEMMA MutexStep ==
    ASSUME Typed, Roles, Mutex, Runs, [Next]_vars
    PROVE  Mutex'
<1> USE WorkspaceAssumption
<1>1. \A t \in Stages : t \notin {"free", "reconcile"}
  OBVIOUS
<1>2. CASE Crash \/ KillGit
  <2>1. (\A s \in Stages : job'[s].pc = "none") /\ rec'.pc = "idle" /\ mu' = "free"
    BY <1>2 DEF Crash, KillGit, Gone, NoJob, NoRec
  <2> QED
    BY <1>1, <2>1 DEF Mutex
<1>3. ASSUME job' = job, mu' = mu, Inside' <=> Inside PROVE Mutex'
  BY <1>3 DEF Mutex, Inside
<1>4. CASE BeginReconcile \/ EndReconcile \/ AcceptAdd \/ AcceptCommit
  <2>1. \/ rec.pc \in {"idle", "accept"} /\ rec'.pc \in {"idle", "accept"}
        \/ rec.pc \in {"add", "commit"} /\ rec'.pc \in {"commit", "ref"}
    BY <1>4, BeginRec DEF EndReconcile, AcceptAdd, AcceptCommit, Typed, RecType, NoRec
  <2>2. Inside' <=> Inside
    BY <2>1 DEF Inside
  <2> QED
    BY <1>3, <1>4, <2>2 DEF BeginReconcile, EndReconcile, AcceptAdd, AcceptCommit
<1>5. ASSUME NEW s \in Writers, AcceptKnown(s) PROVE Mutex'
  <2>1. Inside' <=> Inside
    BY <1>5 DEF AcceptKnown, Inside, Typed, RecType
  <2> QED
    BY <1>3, <1>5, <2>1 DEF AcceptKnown
<1>6. ASSUME NEW s \in Writers, AcceptBegin(s) PROVE Mutex'
  <2>1. rec'.pc = "add" /\ mu' = "reconcile" /\ job' = job /\ mu = "free"
    BY <1>6 DEF AcceptBegin, Typed, RecType
  <2> QED
    BY <1>1, <2>1 DEF Mutex
<1>7. CASE AcceptRef
  <2>1. rec'.pc = "accept" /\ mu' = "free" /\ job' = job /\ rec.pc = "ref"
    BY <1>7 DEF AcceptRef, Typed, RecType
  <2> QED
    BY <1>1, <2>1 DEF Mutex
<1>8. CASE ReconcileFails
  <2>1. rec'.pc = "idle" /\ job' = job /\ mu' = IF Inside THEN "free" ELSE mu
    BY <1>8 DEF ReconcileFails, NoRec, Inside
  <2> QED
    BY <1>1, <2>1 DEF Mutex, Inside
<1>9. ASSUME NEW s \in Stages, Claim(s) PROVE Mutex'
  <2>1. PICK new \in JobType :
          Becomes(s, new) /\ new.pc = IF s = Publisher THEN "report" ELSE "reset"
    BY <1>9, ClaimJob
  <2>2. job[s].pc = "none"
    BY <1>9 DEF Claim, Runs
  <2>3. (Inside' <=> Inside) /\ mu' = mu
    BY <1>9 DEF Claim, Inside, Typed, RecType
  <2> QED
    BY <2>1, <2>2, <2>3, MutexBecome
<1>10. ASSUME NEW s \in Stages, ResetBegin(s) PROVE Mutex'
  <2>1. PICK new \in JobType : Becomes(s, new) /\ Adjusted(new, job[s], "resetting", files(s))
    BY <1>10, ResetBeginJob
  <2>2. \A t \in Stages : job'[t] = IF t = s THEN new ELSE job[t]
    BY <2>1 DEF Becomes, Typed
  <2>3. mu = "free" /\ mu' = s /\ rec' = rec /\ new.pc = "resetting"
    BY <1>10, <2>1 DEF ResetBegin, Adjusted
  <2> QED
    BY <1>1, <2>2, <2>3 DEF Mutex
<1>11. ASSUME NEW s \in Stages, ResetEnd(s) PROVE Mutex'
  <2>1. PICK new \in JobType : Becomes(s, new) /\ Adjusted(new, job[s], "work", {})
    BY <1>11, ResetEndJob
  <2>2. \A t \in Stages : job'[t] = IF t = s THEN new ELSE job[t]
    BY <2>1 DEF Becomes, Typed
  <2>3. job[s].pc = "resetting" /\ mu' = "free" /\ rec' = rec /\ new.pc = "work"
    BY <1>11, <2>1 DEF ResetEnd, Adjusted
  <2> QED
    BY <1>1, <2>2, <2>3 DEF Mutex
<1>12. ASSUME NEW s \in Stages, NEW f \in OwnedBy(s), ResetFile(s, f) PROVE Mutex'
  <2>1. PICK new \in JobType :
          Becomes(s, new) /\ Adjusted(new, job[s], "resetting", job[s].todo \ {f})
    BY <1>12, ResetFileJob
  <2>2. job[s].pc = "resetting" /\ mu' = mu /\ rec' = rec /\ new.pc = "resetting"
    BY <1>12, <2>1 DEF ResetFile, Adjusted
  <2> QED
    BY <2>1, <2>2, MutexBecome DEF Inside
<1>13. ASSUME NEW s \in Stages, HandIn(s) PROVE Mutex'
  <2>1. Becomes(s, NoJob) /\ NoJob.pc = "none" /\ job[s].pc # "resetting" /\ mu' = mu /\ rec' = rec
    BY <1>13 DEF HandIn, Becomes, NoJob
  <2> QED
    BY <2>1, MutexBecome DEF Inside
<1>14. ASSUME NEW s \in Stages, RunnerStops(s) PROVE Mutex'
  <2>1. \A t \in Stages : job'[t] = IF t = s THEN NoJob ELSE job[t]
    BY <1>14 DEF RunnerStops, Typed
  <2>2. mu' = (IF mu = s THEN "free" ELSE mu) /\ rec' = rec /\ NoJob.pc = "none"
    BY <1>14 DEF RunnerStops, Released, NoJob
  <2> QED
    BY <1>1, <2>1, <2>2 DEF Mutex
<1>15. ASSUME NEW s, NEW verdict, NEW f, Plan(s) \/ Decide(s, verdict) \/ Write(s, f)
       PROVE  Mutex'
  BY <1>3, <1>15 DEF Plan, Decide, Write, procVars, Inside
<1>16. CASE Publishing \/ PublishFails
  <2>1. PICK new \in JobType :
          Becomes(Publisher, new) /\ (new.pc = "none" \/ new.pc \in PublisherSteps)
    BY <1>16, PublisherMoves
  <2>2. UNCHANGED <<mu, rec>> /\ pub.pc \in PublisherSteps
    BY <1>16, PublisherMoves
  <2> QED
    BY <2>1, <2>2, MutexBecome DEF Inside, pub, PublisherSteps
<1>17. ASSUME Apart PROVE Mutex'
  BY <1>3, <1>17 DEF Apart, procVars, Inside
<1> QED
  BY <1>2, <1>4, <1>5, <1>6, <1>7, <1>8, <1>9, <1>10, <1>11, <1>12, <1>13, <1>14, <1>15, <1>16,
     <1>17, ApartSteps DEF Next, Reconciling, Running

\* The rows that a step may change, and how: only a stage in review or at work
\* becomes approved, and nothing happens to an approved one.
LEMMA RowMoves ==
    ASSUME Typed, [Next]_vars, NEW s \in Stages
    PROVE  /\ row[s].status = "approved" => row'[s] = row[s]
           /\ row'[s].attempt >= row[s].attempt
           /\ row'[s].status # row[s].status =>
                \/ row[s].status = "pending" /\ \A d \in Deps[s] : row[d].status = "approved"
                \/ row[s].status \in {"executing", "review"}
<1>0. row[s] \in RowType /\ row[s].attempt \in Nat
  BY DEF Typed, RowType
<1>1. CASE row' = row
  BY <1>0, <1>1
<1>2. ASSUME NEW t \in Stages, NEW st, SetStatus(t, st), row[t].status # "approved",
             row[t].status = "pending" => \A d \in Deps[t] : row[d].status = "approved"
      PROVE  /\ row[s].status = "approved" => row'[s] = row[s]
             /\ row'[s].attempt >= row[s].attempt
             /\ row'[s].status # row[s].status =>
                  \/ row[s].status = "pending" /\ \A d \in Deps[s] : row[d].status = "approved"
                  \/ row[s].status \in {"executing", "review"}
  <2>1. CASE t # s
    <3>1. row'[s] = row[s]
      BY <1>2, <2>1 DEF SetStatus, Typed
    <3> QED
      BY <1>0, <3>1
  <2>2. CASE t = s
    <3>1. row'[s].attempt = row[s].attempt
      BY <1>2, <2>2 DEF SetStatus, Typed, RowType
    <3> QED
      BY <1>0, <1>2, <2>2, <3>1 DEF RowType
  <2> QED
    BY <2>1, <2>2
<1>3. ASSUME NEW t \in Stages, HandIn(t) \/ Plan(t) \/ \E verdict \in {"approved", "executing"} : Decide(t, verdict)
      PROVE  \E st : /\ SetStatus(t, st) /\ row[t].status # "approved"
                     /\ row[t].status = "pending" => \A d \in Deps[t] : row[d].status = "approved"
  BY <1>3 DEF HandIn, Current, Plan, Decide
<1>4. ASSUME NEW t \in Stages, Claim(t)
      PROVE  row'[s].status = row[s].status /\ row'[s].attempt >= row[s].attempt
             /\ (row[s].status = "approved" => row'[s] = row[s])
  BY <1>0, <1>4 DEF Claim, Typed, RowType
<1>5. CASE Reconciling
  <2>1. CASE \E t \in Stages : Claim(t)
    BY <1>4, <2>1
  <2>2. CASE ~\E t \in Stages : Claim(t)
    <3>1. row' = row
      BY <1>5, <2>2 DEF Reconciling, BeginReconcile, AcceptAdd, AcceptCommit, AcceptRef, EndReconcile,
          AcceptKnown, AcceptBegin, rowVars
    <3> QED
      BY <1>1, <3>1
  <2> QED
    BY <2>1, <2>2
<1>6. ASSUME NEW t \in Stages, Running(t) \/ RunnerStops(t) \/ \E f \in OwnedBy(t) : Write(t, f)
      PROVE  row' = row
  BY <1>6 DEF Running, ResetBegin, ResetEnd, ResetFile, RunnerStops, Write, rowVars
<1>7. ASSUME Publishing \/ PublishFails \/ ReconcileFails \/ Crash \/ KillGit \/ Apart
      PROVE  row' = row
  BY <1>7 DEF Publishing, Report, BranchCommit, Push, AllPushed, OpenPull, PublishFails,
      ReconcileFails, Crash, KillGit, Gone, Apart, rowVars
<1> QED
  BY <1>1, <1>2, <1>3, <1>5, <1>6, <1>7, ApartSteps DEF Next

\* What a Reconcile has still to do shrinks, and Accept works on part of it.
LEMMA RecMoves ==
    ASSUME Typed, Roles, Runs, [Next]_vars, ~BeginReconcile
    PROVE  /\ rec'.claims \subseteq rec.claims /\ rec'.todo \subseteq rec.todo
           /\ rec'.pc # "idle" => rec.pc # "idle"
           /\ Inside' => rec'.stage \in rec'.todo
           /\ \A s \in Stages : Claim(s) => s \notin rec'.claims
<1>1. rec \in RecType
  BY DEF Typed
<1>2. CASE rec' = rec
  <2>1. ASSUME NEW s \in Stages, Claim(s) PROVE FALSE
    BY <1>1, <1>2, <2>1 DEF Claim, RecType
  <2> QED
    BY <1>2, <2>1 DEF Runs, Inside
<1>3. CASE rec' = NoRec
  BY <1>3 DEF NoRec, Inside
<1>4. CASE AcceptAdd \/ AcceptCommit
  <2>1. /\ rec'.todo = rec.todo /\ rec'.claims = rec.claims /\ rec'.stage = rec.stage
        /\ rec.pc \in {"add", "commit"}
    BY <1>1, <1>4 DEF AcceptAdd, AcceptCommit, RecType
  <2>2. \A s \in Stages : ~Claim(s)
    BY <2>1 DEF Claim
  <2> QED
    BY <2>1, <2>2 DEF Runs, Inside
<1>5. CASE AcceptRef
  <2>1. /\ rec'.todo \subseteq rec.todo /\ rec'.claims = rec.claims /\ rec'.pc = "accept"
        /\ rec.pc = "ref"
    BY <1>1, <1>5 DEF AcceptRef, RecType
  <2>2. \A s \in Stages : ~Claim(s)
    BY <2>1 DEF Claim
  <2> QED
    BY <2>1, <2>2 DEF Runs, Inside
<1>6. ASSUME NEW s \in Writers, AcceptKnown(s)
      PROVE  /\ rec'.todo \subseteq rec.todo /\ rec'.claims = rec.claims /\ rec'.pc = "accept"
             /\ rec.pc = "accept" /\ \A t \in Stages : ~Claim(t)
  <2>1. /\ rec'.todo = rec.todo \ {s} /\ rec'.claims = rec.claims /\ rec'.pc = "accept"
        /\ rec.pc = "accept" /\ s \in rec.todo
    BY <1>1, <1>6 DEF AcceptKnown, RecType
  <2> QED
    BY <2>1 DEF Claim
<1>7. ASSUME NEW s \in Writers, AcceptBegin(s)
      PROVE  /\ rec'.todo = rec.todo /\ rec'.claims = rec.claims /\ rec'.stage \in rec.todo
             /\ rec.pc = "accept" /\ \A t \in Stages : ~Claim(t)
  BY <1>1, <1>7 DEF AcceptBegin, RecType, Claim
<1>8. ASSUME NEW s \in Stages, Claim(s)
      PROVE  /\ rec'.todo = rec.todo /\ rec'.claims = rec.claims \ {s} /\ rec'.pc = "accept"
             /\ rec.pc = "accept"
  BY <1>1, <1>8 DEF Claim, RecType
<1>9. CASE \E s \in Stages : Claim(s)
  <2>1. PICK s \in Stages : Claim(s)
    BY <1>9
  <2>2. ASSUME NEW t \in Stages, Claim(t) PROVE t \notin rec'.claims
    BY <1>8, <2>2
  <2> QED
    BY <1>8, <2>1, <2>2 DEF Inside
<1>10. CASE \E s \in Writers : AcceptKnown(s)
  BY <1>6, <1>10 DEF Inside
<1>11. CASE \E s \in Writers : AcceptBegin(s)
  BY <1>7, <1>11 DEF Inside
<1>12. CASE EndReconcile \/ ReconcileFails \/ Crash \/ KillGit
  BY <1>3, <1>12 DEF EndReconcile, ReconcileFails, Crash, KillGit, Gone
<1>13. ASSUME NEW s \in Stages,
              \/ Running(s) \/ HandIn(s) \/ RunnerStops(s) \/ Plan(s)
              \/ \E verdict \in {"approved", "executing"} : Decide(s, verdict)
              \/ \E f \in OwnedBy(s) : Write(s, f)
       PROVE  rec' = rec
  BY <1>13 DEF Running, ResetBegin, ResetEnd, ResetFile, HandIn, RunnerStops, Plan, Decide, Write,
      procVars
<1>14. ASSUME Publishing \/ PublishFails \/ Apart PROVE rec' = rec
  BY <1>14, PublisherMoves DEF Apart, procVars
<1> QED
  BY <1>2, <1>4, <1>5, <1>9, <1>10, <1>11, <1>12, <1>13, <1>14, ApartSteps DEF Next, Reconciling

\* A job ends, goes on with an unchanged row, or has just been claimed.
LEMMA JobMoves ==
    ASSUME Typed, Roles, Runs, [Next]_vars, NEW s \in Stages
    PROVE  \/ job'[s].pc = "none"
           \/ job[s].pc # "none" /\ job'[s].attempt = job[s].attempt /\ row'[s] = row[s]
           \/ /\ Claim(s) /\ row'[s].status = "executing"
              /\ job'[s].attempt = row'[s].attempt /\ job'[s].attempt > 0
<1> USE WorkspaceAssumption
<1> DEFINE Goal == \/ job'[s].pc = "none"
                   \/ job[s].pc # "none" /\ job'[s].attempt = job[s].attempt /\ row'[s] = row[s]
                   \/ /\ Claim(s) /\ row'[s].status = "executing"
                      /\ job'[s].attempt = row'[s].attempt /\ job'[s].attempt > 0
<1>0. job \in [Stages -> JobType] /\ row \in [Stages -> RowType]
  BY DEF Typed
<1>1. ASSUME job'[s] = job[s], row'[s] = row[s] PROVE Goal
  BY <1>1
<1>2. ASSUME NEW t \in Stages, NEW new, Becomes(t, new), row' = row,
             new.pc = "none" \/ (job[t].pc # "none" /\ new.attempt = job[t].attempt)
      PROVE  Goal
  <2>1. job'[s] = IF s = t THEN new ELSE job[s]
    BY <1>0, <1>2 DEF Becomes
  <2> QED
    BY <1>2, <2>1
<1>3. ASSUME NEW t \in Stages, Claim(t) PROVE Goal
  <2>1. PICK new \in JobType : Becomes(t, new) /\ new.attempt = row[t].attempt + 1
    BY <1>3, ClaimJob
  <2>2. CASE s # t
    <3>1. job'[s] = job[s] /\ row'[s] = row[s]
      BY <1>0, <1>3, <2>1, <2>2 DEF Becomes, Claim
    <3> QED
      BY <1>1, <3>1
  <2>3. CASE s = t
    <3>1. job'[s] = new
      BY <1>0, <2>1, <2>3 DEF Becomes
    <3>2. row'[s].status = "executing" /\ row'[s].attempt = row[s].attempt + 1 /\ row[s].attempt \in Nat
      BY <1>0, <1>3, <2>3 DEF Claim, RowType
    <3> QED
      BY <1>3, <2>1, <2>3, <3>1, <3>2
  <2> QED
    BY <2>2, <2>3
<1>4. CASE Reconciling
  <2>1. ASSUME ~\E t \in Stages : Claim(t) PROVE job' = job /\ row' = row
    BY <1>4, <2>1 DEF Reconciling, BeginReconcile, AcceptAdd, AcceptCommit, AcceptRef, EndReconcile,
        AcceptKnown, AcceptBegin, rowVars
  <2> QED
    BY <1>1, <1>3, <2>1
<1>5. ASSUME NEW t \in Stages, Running(t) PROVE Goal
  <2>1. row' = row
    BY <1>5 DEF Running, ResetBegin, ResetEnd, ResetFile, rowVars
  <2>2. CASE ResetBegin(t)
    <3>1. PICK new \in JobType : Becomes(t, new) /\ Adjusted(new, job[t], "resetting", files(t))
      BY <2>2, ResetBeginJob
    <3>2. job[t].pc # "none" /\ new.attempt = job[t].attempt
      BY <2>2, <3>1 DEF ResetBegin, Adjusted
    <3> QED
      BY <1>2, <2>1, <3>1, <3>2
  <2>3. CASE ResetEnd(t)
    <3>1. PICK new \in JobType : Becomes(t, new) /\ Adjusted(new, job[t], "work", {})
      BY <2>3, ResetEndJob
    <3>2. job[t].pc # "none" /\ new.attempt = job[t].attempt
      BY <2>3, <3>1 DEF ResetEnd, Adjusted
    <3> QED
      BY <1>2, <2>1, <3>1, <3>2
  <2>4. ASSUME NEW f \in OwnedBy(t), ResetFile(t, f) PROVE Goal
    <3>1. PICK new \in JobType :
            Becomes(t, new) /\ Adjusted(new, job[t], "resetting", job[t].todo \ {f})
      BY <2>4, ResetFileJob
    <3>2. job[t].pc # "none" /\ new.attempt = job[t].attempt
      BY <2>4, <3>1 DEF ResetFile, Adjusted
    <3> QED
      BY <1>2, <2>1, <3>1, <3>2
  <2> QED
    BY <1>5, <2>2, <2>3, <2>4 DEF Running
<1>6. ASSUME NEW t \in Stages, HandIn(t) PROVE Goal
  <2>1. job'[s] = (IF s = t THEN NoJob ELSE job[s]) /\ (s # t => row'[s] = row[s])
    BY <1>0, <1>6 DEF HandIn, SetStatus
  <2>2. NoJob.pc = "none"
    BY DEF NoJob
  <2> QED
    BY <1>1, <2>1, <2>2
<1>7. ASSUME NEW t \in Stages, RunnerStops(t) PROVE Goal
  <2>1. Becomes(t, NoJob) /\ NoJob.pc = "none" /\ row' = row
    BY <1>7 DEF RunnerStops, Becomes, NoJob
  <2> QED
    BY <1>2, <2>1
<1>8. ASSUME NEW t \in Stages,
             Plan(t) \/ \E verdict \in {"approved", "executing"} : Decide(t, verdict)
      PROVE  Goal
  <2>1. job' = job /\ (s # t => row'[s] = row[s]) /\ row[t].status # "executing"
    BY <1>0, <1>8 DEF Plan, Decide, SetStatus, procVars
  <2>2. s = t => job'[s].pc = "none"
    BY <2>1 DEF Runs
  <2> QED
    BY <1>1, <2>1, <2>2
<1>9. ASSUME NEW t, NEW f, Write(t, f) PROVE Goal
  BY <1>1, <1>9 DEF Write, procVars, rowVars
<1>10. CASE Publishing \/ PublishFails
  <2>1. PICK new \in JobType :
          Becomes(Publisher, new) /\ (new.pc = "none" \/ new.attempt = pub.attempt)
    BY <1>10, PublisherMoves
  <2>2. row' = row /\ pub.pc # "none" /\ pub = job[Publisher]
    BY <1>10, PublisherMoves DEF PublisherSteps, pub
  <2> QED
    BY <1>2, <2>1, <2>2
<1>11. CASE Crash \/ KillGit
  <2>1. job'[s].pc = "none"
    BY <1>11 DEF Crash, KillGit, Gone, NoJob
  <2> QED
    BY <2>1
<1>12. ASSUME Apart \/ ReconcileFails PROVE Goal
  BY <1>1, <1>12 DEF Apart, procVars, ReconcileFails, rowVars
<1> QED
  BY <1>4, <1>5, <1>6, <1>7, <1>8, <1>9, <1>10, <1>11, <1>12, ApartSteps DEF Next

\* Runners and rows stay in step.
LEMMA RunsStep ==
    ASSUME Typed, Roles, Runs, [Next]_vars
    PROVE  Runs'
<1>1. ASSUME NEW s \in Stages, job'[s].pc # "none"
      PROVE  row'[s].status = "executing" /\ job'[s].attempt = row'[s].attempt /\ job'[s].attempt > 0
  BY <1>1, JobMoves DEF Runs
<1>2. \A s \in Stages : row'[s].status # "pending" => \A d \in Deps[s] : row'[d].status = "approved"
  <2>1. SUFFICES ASSUME NEW s \in Stages, row'[s].status # "pending", NEW d \in Deps[s]
                 PROVE  row[d].status = "approved" /\ d \in Stages
    BY RowMoves
  <2>2. d \in Stages
    BY WorkspaceAssumption
  <2>3. row[d].status = "approved"
    BY <2>1, RowMoves DEF Runs
  <2> QED
    BY <2>2, <2>3
<1>3. CASE BeginReconcile
  <2>1. row' = row /\ job' = job
    BY <1>3 DEF BeginReconcile, rowVars
  <2> QED
    BY <1>1, <1>2, <1>3, <2>1, BeginRec DEF Runs
<1>4. CASE ~BeginReconcile
  <2>1. rec \in RecType
    BY DEF Typed
  <2>2. \A s \in rec'.claims : job'[s].pc = "none"
    <3>1. SUFFICES ASSUME NEW s \in rec'.claims PROVE job'[s].pc = "none"
      OBVIOUS
    <3>2. s \in rec.claims /\ s \in Stages
      BY <1>4, <2>1, RecMoves DEF RecType
    <3>3. job[s].pc = "none" /\ ~Claim(s)
      BY <1>4, <3>2, RecMoves DEF Runs
    <3> QED
      BY <3>2, <3>3, JobMoves
  <2>3. \A s \in rec'.todo : row'[s].status = "approved"
    <3>1. SUFFICES ASSUME NEW s \in rec'.todo PROVE row'[s].status = "approved"
      OBVIOUS
    <3>2. s \in rec.todo /\ s \in Stages
      BY <1>4, <2>1, RecMoves DEF RecType, Writers
    <3> QED
      BY <3>2, RowMoves DEF Runs
  <2>4. Inside' => rec'.stage \in rec'.todo
    BY <1>4, RecMoves
  <2> QED
    BY <1>1, <1>2, <2>2, <2>3, <2>4 DEF Runs, Inside
<1> QED
  BY <1>3, <1>4

(***************************************************************************)
(* The trees.                                                              *)
(***************************************************************************)

\* Nothing happens to the files of stage s, nor to what decides about them.
Unmoved(s) ==
    /\ \A f \in OwnedBy(s) : work'[f] = work[f] /\ index'[f] = index[f] /\ head'[f] = head[f]
    /\ approved'[s] = approved[s] /\ delivered'[s] = delivered[s]
    /\ row'[s].status = row[s].status

\* What Tree says of one stage.
Held(s) ==
    /\ InTree(s) /\ Uncommitted(s) /\ Committed(s)
    /\ \A f \in OwnedBy(s) : Absent \in {work[f], index[f], head[f]} => Base[f] = Absent

\* Tree, stage by stage: every file has one owner.
LEMMA TreeHeld ==
    /\ Tree <=> (\A s \in Writers : Held(s)) /\ Accepting
    /\ (\A s \in Writers : Held(s)') /\ Accepting' => Tree'
<1>1. \A f \in Files : Owner[f] \in Writers /\ f \in OwnedBy(Owner[f])
  BY WorkspaceAssumption DEF OwnedBy
<1>2. \A s \in Writers : OwnedBy(s) \subseteq Files
  BY DEF OwnedBy
<1> QED
  BY <1>1, <1>2 DEF Tree, Held, NoneLost

\* A stage whose files rest keeps what Tree says of it.
LEMMA HeldKeeps ==
    ASSUME NEW s \in Writers, Held(s), Unmoved(s)
    PROVE  Held(s)'
<1>1. InTree(s)'
  BY DEF Held, Unmoved, InTree
<1>2. Uncommitted(s)'
  BY DEF Held, Unmoved, Uncommitted, NoTree
<1>3. Committed(s)'
  BY DEF Held, Unmoved, Committed, NoTree
<1>4. \A f \in OwnedBy(s) : Absent \in {work'[f], index'[f], head'[f]} => Base[f] = Absent
  BY DEF Held, Unmoved
<1> QED
  BY <1>1, <1>2, <1>3, <1>4 DEF Held, Base, OwnedBy

\* The stage that Accept works on has its files rest.
LEMMA AcceptingKeeps ==
    ASSUME Typed, Runs, Accepting,
           rec'.pc \in {"commit", "ref"} =>
             rec'.pc = rec.pc /\ rec'.stage = rec.stage /\ Unmoved(rec.stage)
    PROVE  Accepting'
BY DEF Accepting, Unmoved

\* A step on one stage that is not approved.
LEMMA TreeOne ==
    ASSUME Typed, Runs, Tree, NEW t \in Stages, row[t].status # "approved", rec' = rec,
           \A s \in Writers : s # t => Unmoved(s), t \in Writers => Held(t)'
    PROVE  Tree'
<1>1. \A s \in Writers : Held(s)'
  BY HeldKeeps, TreeHeld
<1>2. rec.pc \in {"commit", "ref"} => rec.stage # t /\ rec.stage \in Writers
  BY DEF Runs, Typed, RecType
<1>3. Accepting'
  BY <1>2, AcceptingKeeps DEF Tree
<1> QED
  BY <1>1, <1>3, TreeHeld

\* A step that leaves all files alone, and Accept where it was or before the index.
LEMMA TreeRests ==
    ASSUME Typed, Runs, Tree, UNCHANGED <<treeVars, delivered>>,
           \A s \in Writers : row'[s].status = row[s].status,
           rec'.pc \in {"commit", "ref"} => rec'.pc = rec.pc /\ rec'.stage = rec.stage
    PROVE  Tree'
<1>1. \A s : /\ \A f : work'[f] = work[f] /\ index'[f] = index[f] /\ head'[f] = head[f]
             /\ approved'[s] = approved[s] /\ delivered'[s] = delivered[s]
  BY DEF treeVars
<1>2. \A s \in Writers : Unmoved(s)
  BY <1>1 DEF Unmoved
<1>3. \A s \in Writers : Held(s)'
  BY <1>2, HeldKeeps, TreeHeld
<1>4. rec.pc \in {"commit", "ref"} => rec.stage \in Writers
  BY DEF Runs, Typed, RecType
<1>5. Accepting'
  BY <1>2, <1>4, AcceptingKeeps DEF Tree
<1> QED
  BY <1>3, <1>5, TreeHeld

\* Files of other stages.
LEMMA OtherFiles ==
    ASSUME NEW s \in Writers, NEW t \in Stages, s # t, NEW f \in OwnedBy(t)
    PROVE  f \in Files /\ f \notin OwnedBy(s)
BY DEF OwnedBy

\* Requests and users move no file.
LEMMA TreeRows ==
    ASSUME Typed, Runs, Tree, NEW t \in Stages,
           Plan(t) \/ \E verdict \in {"approved", "executing"} : Decide(t, verdict)
    PROVE  Tree'
<1>1. PICK st \in {"approved", "executing"} :
        SetStatus(t, st) /\ ((row[t].status = "pending" /\ st = "executing") \/ row[t].status = "review")
  BY DEF Plan, Decide
<1>2. UNCHANGED <<treeVars, delivered>> /\ rec' = rec
  BY DEF Plan, Decide, procVars
<1>3. /\ \A s \in Stages : s # t => row'[s] = row[s]
      /\ row'[t].status = st
  BY <1>1 DEF SetStatus, Typed, RowType
<1>4. \A s \in Writers : s # t => Unmoved(s)
  <2>1. \A s \in Writers : s # t => row'[s] = row[s]
    BY <1>3 DEF Writers
  <2> QED
    BY <1>2, <2>1 DEF Unmoved, treeVars
<1>5. ASSUME t \in Writers PROVE Held(t)'
  <2>1. Held(t)
    BY <1>5, TreeHeld
  <2>2. /\ \A f \in OwnedBy(t) : head[f] = Base[f] /\ index[f] = Base[f]
        /\ approved[t] = NoTree
    BY <1>1, <2>1 DEF Held, Uncommitted
  <2>3. InTree(t)'
    BY <1>1, <1>2, <1>3, <2>1 DEF Held, InTree, treeVars
  <2>4. Uncommitted(t)' /\ Committed(t)'
    BY <1>2, <2>2 DEF Uncommitted, Committed, treeVars, NoTree
  <2> QED
    BY <1>2, <2>1, <2>3, <2>4 DEF Held, treeVars
<1> QED
  BY <1>1, <1>2, <1>4, <1>5, TreeOne

\* What is handed in is what lies in the working tree.
LEMMA TreeHandIn ==
    ASSUME Typed, Roles, Runs, Tree, NEW t \in Stages, HandIn(t)
    PROVE  Tree'
<1>1. row[t].status = "executing" /\ rec' = rec /\ UNCHANGED treeVars
  BY DEF HandIn, Current
<1>2. \A s \in Stages : s # t => row'[s] = row[s]
  BY DEF HandIn, SetStatus, Typed
<1>3. \A s \in Writers : s # t => delivered'[s] = delivered[s]
  BY DEF HandIn, Typed
<1>4. \A s \in Writers : s # t => Unmoved(s)
  <2>1. \A s \in Writers : s # t => row'[s] = row[s]
    BY <1>2 DEF Writers
  <2> QED
    BY <1>1, <1>3, <2>1 DEF Unmoved, treeVars
<1>5. ASSUME t \in Writers PROVE Held(t)'
  <2>1. Held(t)
    BY <1>5, TreeHeld
  <2>2. /\ \A f \in OwnedBy(t) : head[f] = Base[f] /\ index[f] = Base[f]
        /\ approved[t] = NoTree
    BY <1>1, <2>1 DEF Held, Uncommitted
  <2>3. PICK new : new = [f \in OwnedBy(t) |-> work[f]]
    OBVIOUS
  <2>4. delivered' = [delivered EXCEPT ![t] = new]
    BY <1>5, <2>3 DEF HandIn, Writers
  <2>5. delivered'[t] = new
    BY <1>5, <2>4 DEF Typed
  <2>6. InTree(t)'
    BY <1>1, <2>3, <2>5 DEF InTree, treeVars
  <2>7. Uncommitted(t)' /\ Committed(t)'
    BY <1>1, <2>2 DEF Uncommitted, Committed, treeVars, NoTree
  <2> QED
    BY <1>1, <2>1, <2>6, <2>7 DEF Held, treeVars
<1> QED
  BY <1>1, <1>4, <1>5, TreeOne

\* A Reset and the tools touch the files of their stage, which is not approved.
LEMMA TreeWork ==
    ASSUME Typed, Roles, Runs, Tree, NEW t \in Stages, NEW f \in OwnedBy(t),
           ResetFile(t, f) \/ Write(t, f)
    PROVE  Tree'
<1>1. job[t].pc \in WriterSteps /\ rec' = rec /\ UNCHANGED <<head, approved, delivered, row>>
  BY DEF ResetFile, Write, WriterSteps, procVars, rowVars
<1>2. t \in Writers /\ row[t].status = "executing" /\ f \in Files
  BY <1>1 DEF Roles, Runs, WriterSteps, OwnedBy
<1>3. Held(t)
  BY <1>2, TreeHeld
<1>4. /\ \A g \in OwnedBy(t) : head[g] = Base[g] /\ index[g] = Base[g]
      /\ approved[t] = NoTree
  BY <1>2, <1>3 DEF Held, Uncommitted
<1>5. PICK n, m : /\ work' = [work EXCEPT ![f] = n] /\ index' = [index EXCEPT ![f] = m]
                  /\ m = Base[f] /\ (n = Absent => Base[f] = Absent)
  <2>1. CASE Write(t, f)
    <3>1. index' = [index EXCEPT ![f] = index[f]] /\ index[f] = Base[f]
      BY <1>2, <1>4, <2>1 DEF Write, Typed, Trees
    <3>2. WrittenBy(job[t].attempt) # Absent
      BY DEF WrittenBy, Absent, Typed, JobType
    <3> QED
      BY <2>1, <3>1, <3>2 DEF Write
  <2>2. CASE ResetFile(t, f)
    <3>1. head[f] = Base[f]
      BY <1>4
    <3>2. CASE head[f] # Absent
      BY <2>2, <3>1, <3>2 DEF ResetFile
    <3>3. CASE head[f] = Absent
      <4>1. index' = [index EXCEPT ![f] = index[f]] /\ index[f] = Base[f]
        BY <1>2, <1>4, <2>2, <3>3 DEF ResetFile, Typed, Trees
      <4> QED
        BY <2>2, <3>1, <3>3, <4>1 DEF ResetFile
    <3> QED
      BY <3>2, <3>3
  <2> QED
    BY <2>1, <2>2
<1>6. /\ \A g \in Files : g # f => work'[g] = work[g] /\ index'[g] = index[g]
      /\ work'[f] = n /\ index'[f] = m
  BY <1>2, <1>5 DEF Typed, Trees
<1>7. \A s \in Writers : s # t => Unmoved(s)
  <2>1. SUFFICES ASSUME NEW s \in Writers, s # t PROVE Unmoved(s)
    OBVIOUS
  <2>2. \A g \in OwnedBy(s) : g \in Files /\ g # f
    BY <2>1, OtherFiles DEF OwnedBy
  <2> QED
    BY <1>1, <1>6, <2>2 DEF Unmoved
<1>8. Held(t)'
  <2>1. \A g \in OwnedBy(t) : g \in Files
    BY DEF OwnedBy
  <2>2. \A g \in OwnedBy(t) : /\ head'[g] = Base[g] /\ index'[g] = Base[g]
                              /\ work'[g] = Absent => Base[g] = Absent
    BY <1>1, <1>3, <1>4, <1>5, <1>6, <2>1 DEF Held
  <2>3. row'[t].status = "executing" /\ approved'[t] = NoTree
    BY <1>1, <1>2, <1>4
  <2>4. InTree(t)' /\ Uncommitted(t)' /\ Committed(t)'
    BY <2>2, <2>3 DEF InTree, Uncommitted, Committed, Base
  <2> QED
    BY <2>2, <2>4 DEF Held, Base
<1> QED
  BY <1>1, <1>2, <1>7, <1>8, TreeOne

\* git add takes over what was delivered: a file that it leaves out is absent
\* everywhere.
LEMMA TreeAdd ==
    ASSUME Typed, Runs, Tree, AcceptAdd
    PROVE  Tree'
<1>1. PICK t \in Writers : t = rec.stage /\ row[t].status = "approved"
  BY DEF AcceptAdd, Runs, Typed, RecType
<1>2. UNCHANGED <<row, delivered, work, head, approved>> /\ rec'.pc = "commit" /\ rec'.stage = t
  BY <1>1 DEF AcceptAdd, rowVars, Typed, RecType
<1>3. \A f \in Files : index'[f] = IF f \in files(t) THEN work[f] ELSE index[f]
  BY <1>1 DEF AcceptAdd
<1>4. files(t) \subseteq OwnedBy(t) /\ \A s \in Writers : OwnedBy(s) \subseteq Files
  BY DEF files, OwnedBy
<1>5. \A s \in Writers : Held(s)
  BY TreeHeld
<1>6. ASSUME NEW s \in Writers, s # t PROVE Held(s)'
  <2>1. \A f \in OwnedBy(s) : f \in Files /\ f \notin files(t)
    BY <1>4, <1>6 DEF OwnedBy
  <2>2. Unmoved(s)
    BY <1>2, <1>3, <2>1 DEF Unmoved
  <2> QED
    BY <1>5, <2>2, HeldKeeps
<1>7. ASSUME NEW f \in OwnedBy(t)
      PROVE  index'[f] = delivered[t][f] /\ (index'[f] = Absent => Base[f] = Absent)
  <2>1. f \in Files /\ work[f] = delivered[t][f]
    BY <1>1, <1>4, <1>5 DEF Held, InTree
  <2>2. Absent \in {work[f], index[f], head[f]} => Base[f] = Absent
    BY <1>5 DEF Held
  <2>3. CASE f \in files(t)
    BY <1>3, <2>1, <2>2, <2>3
  <2>4. CASE f \notin files(t)
    <3>1. head[f] = Absent /\ work[f] = Absent
      BY <2>4 DEF files
    <3>2. index[f] \in {Base[f], delivered[t][f]}
      BY <1>1, <1>5 DEF Held, Committed
    <3> QED
      BY <1>3, <2>1, <2>2, <2>4, <3>1, <3>2
  <2> QED
    BY <2>3, <2>4
<1>8. Held(t)'
  <2>1. InTree(t)' /\ Uncommitted(t)'
    BY <1>1, <1>2, <1>5 DEF Held, InTree, Uncommitted
  <2>2. Committed(t)'
    BY <1>1, <1>2, <1>5, <1>7 DEF Held, Committed, NoTree
  <2>3. \A f \in OwnedBy(t) : Absent \in {work'[f], index'[f], head'[f]} => Base[f] = Absent
    BY <1>2, <1>5, <1>7 DEF Held
  <2> QED
    BY <2>1, <2>2, <2>3 DEF Held, Base
<1>9. Accepting'
  BY <1>2, <1>7 DEF Accepting
<1> QED
  BY <1>6, <1>8, <1>9, TreeHeld

\* git commit takes the whole index, which holds nothing but approved work.
LEMMA TreeCommit ==
    ASSUME Typed, Runs, Tree, AcceptCommit
    PROVE  Tree'
<1>1. /\ UNCHANGED <<row, delivered, work, index, approved>> /\ head' = index
      /\ rec.pc = "commit" /\ rec'.pc = "ref" /\ rec'.stage = rec.stage
  BY DEF AcceptCommit, rowVars, Typed, RecType
<1>2. ASSUME NEW s \in Writers PROVE Held(s)'
  <2>1. Held(s)
    BY TreeHeld
  <2>2. InTree(s)' /\ Uncommitted(s)'
    BY <1>1, <2>1 DEF Held, InTree, Uncommitted, NoTree
  <2>3. Committed(s)'
    BY <1>1, <2>1 DEF Held, Committed, NoTree
  <2>4. \A f \in OwnedBy(s) : Absent \in {work'[f], index'[f], head'[f]} => Base[f] = Absent
    BY <1>1, <2>1 DEF Held
  <2> QED
    BY <2>2, <2>3, <2>4 DEF Held, Base
<1>3. Accepting'
  BY <1>1 DEF Tree, Accepting
<1> QED
  BY <1>2, <1>3, TreeHeld

\* The ref names the commit that holds what was delivered.
LEMMA TreeRef ==
    ASSUME Typed, Runs, Tree, AcceptRef
    PROVE  Tree'
<1>1. PICK t \in Writers : t = rec.stage /\ row[t].status = "approved"
  BY DEF AcceptRef, Runs, Typed, RecType
<1>2. /\ UNCHANGED <<row, delivered, work, index, head>> /\ rec.pc = "ref" /\ rec'.pc = "accept"
      /\ approved' = [approved EXCEPT ![t] = head]
  BY <1>1 DEF AcceptRef, rowVars, Typed, RecType
<1>3. \A s \in Writers : approved'[s] = IF s = t THEN head ELSE approved[s]
  BY <1>2 DEF Typed
<1>4. \A s \in Writers : Held(s)
  BY TreeHeld
<1>5. ASSUME NEW s \in Writers, s # t PROVE Held(s)'
  <2>1. Unmoved(s)
    BY <1>2, <1>3, <1>5 DEF Unmoved
  <2> QED
    BY <1>4, <2>1, HeldKeeps
<1>6. Held(t)'
  <2>1. \A f \in OwnedBy(t) : head[f] = delivered[t][f] /\ index[f] = delivered[t][f]
    BY <1>1, <1>2 DEF Tree, Accepting
  <2>2. InTree(t)' /\ Uncommitted(t)'
    BY <1>1, <1>2, <1>4 DEF Held, InTree, Uncommitted
  <2>3. Committed(t)'
    BY <1>2, <1>3, <2>1 DEF Committed
  <2>4. \A f \in OwnedBy(t) : Absent \in {work'[f], index'[f], head'[f]} => Base[f] = Absent
    BY <1>2, <1>4 DEF Held
  <2> QED
    BY <2>2, <2>3, <2>4 DEF Held, Base
<1>7. Accepting'
  BY <1>2 DEF Accepting
<1> QED
  BY <1>5, <1>6, <1>7, TreeHeld

\* Every step keeps the trees.
LEMMA TreeStep ==
    ASSUME Typed, Roles, Runs, Tree, [Next]_vars
    PROVE  Tree'
<1>1. CASE Reconciling
  <2>1. ASSUME NEW s \in Writers, AcceptKnown(s) \/ AcceptBegin(s) PROVE Tree'
    <3>1. rec'.pc \in {"accept", "add"} /\ UNCHANGED <<treeVars, delivered, row>>
      BY <2>1 DEF AcceptKnown, AcceptBegin, rowVars, Typed, RecType
    <3> QED
      BY <3>1, TreeRests
  <2>2. CASE BeginReconcile \/ EndReconcile
    <3>1. rec'.pc \in {"idle", "accept"} /\ UNCHANGED <<treeVars, delivered, row>>
      BY <2>2, BeginRec DEF BeginReconcile, EndReconcile, rowVars, NoRec
    <3> QED
      BY <3>1, TreeRests
  <2>3. ASSUME NEW s \in Stages, Claim(s) PROVE Tree'
    <3>1. rec'.pc = "accept" /\ UNCHANGED <<treeVars, delivered>>
      BY <2>3 DEF Claim, Typed, RecType
    <3>2. \A t \in Writers : row'[t].status = row[t].status
      BY <2>3 DEF Claim, Typed, RowType, Writers
    <3> QED
      BY <3>1, <3>2, TreeRests
  <2> QED
    BY <1>1, <2>1, <2>2, <2>3, TreeAdd, TreeCommit, TreeRef DEF Reconciling
<1>2. CASE ReconcileFails \/ Crash \/ KillGit
  <2>1. rec'.pc = "idle" /\ UNCHANGED <<treeVars, delivered, row>>
    BY <1>2 DEF ReconcileFails, Crash, KillGit, Gone, rowVars, NoRec
  <2> QED
    BY <2>1, TreeRests
<1>3. ASSUME NEW s \in Stages, ResetBegin(s) \/ ResetEnd(s) \/ RunnerStops(s) PROVE Tree'
  <2>1. rec' = rec /\ UNCHANGED <<treeVars, delivered, row>>
    BY <1>3 DEF ResetBegin, ResetEnd, RunnerStops, rowVars
  <2> QED
    BY <2>1, TreeRests
<1>4. CASE Publishing \/ PublishFails
  <2>1. rec' = rec /\ UNCHANGED <<treeVars, delivered, row>>
    BY <1>4, PublisherMoves
  <2> QED
    BY <2>1, TreeRests
<1>5. ASSUME Apart PROVE Tree'
  <2>1. rec' = rec /\ UNCHANGED <<treeVars, delivered, row>>
    BY <1>5 DEF Apart, procVars
  <2> QED
    BY <2>1, TreeRests
<1> QED
  BY <1>1, <1>2, <1>3, <1>4, <1>5, ApartSteps, TreeRows, TreeHandIn, TreeWork DEF Next, Running

(***************************************************************************)
(* The branches.                                                           *)
(***************************************************************************)

\* A tree that is discreet stays so: approval is for good.
LEMMA DiscreetKeeps ==
    ASSUME Typed, [Next]_vars, NEW tree, Discreet(tree)
    PROVE  \A f \in Files : row'[Owner[f]].status # "approved" => tree[f] = Base[f]
<1>1. \A f \in Files : Owner[f] \in Stages
  BY WorkspaceAssumption DEF Writers
<1>2. \A s \in Stages : row'[s].status # "approved" => row[s].status # "approved"
  BY RowMoves
<1> QED
  BY <1>1, <1>2 DEF Discreet

\* The commit of a branch is discreet.
LEMMA BranchDiscreet ==
    ASSUME Typed, Tree, NEW b \in Branches, Source(b) # NoTree
    PROVE  Discreet(TreeOf(b))
<1>1. SUFFICES ASSUME NEW f \in Files, row[Owner[f]].status # "approved"
               PROVE  TreeOf(b)[f] = Base[f]
  BY DEF Discreet
<1>2. Owner[f] \in Writers /\ f \in OwnedBy(Owner[f])
  BY WorkspaceAssumption DEF OwnedBy
<1>3. approved[Owner[f]] = NoTree /\ head[f] = Base[f]
  BY <1>1, <1>2 DEF Tree, Uncommitted
<1>4. f \notin Changes(b)
  BY <1>3 DEF Changes, Source
<1> QED
  BY <1>4 DEF TreeOf

\* Only approved work is pushed.
LEMMA PushedStep ==
    ASSUME Typed, Roles, Runs, Tree, Pushed, [Next]_vars
    PROVE  Pushed'
<1> USE WorkspaceAssumption
<1>1. ASSUME NEW tree, Discreet(tree)
      PROVE  \A f \in Files : row'[Owner[f]].status # "approved" => tree[f] = Base[f]
  BY <1>1, DiscreetKeeps
<1>2. ASSUME NEW b \in Branches,
             remote'[b] = remote[b] \/ (pub.pc = "push" /\ remote'[b] = pub.tree)
      PROVE  remote'[b] = NoTree \/ Discreet(remote[b])'
  <2>1. PICK tree : tree = remote'[b]
    OBVIOUS
  <2>2. tree = NoTree \/ Discreet(tree)
    BY <1>2, <2>1 DEF Pushed
  <2> QED
    BY <1>1, <2>1, <2>2 DEF Discreet, Base
<1>3. ASSUME pub' = pub PROVE pub'.pc = "push" => Discreet(pub.tree)'
  <2>1. PICK tree : tree = pub.tree
    OBVIOUS
  <2> QED
    BY <1>1, <1>3, <2>1 DEF Pushed, Discreet, Base
<1>4. NoTree' = NoTree
  BY DEF NoTree
<1>5. CASE remote' = remote /\ (pub' = pub \/ pub'.pc # "push")
  BY <1>2, <1>3, <1>4, <1>5 DEF Pushed
<1>6. pub = job[Publisher] /\ job \in [Stages -> JobType] /\ Publisher \in Stages
  BY DEF pub, Typed
<1>7. ASSUME NEW s \in Stages, NEW new, Becomes(s, new), new.pc # "push", remote' = remote
      PROVE  Pushed'
  <2>1. pub' = pub \/ pub' = new
    BY <1>6, <1>7 DEF Becomes, pub
  <2> QED
    BY <1>5, <1>7, <2>1
<1>8. CASE Reconciling \/ ReconcileFails
  <2>1. ASSUME NEW s \in Stages, Claim(s) PROVE Pushed'
    <3>1. PICK new \in JobType : Becomes(s, new) /\ new.pc = IF s = Publisher THEN "report" ELSE "reset"
      BY <2>1, ClaimJob
    <3> QED
      BY <1>7, <2>1, <3>1 DEF Claim, remoteVars
  <2>2. ASSUME ~\E s \in Stages : Claim(s) PROVE remote' = remote /\ job' = job
    BY <1>8, <2>2 DEF Reconciling, ReconcileFails, BeginReconcile, AcceptAdd, AcceptCommit, AcceptRef,
        EndReconcile, AcceptKnown, AcceptBegin, remoteVars
  <2> QED
    BY <1>5, <2>1, <2>2 DEF pub
<1>9. ASSUME NEW s \in Stages, Running(s) PROVE Pushed'
  <2>1. s \in Writers /\ remote' = remote
    BY <1>9 DEF Running, ResetBegin, ResetEnd, ResetFile, Roles, WriterSteps, remoteVars
  <2>2. pub' = pub
    BY <1>6, <1>9, <2>1 DEF Running, ResetBegin, ResetEnd, ResetFile, pub, Writers
  <2> QED
    BY <1>5, <2>1, <2>2
<1>10. ASSUME NEW s \in Stages, HandIn(s) \/ RunnerStops(s) PROVE Pushed'
  <2>1. Becomes(s, NoJob) /\ NoJob.pc # "push" /\ remote' = remote
    BY <1>10 DEF HandIn, RunnerStops, Becomes, NoJob, remoteVars
  <2> QED
    BY <1>7, <2>1
<1>11. ASSUME NEW s, NEW verdict, NEW f, Plan(s) \/ Decide(s, verdict) \/ Write(s, f)
       PROVE  Pushed'
  BY <1>5, <1>11 DEF Plan, Decide, Write, procVars, remoteVars, pub
<1>12. CASE Crash \/ KillGit
  <2>1. remote' = remote /\ pub'.pc = "none"
    BY <1>12 DEF Crash, KillGit, Gone, remoteVars, pub, NoJob
  <2> QED
    BY <1>5, <2>1
<1>13. ASSUME Apart PROVE Pushed'
  BY <1>5, <1>13 DEF Apart, procVars, remoteVars, pub
<1>14. CASE Report
  <2>1. PICK new \in JobType : Becomes(Publisher, new) /\ Adjusted(new, pub, "build", ToBuild)
    BY <1>14, ReportJob
  <2> QED
    BY <1>7, <1>14, <2>1 DEF Report, Adjusted, remoteVars
<1>15. CASE AllPushed
  <2>1. PICK new \in JobType : Becomes(Publisher, new) /\ Adjusted(new, pub, "open", pub.pushed)
    BY <1>15, AllPushedJob
  <2> QED
    BY <1>7, <1>15, <2>1 DEF AllPushed, Adjusted, remoteVars
<1>16. ASSUME NEW b \in Branches, OpenPull(b) PROVE Pushed'
  <2>1. PICK new \in JobType : Becomes(Publisher, new) /\ Adjusted(new, pub, "open", pub.todo \ {b})
    BY <1>16, OpenJob
  <2> QED
    BY <1>7, <1>16, <2>1 DEF OpenPull, Adjusted
<1>17. ASSUME NEW b \in Branches, BranchCommit(b) PROVE Pushed'
  <2>1. PICK new \in JobType :
          /\ Becomes(Publisher, new)
          /\ Adjusted(new, pub, "build", pub.todo \ {b}) \/ new.tree = TreeOf(b)
    BY <1>17, BranchJob
  <2>2. remote' = remote /\ row' = row
    BY <1>17 DEF BranchCommit, remoteVars, rowVars
  <2>3. CASE Adjusted(new, pub, "build", pub.todo \ {b})
    BY <1>7, <2>1, <2>2, <2>3 DEF Adjusted
  <2>4. CASE new.tree = TreeOf(b)
    <3>1. PICK tree : tree = TreeOf(b)
      OBVIOUS
    <3>2. Discreet(tree)
      BY <1>17, <3>1, BranchDiscreet DEF BranchCommit
    <3>3. pub'.tree = tree
      BY <1>6, <2>1, <2>4, <3>1 DEF Becomes, pub
    <3>4. Discreet(pub.tree)'
      BY <1>1, <3>2, <3>3 DEF Discreet, Base
    <3> QED
      BY <1>2, <1>4, <2>2, <3>4 DEF Pushed
  <2> QED
    BY <2>1, <2>3, <2>4
<1>18. ASSUME pub'.pc # "push",
              \A b \in Branches : remote'[b] = remote[b] \/ (pub.pc = "push" /\ remote'[b] = pub.tree)
       PROVE  Pushed'
  BY <1>2, <1>4, <1>18 DEF Pushed
<1>19. CASE Push
  <2>1. PICK new \in JobType : Becomes(Publisher, new) /\ new.pc = "build"
    BY <1>19, PushJob
  <2>2. pub'.pc # "push"
    BY <1>6, <2>1 DEF Becomes, pub
  <2>3. \A b \in Branches : remote'[b] = remote[b] \/ (pub.pc = "push" /\ remote'[b] = pub.tree)
    BY <1>19 DEF Push, Typed
  <2> QED
    BY <1>18, <2>2, <2>3
<1>20. CASE PublishFails
  <2>1. pub'.pc # "push"
    BY <1>6, <1>20 DEF PublishFails, NoJob, pub
  <2>2. \A b \in Branches : remote'[b] = remote[b] \/ (pub.pc = "push" /\ remote'[b] = pub.tree)
    BY <1>20 DEF PublishFails, Typed
  <2> QED
    BY <1>18, <2>1, <2>2
<1> QED
  BY <1>8, <1>9, <1>10, <1>11, <1>12, <1>13, <1>14, <1>15, <1>16, <1>17, <1>19, <1>20, ApartSteps
     DEF Next, Publishing

(***************************************************************************)
(* What is approved.                                                       *)
(***************************************************************************)

\* In the initial state nothing is handed in, running or committed.
LEMMA SoundInit == ASSUME Init PROVE Sound
<1> USE WorkspaceAssumption
<1>1. Typed
  BY TypedInit
<1>2. \A s \in Stages : job[s].pc = "none" /\ row[s].status = "pending"
  BY DEF Init, NoJob, NewRow
<1>3. rec.pc = "idle" /\ rec.todo = {} /\ rec.claims = {} /\ mu = "free"
  BY DEF Init, NoRec
<1>4. Roles /\ Mutex
  BY <1>2, <1>3 DEF Roles, Mutex, WriterSteps, PublisherSteps
<1>5. Runs
  BY <1>2, <1>3 DEF Runs
<1>6. /\ work = Base /\ index = Base /\ head = Base
      /\ \A s \in Writers : approved[s] = NoTree /\ row[s].status = "pending"
  BY <1>2 DEF Init, Writers
<1>7. Tree
  BY <1>3, <1>6 DEF Tree, InTree, Uncommitted, Committed, Accepting, NoneLost, OwnedBy
<1>8. Pushed
  BY <1>2 DEF Pushed, Init, pub
<1> QED
  BY <1>1, <1>4, <1>5, <1>7, <1>8 DEF Sound

\* Every step keeps the inductive invariant.
LEMMA SoundStep == ASSUME Sound, [Next]_vars PROVE Sound'
BY TypedStep, RolesStep, MutexStep, RunsStep, TreeStep, PushedStep DEF Sound

\* The flags are typed throughout.
LEMMA FlagsStep == (Init => Flags) /\ (Flags /\ [Next]_vars => Flags')
<1>1. Init => Flags
  BY DEF Init, Flags
<1>2. ASSUME Flags, [Next]_vars PROVE Flags'
  <2>1. CASE Creating \/ CreateFails \/ Recovering \/ Cancel
    BY <1>2, <2>1 DEF Flags, Creating, MakeTemp, Rename, SaveDefinition, StoreTask, CreateFails,
        Recovering, RecoverRead, Cleanup, Age, Cancel, dirVars, rowVars
  <2>2. CASE Crash \/ KillGit
    BY <1>2, <2>2 DEF Flags, Crash, KillGit, Gone, rowVars
  <2>3. ASSUME UNCHANGED <<dirVars, over, locked>> PROVE Flags'
    BY <1>2, <2>3 DEF Flags, dirVars
  <2>4. CASE Reconciling
    BY <2>3, <2>4 DEF Reconciling, BeginReconcile, AcceptAdd, AcceptCommit, AcceptRef,
        EndReconcile, AcceptKnown, AcceptBegin, Claim, rowVars
  <2>5. CASE Publishing \/ PublishFails \/ ReconcileFails
    BY <2>3, <2>5 DEF Publishing, Report, Push, AllPushed, BranchCommit, OpenPull,
        PublishFails, ReconcileFails, rowVars
  <2>6. ASSUME NEW s \in Stages, Running(s) \/ HandIn(s) \/ Plan(s) PROVE Flags'
    BY <2>3, <2>6 DEF Running, ResetBegin, ResetEnd, ResetFile, HandIn, Plan, rowVars
  <2>7. ASSUME NEW s \in Stages, RunnerStops(s) PROVE Flags'
    BY <1>2, <2>7 DEF Flags, RunnerStops, dirVars
  <2>8. ASSUME NEW s, NEW verdict, NEW f, Decide(s, verdict) \/ Write(s, f) PROVE Flags'
    BY <2>3, <2>8 DEF Decide, Write, rowVars
  <2>9. CASE UNCHANGED vars
    BY <2>3, <2>9 DEF vars, rowVars
  <2> QED
    BY <1>2, <2>1, <2>2, <2>4, <2>5, <2>6, <2>7, <2>8, <2>9 DEF Next, Quiet
<1> QED
  BY <1>1, <1>2

\* The type invariant, with the mutex.
LEMMA SoundTypes == ASSUME Sound, Flags PROVE TypeOK
<1>1. (mu = "reconcile") = (rec.pc \in {"add", "commit", "ref"})
  <2>1. CASE Inside
    <3>1. (mu = "reconcile") = TRUE /\ (rec.pc \in {"add", "commit", "ref"}) = TRUE
      BY <2>1 DEF Inside, Sound, Mutex
    <3> QED
      BY <3>1, Zenon
  <2>2. CASE ~Inside
    <3>1. (mu = "reconcile") = FALSE /\ (rec.pc \in {"add", "commit", "ref"}) = FALSE
      BY <2>2 DEF Inside, Sound, Mutex
    <3> QED
      BY <3>1, Zenon
  <2> QED
    BY <2>1, <2>2, Zenon
<1>2. \A s \in Stages : (mu = s) = (job[s].pc = "resetting")
  BY Zenon DEF Sound, Mutex
<1> QED
  BY <1>1, <1>2 DEF Sound, Typed, Flags, TypeOK, RowType

\* What a reviewer approved is what the stage ends up with: in the working tree
\* until Accept has committed it, then in HEAD and in the ref of the stage.  Neither
\* another stage's Accept, which commits the shared index, nor a crash between its
\* git commands changes that.
THEOREM ApprovedIsKept == Spec => []ApprovedKept
<1>1. Init => Sound /\ Flags
  BY SoundInit, FlagsStep
<1>2. Sound /\ Flags /\ [Next]_vars => Sound' /\ Flags'
  BY SoundStep, FlagsStep
<1>3. Sound /\ Flags => ApprovedKept
  BY SoundTypes DEF Sound, Tree, InTree, Committed, ApprovedKept
<1> QED
  BY <1>1, <1>2, <1>3, PTL DEF Spec

\* Only approved work is committed or published.
THEOREM OnlyApprovedIsShown == Spec => []OnlyApproved
<1>1. Sound => OnlyApproved
  <2>1. SUFFICES ASSUME Sound, NEW f \in Files, row[Owner[f]].status # "approved"
                 PROVE  /\ head[f] = Base[f]
                        /\ \A b \in Branches : remote[b] = NoTree \/ remote[b][f] = Base[f]
    BY DEF OnlyApproved
  <2>2. Owner[f] \in Writers /\ f \in OwnedBy(Owner[f])
    BY WorkspaceAssumption DEF OwnedBy
  <2>3. head[f] = Base[f]
    BY <2>1, <2>2 DEF Sound, Tree, Uncommitted
  <2> QED
    BY <2>1, <2>3 DEF Sound, Pushed, Discreet
<1> QED
  BY <1>1, SoundInit, SoundStep, PTL DEF Spec

(***************************************************************************)
(* Attempts.                                                               *)
(***************************************************************************)

\* What an attempt may leave in a file.
ByAttempt(n, f, a) == n \in {Base[f], WrittenBy(a)}

\* What Clean says of one stage.
CleanJob(s) ==
    /\ job[s].pc = "resetting" => \A f \in OwnedBy(s) \ job[s].todo : work[f] = Base[f]
    /\ job[s].pc = "work" => \A f \in OwnedBy(s) : ByAttempt(work[f], f, job[s].attempt)
CleanDelivery(s) ==
    delivered[s] # NoTree =>
        \E a \in 1..row[s].attempt : \A f \in OwnedBy(s) : ByAttempt(delivered[s][f], f, a)

\* Clean, stage by stage.
LEMMA CleanEach ==
    /\ Clean <=> \A s \in Writers : CleanJob(s) /\ CleanDelivery(s)
    /\ (\A s \in Writers : CleanJob(s)' /\ CleanDelivery(s)') => Clean'
BY DEF Clean, CleanJob, CleanDelivery, ByAttempt, Base, WrittenBy, NoTree

\* The files of another stage are not those of stage s.
LEMMA OwnFiles ==
    ASSUME Typed, NEW s \in Writers, NEW t, t # s, NEW f \in OwnedBy(t),
           ResetFile(t, f) \/ Write(t, f)
    PROVE  \A g \in OwnedBy(s) : work'[g] = work[g]
<1>1. f \in Files /\ \A g \in OwnedBy(s) : g # f /\ g \in Files
  BY DEF OwnedBy
<1>2. PICK n : work' = [work EXCEPT ![f] = n]
  BY DEF ResetFile, Write
<1> QED
  BY <1>1, <1>2 DEF Typed, Trees

\* A stage that is left alone, or whose runner stands before its Reset or ends,
\* stays clean.
LEMMA CleanKeeps ==
    ASSUME Sound, NEW s \in Writers, CleanJob(s),
           \A f \in OwnedBy(s) : work'[f] = work[f],
           job'[s] = job[s] \/ job'[s].pc \notin {"resetting", "work"}
    PROVE  CleanJob(s)'
BY DEF CleanJob, ByAttempt, Base, WrittenBy

\* So does what it handed in: attempts are counted upwards.
LEMMA DeliveryKeeps ==
    ASSUME Sound, [Next]_vars, NEW s \in Writers, CleanDelivery(s), delivered'[s] = delivered[s]
    PROVE  CleanDelivery(s)'
<1>1. SUFFICES ASSUME delivered'[s] # NoTree
               PROVE  \E a \in 1..row'[s].attempt : \A f \in OwnedBy(s) :
                        ByAttempt(delivered'[s][f], f, a)
  BY DEF CleanDelivery, ByAttempt, Base, WrittenBy, NoTree
<1>2. PICK a \in 1..row[s].attempt : \A f \in OwnedBy(s) : ByAttempt(delivered[s][f], f, a)
  BY <1>1 DEF CleanDelivery
<1>3. s \in Stages /\ row[s].attempt \in Nat
  BY DEF Writers, Sound, Typed, RowType
<1>4. row'[s].attempt >= row[s].attempt /\ row'[s].attempt \in Nat
  BY <1>3, RowMoves, SoundStep DEF Sound, Typed, RowType
<1>5. a \in 1..row'[s].attempt
  BY <1>3, <1>4
<1> QED
  BY <1>2, <1>5

\* Reset clears the files of its stage.
LEMMA CleanReset ==
    ASSUME Sound, NEW s \in Writers, CleanJob(s), Running(s)
    PROVE  CleanJob(s)'
<1>1. s \in Stages /\ job[s] \in JobType /\ job \in [Stages -> JobType]
  BY DEF Writers, Sound, Typed
<1>2. \A f \in OwnedBy(s) : head[f] = Base[f] /\ f \in Files
  <2>1. job[s].pc # "none"
    BY DEF Running, ResetBegin, ResetEnd, ResetFile
  <2>2. row[s].status = "executing"
    BY <1>1, <2>1 DEF Sound, Runs
  <2> QED
    BY <2>2 DEF Sound, Tree, Uncommitted, OwnedBy
<1>3. CASE ResetBegin(s)
  <2>1. PICK new \in JobType : Becomes(s, new) /\ Adjusted(new, job[s], "resetting", files(s))
    BY <1>1, <1>3, ResetBeginJob DEF Sound
  <2>2. job'[s].pc = "resetting" /\ job'[s].todo = files(s) /\ work' = work
    BY <1>1, <1>3, <2>1 DEF Becomes, Adjusted, ResetBegin, treeVars
  <2>3. \A f \in OwnedBy(s) \ files(s) : work[f] = Base[f]
    BY <1>2 DEF files
  <2> QED
    BY <2>2, <2>3 DEF CleanJob, Base
<1>4. CASE ResetEnd(s)
  <2>1. PICK new \in JobType : Becomes(s, new) /\ Adjusted(new, job[s], "work", {})
    BY <1>1, <1>4, ResetEndJob DEF Sound
  <2>2. job'[s].pc = "work" /\ work' = work /\ job[s].pc = "resetting" /\ job[s].todo = {}
    BY <1>1, <1>4, <2>1 DEF Becomes, Adjusted, ResetEnd, treeVars
  <2>3. \A f \in OwnedBy(s) : work[f] = Base[f]
    BY <2>2 DEF CleanJob
  <2> QED
    BY <2>2, <2>3 DEF CleanJob, ByAttempt, Base
<1>5. ASSUME NEW f \in OwnedBy(s), ResetFile(s, f) PROVE CleanJob(s)'
  <2>1. PICK new \in JobType :
          Becomes(s, new) /\ Adjusted(new, job[s], "resetting", job[s].todo \ {f})
    BY <1>1, <1>5, ResetFileJob DEF Sound
  <2>2. job'[s].pc = "resetting" /\ job'[s].todo = job[s].todo \ {f} /\ job[s].pc = "resetting"
    BY <1>1, <1>5, <2>1 DEF Becomes, Adjusted, ResetFile
  <2>3. work' = [work EXCEPT ![f] = Base[f]]
    BY <1>2, <1>5 DEF ResetFile
  <2>4. \A g \in OwnedBy(s) \ job'[s].todo : work'[g] = Base[g]
    BY <1>2, <2>2, <2>3 DEF CleanJob, Sound, Typed, Trees
  <2> QED
    BY <2>2, <2>4 DEF CleanJob, Base
<1> QED
  BY <1>3, <1>4, <1>5 DEF Running

\* The tools of a runner write for its attempt.
LEMMA CleanWrite ==
    ASSUME Sound, NEW s \in Writers, CleanJob(s), NEW f \in OwnedBy(s), Write(s, f)
    PROVE  CleanJob(s)'
<1>1. job[s].pc = "work" /\ job' = job
  BY DEF Write, procVars
<1>2. f \in Files /\ \A g \in OwnedBy(s) : g \in Files
  BY DEF OwnedBy
<1>3. \A g \in OwnedBy(s) : ByAttempt(work'[g], g, job[s].attempt)
  BY <1>1, <1>2 DEF Write, CleanJob, ByAttempt, Sound, Typed, Trees
<1> QED
  BY <1>1, <1>3 DEF CleanJob, ByAttempt, Base, WrittenBy

\* What it hands in is what its attempt left.
LEMMA CleanHandIn ==
    ASSUME Sound, NEW s \in Writers, CleanJob(s), HandIn(s)
    PROVE  CleanDelivery(s)'
<1>1. s \in Stages /\ s # Publisher /\ job[s].pc = "work"
  BY DEF Writers, HandIn
<1>2. row[s].attempt \in Nat /\ job[s].attempt = row[s].attempt /\ row[s].attempt > 0
  BY <1>1 DEF Sound, Typed, RowType, Runs
<1>3. PICK new : new = [f \in OwnedBy(s) |-> work[f]]
  OBVIOUS
<1>4. delivered' = [delivered EXCEPT ![s] = new]
  BY <1>1, <1>3 DEF HandIn
<1>5. delivered'[s] = new
  BY <1>4 DEF Sound, Typed
<1>6. row'[s].attempt = row[s].attempt
  BY <1>1 DEF HandIn, SetStatus, Sound, Typed, RowType
<1>7. \A f \in OwnedBy(s) : ByAttempt(delivered'[s][f], f, row[s].attempt)
  BY <1>1, <1>2, <1>3, <1>5 DEF CleanJob
<1>8. row[s].attempt \in 1..row'[s].attempt
  BY <1>2, <1>6
<1> QED
  BY <1>7, <1>8 DEF CleanDelivery, ByAttempt, Base, WrittenBy

\* Every step keeps every stage clean.
LEMMA CleanStep ==
    ASSUME Sound, Clean, [Next]_vars
    PROVE  Clean'
<1>0. SUFFICES ASSUME NEW s \in Writers PROVE CleanJob(s)' /\ CleanDelivery(s)'
  BY CleanEach
<1> DEFINE Goal == CleanJob(s)' /\ CleanDelivery(s)'
<1>1. CleanJob(s) /\ CleanDelivery(s)
  BY CleanEach
<1>2. /\ s \in Stages /\ s # Publisher /\ job \in [Stages -> JobType]
      /\ delivered = [t \in Writers |-> delivered[t]]
  BY DEF Writers, Sound, Typed
<1>3. ASSUME \A f \in OwnedBy(s) : work'[f] = work[f], delivered'[s] = delivered[s],
             job'[s] = job[s] \/ job'[s].pc \notin {"resetting", "work"}
      PROVE  Goal
  BY <1>1, <1>3, CleanKeeps, DeliveryKeeps
<1>4. ASSUME NEW t, NEW new, Becomes(t, new), t # s \/ new.pc \notin {"resetting", "work"}
      PROVE  job'[s] = job[s] \/ job'[s].pc \notin {"resetting", "work"}
  BY <1>2, <1>4 DEF Becomes
<1>5. ASSUME NEW t \in Stages, Claim(t) PROVE Goal
  <2>1. PICK new \in JobType : Becomes(t, new) /\ new.pc = IF t = Publisher THEN "report" ELSE "reset"
    BY <1>5, ClaimJob DEF Sound
  <2>2. work' = work /\ delivered' = delivered
    BY <1>5 DEF Claim, treeVars
  <2> QED
    BY <1>3, <1>4, <2>1, <2>2
<1>6. ASSUME Reconciling \/ ReconcileFails, ~\E t \in Stages : Claim(t) PROVE Goal
  <2>1. UNCHANGED <<work, delivered, job>>
    BY <1>6 DEF Reconciling, ReconcileFails, BeginReconcile, AcceptAdd, AcceptCommit, AcceptRef,
        EndReconcile, AcceptKnown, AcceptBegin, rowVars, treeVars
  <2> QED
    BY <1>3, <2>1
<1>7. ASSUME NEW t \in Stages, Running(t) PROVE Goal
  <2>1. delivered' = delivered
    BY <1>7 DEF Running, ResetBegin, ResetEnd, ResetFile, rowVars
  <2>2. CASE t = s
    BY <1>1, <1>7, <2>1, <2>2, CleanReset, DeliveryKeeps
  <2>3. ASSUME t # s PROVE Goal
    <3>1. \A f \in OwnedBy(s) : work'[f] = work[f]
      BY <1>7, <2>3, OwnFiles DEF Running, ResetBegin, ResetEnd, treeVars, Sound
    <3>2. job'[s] = job[s]
      BY <1>2, <1>7, <2>3 DEF Running, ResetBegin, ResetEnd, ResetFile
    <3> QED
      BY <1>3, <2>1, <3>1, <3>2
  <2> QED
    BY <2>2, <2>3
<1>8. ASSUME NEW t \in Stages, HandIn(t) PROVE Goal
  <2>1. Becomes(t, NoJob) /\ NoJob.pc = "none" /\ work' = work
    BY <1>8 DEF HandIn, Becomes, NoJob, treeVars
  <2>2. CleanJob(s)'
    BY <1>1, <1>4, <2>1, CleanKeeps
  <2>3. CASE t = s
    BY <1>1, <1>8, <2>2, <2>3, CleanHandIn
  <2>4. ASSUME t # s PROVE Goal
    <3>1. PICK new : new = [f \in OwnedBy(t) |-> work[f]]
      OBVIOUS
    <3>2. delivered' = delivered \/ delivered' = [delivered EXCEPT ![t] = new]
      BY <1>8, <3>1, Zenon DEF HandIn
    <3>3. delivered'[s] = delivered[s]
      BY <1>2, <2>4, <3>2
    <3> QED
      BY <1>1, <2>2, <3>3, DeliveryKeeps
  <2> QED
    BY <2>3, <2>4
<1>9. ASSUME NEW t \in Stages, RunnerStops(t) PROVE Goal
  <2>1. Becomes(t, NoJob) /\ NoJob.pc = "none" /\ work' = work /\ delivered' = delivered
    BY <1>9 DEF RunnerStops, Becomes, NoJob, treeVars
  <2> QED
    BY <1>3, <1>4, <2>1
<1>10. ASSUME NEW t, NEW verdict, Plan(t) \/ Decide(t, verdict) PROVE Goal
  <2>1. UNCHANGED <<work, delivered, job>>
    BY <1>10 DEF Plan, Decide, treeVars, procVars
  <2> QED
    BY <1>3, <2>1
<1>11. ASSUME NEW t \in Stages, NEW f \in OwnedBy(t), Write(t, f) PROVE Goal
  <2>1. delivered' = delivered /\ job' = job
    BY <1>11 DEF Write, rowVars, procVars
  <2>2. CASE t = s
    BY <1>1, <1>11, <2>1, <2>2, CleanWrite, DeliveryKeeps
  <2>3. ASSUME t # s PROVE Goal
    <3>1. \A g \in OwnedBy(s) : work'[g] = work[g]
      BY <1>11, <2>3, OwnFiles DEF Sound
    <3> QED
      BY <1>3, <2>1, <3>1
  <2> QED
    BY <2>2, <2>3
<1>12. ASSUME Publishing \/ PublishFails PROVE Goal
  <2>1. PICK new \in JobType : Becomes(Publisher, new)
    BY <1>12, PublisherMoves DEF Sound
  <2>2. work' = work /\ delivered' = delivered
    BY <1>12, PublisherMoves DEF treeVars, Sound
  <2> QED
    BY <1>2, <1>3, <1>4, <2>1, <2>2
<1>13. ASSUME Crash \/ KillGit PROVE Goal
  <2>1. job'[s].pc = "none" /\ work' = work /\ delivered' = delivered
    BY <1>2, <1>13 DEF Crash, KillGit, Gone, NoJob, rowVars, treeVars
  <2> QED
    BY <1>3, <2>1
<1>14. ASSUME Apart PROVE Goal
  BY <1>3, <1>14 DEF Apart, treeVars, procVars
<1> QED
  BY <1>5, <1>6, <1>7, <1>8, <1>9, <1>10, <1>11, <1>12, <1>13, <1>14, ApartSteps DEF Next

\* An attempt starts from the committed files: nothing of an earlier attempt,
\* which was rejected or interrupted, is left in what it hands in.
THEOREM AttemptsAreClean == Spec => []CleanAttempt
<1>1. Init => Clean
  BY DEF Init, Clean, NoJob, Writers
<1>2. Clean => CleanAttempt
  BY DEF Clean, CleanAttempt
<1> QED
  BY <1>1, <1>2, SoundInit, SoundStep, CleanStep, PTL DEF Spec

(***************************************************************************)
(* Publication.                                                            *)
(***************************************************************************)

\* A task keeps its mode.
LEMMA ModeKept == ASSUME [Next]_vars PROVE mode' = mode
<1>1. ASSUME NEW s, NEW verdict, NEW f, Decide(s, verdict) \/ Write(s, f) \/ ResetFile(s, f)
      PROVE  mode' = mode
  BY <1>1 DEF Decide, Write, ResetFile, dirVars
<1>2. ASSUME NEW s, ResetBegin(s) \/ ResetEnd(s) \/ HandIn(s) \/ RunnerStops(s) \/ Plan(s)
      PROVE  mode' = mode
  BY <1>2 DEF ResetBegin, ResetEnd, HandIn, RunnerStops, Plan, dirVars
<1>3. CASE Reconciling \/ ReconcileFails
  BY <1>3 DEF Reconciling, BeginReconcile, AcceptAdd, AcceptCommit, AcceptRef,
      EndReconcile, AcceptKnown, AcceptBegin, Claim, ReconcileFails, dirVars
<1>4. CASE Publishing \/ PublishFails \/ Crash \/ KillGit
  BY <1>4 DEF Publishing, Report, Push, AllPushed, BranchCommit, OpenPull,
      PublishFails, Crash, KillGit, Gone, dirVars
<1>5. ASSUME Apart PROVE mode' = mode
  BY <1>5 DEF Apart
<1> QED
  BY <1>1, <1>2, <1>3, <1>4, <1>5, ApartSteps DEF Next, Running

\* An approved stage hands in nothing more.
LEMMA DeliveryKept ==
    ASSUME Typed, [Next]_vars, NEW s \in Writers, row[s].status = "approved"
    PROVE  delivered'[s] = delivered[s]
<1>1. ASSUME NEW t \in Stages, HandIn(t) PROVE delivered'[s] = delivered[s]
  <2>1. t # s
    BY <1>1 DEF HandIn, Current
  <2>2. PICK new : new = [f \in OwnedBy(t) |-> work[f]]
    OBVIOUS
  <2>3. delivered' = delivered \/ delivered' = [delivered EXCEPT ![t] = new]
    BY <1>1, <2>2, Zenon DEF HandIn
  <2> QED
    BY <2>1, <2>3 DEF Typed
<1>2. ASSUME NEW t, NEW verdict, NEW f, Decide(t, verdict) \/ Write(t, f) \/ ResetFile(t, f)
      PROVE  delivered' = delivered
  BY <1>2 DEF Decide, Write, ResetFile, rowVars
<1>3. ASSUME NEW t, ResetBegin(t) \/ ResetEnd(t) \/ RunnerStops(t) \/ Plan(t)
      PROVE  delivered' = delivered
  BY <1>3 DEF ResetBegin, ResetEnd, RunnerStops, Plan, rowVars
<1>4. CASE Reconciling \/ ReconcileFails
  BY <1>4 DEF Reconciling, BeginReconcile, AcceptAdd, AcceptCommit, AcceptRef,
      EndReconcile, AcceptKnown, AcceptBegin, Claim, ReconcileFails, rowVars
<1>5. CASE Publishing \/ PublishFails \/ Crash \/ KillGit
  BY <1>5 DEF Publishing, Report, Push, AllPushed, BranchCommit, OpenPull,
      PublishFails, Crash, KillGit, Gone, rowVars
<1>6. ASSUME Apart PROVE delivered' = delivered
  BY <1>6 DEF Apart
<1> QED
  BY <1>1, <1>2, <1>3, <1>4, <1>5, <1>6, ApartSteps DEF Next, Running

\* A tree of some files is one.
LEMMA SomeTree == ASSUME NEW t \in Trees, NEW f \in Files PROVE t # NoTree
BY DEF Trees, NoTree

\* What Accept is done with stays done: a ref is never removed.
LEMMA CheckedKeeps ==
    ASSUME Sound, [Next]_vars, NEW s \in Writers, Checked(s)
    PROVE  Checked(s)'
<1>1. CASE approved' = approved
  BY <1>1 DEF Checked, NoTree
<1>2. CASE AcceptRef
  <2>1. approved'[s] \in {head, approved[s]}
    BY <1>2 DEF AcceptRef, Sound, Typed
  <2>2. OwnedBy(s) # {} => head # NoTree
    BY SomeTree DEF OwnedBy, Sound, Typed
  <2> QED
    BY <2>1, <2>2 DEF Checked, NoTree
<1>3. ASSUME NEW t, NEW verdict, NEW f, Decide(t, verdict) \/ Write(t, f) \/ ResetFile(t, f)
      PROVE  approved' = approved
  BY <1>3 DEF Decide, Write, ResetFile, treeVars
<1>4. ASSUME NEW t, ResetBegin(t) \/ ResetEnd(t) \/ RunnerStops(t) \/ Plan(t) \/ HandIn(t)
      PROVE  approved' = approved
  BY <1>4 DEF ResetBegin, ResetEnd, RunnerStops, Plan, HandIn, treeVars
<1>5. ASSUME Reconciling \/ ReconcileFails, ~AcceptRef PROVE approved' = approved
  BY <1>5 DEF Reconciling, BeginReconcile, AcceptAdd, AcceptCommit,
      EndReconcile, AcceptKnown, AcceptBegin, Claim, ReconcileFails, treeVars
<1>6. ASSUME Publishing \/ PublishFails \/ Crash \/ KillGit \/ Apart PROVE approved' = approved
  BY <1>6 DEF Publishing, Report, Push, AllPushed, BranchCommit, OpenPull,
      PublishFails, Crash, KillGit, Gone, treeVars, Apart
<1> QED
  BY <1>1, <1>2, <1>3, <1>4, <1>5, <1>6, ApartSteps DEF Next, Running

\* What leaves the list of Accept has its ref.
LEMMA TodoChecked ==
    ASSUME Sound, [Next]_vars, ~BeginReconcile, rec'.pc # "idle", NEW d \in rec.todo
    PROVE  d \in rec'.todo \/ Checked(d)'
<1>1. rec \in RecType /\ d \in Writers
  BY DEF Sound, Typed, RecType
<1>2. CASE rec' = rec
  BY <1>2
<1>3. CASE rec' = NoRec
  BY <1>3 DEF NoRec
<1>4. CASE AcceptAdd \/ AcceptCommit
  BY <1>1, <1>4 DEF AcceptAdd, AcceptCommit, RecType
<1>5. CASE AcceptRef
  <2>1. rec'.todo = rec.todo \ {rec.stage}
    BY <1>1, <1>5 DEF AcceptRef, RecType
  <2>2. CASE d # rec.stage
    BY <2>1, <2>2
  <2>3. CASE d = rec.stage
    <3>1. approved'[d] = head
      BY <1>1, <1>5, <2>3 DEF AcceptRef, Sound, Typed
    <3>2. OwnedBy(d) # {} => head # NoTree
      BY SomeTree DEF OwnedBy, Sound, Typed
    <3> QED
      BY <3>1, <3>2 DEF Checked, NoTree
  <2> QED
    BY <2>2, <2>3
<1>6. ASSUME NEW s \in Writers, AcceptKnown(s) PROVE d \in rec'.todo \/ Checked(d)'
  <2>1. rec'.todo = rec.todo \ {s} /\ approved' = approved /\ approved[s] # NoTree
    BY <1>1, <1>6 DEF AcceptKnown, RecType, treeVars
  <2> QED
    BY <2>1 DEF Checked, NoTree
<1>7. ASSUME NEW s, AcceptBegin(s) \/ Claim(s) PROVE d \in rec'.todo
  BY <1>1, <1>7 DEF AcceptBegin, Claim, RecType
<1>8. CASE EndReconcile \/ ReconcileFails \/ Crash \/ KillGit
  BY <1>3, <1>8 DEF EndReconcile, ReconcileFails, Crash, KillGit, Gone
<1>9. ASSUME NEW s \in Stages,
             \/ Running(s) \/ HandIn(s) \/ RunnerStops(s) \/ Plan(s)
             \/ \E verdict \in {"approved", "executing"} : Decide(s, verdict)
             \/ \E f \in OwnedBy(s) : Write(s, f)
      PROVE  rec' = rec
  BY <1>9 DEF Running, ResetBegin, ResetEnd, ResetFile, HandIn, RunnerStops, Plan, Decide, Write,
      procVars
<1>10. ASSUME Publishing \/ PublishFails \/ Apart PROVE rec' = rec
  BY <1>10, PublisherMoves DEF Apart, procVars, Sound
<1> QED
  BY <1>2, <1>4, <1>5, <1>6, <1>7, <1>8, <1>9, <1>10, ApartSteps DEF Next, Reconciling

\* No stage runs before Accept is done with everything it depends on.
LEMMA ClaimsStep ==
    ASSUME Sound, ClaimsChecked, [Next]_vars
    PROVE  ClaimsChecked'
<1> USE WorkspaceAssumption
<1>1. \A s \in Stages : Sources(s) \subseteq Writers /\ Sources(s) \subseteq Stages
  BY DEF Sources, Writers
<1>2. rec \in RecType /\ rec' \in RecType
  BY SoundStep DEF Sound, Typed
<1>3. ASSUME rec'.pc # "idle", NEW s \in rec'.claims, NEW d \in Sources(s)
      PROVE  row'[d].status = "approved" /\ (d \in rec'.todo \/ Checked(d)')
  <2>1. s \in Stages /\ d \in Writers /\ d \in Stages
    BY <1>1, <1>2 DEF RecType
  <2>2. CASE BeginReconcile
    <3>1. row[s].status = "executing" /\ row' = row
      BY <2>2, BeginRec DEF Sound, BeginReconcile, rowVars
    <3>2. row[d].status = "approved"
      BY <2>1, <3>1 DEF Sound, Runs, Sources
    <3> QED
      BY <2>1, <2>2, <3>1, <3>2, BeginRec DEF Sound
  <2>3. ASSUME ~BeginReconcile
        PROVE  row'[d].status = "approved" /\ (d \in rec'.todo \/ Checked(d)')
    <3>1. s \in rec.claims /\ rec.pc # "idle"
      BY <1>3, <2>3, RecMoves DEF Sound
    <3>2. row[d].status = "approved" /\ (d \in rec.todo \/ Checked(d))
      BY <3>1 DEF ClaimsChecked
    <3>3. row'[d].status = "approved"
      BY <2>1, <3>2, RowMoves DEF Sound
    <3> QED
      BY <1>3, <2>1, <2>3, <3>2, <3>3, TodoChecked, CheckedKeeps
  <2> QED
    BY <2>2, <2>3
<1>4. ASSUME pub'.pc # "none", NEW d \in Sources(Publisher) PROVE Checked(d)'
  <2>1. d \in Writers
    BY <1>1
  <2>2. pub.pc # "none" \/ Claim(Publisher)
    BY <1>4, JobMoves DEF Sound, pub
  <2>3. CASE Claim(Publisher)
    BY <2>1, <2>3, CheckedKeeps DEF Claim, ClaimsChecked
  <2> QED
    BY <2>1, <2>2, <2>3, CheckedKeeps DEF ClaimsChecked
<1> QED
  BY <1>3, <1>4 DEF ClaimsChecked, Sources

\* The publisher has handed in.
Done == row[Publisher].status \in {"review", "approved"}

\* What Publishes says, for a job, a remote repository, pull requests and rows.
Follows(f, b, j, done) ==
    /\ j.pc \in {"build", "push"} => b \in j.todo \/ (b \in j.pushed /\ Shows(b, f))
    /\ j.pc = "push" /\ j.branch = b => j.tree[f] = delivered[Owner[f]][f]
    /\ j.pc = "open" => Shows(b, f) /\ (b \in j.todo \/ b \in pulls)
    /\ done => b \in pulls /\ Shows(b, f)

\* The two say the same, now and after a step that keeps what is shown of f.
LEMMA FollowsPublishes ==
    ASSUME NEW f, NEW b, b = BranchOf(f)
    PROVE  /\ Publishes(f) <=> Follows(f, b, pub, Done)
           /\ mode' = mode /\ Follows(f, b, pub, Done)' => Publishes(f)'
BY DEF Publishes, Follows, BranchOf, Done

\* The source of the branch of f has f as it was approved.
LEMMA SourceShows ==
    ASSUME Sound, ClaimsChecked, mode # "local", NEW f \in Shown, pub.pc # "none"
    PROVE  /\ BranchOf(f) \in Branches
           /\ Source(BranchOf(f))[f] = delivered[Owner[f]][f]
           /\ f \in Changes(BranchOf(f))
<1> USE WorkspaceAssumption
<1>1. f \in Files /\ Owner[f] \in Writers /\ f \in OwnedBy(Owner[f]) /\ Owner[f] # "all"
  BY DEF Shown, OwnedBy, Writers
<1>2. Owner[f] \in Sources(Publisher) /\ row[Owner[f]].status = "approved"
      /\ delivered[Owner[f]][f] # Base[f]
  BY <1>1 DEF Shown, Sources
<1>3. approved[Owner[f]] # NoTree
  BY <1>1, <1>2 DEF ClaimsChecked, Checked
<1>4. approved[Owner[f]][f] = delivered[Owner[f]][f] /\ head[f] = delivered[Owner[f]][f]
  BY <1>1, <1>2, <1>3 DEF Sound, Tree, Committed
<1>5. BranchOf(f) = "all" \/ BranchOf(f) = Owner[f]
  BY DEF BranchOf
<1>6. Source(BranchOf(f))[f] = delivered[Owner[f]][f]
  BY <1>1, <1>4, <1>5 DEF Source
<1> QED
  BY <1>1, <1>2, <1>5, <1>6 DEF Branches, Changes

\* The files that must be shown are decided before the publisher starts.
LEMMA ShownKeeps ==
    ASSUME Sound, [Next]_vars, NEW f \in Files, f \in Shown'
    PROVE  \/ pub'.pc = "none" /\ ~Done'
           \/ f \in Shown /\ delivered'[Owner[f]] = delivered[Owner[f]]
<1> USE WorkspaceAssumption
<1>1. Owner[f] \in Writers /\ Owner[f] \in Stages /\ Owner[f] \in Deps[Publisher]
  BY DEF Shown, Writers
<1>2. CASE row[Owner[f]].status = "approved"
  <2>1. delivered'[Owner[f]] = delivered[Owner[f]]
    BY <1>1, <1>2, DeliveryKept DEF Sound
  <2> QED
    BY <1>1, <1>2, <2>1 DEF Shown, Base
<1>3. CASE row[Owner[f]].status # "approved"
  <2>1. row[Publisher].status = "pending"
    BY <1>1, <1>3 DEF Sound, Runs
  <2>2. row'[Publisher].status = "pending"
    BY <1>1, <1>3, <2>1, RowMoves DEF Sound
  <2>3. Runs'
    BY SoundStep DEF Sound
  <2> QED
    BY <2>2, <2>3 DEF Runs, Done, pub
<1> QED
  BY <1>2, <1>3

\* Nothing that concerns the publication happens, or the publisher starts or ends.
LEMMA PublicationRests ==
    ASSUME Typed, NEW f, NEW b, Follows(f, b, pub, Done),
           delivered'[Owner[f]] = delivered[Owner[f]], remote' = remote, pulls' = pulls,
           pub' = pub \/ pub'.pc \in {"none", "report"}, Done' => Done
    PROVE  Follows(f, b, pub, Done)'
BY DEF Follows, Shows, NoTree

\* The job of the publisher after a step.
LEMMA PublisherBecomes ==
    ASSUME Typed, NEW s \in Stages, NEW new, Becomes(s, new)
    PROVE  pub' = IF s = Publisher THEN new ELSE pub
BY WorkspaceAssumption DEF Typed, Becomes, pub

\* The publisher goes on: branches are built, pushed, and get their pull requests.
LEMMA PublisherGoesOn ==
    ASSUME Sound, ClaimsChecked, mode # "local", Publishing \/ PublishFails,
           NEW f \in Shown, NEW b, b = BranchOf(f), Follows(f, b, pub, Done)
    PROVE  Follows(f, b, pub, Done)'
<1> USE WorkspaceAssumption
<1> DEFINE Goal == Follows(f, b, pub, Done)'
<1>1. Typed /\ Roles /\ Publisher \in Stages /\ f \in Files
  BY DEF Sound, Shown
<1>2. UNCHANGED <<mode, row, delivered>> /\ pub.pc \in PublisherSteps
  BY <1>1, PublisherMoves
<1>3. ~Done /\ ~Done'
  <2>1. row[Publisher].status = "executing"
    BY <1>1, <1>2 DEF Sound, Runs, pub, PublisherSteps
  <2> QED
    BY <1>2, <2>1 DEF Done
<1>4. /\ b \in Branches /\ Source(b)[f] = delivered[Owner[f]][f] /\ f \in Changes(b)
  BY <1>2, SourceShows DEF PublisherSteps
<1>5. ASSUME Report PROVE Goal
  <2>1. PICK new \in JobType : Becomes(Publisher, new) /\ Adjusted(new, pub, "build", ToBuild)
    BY <1>1, <1>5, ReportJob
  <2>2. pub'.pc = "build" /\ pub'.todo = ToBuild
    BY <1>1, <2>1, PublisherBecomes DEF Adjusted
  <2>3. b \in ToBuild
    <3>1. mode \in {"single", "per-role"}
      BY <1>1 DEF Typed
    <3>2. CASE mode = "single"
      BY <3>2 DEF ToBuild, BranchOf
    <3>3. CASE mode = "per-role"
      BY <1>1, <3>3 DEF ToBuild, BranchOf, Shown
    <3> QED
      BY <3>1, <3>2, <3>3
  <2> QED
    BY <1>3, <2>2, <2>3 DEF Follows
<1>6. ASSUME NEW c \in Branches, BranchCommit(c) PROVE Goal
  <2>1. PICK new \in JobType :
          /\ Becomes(Publisher, new)
          /\ \/ Changes(c) = {} /\ Adjusted(new, pub, "build", pub.todo \ {c})
             \/ /\ new.pc = "push" /\ new.branch = c /\ new.tree = TreeOf(c)
                /\ new.todo = pub.todo /\ new.pushed = pub.pushed
    BY <1>1, <1>6, BranchJob
  <2>2. pub' = new /\ remote' = remote /\ pulls' = pulls /\ pub.pc = "build"
    BY <1>1, <1>6, <2>1, PublisherBecomes DEF BranchCommit, remoteVars
  <2>3. CASE Changes(c) = {} /\ Adjusted(new, pub, "build", pub.todo \ {c})
    <3>1. c # b
      BY <1>4, <2>3
    <3> QED
      BY <1>2, <1>3, <2>2, <2>3, <3>1 DEF Follows, Shows, Adjusted, NoTree
  <2>4. CASE /\ new.pc = "push" /\ new.branch = c /\ new.tree = TreeOf(c)
             /\ new.todo = pub.todo /\ new.pushed = pub.pushed
    <3>1. c = b => TreeOf(c)[f] = delivered[Owner[f]][f]
      BY <1>1, <1>4 DEF TreeOf
    <3> QED
      BY <1>2, <1>3, <2>2, <2>4, <3>1 DEF Follows, Shows, NoTree
  <2> QED
    BY <2>1, <2>3, <2>4
<1>7. ASSUME Push PROVE Goal
  <2>1. PICK new \in JobType :
          /\ Becomes(Publisher, new) /\ new.pc = "build" /\ new.todo = pub.todo \ {pub.branch}
          /\ new.pushed = pub.pushed \cup {pub.branch}
    BY <1>1, <1>7, PushJob
  <2>2. pub' = new /\ pub.pc = "push" /\ remote' = [remote EXCEPT ![pub.branch] = pub.tree]
    BY <1>1, <1>7, <2>1, PublisherBecomes DEF Push
  <2>3. CASE pub.branch # b
    <3>1. remote'[b] = remote[b]
      BY <1>1, <1>4, <2>2, <2>3 DEF Typed
    <3> QED
      BY <1>2, <1>3, <2>1, <2>2, <2>3, <3>1 DEF Follows, Shows, NoTree
  <2>4. CASE pub.branch = b
    <3>1. remote'[b] = pub.tree /\ pub.tree \in Trees /\ pub.tree[f] = delivered[Owner[f]][f]
      BY <1>1, <1>4, <2>2, <2>4 DEF Typed, Roles, pub, Follows
    <3>2. remote'[b] # NoTree
      BY <1>1, <3>1, SomeTree
    <3> QED
      BY <1>2, <1>3, <2>1, <2>2, <2>4, <3>1, <3>2 DEF Follows, Shows, NoTree
  <2> QED
    BY <2>3, <2>4
<1>8. ASSUME AllPushed PROVE Goal
  <2>1. PICK new \in JobType : Becomes(Publisher, new) /\ Adjusted(new, pub, "open", pub.pushed)
    BY <1>1, <1>8, AllPushedJob
  <2>2. /\ pub' = new /\ remote' = remote /\ pulls' = pulls /\ pub.pc = "build"
        /\ pub.todo = {}
    BY <1>1, <1>8, <2>1, PublisherBecomes DEF AllPushed, remoteVars
  <2> QED
    BY <1>2, <1>3, <2>1, <2>2 DEF Follows, Shows, Adjusted, NoTree
<1>9. ASSUME NEW c \in Branches, OpenPull(c) PROVE Goal
  <2>1. PICK new \in JobType : Becomes(Publisher, new) /\ Adjusted(new, pub, "open", pub.todo \ {c})
    BY <1>1, <1>9, OpenJob
  <2>2. pub' = new /\ remote' = remote /\ pulls' = pulls \cup {c} /\ pub.pc = "open"
    BY <1>1, <1>9, <2>1, PublisherBecomes DEF OpenPull
  <2> QED
    BY <1>2, <1>3, <2>1, <2>2 DEF Follows, Shows, Adjusted, NoTree
<1>10. ASSUME PublishFails PROVE Goal
  <2>1. pub'.pc = "none"
    BY <1>1, <1>10 DEF PublishFails, pub, NoJob, Typed
  <2> QED
    BY <1>3, <2>1 DEF Follows
<1> QED
  BY <1>5, <1>6, <1>7, <1>8, <1>9, <1>10 DEF Publishing

\* The publisher hands in once every branch has its pull request; no other step
\* takes a pull request, a branch or a result back.
LEMMA PublicationKeeps ==
    ASSUME Sound, ClaimsChecked, mode # "local", [Next]_vars,
           NEW f \in Shown, NEW b, b = BranchOf(f), Follows(f, b, pub, Done),
           delivered'[Owner[f]] = delivered[Owner[f]]
    PROVE  Follows(f, b, pub, Done)'
<1> USE WorkspaceAssumption
<1> DEFINE Goal == Follows(f, b, pub, Done)'
<1>1. Typed /\ Roles /\ row \in [Stages -> RowType] /\ job \in [Stages -> JobType]
  BY DEF Sound, Typed
<1>2. NoJob.pc = "none"
  BY DEF NoJob
<1>3. ASSUME remote' = remote, pulls' = pulls, pub' = pub \/ pub'.pc \in {"none", "report"},
             Done' => Done
      PROVE  Goal
  BY <1>1, <1>3, PublicationRests
<1>4. ASSUME NEW s \in Stages, Claim(s) PROVE Goal
  <2>1. PICK new \in JobType : Becomes(s, new) /\ new.pc = IF s = Publisher THEN "report" ELSE "reset"
    BY <1>1, <1>4, ClaimJob
  <2>2. pub' = pub \/ pub'.pc = "report"
    BY <1>1, <2>1, PublisherBecomes
  <2>3. Done' => Done
    BY <1>1, <1>4 DEF Claim, Done, RowType
  <2> QED
    BY <1>3, <1>4, <2>2, <2>3 DEF Claim, remoteVars
<1>5. ASSUME Reconciling \/ ReconcileFails, ~\E s \in Stages : Claim(s) PROVE Goal
  <2>1. UNCHANGED <<remote, pulls, job, row>>
    BY <1>5 DEF Reconciling, ReconcileFails, BeginReconcile, AcceptAdd, AcceptCommit, AcceptRef,
        EndReconcile, AcceptKnown, AcceptBegin, remoteVars, rowVars
  <2> QED
    BY <1>3, <2>1 DEF pub, Done
<1>6. ASSUME NEW s \in Stages, Running(s) PROVE Goal
  <2>1. s # Publisher /\ UNCHANGED <<remote, pulls, row>>
    BY <1>1, <1>6 DEF Running, ResetBegin, ResetEnd, ResetFile, Roles, WriterSteps, Writers,
        remoteVars, rowVars
  <2>2. pub' = pub
    BY <1>1, <1>6, <2>1 DEF Running, ResetBegin, ResetEnd, ResetFile, pub
  <2> QED
    BY <1>3, <2>1, <2>2 DEF Done
<1>7. ASSUME NEW s \in Stages, HandIn(s) PROVE Goal
  <2>1. Becomes(s, NoJob) /\ UNCHANGED <<remote, pulls>>
    BY <1>7 DEF HandIn, Becomes, remoteVars
  <2>2. pub' = IF s = Publisher THEN NoJob ELSE pub
    BY <1>1, <2>1, PublisherBecomes
  <2>3. CASE s # Publisher
    <3>1. row'[Publisher] = row[Publisher]
      BY <1>1, <1>7, <2>3 DEF HandIn, SetStatus
    <3> QED
      BY <1>3, <2>1, <2>2, <2>3, <3>1 DEF Done
  <2>4. CASE s = Publisher
    <3>1. pub.pc = "open" /\ pub.todo = {}
      BY <1>7, <2>4 DEF HandIn, pub
    <3>2. Shows(b, f) /\ b \in pulls
      BY <3>1 DEF Follows
    <3>3. Shows(b, f)'
      BY <2>1, <3>2 DEF Shows, NoTree
    <3> QED
      BY <1>2, <2>1, <2>2, <2>4, <3>2, <3>3 DEF Follows
  <2> QED
    BY <2>3, <2>4
<1>8. ASSUME NEW s \in Stages, RunnerStops(s) PROVE Goal
  <2>1. Becomes(s, NoJob) /\ UNCHANGED <<remote, pulls, row>>
    BY <1>8 DEF RunnerStops, Becomes, remoteVars
  <2>2. pub' = pub \/ pub'.pc = "none"
    BY <1>1, <1>2, <2>1, PublisherBecomes
  <2> QED
    BY <1>3, <2>1, <2>2 DEF Done
<1>9. ASSUME NEW s \in Stages, NEW verdict \in {"approved", "executing"},
             Plan(s) \/ Decide(s, verdict)
      PROVE  Goal
  <2>1. UNCHANGED <<remote, pulls, job>>
    BY <1>9 DEF Plan, Decide, remoteVars, procVars
  <2>2. Done' => Done
    BY <1>1, <1>9 DEF Plan, Decide, SetStatus, Done, RowType
  <2> QED
    BY <1>3, <2>1, <2>2 DEF pub
<1>10. ASSUME NEW s, NEW g, Write(s, g) PROVE Goal
  BY <1>3, <1>10 DEF Write, remoteVars, procVars, rowVars, pub, Done
<1>11. ASSUME Crash \/ KillGit PROVE Goal
  <2>1. pub'.pc = "none" /\ UNCHANGED <<remote, pulls, row>>
    BY <1>11 DEF Crash, KillGit, Gone, pub, NoJob, remoteVars, rowVars
  <2> QED
    BY <1>3, <2>1 DEF Done
<1>12. ASSUME Apart PROVE Goal
  BY <1>3, <1>12 DEF Apart, remoteVars, procVars, pub, Done
<1>13. ASSUME Publishing \/ PublishFails PROVE Goal
  BY <1>13, PublisherGoesOn
<1> QED
  BY <1>4, <1>5, <1>6, <1>7, <1>8, <1>9, <1>10, <1>11, <1>12, <1>13, ApartSteps DEF Next

\* Every step keeps the publication whole.
LEMMA PublishedStep ==
    ASSUME Sound, Published, [Next]_vars
    PROVE  Published'
<1>1. ClaimsChecked /\ ClaimsChecked' /\ mode' = mode
  BY ClaimsStep, ModeKept DEF Published
<1>2. ASSUME mode # "local", NEW f \in Shown' PROVE Publishes(f)'
  <2>1. f \in Files
    BY DEF Shown
  <2>2. PICK b : b = BranchOf(f)
    OBVIOUS
  <2>3. CASE pub'.pc = "none" /\ ~Done'
    BY <2>3 DEF Publishes, Done
  <2>4. CASE f \in Shown /\ delivered'[Owner[f]] = delivered[Owner[f]]
    <3>1. Follows(f, b, pub, Done)
      BY <1>2, <2>2, <2>4, FollowsPublishes DEF Published
    <3>2. Follows(f, b, pub, Done)'
      BY <1>1, <1>2, <2>2, <2>4, <3>1, PublicationKeeps
    <3> QED
      BY <1>1, <2>2, <3>2, FollowsPublishes
  <2> QED
    BY <2>1, <2>3, <2>4, ShownKeeps
<1> QED
  BY <1>1, <1>2 DEF Published

\* When the publisher has handed in, every stage that it depends on is on a branch
\* with a pull request, exactly as it was approved, however often the publisher was
\* started again and whichever answers of the remote repository were lost.
THEOREM PublicationIsWhole == Spec => []PublishedWhole
<1> USE WorkspaceAssumption
<1>1. Init => Published
  <2>1. SUFFICES ASSUME Init PROVE Published
    OBVIOUS
  <2>2. rec.pc = "idle" /\ pub.pc = "none" /\ row[Publisher].status = "pending"
    BY <2>1 DEF Init, NoRec, pub, NoJob, NewRow
  <2> QED
    BY <2>2 DEF Published, ClaimsChecked, Publishes
<1>2. Sound /\ Published => PublishedWhole
  <2>1. SUFFICES ASSUME Sound, Published, Done, mode # "local", NEW f \in Files,
                        Owner[f] \in Deps[Publisher], delivered[Owner[f]][f] # Base[f]
                 PROVE  \E b \in pulls : remote[b] # NoTree /\ remote[b][f] = delivered[Owner[f]][f]
    BY DEF PublishedWhole, Done
  <2>2. row[Owner[f]].status = "approved"
    BY <2>1 DEF Sound, Runs, Done
  <2>3. f \in Shown
    BY <2>1, <2>2 DEF Shown
  <2> QED
    BY <2>1, <2>3 DEF Published, Publishes, Done, Shows
<1> QED
  BY <1>1, <1>2, SoundInit, SoundStep, PublishedStep, PTL DEF Spec
================================================================================
