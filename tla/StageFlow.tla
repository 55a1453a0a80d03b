----------------------------- MODULE StageFlow ------------------------------
(***************************************************************************)
(* What the orchestrator promises the users of a task, without processes,  *)
(* runners, attempts, versions or failures of the infrastructure: the      *)
(* stage diagram and the task status of docs/19 sections 6.1 and 6.5.      *)
(* Every step is atomic.  A result is handed in once per retry, decided    *)
(* once, and an accepted phase is never repeated.                          *)
(***************************************************************************)
EXTENDS Naturals

CONSTANTS Stages, Deps, Gates, MaxRetries

VARIABLES
    task,      \* the task status, "none" before the task exists
    flow,      \* flow[s]: where stage s stands and how often it was rejected
    requests   \* the reviews asked for so far: <<stage, kind, retry>>

flowVars == <<task, flow, requests>>

Ended == task \in {"completed", "failed", "cancelled"}

(***************************************************************************)
(* The diagram.  A stage parked during planning and one parked during      *)
(* execution return to different places.                                   *)
(***************************************************************************)
Work(kind) == IF kind = "plan" THEN "planning" ELSE "executing"
Review(kind) == IF kind = "plan" THEN "plan_review" ELSE "deliverable_review"
Onward(kind) == IF kind = "plan" THEN "executing" ELSE "approved"
Parked(kind) == IF kind = "plan" THEN "plan_blocked" ELSE "work_blocked"

\* The task status of docs/19 section 6.5 for a task that runs.
View(f) ==
    LET some(set) == \E s \in Stages : f[s].status \in set
        ready == \E s \in Stages : /\ f[s].status = "pending"
                                   /\ \A d \in Deps[s] : f[d].status = "approved"
    IN  IF some({"plan_review", "deliverable_review"}) THEN "waiting_approval"
        ELSE IF Stages # {} /\ \A s \in Stages : f[s].status = "approved" THEN "completed"
        ELSE IF ready \/ some({"planning", "executing"}) THEN "running"
        ELSE IF some({"plan_blocked", "work_blocked"}) THEN "blocked"
        ELSE task

\* The stages become f; the task follows unless it is paused.
Become(f) ==
    /\ flow' = f
    /\ task' = IF task = "paused" THEN task ELSE View(f)

Move(s, to) == [flow EXCEPT ![s].status = to]

FlowInit ==
    /\ task = "none"
    /\ flow = [s \in Stages |-> [status |-> "pending", plan |-> 0, deliverable |-> 0]]
    /\ requests = {}

Create == task = "none" /\ task' = "queued" /\ UNCHANGED <<flow, requests>>

Start == task = "queued" /\ task' = "running" /\ UNCHANGED <<flow, requests>>

\* A stage starts once, after its dependencies, while the task is not halted.
Begin(s) ==
    /\ task \in {"running", "waiting_approval"}
    /\ flow[s].status = "pending"
    /\ \A d \in Deps[s] : flow[d].status = "approved"
    /\ flow' = Move(s, "planning")
    /\ UNCHANGED <<task, requests>>

\* A phase hands in its result: for a review that was not asked for before, or
\* straight on to the next phase.
Submit(s, kind) ==
    /\ ~Ended /\ flow[s].status = Work(kind)
    /\ \/ /\ kind \in Gates[s]
          /\ <<s, kind, flow[s][kind]>> \notin requests
          /\ requests' = requests \cup {<<s, kind, flow[s][kind]>>}
          /\ Become(Move(s, Review(kind)))
       \/ /\ kind \notin Gates[s]
          /\ UNCHANGED requests
          /\ Become(Move(s, Onward(kind)))

Accept(s, kind) ==
    /\ ~Ended /\ flow[s].status = Review(kind)
    /\ Become(Move(s, Onward(kind)))
    /\ UNCHANGED requests

Reject(s, kind) ==
    /\ ~Ended /\ flow[s].status = Review(kind)
    /\ Become([flow EXCEPT ![s] =
                [flow[s] EXCEPT ![kind] = @ + 1,
                                !.status = IF flow[s][kind] + 1 >= MaxRetries
                                           THEN Parked(kind) ELSE Work(kind)]])
    /\ UNCHANGED requests

\* A publisher that cannot publish parks its stage.
Park(s) ==
    /\ ~Ended /\ flow[s].status = "executing"
    /\ Become(Move(s, "work_blocked"))
    /\ UNCHANGED requests

Pause ==
    /\ task \in {"running", "waiting_approval"}
    /\ task' = "paused"
    /\ UNCHANGED <<flow, requests>>

\* A blocked task resumes with its parked stages, a paused one as it was.
Resume ==
    /\ task' = "running"
    /\ \/ task = "paused" /\ UNCHANGED flow
       \/ /\ task = "blocked"
          /\ flow' = [s \in Stages |->
                        [flow[s] EXCEPT !.status =
                           CASE @ = "plan_blocked" -> "planning"
                             [] @ = "work_blocked" -> "executing"
                             [] OTHER -> @]]
    /\ UNCHANGED requests

Settle ==
    /\ task \in {"running", "waiting_approval", "blocked"}
    /\ task' = View(flow)
    /\ UNCHANGED <<flow, requests>>

Stop ==
    /\ task # "none" /\ ~Ended
    /\ task' \in {"failed", "cancelled"}
    /\ UNCHANGED <<flow, requests>>

FlowNext ==
    \/ Create \/ Start \/ Pause \/ Resume \/ Settle \/ Stop
    \/ \E s \in Stages : Begin(s) \/ Park(s)
    \/ \E s \in Stages, kind \in {"plan", "deliverable"} :
         Submit(s, kind) \/ Accept(s, kind) \/ Reject(s, kind)

FlowSpec == FlowInit /\ [][FlowNext]_flowVars
=============================================================================
