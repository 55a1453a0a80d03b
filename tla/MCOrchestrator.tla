--------------------------- MODULE MCOrchestrator ---------------------------
(***************************************************************************)
(* The pipelines and scenes of the runs of Orchestrator.                   *)
(***************************************************************************)
EXTENDS Orchestrator, TLC

\* A chain: "api" is built on the approved "spec".
Chain == {"spec", "api"}
ChainDeps == [s \in Chain |-> IF s = "api" THEN {"spec"} ELSE {}]

\* A fork: two stages without dependencies, which run in parallel.
Fork == {"api", "web"}
ForkDeps == [s \in Fork |-> {}]

Solo == {"api"}
SoloDeps == [s \in Solo |-> {}]

PlanGate == [s \in Stages |-> {"plan"}]
NoGates == [s \in Stages |-> {}]
\* "spec" asks for its deliverable, "api" for its plan.
MixedGates == [s \in Stages |-> IF s = "api" THEN {"plan"} ELSE {"deliverable"}]

\* Only "api" has a gate.
HalfGates == [s \in Stages |-> IF s = "api" THEN {"plan"} ELSE {}]

\* Model calls cost nothing; so many crashes, requests, faults and calls of Reconcile
\* by a process that lost its session.
Free(stops, ops, faults, overlaps) ==
    [cost |-> 0, budgets |-> {1}, ticks |-> TRUE,
     stops |-> stops, ops |-> ops, faults |-> faults, overlaps |-> overlaps]

\* One crash, one request, one fault.
ChainScenes == {Free(1, 1, 1, 0)}
\* One lost session, after which the old process still reconciles once.
OverlapScenes == {Free(1, 1, 0, 1)}

\* Two requests and nothing that goes wrong, without the help of the recovery loop;
\* calls cost tokens and the budget may be raised or lowered.
Undisturbed == [Free(0, 2, 0, 0) EXCEPT !.cost = 1, !.budgets = {2, 3}, !.ticks = FALSE]
\* A crash and a fault.
Crashing == Free(1, 0, 1, 0)
\* Two requests and a fault.
Resuming == Free(0, 2, 1, 0)
ProgressScenes == {Undisturbed, Crashing, Resuming}

\* Two requests and nothing that goes wrong.
QuietScenes == {Free(0, 2, 0, 0)}
\* One fault and nothing else.
FaultScenes == {Free(0, 0, 1, 0)}

\* Instances differ only by name.
Swap == Permutations(Instances)
=============================================================================
