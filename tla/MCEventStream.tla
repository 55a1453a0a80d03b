---------------------------- MODULE MCEventStream ----------------------------
(***************************************************************************)
(* Scenes for model checking EventStream.                                  *)
(***************************************************************************)
EXTENDS EventStream

Plain == {[type |-> "other", call |-> "none"]}
Thoughts == {[type |-> "agent.thinking", call |-> "none"]}
Activity == {[type |-> "agent.tool_call", call |-> "c1"],
             [type |-> "agent.tool_result", call |-> "c1"]}

Undisturbed == [breaks |-> 0, leaves |-> 0, faults |-> 0, lostAcks |-> 0, retries |-> 0]

Scene(events, bodies, txEvents, committers, bounds) ==
    [events |-> events, bodies |-> bodies, txEvents |-> txEvents,
     committers |-> committers, bounds |-> bounds]

\* Publication out of order; a break; a failed load, sync or subscription.
Disordered == Scene(3, Thoughts, 1, 2, [Undisturbed EXCEPT !.breaks = 1, !.faults = 1])
\* A failed load that the user repeats.
Retrying == Scene(2, Plain, 1, 1, [Undisturbed EXCEPT !.faults = 1, !.retries = 1])
\* The user leaves and comes back; a break.
Browsing == Scene(2, Plain, 2, 2, [Undisturbed EXCEPT !.leaves = 1, !.breaks = 1])
\* An event is never published; a break.
Unpublished == Scene(3, Thoughts, 1, 1, [Undisturbed EXCEPT !.lostAcks = 1, !.breaks = 1])
\* An event is never published; a failed load, sync or subscription.
Unrepaired == Scene(3, Plain, 1, 2, [Undisturbed EXCEPT !.lostAcks = 1, !.faults = 1])
\* Tool calls and results, which may arrive late.
Acting == Scene(3, Activity, 1, 2, Undisturbed)

AllScenes == {Disordered, Retrying, Browsing, Unpublished, Unrepaired, Acting}

\* Publication out of order and a break.
Reconnecting == {Scene(3, Plain, 1, 2, [Undisturbed EXCEPT !.breaks = 1])}
=============================================================================
