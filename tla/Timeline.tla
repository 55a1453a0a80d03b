------------------------------ MODULE Timeline ------------------------------
(***************************************************************************)
(* The event store of the web client (web/lib/stores/eventStore.ts): the   *)
(* events of one task in the order of their sequence numbers, and what the *)
(* pages derive from them.  An event is its number, its type and, for a    *)
(* tool call or its result, the call it belongs to (stage, agent, call_id).*)
(***************************************************************************)
EXTENDS Naturals, Sequences, SequencesExt

CONSTANT Calls      \* the tool calls that the events tell apart

EventBody == [type : {"other", "agent.thinking"}, call : {"none"}]
             \cup [type : {"agent.tool_call", "agent.tool_result"}, call : Calls]

\* thinking: the event with the latest summary.  toolPairs: each call with its
\* result, 0 until there is one.  pending: the calls that wait for a result.
Derived == [thinking : Nat, toolPairs : SUBSET (Nat \X Nat), pending : [Calls -> Nat]]

emptyDerived == [thinking |-> 0, toolPairs |-> {}, pending |-> [c \in Calls |-> 0]]

emptyTaskEvents == [events |-> <<>>, lastSeq |-> 0, derived |-> emptyDerived]

Seqs(events) == {events[i].seq : i \in DOMAIN events}

\* The binary search of insertSorted: the number of events in front of seq.  The
\* search goes on in the part <<lo, hi>> of the list.
Position(events, seq) ==
    LET parts == (0..Len(events)) \X (0..Len(events))
        search[part \in parts] ==
            LET lo == part[1]
                hi == part[2]
                mid == (lo + hi) \div 2
            IN  IF lo >= hi THEN lo
                ELSE IF events[mid + 1].seq < seq THEN search[<<mid + 1, hi>>]
                ELSE search[<<lo, mid>>]
    IN  search[<<0, Len(events)>>]

\* Mutant: an event that is already there is inserted again.
RepeatingInsertSorted(events, ev) ==
    InsertAt(events, Position(events, ev.seq) + 1, ev)

insertSorted(events, ev) ==
    LET lo == Position(events, ev.seq)
    IN  IF lo < Len(events) /\ events[lo + 1].seq = ev.seq THEN events
        ELSE InsertAt(events, lo + 1, ev)

applyDerived(d, ev) ==
    CASE ev.type = "agent.thinking" -> [d EXCEPT !.thinking = ev.seq]
      [] ev.type = "agent.tool_call" ->
            [d EXCEPT !.toolPairs = @ \cup {<<ev.seq, 0>>}, !.pending[ev.call] = ev.seq]
      [] ev.type = "agent.tool_result" /\ d.pending[ev.call] # 0 ->
            LET id == d.pending[ev.call]
            IN  [d EXCEPT !.toolPairs = (@ \ {<<id, 0>>}) \cup {<<id, ev.seq>>},
                          !.pending[ev.call] = 0]
      [] OTHER -> d

rebuildDerived(events) == FoldLeft(applyDerived, emptyDerived, events)

\* One event of appendMany.  An event that is not behind the others is applied at
\* once; one from the past asks for everything derived to be computed again.
AppendOne(acc, ev) ==
    LET t == acc.task
        events == insertSorted(t.events, ev)
    IN  IF events = t.events THEN acc
        ELSE [task |-> [events |-> events,
                        lastSeq |-> IF ev.seq > t.lastSeq THEN ev.seq ELSE t.lastSeq,
                        derived |-> IF ev.seq < t.lastSeq THEN t.derived
                                    ELSE applyDerived(t.derived, ev)],
              needsRebuild |-> acc.needsRebuild \/ ev.seq < t.lastSeq]

\* Mutant: what was derived is never computed again.
HastyAppendMany(t, incoming) ==
    FoldLeft(AppendOne, [task |-> t, needsRebuild |-> FALSE], incoming).task

appendMany(t, incoming) ==
    LET acc == FoldLeft(AppendOne, [task |-> t, needsRebuild |-> FALSE], incoming)
    IN  IF acc.needsRebuild
        THEN [acc.task EXCEPT !.derived = rebuildDerived(acc.task.events)]
        ELSE acc.task

\* Mutant: a hole of one event is overlooked.
LateDetectGap(lastSeq, seq) == lastSeq > 0 /\ seq > lastSeq + 2

detectGap(lastSeq, seq) == lastSeq > 0 /\ seq > lastSeq + 1
=============================================================================
