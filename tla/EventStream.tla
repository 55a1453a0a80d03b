----------------------------- MODULE EventStream -----------------------------
(***************************************************************************)
(* How the events of one task reach a browser tab: the emitter and the     *)
(* transactions that store events, the bus (internal/event), the WebSocket *)
(* hub (internal/ws), the connection and the REST replay of the web client *)
(* (web/lib/ws, web/lib/queries) and its event store (Timeline).           *)
(*                                                                         *)
(* An event is named by its sequence number; its row never changes, so     *)
(* what is in transit is the number.  Transactions that store events are   *)
(* serialised by the lock on the task row, but each publishes its events   *)
(* after its commit, from its own goroutine: the bus may see them out of   *)
(* order.                                                                  *)
(***************************************************************************)
EXTENDS Timeline, FiniteSets

CONSTANTS
    MaxEvents,      \* bound: events of a task
    Capacity,       \* Bus.Capacity
    WireCapacity,   \* events that a socket takes before send blocks
    PageSize,       \* limit of a REST page
    QueryRetries,   \* how often the query library repeats a failed load
    Scenes          \* what a behaviour may consist of; Init chooses one

\* How many events the task has and of which sorts, how many events one transaction
\* stores, how many transactions may be between commit and publication, and how
\* many disturbances of each sort happen.
Disturbances == [breaks : Nat, leaves : Nat, faults : Nat, lostAcks : Nat, retries : Nat]

IsScene(s) ==
    s \in [events : 0..MaxEvents, bodies : SUBSET EventBody,
           txEvents : Nat \ {0}, committers : Nat \ {0}, bounds : Disturbances]

ASSUME StreamAssumption ==
    /\ MaxEvents \in Nat
    /\ Capacity \in Nat \ {0} /\ WireCapacity \in Nat \ {0} /\ PageSize \in Nat \ {0}
    /\ QueryRetries \in Nat
    /\ \A s \in Scenes : IsScene(s)

VARIABLES
    \* the server
    log,        \* the task_event rows; its length is task.event_seq
    after,      \* Tx.after of the committed transactions: what they still publish
    unsent,     \* history: events whose COMMIT acknowledgement was lost
    \* the hub's side of the tab's connection
    hub,        \* "none", "accepted", "serving" or "overflow"
    chan,       \* the bus subscription's channel
    tasks,      \* does the connection have this task in its tasks?
    replay,     \* the replay that ServeHTTP is sending
    refused,    \* history: did the hub refuse the connection's last subscription?
    \* the socket
    commands,   \* client to hub
    wire,       \* hub to client
    \* the browser tab
    page,       \* "on" while the page of the task is mounted
    sock,       \* "new" before the first connection, then "open" or "closed"
    view,       \* the event store's entry for the task
    query,      \* the query ["events", id, "initial"]
    syncs,      \* the other runs of syncTaskEvents
    skipped,    \* history: the holes that the tab left behind
    \* the bounds
    scene       \* the scene of this behaviour, with the disturbances still to come

serverVars == <<log, after, unsent>>
hubVars == <<hub, chan, tasks, replay, refused>>
tabVars == <<page, sock, view, query, syncs, skipped>>
vars == <<serverVars, hubVars, commands, wire, tabVars, scene>>

(***************************************************************************)
(* State.                                                                  *)
(***************************************************************************)
Infinity == MaxEvents + 1

\* A run of syncTaskEvents: its cursor, its end, and the page that is on its
\* way to it.
NoPage == [read |-> FALSE, items |-> <<>>, next |-> 0]

Sync == [after : Nat, through : Nat,
         page : [read : BOOLEAN, items : Seq(Nat), next : Nat]]

NewSync(from, through) == [after |-> from, through |-> through, page |-> NoPage]

NoSync == NewSync(0, 0)

\* The query: whether it has data, is invalidated, shows an error; its load, and
\* how often that was repeated.
NewQuery == [data |-> FALSE, invalid |-> FALSE, error |-> FALSE,
             load |-> NoSync, tries |-> 0]

Loading(q) == q.load # NoSync

NoReplay == [after |-> 0, upto |-> 0]

Command == [op : {"subscribe", "unsubscribe"}, from : Nat]

subscribe(from) == [op |-> "subscribe", from |-> from]
unsubscribe == [op |-> "unsubscribe", from |-> 0]

\* One type invariant for the server, the socket and the tab.
TypeOK ==
    /\ log \in Seq(scene.bodies) /\ unsent \subseteq 1..Len(log)
    /\ after \subseteq Seq(1..Len(log))
    /\ hub \in {"none", "accepted", "serving", "overflow"}
    /\ chan \in Seq(1..Len(log)) /\ Len(chan) <= Capacity
    /\ tasks \in BOOLEAN /\ refused \in BOOLEAN
    /\ replay \in [after : 0..Len(log), upto : 0..Len(log)]
    /\ commands \in Seq(Command)
    /\ wire \in Seq(1..Len(log)) /\ Len(wire) <= WireCapacity
    /\ page \in {"on", "off"} /\ sock \in {"new", "open", "closed"}
    /\ view.lastSeq \in 0..Len(log) /\ view.derived \in Derived
    /\ query \in [data : BOOLEAN, invalid : BOOLEAN, error : BOOLEAN, load : Sync, tries : Nat]
    /\ syncs \subseteq [gap : BOOLEAN, run : Sync] /\ skipped \subseteq 1..Len(log)
    /\ IsScene(scene)

Init ==
    /\ log = <<>> /\ after = {} /\ unsent = {}
    /\ hub = "none" /\ chan = <<>> /\ tasks = FALSE /\ replay = NoReplay
    /\ refused = FALSE
    /\ commands = <<>> /\ wire = <<>>
    /\ page = "off" /\ sock = "new"
    /\ view = emptyTaskEvents /\ query = NewQuery /\ syncs = {} /\ skipped = {}
    /\ scene \in Scenes

\* A disturbance that the bounds still allow.
Spend(what) ==
    /\ scene.bounds[what] > 0
    /\ scene' = [scene EXCEPT !.bounds[what] = @ - 1]

(***************************************************************************)
(* Emitter and bus.                                                        *)
(***************************************************************************)

\* A transaction takes the next sequence numbers under the row lock and stores
\* its events; publication is left for after the commit.
Emit(bodies) ==
    /\ Len(log) + Len(bodies) <= scene.events
    /\ log' = log \o bodies
    /\ \/ /\ Cardinality(after) < scene.committers
          /\ after' = after \cup {[i \in 1..Len(bodies) |-> Len(log) + i]}
          /\ UNCHANGED <<unsent, scene>>
       \/ /\ Spend("lostAcks")      \* WithTx returns CommitError, no callback runs
          /\ unsent' = unsent \cup (Len(log) + 1)..(Len(log) + Len(bodies))
          /\ UNCHANGED after
    /\ UNCHANGED <<hubVars, commands, wire, tabVars>>

\* Bus.Publish to the one subscriber: a full channel removes it.
Deliver(ev) ==
    \/ hub # "serving" /\ UNCHANGED <<hub, chan>>
    \/ hub = "serving" /\ Len(chan) < Capacity /\ chan' = Append(chan, ev) /\ UNCHANGED hub
    \/ hub = "serving" /\ Len(chan) = Capacity /\ hub' = "overflow" /\ UNCHANGED chan

Publish(p) ==
    /\ Deliver(Head(p))
    /\ after' = (after \ {p}) \cup (IF Len(p) = 1 THEN {} ELSE {Tail(p)})
    /\ UNCHANGED <<log, unsent, tasks, replay, refused, commands, wire, tabVars, scene>>

(***************************************************************************)
(* The hub: ServeHTTP of the tab's connection.                             *)
(***************************************************************************)
Serving == hub \in {"serving", "overflow"}

HubSubscribe ==
    /\ hub = "accepted"
    /\ hub' = "serving" /\ chan' = <<>>
    /\ UNCHANGED <<serverVars, tasks, replay, refused, commands, wire, tabVars, scene>>

\* An event of the channel is sent if the connection asked for its task.
HubEvent ==
    /\ Serving /\ replay = NoReplay /\ chan # <<>>
    /\ tasks => Len(wire) < WireCapacity
    /\ chan' = Tail(chan)
    /\ wire' = IF tasks THEN Append(wire, Head(chan)) ELSE wire
    /\ UNCHANGED <<serverVars, hub, tasks, replay, refused, commands, tabVars, scene>>

\* Mutant: the replay begins one event late.
LateReplayOf(from) ==
    IF from + 1 < Len(log) THEN [after |-> from + 1, upto |-> Len(log)] ELSE NoReplay

\* What a subscription replays: from from_seq to event_seq as read now.
ReplayOf(from) ==
    IF from < Len(log) THEN [after |-> from, upto |-> Len(log)] ELSE NoReplay

\* A command is obeyed.  Store.Task may fail for a subscription: the reply is
\* TASK_NOT_FOUND, the connection stays, without the task and without a replay.
HubCommand ==
    /\ Serving /\ replay = NoReplay /\ commands # <<>>
    /\ commands' = Tail(commands)
    /\ LET m == Head(commands)
       IN  \/ /\ tasks' = (m.op = "subscribe") /\ refused' = FALSE
              /\ replay' = IF m.op = "subscribe" THEN ReplayOf(m.from) ELSE replay
              /\ UNCHANGED scene
           \/ /\ m.op = "subscribe" /\ Spend("faults")
              /\ refused' = TRUE
              /\ UNCHANGED <<tasks, replay>>
    /\ UNCHANGED <<serverVars, hub, chan, wire, tabVars>>

\* The rows of a batch never change, so reading them one by one is the same.
HubReplay ==
    /\ Serving /\ replay # NoReplay /\ Len(wire) < WireCapacity
    /\ wire' = Append(wire, replay.after + 1)
    /\ replay' = IF replay.after + 1 = replay.upto THEN NoReplay
                 ELSE [replay EXCEPT !.after = @ + 1]
    /\ UNCHANGED <<serverVars, hub, chan, tasks, refused, commands, tabVars, scene>>

\* The connection is gone on the hub's side; what was sent may still arrive.
HubGone ==
    /\ hub' = "none" /\ chan' = <<>> /\ tasks' = FALSE /\ replay' = NoReplay
    /\ refused' = FALSE

\* sub.Done of a removed subscriber cancels ServeHTTP and closes the socket.
HubEnd ==
    /\ hub = "overflow"
    /\ HubGone /\ commands' = <<>>
    /\ UNCHANGED <<serverVars, wire, tabVars, scene>>

\* A write timeout, a failed replay, a broken network, a dead peer.
HubBreak ==
    /\ hub # "none" /\ Spend("breaks")
    /\ HubGone /\ commands' = <<>>
    /\ UNCHANGED <<serverVars, wire, tabVars>>

\* The process dies: unpublished events are never published by anyone.
ServerCrash ==
    /\ Spend("breaks")
    /\ after' = {}
    /\ HubGone /\ commands' = <<>>
    /\ UNCHANGED <<log, unsent, wire, tabVars>>

(***************************************************************************)
(* The tab: its store and the query library.                               *)
(***************************************************************************)
Event(n) == [seq |-> n, type |-> log[n].type, call |-> log[n].call]

Stored(seqs) == appendMany(view, [i \in DOMAIN seqs |-> Event(seqs[i])])

\* Is the page of a run its last one?
LastPage(run) == run.page.next = 0 \/ run.page.next >= run.through

\* A run of syncTaskEvents that will store event n.
Brings(run, n) ==
    IF run.page.read
    THEN n \in Range(run.page.items) \/ (~LastPage(run) /\ n > run.page.next /\ n <= run.through)
    ELSE n > run.after /\ (n <= run.through \/ n <= run.after + PageSize)

\* The holes below the last number of the store that a load does not fill.
Holes(v, q) ==
    {n \in 1..v.lastSeq : n \notin Seqs(v.events) /\ ~(Loading(q) /\ Brings(q.load, n))}

StartLoad(q) ==
    [q EXCEPT !.load = NewSync(0, Infinity), !.tries = 0, !.error = @ /\ q.data]

\* Mutant: a refetch joins every load that is under way.
JoiningRefetched(q) == IF Loading(q) THEN q ELSE StartLoad(q)

\* A refetch starts the load anew, but joins the first one while that still runs.
Refetched(q) == IF Loading(q) /\ ~q.data THEN q ELSE StartLoad(q)

\* A load that is started anew is abandoned by the query, its function runs on.
Abandoned(q) ==
    IF Loading(q) /\ q.data THEN {[gap |-> FALSE, run |-> q.load]} ELSE {}

\* invalidateQueries(["events"]): only a query that a page uses is refetched.
Invalidate(others) ==
    LET q == [query EXCEPT !.invalid = TRUE]
    IN  IF page = "on"
        THEN query' = Refetched(q) /\ syncs' = others \cup Abandoned(q)
        ELSE query' = q /\ syncs' = others

\* send is a no-op without an open socket; a socket that nobody serves loses it.
Send(m) ==
    commands' = IF sock = "open" /\ hub # "none" THEN Append(commands, m) ELSE commands

\* The page of the task mounts: useInitialEvents and useTaskSocket.
Mount ==
    /\ page = "off"
    /\ page' = "on"
    /\ query' = IF ~Loading(query) /\ (~query.data \/ query.invalid)
                THEN StartLoad(query) ELSE query
    /\ Send(subscribe(view.lastSeq))
    /\ skipped' = Holes(view, query')
    /\ UNCHANGED <<serverVars, hubVars, wire, sock, view, syncs, scene>>

Unmount ==
    /\ page = "on" /\ Spend("leaves")
    /\ page' = "off"
    /\ Send(unsubscribe)
    /\ UNCHANGED <<serverVars, hubVars, wire, sock, view, query, syncs, skipped>>

UserRetry ==
    /\ page = "on" /\ query.error /\ Spend("retries")
    /\ query' = Refetched(query) /\ syncs' = syncs \cup Abandoned(query)
    /\ UNCHANGED <<serverVars, hubVars, commands, wire, page, sock, view, skipped>>

(***************************************************************************)
(* The tab: its connection.                                                *)
(***************************************************************************)

OpenQuery == Invalidate(syncs)

\* onopen: onStatus("open") invalidates the queries, then every task of
\* subscriptions is subscribed from its last sequence number.
Open ==
    /\ sock # "open"
    /\ sock' = "open" /\ hub' = "accepted"
    /\ commands' = IF page = "on" THEN <<subscribe(view.lastSeq)>> ELSE <<>>
    /\ OpenQuery /\ skipped' = Holes(view, query')
    /\ UNCHANGED <<serverVars, chan, tasks, replay, refused, wire, page, view, scene>>

\* handle: an event whose number leaves a hole starts a sync from the last number
\* to that event; the event is stored in any case.
Receive ==
    /\ sock = "open" /\ wire # <<>>
    /\ wire' = Tail(wire)
    /\ syncs' = IF page = "on" /\ detectGap(view.lastSeq, Head(wire))
                THEN syncs \cup {[gap |-> TRUE, run |-> NewSync(view.lastSeq, Head(wire))]}
                ELSE syncs
    /\ view' = Stored(<<Head(wire)>>)
    /\ skipped' = IF view.lastSeq = 0 THEN skipped \cup (unsent \cap Holes(view', query))
                  ELSE skipped
    /\ UNCHANGED <<serverVars, hubVars, commands, page, sock, query, scene>>

SocketGone ==
    /\ sock' = "closed" /\ wire' = <<>> /\ commands' = <<>>
    /\ HubGone
    /\ UNCHANGED <<serverVars, page, view, query, syncs, skipped>>

\* onclose after the hub closed, or after a ping that had no answer in time.
Close == sock = "open" /\ hub = "none" /\ SocketGone /\ UNCHANGED scene

\* The timer of the heartbeat may also end a connection that is merely slow.
GiveUp == sock = "open" /\ hub # "none" /\ SocketGone /\ Spend("breaks")

(***************************************************************************)
(* The tab: syncTaskEvents over REST.                                      *)
(***************************************************************************)

\* FetchEvents: a page of rows, and where the next one starts if it is full.
Fetched(run) ==
    LET n == Min({PageSize, Len(log) - run.after})
    IN  [run EXCEPT !.page =
            [read |-> TRUE, items |-> [i \in 1..n |-> run.after + i],
             next |-> IF n = PageSize THEN run.after + n ELSE 0]]

NextPage(run) == [run EXCEPT !.after = run.page.next, !.page = NoPage]

LoadRead ==
    /\ Loading(query) /\ ~query.load.page.read
    /\ query' = [query EXCEPT !.load = Fetched(@)]
    /\ UNCHANGED <<serverVars, hubVars, commands, wire, page, sock, view, syncs, skipped, scene>>

LoadApply ==
    /\ query.load.page.read
    /\ view' = Stored(query.load.page.items)
    /\ query' = IF LastPage(query.load) THEN [NewQuery EXCEPT !.data = TRUE]
                ELSE [query EXCEPT !.load = NextPage(@)]
    /\ UNCHANGED <<serverVars, hubVars, commands, wire, page, sock, syncs, skipped, scene>>

\* A failed load is repeated from the start while the page is there; after that
\* the query shows the error.
LoadFail ==
    /\ Loading(query) /\ Spend("faults")
    /\ query' = IF page = "on" /\ query.tries < QueryRetries
                THEN [query EXCEPT !.load = NewSync(0, Infinity), !.tries = @ + 1]
                ELSE [query EXCEPT !.load = NoSync, !.tries = 0, !.error = TRUE]
    /\ UNCHANGED <<serverVars, hubVars, commands, wire, page, sock, view, syncs, skipped>>

SyncRead(s) ==
    /\ ~s.run.page.read
    /\ syncs' = (syncs \ {s}) \cup {[s EXCEPT !.run = Fetched(@)]}
    /\ UNCHANGED <<serverVars, hubVars, commands, wire, page, sock, view, query, skipped, scene>>

SyncApply(s) ==
    /\ s.run.page.read
    /\ view' = Stored(s.run.page.items)
    /\ syncs' = (syncs \ {s}) \cup (IF LastPage(s.run) THEN {} ELSE {[s EXCEPT !.run = NextPage(@)]})
    /\ UNCHANGED <<serverVars, hubVars, commands, wire, page, sock, query, skipped, scene>>

\* onGap catches the error and invalidates the query; an abandoned load just ends.
SyncFail(s) ==
    /\ Spend("faults")
    /\ \/ /\ s.gap
          /\ Invalidate(syncs \ {s})
          /\ skipped' = skipped \cup (unsent \cap Holes(view, query'))
       \/ /\ ~s.gap
          /\ syncs' = syncs \ {s}
          /\ UNCHANGED <<query, skipped>>
    /\ UNCHANGED <<serverVars, hubVars, commands, wire, page, sock, view>>

(***************************************************************************)
(* Specification.                                                          *)
(***************************************************************************)
\* The task has ended and nothing is under way any more.
Quiet ==
    /\ Len(log) = scene.events /\ after = {}
    /\ sock = "open" /\ hub = "serving" /\ replay = NoReplay
    /\ chan = <<>> /\ commands = <<>> /\ wire = <<>>
    /\ ~Loading(query) /\ syncs = {}
    /\ UNCHANGED vars

Batches == UNION {[1..k -> scene.bodies] : k \in 1..scene.txEvents}

Work ==
    \/ \E p \in after : Publish(p)
    \/ HubSubscribe \/ HubEvent \/ HubCommand \/ HubReplay \/ HubEnd
    \/ Open \/ Receive \/ Close
    \/ LoadRead \/ LoadApply
    \/ \E s \in syncs : SyncRead(s) \/ SyncApply(s)

Disturbance ==
    \/ HubBreak \/ ServerCrash \/ GiveUp \/ LoadFail
    \/ \E s \in syncs : SyncFail(s)

User == Mount \/ Unmount \/ UserRetry

Next == (\E b \in Batches : Emit(b)) \/ Work \/ Disturbance \/ User \/ Quiet

\* Goroutines, browser callbacks and timers that can run do run, and requests are
\* answered: the stream does not stand still while it has work.  Nothing is asked
\* of users or of the orchestrator that stores events.
Scheduling == WF_vars(Work)

Spec == Init /\ [][Next]_vars
FairSpec == Spec /\ Scheduling

(***************************************************************************)
(* Properties.                                                             *)
(***************************************************************************)

\* The store never shows an event twice, out of order, or past the last number,
\* whatever mix of live events, replays and pages it was built from
\* (insertSorted, appendMany).
TimelineSorted ==
    /\ TypeOK
    /\ \A i, j \in DOMAIN view.events : i < j => view.events[i].seq < view.events[j].seq
    /\ view.lastSeq = Max({0} \cup Seqs(view.events))
    /\ \A i \in DOMAIN view.events : view.events[i] = Event(view.events[i].seq)

\* What the store derived step by step (applyDerived) is what the sorted events
\* stand for, also after events that arrived late.
ActivityCurrent == view.derived = rebuildDerived(view.events)

\* Something is under way that brings event n to the page, or the page shows that
\* its events may be incomplete.
Covered(n) ==
    \/ sock # "open" \/ hub \in {"none", "overflow"} \/ query.error
    \/ \E p \in after : n \in Range(p)
    \/ n \in Range(chan) \/ n \in Range(wire)
    \/ \E i \in DOMAIN commands : commands[i].op = "subscribe" /\ commands[i].from < n
    \/ replay.after < n /\ n <= replay.upto
    \/ Loading(query) /\ Brings(query.load, n)
    \/ \E s \in syncs : Brings(s.run, n)

\* A stored event that a mounted page does not show is on its way to it: out of
\* order publication, overflow, broken connections and failed loads lose none
\* silently (ServeHTTP's replay, onopen, detectGap, onGap).  Even an event that was
\* never published, because the acknowledgement of its transaction was lost, leaves
\* no silent hole between events that are shown: the next event reveals it.  There
\* are two exceptions, in which the page does lose events and shows no error.  The
\* hub refused the connection's subscription (refused).  Or a hole was left behind
\* (skipped): it was there when the page came back or the socket reconnected and no
\* new load was started, or it belongs to an unpublished event and its repair failed
\* or the first live event came behind it.
NothingMissed ==
    page = "on" /\ ~refused => \A n \in (1..Len(log)) \ skipped :
        \/ n \in Seqs(view.events) \/ Covered(n)
        \/ n \in unsent /\ n > view.lastSeq

\* A page that stays ends up with every event, or shows the error of its load, but
\* for events that were kept from publication and for the two exceptions of
\* NothingMissed (OnlyJoiningSkips says how narrow the second one is).
Settles ==
    <>[](page = "on" /\ ~refused
           => (1..Len(log)) \ (unsent \cup skipped) \subseteq Seqs(view.events) \/ query.error)

\* While the page is there, published events are given up by nothing but a reconnection
\* that joins the first load: every other invalidation starts a load that brings all
\* (onopen, invalidateQueries, onGap).
OnlyJoiningSkips ==
    [][page = "on" /\ page' = "on" /\ ~(sock = "closed" /\ sock' = "open" /\ Loading(query) /\ ~query.data)
         => skipped' \subseteq skipped \cup unsent]_vars

(***************************************************************************)
(* What the documents and comments say and the code does not do.           *)
(***************************************************************************)

\* docs/13 on the event store: a reconnection loads every page of the events, so
\* no published event stays away from a page whose connection is back.
ReconnectionLoads ==
    page = "on" => \A n \in (1..Len(log)) \ unsent : n \in Seqs(view.events) \/ Covered(n)
=============================================================================
