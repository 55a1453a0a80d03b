------------------------------- MODULE Process -------------------------------
(***************************************************************************)
(* The life of the server processes (cmd/devsquad/main.go): the instance   *)
(* lock (store/instance.go), the goroutines of the orchestrator and their  *)
(* end (New, spawn, Wake, Close, StartRecovery, recoveryLoop), requests    *)
(* that outlive the shutdown of the server, and a successor.               *)
(*                                                                         *)
(* The lock belongs to a PostgreSQL session; the orchestrator's context    *)
(* hangs on the signal, not on the group of goroutines that notices a lost *)
(* session.  One decision at a time is stored and waits for a runner; what *)
(* Reconcile and a runner do with it is Orchestrator's subject.            *)
(***************************************************************************)
EXTENDS Integers, FiniteSets

CONSTANTS
    Instances,      \* the processes, one after the other or side by side
    NoInstance,     \* the claim of nobody
    MaxWakes,       \* bound: goroutines of Wake that wait for their turn
    Bounds          \* how many stops (signals, lost sessions, crashes) and requests happen

Limits == [stops : Nat, requests : Nat]

ASSUME ProcessAssumption ==
    NoInstance \notin Instances /\ MaxWakes \in Nat \ {0} /\ Bounds \in Limits

VARIABLES
    phase,      \* how far run() of main.go is
    session,    \* the session of the lock: "none", "held" or "lost"
    stopping,   \* is the context of the group done?
    cancelled,  \* is the orchestrator's context cancelled?
    loop,       \* the recovery loop: "off", "recover" or "wait"
    reconciles, \* goroutines that Wake started
    running,    \* does the process have a runner?
    requests,   \* requests in service: how many read, are in a transaction, wake
    work,       \* "open": a stored decision has not been acted upon
    claim,      \* whose runner has the claim of the stage
    left        \* what is left of the bounds

engineVars == <<cancelled, loop, reconciles, running>>
vars == <<phase, session, stopping, engineVars, requests, work, claim, left>>

\* "up": serving; "draining": server.Shutdown; "closing": the deferred calls begin;
\* "waiting": engine.Close waits; "released": the lock is given back, pool.Close.
Phases == {"down", "up", "draining", "closing", "waiting", "released"}

Steps == {"reading", "tx", "waking"}
NoRequests == [s \in Steps |-> 0]

Init ==
    /\ phase = [p \in Instances |-> "down"]
    /\ session = [p \in Instances |-> "none"]
    /\ stopping = [p \in Instances |-> FALSE]
    /\ cancelled = [p \in Instances |-> FALSE]
    /\ loop = [p \in Instances |-> "off"]
    /\ reconciles = [p \in Instances |-> 0]
    /\ running = [p \in Instances |-> FALSE]
    /\ requests = [p \in Instances |-> NoRequests]
    /\ work = "none" /\ claim = NoInstance
    /\ left = Bounds

Spend(what) == left[what] > 0 /\ left' = [left EXCEPT ![what] = @ - 1]

(***************************************************************************)
(* Goroutines of the orchestrator.                                         *)
(***************************************************************************)
\* The goroutines that wg counts.
Jobs(p) == reconciles[p] + (IF running[p] THEN 1 ELSE 0) + (IF loop[p] = "off" THEN 0 ELSE 1)

\* Mutant: spawn does not look whether the orchestrator is closed.
HeedlessMaySpawn(p) == phase[p] # "down"

\* spawn: refused once the context is cancelled, which Close does as well.
MaySpawn(p) == phase[p] # "down" /\ ~cancelled[p]

\* Wake: one more Reconcile, if it may be spawned.
Woken(p) ==
    /\ reconciles[p] < MaxWakes
    /\ reconciles' = [reconciles EXCEPT ![p] = @ + (IF MaySpawn(p) THEN 1 ELSE 0)]

\* Reconcile claims an open stage without a runner in this process and spawns one;
\* a context that is cancelled between the two is as good as cancelled after them.
Claims(p) == work = "open" /\ ~running[p] /\ ~cancelled[p]

Reconciled(p) ==
    /\ claim' = IF Claims(p) THEN p ELSE claim
    /\ running' = [running EXCEPT ![p] = @ \/ (Claims(p) /\ MaySpawn(p))]

Reconcile(p) ==
    /\ reconciles[p] > 0
    /\ reconciles' = [reconciles EXCEPT ![p] = @ - 1]
    /\ Reconciled(p)
    /\ UNCHANGED <<phase, session, stopping, cancelled, loop, requests, work, left>>

\* A runner stores its result if it still has the claim, and wakes the task.  It
\* returns without one when its context is cancelled.
RunnerReturns(p) ==
    /\ running[p]
    /\ running' = [running EXCEPT ![p] = FALSE]
    /\ \/ ~cancelled[p] /\ claim = p /\ work' = "none" /\ claim' = NoInstance
       \/ (cancelled[p] \/ claim # p) /\ UNCHANGED <<work, claim>>
    /\ Woken(p)
    /\ UNCHANGED <<phase, session, stopping, cancelled, loop, requests, left>>

\* recoveryLoop: Recover, then a timer.
Recover(p) ==
    /\ loop[p] = "recover"
    /\ loop' = [loop EXCEPT ![p] = "wait"]
    /\ Reconciled(p)
    /\ UNCHANGED <<phase, session, stopping, cancelled, reconciles, requests, work, left>>

\* Mutant: recovery happens once, at the start.
OnceTick(p) ==
    /\ loop[p] = "wait"
    /\ loop' = [loop EXCEPT ![p] = IF cancelled[p] THEN "off" ELSE @]
    /\ UNCHANGED <<phase, session, stopping, cancelled, reconciles, running, requests, work, claim, left>>

Tick(p) ==
    /\ loop[p] = "wait"
    /\ loop' = [loop EXCEPT ![p] = IF cancelled[p] THEN "off" ELSE "recover"]
    /\ UNCHANGED <<phase, session, stopping, cancelled, reconciles, running, requests, work, claim, left>>

(***************************************************************************)
(* Requests that store a decision.                                         *)
(***************************************************************************)
Moved(p, from, to) == [requests EXCEPT ![p][from] = @ - 1, ![p][to] = @ + 1]

\* The server accepts requests until Shutdown closes the listener.
Accept(p) ==
    /\ phase[p] = "up" /\ Spend("requests")
    /\ requests' = [requests EXCEPT ![p]["reading"] = @ + 1]
    /\ UNCHANGED <<phase, session, stopping, engineVars, work, claim>>

\* A transaction begins; a closed pool gives no connection.
BeginTx(p) ==
    /\ requests[p]["reading"] > 0 /\ phase[p] # "released"
    /\ requests' = Moved(p, "reading", "tx")
    /\ UNCHANGED <<phase, session, stopping, engineVars, work, claim, left>>

\* The decision is stored; nothing asks for the lock.
CommitTx(p) ==
    /\ requests[p]["tx"] > 0
    /\ requests' = Moved(p, "tx", "waking")
    /\ work' = "open"
    /\ UNCHANGED <<phase, session, stopping, engineVars, claim, left>>

\* The callback after the commit: Coordinator.Wake.
Wake(p) ==
    /\ requests[p]["waking"] > 0
    /\ requests' = [requests EXCEPT ![p]["waking"] = @ - 1]
    /\ Woken(p)
    /\ UNCHANGED <<phase, session, stopping, cancelled, loop, running, work, claim, left>>

(***************************************************************************)
(* run() of main.go.                                                       *)
(***************************************************************************)
Holder == {p \in Instances : session[p] = "held"}

\* AcquireInstance gets the lock, or the process ends at once; StartRecovery.
Start(p) ==
    /\ phase[p] = "down" /\ Holder = {}
    /\ phase' = [phase EXCEPT ![p] = "up"]
    /\ session' = [session EXCEPT ![p] = "held"]
    /\ loop' = [loop EXCEPT ![p] = "recover"]
    /\ UNCHANGED <<stopping, cancelled, reconciles, running, requests, work, claim, left>>

\* A signal cancels the context of everything.
Signal(p) ==
    /\ phase[p] = "up" /\ ~stopping[p] /\ Spend("stops")
    /\ stopping' = [stopping EXCEPT ![p] = TRUE]
    /\ cancelled' = [cancelled EXCEPT ![p] = TRUE]
    /\ UNCHANGED <<phase, session, loop, reconciles, running, requests, work, claim>>

\* PostgreSQL ends the session, and with it the lock.
LoseSession(p) ==
    /\ session[p] = "held" /\ Spend("stops")
    /\ session' = [session EXCEPT ![p] = "lost"]
    /\ UNCHANGED <<phase, stopping, engineVars, requests, work, claim>>

\* The watchdog's ping fails: only the group hears of it.
Watchdog(p) ==
    /\ phase[p] = "up" /\ ~stopping[p] /\ session[p] = "lost"
    /\ stopping' = [stopping EXCEPT ![p] = TRUE]
    /\ UNCHANGED <<phase, session, engineVars, requests, work, claim, left>>

\* hub.Close, and Shutdown closes the listener.
Drain(p) ==
    /\ phase[p] = "up" /\ stopping[p]
    /\ phase' = [phase EXCEPT ![p] = "draining"]
    /\ UNCHANGED <<session, stopping, engineVars, requests, work, claim, left>>

\* Mutant: Shutdown has no time limit.
PatientShutdownReturns(p) ==
    /\ phase[p] = "draining" /\ requests[p] = NoRequests
    /\ phase' = [phase EXCEPT ![p] = "closing"]
    /\ UNCHANGED <<session, stopping, engineVars, requests, work, claim, left>>

\* Shutdown returns when the requests are done or its time is over.
ShutdownReturns(p) ==
    /\ phase[p] = "draining"
    /\ phase' = [phase EXCEPT ![p] = "closing"]
    /\ UNCHANGED <<session, stopping, engineVars, requests, work, claim, left>>

\* engine.Close: no more goroutines, and those that are there are cancelled.
CloseEngine(p) ==
    /\ phase[p] = "closing"
    /\ phase' = [phase EXCEPT ![p] = "waiting"]
    /\ cancelled' = [cancelled EXCEPT ![p] = TRUE]
    /\ UNCHANGED <<session, stopping, loop, reconciles, running, requests, work, claim, left>>

\* Mutant: the lock is given back without waiting for the goroutines.
HastyRelease(p) ==
    /\ phase[p] = "waiting"
    /\ phase' = [phase EXCEPT ![p] = "released"]
    /\ session' = [session EXCEPT ![p] = "none"]
    /\ UNCHANGED <<stopping, engineVars, requests, work, claim, left>>

\* wg.Wait returns; the connection of the lock is closed.
Release(p) ==
    /\ phase[p] = "waiting" /\ Jobs(p) = 0
    /\ phase' = [phase EXCEPT ![p] = "released"]
    /\ session' = [session EXCEPT ![p] = "none"]
    /\ UNCHANGED <<stopping, engineVars, requests, work, claim, left>>

\* The process is gone, with whatever it was doing.
Gone(p) ==
    /\ phase' = [phase EXCEPT ![p] = "down"]
    /\ session' = [session EXCEPT ![p] = "none"]
    /\ stopping' = [stopping EXCEPT ![p] = FALSE]
    /\ cancelled' = [cancelled EXCEPT ![p] = FALSE]
    /\ loop' = [loop EXCEPT ![p] = "off"]
    /\ reconciles' = [reconciles EXCEPT ![p] = 0]
    /\ running' = [running EXCEPT ![p] = FALSE]
    /\ requests' = [requests EXCEPT ![p] = NoRequests]

\* pool.Close waits for the transactions that still run; then main returns.
Exit(p) ==
    /\ phase[p] = "released" /\ requests[p]["tx"] = 0
    /\ Gone(p)
    /\ UNCHANGED <<work, claim, left>>

Crash(p) ==
    /\ phase[p] # "down" /\ Spend("stops")
    /\ Gone(p)
    /\ UNCHANGED <<work, claim>>

(***************************************************************************)
(* Specification.                                                          *)
(***************************************************************************)
\* The main goroutine and the group it waits for.
Main(p) ==
    \/ Watchdog(p) \/ Drain(p) \/ ShutdownReturns(p) \/ CloseEngine(p) \/ Release(p) \/ Exit(p)

Recovery(p) == Recover(p) \/ Tick(p)

\* A request whose client keeps it waiting need never begin its transaction.
Serve(p) == CommitTx(p) \/ Wake(p)

Disturbance(p) == Signal(p) \/ LoseSession(p) \/ Crash(p)

Next == \E p \in Instances :
    \/ Main(p) \/ Recovery(p) \/ Reconcile(p) \/ RunnerReturns(p) \/ Serve(p)
    \/ Start(p) \/ Accept(p) \/ BeginTx(p) \/ Disturbance(p)

Spec == Init /\ [][Next]_vars

\* Every goroutine runs, timers fire, transactions and git commands end.  Somebody
\* starts a process when none has the lock.
FairSpec ==
    /\ Spec
    /\ \A p \in Instances :
        /\ WF_vars(Main(p)) /\ WF_vars(Recovery(p)) /\ WF_vars(Serve(p))
        /\ WF_vars(Reconcile(p)) /\ WF_vars(RunnerReturns(p))
    /\ WF_vars(\E p \in Instances : Start(p))

(***************************************************************************)
(* Properties.                                                             *)
(***************************************************************************)
\* The types of the variables.
TypeOK ==
    /\ phase \in [Instances -> Phases]
    /\ session \in [Instances -> {"none", "held", "lost"}]
    /\ stopping \in [Instances -> BOOLEAN] /\ cancelled \in [Instances -> BOOLEAN]
    /\ loop \in [Instances -> {"off", "recover", "wait"}]
    /\ reconciles \in [Instances -> Nat] /\ running \in [Instances -> BOOLEAN]
    /\ requests \in [Instances -> [Steps -> Nat]]
    /\ work \in {"none", "open"} /\ claim \in Instances \cup {NoInstance}
    /\ left \in Limits

\* The lock has one holder, and the orchestrator of a process works only while the process has the lock, or
\* after PostgreSQL took it away: run() itself gives the lock back only when
\* engine.Close has waited, and late requests wake nobody any more.
EngineUnderLock ==
    /\ TypeOK
    /\ Cardinality(Holder) <= 1
    /\ \A p \in Instances : Jobs(p) > 0 => session[p] \in {"held", "lost"}

\* While Close waits, no goroutine joins those it waits for: neither a runner of a
\* Reconcile that is still under way nor a Wake of a runner or a late request
\* (spawn and Close share a mutex; WaitGroup.Add may not race with Wait).
OnlyFewerJobs ==
    [][\A p \in Instances : phase[p] \in {"waiting", "released"} => Jobs(p)' <= Jobs(p)]_vars

\* A process that was told to stop, or lost its session, ends, even if a client
\* keeps a request open for ever.
ProcessEnds ==
    \A p \in Instances : stopping[p] \/ session[p] = "lost" ~> phase[p] = "down"

\* A stored decision is acted upon, also one that was stored by a process that no
\* longer reconciles, after its successor had looked for work (recoveryLoop).
WorkDone == work = "open" ~> work = "none"
=============================================================================
