---------------------------- MODULE ProcessProofs ----------------------------
(***************************************************************************)
(* The instance lock and the end of a process, for any number of           *)
(* processes, requests and stops.                                          *)
(***************************************************************************)
EXTENDS Process, FiniteSetTheorems, TLAPS

\* No goroutine of the orchestrator is left.
Idle(p) == reconciles[p] = 0 /\ ~running[p] /\ loop[p] = "off"

\* PostgreSQL gives the lock to one session.
OneHolder == \A p, q \in Instances : session[p] = "held" /\ session[q] = "held" => p = q

\* How far run() of main.go is tells what it has of the lock and of the engine: the
\* lock is there from Start to Release, and what follows Close is cancelled.
Ordered ==
    \A p \in Instances :
        /\ phase[p] \in {"down", "released"} => Idle(p) /\ session[p] = "none"
        /\ phase[p] \in {"waiting", "released"} => cancelled[p]
        /\ phase[p] \notin {"down", "released"} => session[p] \in {"held", "lost"}

\* The inductive invariant.
Locked == TypeOK /\ OneHolder /\ Ordered

(***************************************************************************)
(* Jobs.                                                                   *)
(***************************************************************************)

\* wg counts nothing exactly when there is nothing.
LEMMA JobsCounted ==
    ASSUME TypeOK, NEW p \in Instances
    PROVE  Jobs(p) \in Nat /\ (Jobs(p) = 0 <=> Idle(p))
<1>1. /\ reconciles[p] \in Nat /\ running[p] \in BOOLEAN
      /\ loop[p] \in {"off", "recover", "wait"}
  BY DEF TypeOK
<1> QED
  BY <1>1 DEF Jobs, Idle

\* A bound that is spent stays a natural number.
LEMMA SpendType ==
    ASSUME TypeOK, NEW what \in {"stops", "requests"}, Spend(what)
    PROVE  left' \in Limits
BY DEF TypeOK, Spend, Limits

\* A request that moves on was there.
LEMMA MovedType ==
    ASSUME TypeOK, NEW p \in Instances, NEW from \in Steps, NEW to \in Steps,
           from # to, requests[p][from] > 0
    PROVE  Moved(p, from, to) \in [Instances -> [Steps -> Nat]]
<1>1. requests[p] \in [Steps -> Nat]
  BY DEF TypeOK
<1>2. requests[p][from] - 1 \in Nat /\ requests[p][to] + 1 \in Nat
  BY <1>1
<1> DEFINE once == [requests[p] EXCEPT ![from] = @ - 1]
           moved == [once EXCEPT ![to] = @ + 1]
<1>3. moved \in [Steps -> Nat]
  BY <1>1, <1>2
<1>4. Moved(p, from, to) = [requests EXCEPT ![p] = moved]
  BY DEF Moved, TypeOK
<1> QED
  BY <1>3, <1>4 DEF TypeOK

\* Wake adds at most one goroutine, and none after Close.
LEMMA WokenType ==
    ASSUME TypeOK, NEW p \in Instances, Woken(p)
    PROVE  /\ reconciles' \in [Instances -> Nat]
           /\ \A q \in Instances : q # p => reconciles'[q] = reconciles[q]
           /\ ~MaySpawn(p) => reconciles'[p] = reconciles[p]
BY DEF TypeOK, Woken

\* Reconcile adds at most one runner, and none after Close.
LEMMA ReconciledType ==
    ASSUME TypeOK, NEW p \in Instances, Reconciled(p)
    PROVE  /\ running' \in [Instances -> BOOLEAN]
           /\ claim' \in Instances \cup {NoInstance}
           /\ \A q \in Instances : q # p => running'[q] = running[q]
           /\ cancelled[p] => running'[p] = running[p]
<1>1. running[p] \in BOOLEAN /\ Claims(p) \in BOOLEAN /\ MaySpawn(p) \in BOOLEAN
  BY DEF TypeOK, Claims, MaySpawn
<1>2. running' \in [Instances -> BOOLEAN]
  BY <1>1 DEF TypeOK, Reconciled
<1>3. claim' \in Instances \cup {NoInstance}
  BY DEF TypeOK, Reconciled
<1>4. \A q \in Instances : q # p => running'[q] = running[q]
  BY DEF TypeOK, Reconciled
<1>5. cancelled[p] => running'[p] = running[p]
  BY <1>1 DEF TypeOK, Reconciled, Claims
<1> QED
  BY <1>2, <1>3, <1>4, <1>5

(***************************************************************************)
(* The steps.                                                              *)
(***************************************************************************)

\* Every step keeps the types.
LEMMA ProcessTypeStep ==
    ASSUME TypeOK, [Next]_vars
    PROVE  TypeOK'
<1>1. CASE UNCHANGED vars
  BY <1>1 DEF TypeOK, vars, engineVars
<1>2. ASSUME NEW p \in Instances, Main(p)
      PROVE  TypeOK'
  <2>1. CASE Watchdog(p) \/ Drain(p) \/ ShutdownReturns(p) \/ CloseEngine(p) \/ Release(p)
    BY <2>1 DEF TypeOK, Phases, engineVars, Watchdog, Drain, ShutdownReturns, CloseEngine, Release
  <2>2. CASE Exit(p)
    BY <2>2 DEF TypeOK, Phases, Exit, Gone, NoRequests
  <2> QED
    BY <1>2, <2>1, <2>2 DEF Main
<1>3. ASSUME NEW p \in Instances, Recovery(p)
      PROVE  TypeOK'
  <2>1. CASE Recover(p)
    BY <2>1, ReconciledType DEF TypeOK, Recover
  <2>2. CASE Tick(p)
    BY <2>2 DEF TypeOK, Tick
  <2> QED
    BY <1>3, <2>1, <2>2 DEF Recovery
<1>4. ASSUME NEW p \in Instances, Reconcile(p)
      PROVE  TypeOK'
  <2>1. reconciles' \in [Instances -> Nat]
    BY <1>4 DEF TypeOK, Reconcile
  <2> QED
    BY <1>4, <2>1, ReconciledType DEF TypeOK, Reconcile
<1>5. ASSUME NEW p \in Instances, RunnerReturns(p)
      PROVE  TypeOK'
  <2>1. reconciles' \in [Instances -> Nat]
    BY <1>5, WokenType DEF RunnerReturns
  <2>2. running' \in [Instances -> BOOLEAN]
    BY <1>5 DEF TypeOK, RunnerReturns
  <2>3. work' \in {"none", "open"} /\ claim' \in Instances \cup {NoInstance}
    BY <1>5 DEF TypeOK, RunnerReturns
  <2> QED
    BY <1>5, <2>1, <2>2, <2>3 DEF TypeOK, RunnerReturns
<1>6. ASSUME NEW p \in Instances, Serve(p)
      PROVE  TypeOK'
  <2>1. CASE CommitTx(p)
    <3>1. requests' \in [Instances -> [Steps -> Nat]]
      BY <2>1, MovedType DEF CommitTx, Steps
    <3> QED
      BY <2>1, <3>1 DEF TypeOK, engineVars, CommitTx
  <2>2. CASE Wake(p)
    <3>1. requests' \in [Instances -> [Steps -> Nat]]
      BY <2>2 DEF TypeOK, Wake, Steps
    <3> QED
      BY <2>2, <3>1, WokenType DEF TypeOK, Wake
  <2> QED
    BY <1>6, <2>1, <2>2 DEF Serve
<1>7. ASSUME NEW p \in Instances, Start(p)
      PROVE  TypeOK'
  BY <1>7 DEF TypeOK, Phases, Start
<1>8. ASSUME NEW p \in Instances, Accept(p)
      PROVE  TypeOK'
  <2>1. requests' \in [Instances -> [Steps -> Nat]]
    BY <1>8 DEF TypeOK, Accept, Steps
  <2> QED
    BY <1>8, <2>1, SpendType DEF TypeOK, engineVars, Accept
<1>9. ASSUME NEW p \in Instances, BeginTx(p)
      PROVE  TypeOK'
  <2>1. requests' \in [Instances -> [Steps -> Nat]]
    BY <1>9, MovedType DEF BeginTx, Steps
  <2> QED
    BY <1>9, <2>1 DEF TypeOK, engineVars, BeginTx
<1>10. ASSUME NEW p \in Instances, Disturbance(p)
       PROVE  TypeOK'
  <2>1. left' \in Limits
    BY <1>10, SpendType DEF Disturbance, Signal, LoseSession, Crash
  <2>2. CASE Signal(p) \/ LoseSession(p)
    BY <2>1, <2>2 DEF TypeOK, engineVars, Signal, LoseSession
  <2>3. CASE Crash(p)
    BY <2>1, <2>3 DEF TypeOK, Phases, Crash, Gone, NoRequests
  <2> QED
    BY <1>10, <2>2, <2>3 DEF Disturbance
<1> QED
  BY <1>1, <1>2, <1>3, <1>4, <1>5, <1>6, <1>7, <1>8, <1>9, <1>10 DEF Next

\* Only a process that finds nobody with the lock takes it.
LEMMA OneHolderStep ==
    ASSUME TypeOK, OneHolder, [Next]_vars
    PROVE  OneHolder'
<1>1. CASE UNCHANGED session
  BY <1>1 DEF OneHolder
<1>2. ASSUME NEW p \in Instances, Start(p)
      PROVE  OneHolder'
  BY <1>2 DEF TypeOK, OneHolder, Start, Holder
<1>3. ASSUME NEW p \in Instances, session' = [session EXCEPT ![p] = "none"]
      PROVE  OneHolder'
  BY <1>3 DEF TypeOK, OneHolder
<1>4. ASSUME NEW p \in Instances, session' = [session EXCEPT ![p] = "lost"]
      PROVE  OneHolder'
  BY <1>4 DEF TypeOK, OneHolder
<1> QED
  BY <1>1, <1>2, <1>3, <1>4
     DEF Next, vars, Main, Watchdog, Drain, ShutdownReturns, CloseEngine, Release, Exit, Gone,
         Recovery, Recover, Tick, Reconcile, RunnerReturns, Serve, CommitTx, Wake, Accept, BeginTx,
         Disturbance, Signal, LoseSession, Crash

\* No step gives the lock back before the goroutines have ended, or adds one to
\* those that Close has waited for.
LEMMA OrderedStep ==
    ASSUME TypeOK, Ordered, [Next]_vars
    PROVE  Ordered'
<1> USE DEF Idle
<1>1. CASE UNCHANGED vars
  BY <1>1 DEF Ordered, vars, engineVars
<1>2. ASSUME NEW p \in Instances, Main(p)
      PROVE  Ordered'
  <2>1. CASE Watchdog(p) \/ Drain(p) \/ ShutdownReturns(p) \/ CloseEngine(p)
    BY <2>1 DEF TypeOK, Ordered, engineVars, Watchdog, Drain, ShutdownReturns, CloseEngine
  <2>2. CASE Release(p)
    <3>1. Idle(p)
      BY <2>2, JobsCounted DEF Release
    <3> QED
      BY <2>2, <3>1 DEF TypeOK, Ordered, engineVars, Release
  <2>3. CASE Exit(p)
    BY <2>3 DEF TypeOK, Ordered, Exit, Gone
  <2> QED
    BY <1>2, <2>1, <2>2, <2>3 DEF Main
<1>3. ASSUME NEW p \in Instances, Recovery(p)
      PROVE  Ordered'
  <2>1. CASE Recover(p)
    BY <2>1, ReconciledType DEF TypeOK, Ordered, Recover
  <2>2. CASE Tick(p)
    BY <2>2 DEF TypeOK, Ordered, Tick
  <2> QED
    BY <1>3, <2>1, <2>2 DEF Recovery
<1>4. ASSUME NEW p \in Instances, Reconcile(p)
      PROVE  Ordered'
  BY <1>4, ReconciledType DEF TypeOK, Ordered, Reconcile
<1>5. ASSUME NEW p \in Instances, RunnerReturns(p)
      PROVE  Ordered'
  BY <1>5, WokenType DEF TypeOK, Ordered, RunnerReturns
<1>6. ASSUME NEW p \in Instances, Serve(p)
      PROVE  Ordered'
  <2>1. CASE CommitTx(p)
    BY <2>1 DEF TypeOK, Ordered, engineVars, CommitTx
  <2>2. CASE Wake(p)
    <3>1. phase[p] \in {"down", "waiting", "released"} => reconciles'[p] = reconciles[p]
      BY <2>2, WokenType DEF Ordered, Wake, MaySpawn
    <3> QED
      BY <2>2, <3>1, WokenType DEF TypeOK, Ordered, Wake
  <2> QED
    BY <1>6, <2>1, <2>2 DEF Serve
<1>7. ASSUME NEW p \in Instances, Start(p)
      PROVE  Ordered'
  BY <1>7 DEF TypeOK, Ordered, Start
<1>8. ASSUME NEW p \in Instances, Accept(p) \/ BeginTx(p)
      PROVE  Ordered'
  BY <1>8 DEF TypeOK, Ordered, engineVars, Accept, BeginTx
<1>9. ASSUME NEW p \in Instances, Disturbance(p)
      PROVE  Ordered'
  <2>1. CASE Signal(p)
    BY <2>1 DEF TypeOK, Ordered, engineVars, Signal
  <2>2. CASE LoseSession(p)
    BY <2>2 DEF TypeOK, Ordered, engineVars, LoseSession
  <2>3. CASE Crash(p)
    BY <2>3 DEF TypeOK, Ordered, Crash, Gone
  <2> QED
    BY <1>9, <2>1, <2>2, <2>3 DEF Disturbance
<1> QED
  BY <1>1, <1>2, <1>3, <1>4, <1>5, <1>6, <1>7, <1>8, <1>9 DEF Next

\* The invariant holds at the start, when no process runs.
LEMMA LockedInit ==
    ASSUME Init
    PROVE  Locked
BY ProcessAssumption
   DEF Init, Locked, TypeOK, OneHolder, Ordered, Idle, Phases, Steps, NoRequests, Limits

\* The invariant is inductive.
LEMMA LockedStep ==
    ASSUME Locked, [Next]_vars
    PROVE  Locked'
BY ProcessTypeStep, OneHolderStep, OrderedStep DEF Locked

\* The invariant says what the lock is for.
LEMMA LockedImplies ==
    ASSUME Locked
    PROVE  EngineUnderLock
<1>1. Cardinality(Holder) <= 1
  <2>1. CASE Holder = {}
    BY <2>1, FS_EmptySet
  <2>2. CASE Holder # {}
    <3>1. PICK p \in Holder : TRUE
      BY <2>2
    <3>2. Holder = {p}
      BY <3>1 DEF Locked, OneHolder, Holder
    <3>3. Cardinality({p}) = 1
      BY FS_Singleton
    <3> QED
      BY <3>2, <3>3
  <2> QED
    BY <2>1, <2>2
<1>2. ASSUME NEW p \in Instances, Jobs(p) > 0
      PROVE  session[p] \in {"held", "lost"}
  <2>1. ~Idle(p)
    BY <1>2, JobsCounted DEF Locked
  <2> QED
    BY <2>1 DEF Locked, Ordered
<1> QED
  BY <1>1, <1>2 DEF Locked, EngineUnderLock

\* No goroutine of q joins the others.
FewerOf(q) ==
    /\ reconciles'[q] <= reconciles[q]
    /\ running'[q] => running[q]
    /\ loop[q] = "off" => loop'[q] = "off"

\* While Close waits and after it, no step of any process adds a goroutine.
LEMMA FewerStep ==
    ASSUME Locked, Next, NEW q \in Instances, phase[q] \in {"waiting", "released"}
    PROVE  FewerOf(q)
<1> USE DEF Locked, TypeOK, FewerOf
<1>1. cancelled[q]
  BY DEF Ordered
<1>2. CASE UNCHANGED <<reconciles, running, loop>>
  BY <1>2
<1>3. ASSUME NEW p \in Instances, Gone(p)
      PROVE  FewerOf(q)
  BY <1>3 DEF Gone
<1>4. ASSUME NEW p \in Instances, Recovery(p)
      PROVE  FewerOf(q)
  BY <1>1, <1>4, ReconciledType DEF Recovery, Recover, Tick
<1>5. ASSUME NEW p \in Instances, Reconcile(p)
      PROVE  FewerOf(q)
  BY <1>1, <1>5, ReconciledType DEF Reconcile
<1>6. ASSUME NEW p \in Instances, RunnerReturns(p) \/ Wake(p)
      PROVE  FewerOf(q)
  BY <1>1, <1>6, WokenType DEF RunnerReturns, Wake, MaySpawn
<1>7. ASSUME NEW p \in Instances, Start(p)
      PROVE  FewerOf(q)
  BY <1>7 DEF Start
<1> QED
  BY <1>2, <1>3, <1>4, <1>5, <1>6, <1>7
     DEF Next, engineVars, Main, Watchdog, Drain, ShutdownReturns, CloseEngine, Release, Exit,
         Serve, CommitTx, Accept, BeginTx, Disturbance, Signal, LoseSession, Crash

\* What wg counts then does not grow.
LEMMA FewerJobsStep ==
    ASSUME Locked, [Next]_vars, NEW q \in Instances, phase[q] \in {"waiting", "released"}
    PROVE  Jobs(q)' <= Jobs(q)
<1>1. /\ reconciles[q] \in Nat /\ reconciles'[q] \in Nat
      /\ running[q] \in BOOLEAN /\ running'[q] \in BOOLEAN
  BY ProcessTypeStep DEF Locked, TypeOK
<1>2. CASE Next
  BY <1>1, <1>2, FewerStep DEF Jobs, FewerOf
<1>3. CASE UNCHANGED vars
  BY <1>1, <1>3 DEF Jobs, vars, engineVars
<1> QED
  BY <1>2, <1>3

(***************************************************************************)
(* The theorems.                                                           *)
(***************************************************************************)

\* However many processes start, lose their session, crash and stop, one session has
\* the lock, and an orchestrator works only from AcquireInstance until run() gives
\* the lock back, or until the process ends after PostgreSQL took it away.
THEOREM EngineIsUnderLock == Spec => []EngineUnderLock
<1>1. Init => Locked
  BY LockedInit
<1>2. Locked /\ [Next]_vars => Locked'
  BY LockedStep
<1>3. Locked => EngineUnderLock
  BY LockedImplies
<1> QED
  BY <1>1, <1>2, <1>3, PTL DEF Spec

\* The goroutines that Close waits for only become fewer: neither a runner's last
\* Wake, nor a Reconcile that is under way, nor a late request adds one.
THEOREM CloseIsFinal == Spec => OnlyFewerJobs
<1>1. Init => Locked
  BY LockedInit
<1>2. Locked /\ [Next]_vars => Locked'
  BY LockedStep
<1>3. Locked /\ [Next]_vars =>
        [\A p \in Instances : phase[p] \in {"waiting", "released"} => Jobs(p)' <= Jobs(p)]_vars
  BY FewerJobsStep
<1> QED
  BY <1>1, <1>2, <1>3, PTL DEF Spec, OnlyFewerJobs
=============================================================================
