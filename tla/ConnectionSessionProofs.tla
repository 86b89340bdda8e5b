------------------------ MODULE ConnectionSessionProofs ------------------------
(***************************************************************************)
(* ConnectionSession for every set of collectors, one-shots and pools, and *)
(* every Queries, PoolMax and Threshold: the inductive invariant IInv and  *)
(* what follows from it.                                                   *)
(*                                                                         *)
(* IInv = TypeOK /\ OwnersInv /\ TasksInv /\ HandleInv /\ ThinInv.  One    *)
(* lemma per action shows that the action keeps IInv; a large action has   *)
(* one step per conjunct.                                                  *)
(***************************************************************************)
EXTENDS ConnectionSession, TLAPS

\* All lemmas are about IInv: its parts are visible throughout.
USE PoolAssumption, SchedulerAssumption, SessionAssumption
    DEF IInv, TypeOK, PoolTypeOK, SchedTypeOK, AtWork, OwnersInv, TasksInv, HandleInv,
        ThinInv, Idle, Ended, Worker, Query, Op, Phase

-----------------------------------------------------------------------------
(* connect() *)

(* A session nobody has connected satisfies the inductive invariant. *)
LEMMA InitIInv == Init => IInv
<1> SUFFICES ASSUME Init PROVE IInv
  OBVIOUS
<1> USE DEF Init, PoolInit, SchedInit
<1>1. TypeOK
  <2>1. PoolTypeOK
    OBVIOUS
  <2>2. 0 \in 0..Queries /\ 0 \in 0..Threshold
    OBVIOUS
  <2>3. SchedTypeOK
    BY <2>2
  <2>4. helper \in [{"adv", "demo"} -> {"none", "run", "done"}]
    OBVIOUS
  <2> QED
    BY <2>1, <2>2, <2>3, <2>4
<1>2. OwnersInv /\ TasksInv /\ HandleInv /\ ThinInv
  OBVIOUS
<1> QED
  BY <1>1, <1>2

(* connect() is called: demo, a pool asked for, or an error at once. *)
LEMMA ConnectKeeps == ASSUME IInv, Connect PROVE IInv'
<1> USE DEF Connect, ConnectBegin, ConnectRaisesAtOnce, Fresh, Users, poolVars,
            schedVars
<1>1. query' \in [Task -> Query] /\ op' \in [Task -> Op]
  OBVIOUS
<1>2. TypeOK'
  <2>1. PoolTypeOK'
    <3>1. mode' = mode /\ db' = db /\ stray' = stray
      OBVIOUS
    <3>2. handle' \in PoolId \cup {NoPool} /\ open' \subseteq PoolId
      OBVIOUS
    <3> QED
      BY <1>1, <3>1, <3>2
  <2>2. SchedTypeOK'
    OBVIOUS
  <2>3. phase' \in Phase /\ connected' \in BOOLEAN
    OBVIOUS
  <2>4. UNCHANGED <<healthy, failures, health>>
    OBVIOUS
  <2>5. helper' \in [{"adv", "demo"} -> {"none", "run", "done"}]
    OBVIOUS
  <2> QED
    BY <2>1, <2>2, <2>3, <2>4, <2>5
<1>3. OwnersInv'
  OBVIOUS
<1>4. TasksInv'
  OBVIOUS
<1>5. HandleInv'
  OBVIOUS
<1>6. ThinInv'
  OBVIOUS
<1> QED
  BY <1>2, <1>3, <1>4, <1>5, <1>6

(* create_pool answers inside connect(). *)
LEMMA PoolCreatedKeeps == ASSUME IInv, PoolCreated PROVE IInv'
<1> USE DEF PoolCreated, ThickCreated, Fresh, Users, sessionVars, schedVars
<1>1. TypeOK'
  OBVIOUS
<1>2. OwnersInv' /\ TasksInv' /\ ThinInv'
  OBVIOUS
<1>3. HandleInv'
  OBVIOUS
<1> QED
  BY <1>1, <1>2, <1>3

(* connect() ends: the session is healthy and its tasks are created. *)
LEMMA ConnectDoneKeeps == ASSUME IInv, ConnectDone PROVE IInv'
  BY DEF ConnectDone, ConnectReturns, Rows, Release

(* connect() raises and leaves no pool behind. *)
LEMMA ConnectFailedKeeps == ASSUME IInv, ConnectFailed PROVE IInv'
<1> USE DEF ConnectFailed, ConnectRaises, Fails, CanFail, Release, schedVars
<1>1. TypeOK'
  OBVIOUS
<1>2. OwnersInv' /\ TasksInv' /\ ThinInv'
  OBVIOUS
<1>3. HandleInv'
  OBVIOUS
<1> QED
  BY <1>1, <1>2, <1>3

-----------------------------------------------------------------------------
(* The scheduler *)

(* The scheduler task takes its first step. *)
LEMMA RunStartsKeeps == ASSUME IInv, RunStarts, UNCHANGED sessionVars PROVE IInv'
  BY DEF RunStarts, StartPasses, poolVars, sessionVars

(* The priority collectors are primed and the rest get their pass. *)
LEMMA PrimeRestKeeps == ASSUME IInv, PrimeRest, UNCHANGED sessionVars PROVE IInv'
  BY DEF PrimeRest, StartPasses, poolVars, sessionVars

(* Priming ends and one loop per collector is created. *)
LEMMA EnterSteadyKeeps ==
  ASSUME IInv, EnterSteady, UNCHANGED sessionVars PROVE IInv'
  BY DEF EnterSteady, poolVars, sessionVars

(* run() returns once its loops have ended. *)
LEMMA RunReturnsKeeps == ASSUME IInv, RunReturns, UNCHANGED sessionVars PROVE IInv'
  BY DEF RunReturns, poolVars, sessionVars

(* Cancellation reaches run(). *)
LEMMA RunCancelledKeeps ==
  ASSUME IInv, RunCancelled, UNCHANGED sessionVars PROVE IInv'
  BY DEF RunCancelled, poolVars, sessionVars

(* Every step of run(), by the four lemmas above it. *)
LEMMA SchedStepKeeps == ASSUME IInv, SchedStep PROVE IInv'
  BY RunStartsKeeps, PrimeRestKeeps, EnterSteadyKeeps, RunReturnsKeeps,
     RunCancelledKeeps, Zenon DEF SchedStep

(* A collector acquires the pool for its next query. *)
LEMMA NextQueryKeeps ==
  ASSUME IInv, NEW w \in Worker, NextQuery(w), UNCHANGED sessionVars
  PROVE  IInv'
  BY DEF NextQuery, Acquire, AcquireRaises, EndPass, AfterPass, sessionVars

(* A collector resumes with the answer of its query. *)
LEMMA AnswerKeeps ==
  ASSUME IInv, NEW w \in Worker, Answer(w), UNCHANGED sessionVars
  PROVE  IInv'
  BY DEF Answer, Rows, Fails, CanFail, Release, EndPass, AfterPass, sessionVars

(* A collector loop wakes from its sleep. *)
LEMMA WakeKeeps ==
  ASSUME IInv, NEW c \in Collector, Wake(c), UNCHANGED sessionVars
  PROVE  IInv'
  BY DEF Wake, StartPasses, poolVars, sessionVars

(* Cancellation reaches a collector. *)
LEMMA CollectorCancelledKeeps ==
  ASSUME IInv, NEW c \in Collector, CollectorCancelled(c), UNCHANGED sessionVars
  PROVE  IInv'
  BY DEF CollectorCancelled, Abandon, sessionVars

(* A panel asks for one collection out of turn. *)
LEMMA CollectNowKeeps ==
  ASSUME IInv, NEW shots \in SUBSET Shot, CollectNow(shots), UNCHANGED sessionVars
  PROVE  IInv'
  BY DEF CollectNow, StartPasses, poolVars, sessionVars

(* A panel worker, which queries through the same session, takes a step. *)
LEMMA PanelWorkerKeeps ==
  ASSUME IInv, NEW s \in Shot, PanelWorker(s) PROVE IInv'
  BY DEF PanelWorker, StartPasses, poolVars, sessionVars

-----------------------------------------------------------------------------
(* The health check *)

(* The health loop starts its probe. *)
LEMMA ProbeBeginsKeeps == ASSUME IInv, ProbeBegins PROVE IInv'
  BY DEF ProbeBegins, Acquire, AcquireRaises, schedVars

(* The probe answers in time. *)
LEMMA ProbeSucceedsKeeps == ASSUME IInv, ProbeSucceeds PROVE IInv'
  BY DEF ProbeSucceeds, Rows, Release, schedVars

(* The probe fails: it is counted, and past the threshold a reconnection starts. *)
LEMMA ProbeFailsKeeps == ASSUME IInv, ProbeFails PROVE IInv'
<1> USE DEF ProbeFails, ReconnectBegins, AcquireRaises, CloseNothing,
            ConnectBegin, ConnectRaisesAtOnce, CloseBegin, CloseRefused,
            CanFail, Release, Fresh, Users, schedVars
<1>1. PoolTypeOK'
  OBVIOUS
<1>2. TypeOK'
  BY <1>1
<1>3. OwnersInv'
  OBVIOUS
<1>4. TasksInv'
  OBVIOUS
<1>5. HandleInv'
  OBVIOUS
<1>6. ThinInv'
  OBVIOUS
<1> QED
  BY <1>2, <1>3, <1>4, <1>5, <1>6

(* The old pool is closed and the reconnection goes on with connect(). *)
LEMMA HealthPoolClosedKeeps == ASSUME IInv, HealthPoolClosed PROVE IInv'
<1> USE DEF HealthPoolClosed, ConnectBegin, CloseEnd, ConnectRaisesAtOnce, Fresh,
            Users, schedVars
<1>1. TypeOK'
  OBVIOUS
<1>2. OwnersInv'
  OBVIOUS
<1>3. TasksInv'
  OBVIOUS
<1>4. HandleInv'
  OBVIOUS
<1>5. ThinInv'
  OBVIOUS
<1> QED
  BY <1>1, <1>2, <1>3, <1>4, <1>5

(* create_pool answers inside the health loop. *)
LEMMA HealthPoolCreatedKeeps == ASSUME IInv, HealthPoolCreated PROVE IInv'
  BY DEF HealthPoolCreated, ThickCreated, Fresh, Users, schedVars, sessionVars

(* The health loop ends a reconnection that worked. *)
LEMMA ReconnectedKeeps == ASSUME IInv, Reconnected PROVE IInv'
  BY DEF Reconnected, ConnectReturns, Rows, Release, schedVars

(* The health loop ends a reconnection that failed. *)
LEMMA ReconnectFailsKeeps == ASSUME IInv, ReconnectFails PROVE IInv'
  BY DEF ReconnectFails, ConnectRaises, Fails, CanFail, Release, schedVars

(* Cancellation reaches the health loop. *)
LEMMA HealthCancelledKeeps == ASSUME IInv, HealthCancelled PROVE IInv'
<1> USE DEF HealthCancelled, Abandon
<1>1. TypeOK'
  OBVIOUS
<1>2. OwnersInv' /\ TasksInv' /\ ThinInv'
  OBVIOUS
<1>3. HandleInv'
  <2>1. query'["ui"] = query["ui"] /\ op'["ui"] = op["ui"]
    OBVIOUS
  <2>2. \A t \in Task : op'[t] = "closing" => op[t] = "closing"
    OBVIOUS
  <2>3. health' = "done" /\ mode # "demo"
    OBVIOUS
  <2>4. UNCHANGED <<mode, handle, open, phase, connected, healthy, failures>>
    OBVIOUS
  <2> HIDE DEF HealthCancelled
  <2> QED
    BY <2>1, <2>2, <2>3, <2>4
<1> QED
  BY <1>1, <1>2, <1>3

(* Every step of the health loop, by the lemmas above it. *)
LEMMA HealthStepKeeps == ASSUME IInv, HealthStep PROVE IInv'
  BY ProbeBeginsKeeps, ProbeSucceedsKeeps, ProbeFailsKeeps,
     HealthPoolClosedKeeps, HealthPoolCreatedKeeps, ReconnectedKeeps,
     ReconnectFailsKeeps, HealthCancelledKeeps, Zenon DEF HealthStep

-----------------------------------------------------------------------------
(* close() *)

(* close() begins. *)
LEMMA CloseKeeps == ASSUME IInv, Close PROVE IInv'
<1> USE DEF Close, poolVars
<1>1. StopTasks \subseteq Collector
  BY DEF StopTasks
<1>2. SessionTasks \subseteq Collector \cup {"sched", "adv", "health", "demo"}
  BY DEF SessionTasks, RunTasks
<1>3. TypeOK'
  <2>1. SchedTypeOK'
    BY <1>1, <1>2
  <2>2. PoolTypeOK'
    OBVIOUS
  <2> QED
    BY <2>1, <2>2
<1>4. TasksInv'
  <2>1. "health" \in cancelled' => health \notin {"none", "done"}
    BY <1>1 DEF SessionTasks, RunTasks
  <2>2. sched \in {"created", "prime1", "prime2"} => "sched" \in cancelled'
    BY DEF StopTasks, SessionTasks, RunTasks
  <2>3. UNCHANGED <<sched, pc, left, health, helper, connected, healthy>>
    OBVIOUS
  <2>4. phase' \in {"stopping", "joining"} /\ ~running'
    OBVIOUS
  <2> HIDE DEF Close
  <2> QED
    BY <2>1, <2>2, <2>3, <2>4
<1>5. OwnersInv' /\ HandleInv' /\ ThinInv'
  OBVIOUS
<1> QED
  BY <1>3, <1>4, <1>5

(* stop() has returned and close() cancels the session's tasks. *)
LEMMA StoppedKeeps == ASSUME IInv, Stopped PROVE IInv'
  BY DEF Stopped, SessionTasks, RunTasks, poolVars

(* The gathered tasks have ended and close() turns to the pool. *)
LEMMA JoinedKeeps == ASSUME IInv, Joined PROVE IInv'
<1> USE DEF Joined, ClosePool, CloseNothing, CloseBegin, poolVars, schedVars
<1>1. TypeOK'
  <2>1. open' \subseteq PoolId /\ op' \in [Task -> Op]
    OBVIOUS
  <2>2. phase' \in Phase /\ connected' \in BOOLEAN
    OBVIOUS
  <2>3. UNCHANGED <<mode, db, handle, query, stray, schedVars>>
    OBVIOUS
  <2>4. UNCHANGED <<healthy, failures, health, helper>>
    OBVIOUS
  <2> HIDE DEF Joined
  <2>5. PoolTypeOK' /\ SchedTypeOK'
    BY <2>1, <2>3
  <2> QED
    BY <2>2, <2>4, <2>5
<1>2. OwnersInv'
  OBVIOUS
<1>3. TasksInv'
  OBVIOUS
<1>4. HandleInv'
  OBVIOUS
<1>5. ThinInv'
  BY DEF CloseRefused, Users
<1> QED
  BY <1>1, <1>2, <1>3, <1>4, <1>5

(* close() has closed the pool. *)
LEMMA PoolClosedKeeps == ASSUME IInv, PoolClosed PROVE IInv'
<1> USE DEF PoolClosed, CloseEnd, schedVars
<1>1. TypeOK'
  OBVIOUS
<1>2. OwnersInv' /\ TasksInv' /\ ThinInv'
  OBVIOUS
<1>3. HandleInv'
  OBVIOUS
<1> QED
  BY <1>1, <1>2, <1>3

(* A task that never queries ends. *)
LEMMA HelperCancelledKeeps ==
  ASSUME IInv, NEW h \in {"adv", "demo"}, HelperCancelled(h) PROVE IInv'
  BY DEF HelperCancelled, poolVars

-----------------------------------------------------------------------------
(* The driver and the database *)

(* A driver thread that outlived its task ends. *)
LEMMA ThreadEndsKeeps == ASSUME IInv, NEW t \in Task, ThreadEnds(t) PROVE IInv'
  BY DEF ThreadEnds, Rows, Fails, CanFail, Release, schedVars, sessionVars

(* The driver grants a task the connection it waits for. *)
LEMMA DriverGrantsKeeps == ASSUME IInv, NEW t \in Task, DriverGrants(t) PROVE IInv'
  BY DEF DriverGrants, Granted, schedVars, sessionVars

(* The database goes away or comes back; a stray thread ends. *)
LEMMA EnvironmentKeeps == ASSUME IInv, Environment PROVE IInv'
<1>1. CASE DbChanges
  BY <1>1 DEF Environment, DbChanges, schedVars, sessionVars
<1>2. CASE StrayEnds
  <2> USE <1>2 DEF Environment, StrayEnds, schedVars, sessionVars
  <2>1. open' \subseteq PoolId /\ open \subseteq open'
    BY DEF Fresh
  <2>2. handle \in open' => handle \in open
    BY DEF Fresh
  <2>3. mode # "thin"
    OBVIOUS
  <2>4. UNCHANGED <<mode, db, handle, query, op, schedVars, sessionVars>>
    OBVIOUS
  <2> HIDE <1>2 DEF Environment, StrayEnds
  <2>5. TypeOK'
    <3>1. stray' \in BOOLEAN
      BY <1>2 DEF StrayEnds
    <3>2. PoolTypeOK' /\ SchedTypeOK'
      BY <2>1, <2>4, <3>1
    <3> QED
      BY <2>4, <3>2
  <2>6. OwnersInv' /\ TasksInv' /\ ThinInv'
    BY <2>3, <2>4
  <2>7. HandleInv'
    BY <2>1, <2>2, <2>4
  <2> QED
    BY <2>5, <2>6, <2>7
<1> QED
  BY <1>1, <1>2 DEF Environment

-----------------------------------------------------------------------------
(* The inductive invariant *)

(* The inductive step: every action, by its own lemma, and stuttering. *)
LEMMA StepKeepsIInv == ASSUME IInv, [Next]_vars PROVE IInv'
<1> HIDE DEF IInv
<1>1. CASE UNCHANGED vars
  BY <1>1 DEF IInv, vars, poolVars, schedVars, sessionVars
<1>2. CASE Connect \/ Close \/ ConnectStep \/ CloseStep
  BY <1>2, ConnectKeeps, CloseKeeps, PoolCreatedKeeps, ConnectDoneKeeps,
     ConnectFailedKeeps, StoppedKeeps, JoinedKeeps, PoolClosedKeeps, Zenon
     DEF ConnectStep, CloseStep
<1>3. CASE SchedStep \/ HealthStep \/ Environment
  BY <1>3, SchedStepKeeps, HealthStepKeeps, EnvironmentKeeps, Zenon
<1>4. ASSUME NEW w \in Worker, WorkerStep(w) PROVE IInv'
  BY <1>4, NextQueryKeeps, AnswerKeeps, Zenon DEF WorkerStep
<1>5. ASSUME NEW c \in Collector, CollectorStep(c) PROVE IInv'
  BY <1>5, WakeKeeps, CollectorCancelledKeeps, Zenon DEF CollectorStep
<1>6. ASSUME NEW shots \in SUBSET Shot, CollectNow(shots), UNCHANGED sessionVars
      PROVE  IInv'
  BY <1>6, CollectNowKeeps, Zenon
<1>7. ASSUME NEW t \in Task, DriverGrants(t) \/ ThreadEnds(t) PROVE IInv'
  BY <1>7, DriverGrantsKeeps, ThreadEndsKeeps, Zenon
<1> QED
  BY <1>1, <1>2, <1>3, <1>4, <1>5, <1>6, <1>7, HelperCancelledKeeps,
     PanelWorkerKeeps, Zenon DEF Next

HIDE DEF IInv, TypeOK, PoolTypeOK, SchedTypeOK, AtWork, OwnersInv, TasksInv, HandleInv,
         ThinInv, Idle, Ended, Worker, Query, Op, Phase

\* IInv holds in every reachable state.
THEOREM InductiveInvariant == Spec => []IInv
<1>1. IInv /\ [Next]_vars => IInv'
  BY StepKeepsIInv, Zenon
<1> QED
  BY InitIInv, <1>1, PTL DEF Spec

-----------------------------------------------------------------------------
(* What follows *)

\* Every variable has its type.
THEOREM TypeCorrect == Spec => []TypeOK
<1>1. IInv => TypeOK
  BY DEF IInv
<1> QED
  BY <1>1, InductiveInvariant, PTL

\* connect() and close() of one session never overlap.
THEOREM LifecycleIsSerialised == Spec => []LifecycleSerialised
<1>1. IInv => LifecycleSerialised
  <2> SUFFICES ASSUME IInv, op["ui"] # "none", op["health"] # "none" PROVE FALSE
    BY DEF LifecycleSerialised
  <2>1. phase \in {"connecting", "poolclosing"}
    BY DEF IInv, TypeOK, PoolTypeOK, OwnersInv, Op
  <2>2. health \in {"connecting", "closing"}
    BY DEF IInv, TypeOK, PoolTypeOK, OwnersInv, Op
  <2> QED
    BY <2>1, <2>2 DEF IInv, TasksInv, Ended
<1> QED
  BY <1>1, InductiveInvariant, PTL

\* Thin: every open pool is the one the handle names.
THEOREM PoolsAreNotLeaked == Spec => []NoLeakedPool
<1>1. IInv => NoLeakedPool
  BY DEF IInv, ThinInv, NoLeakedPool
<1> QED
  BY <1>1, InductiveInvariant, PTL

\* Thin: no query ever loses its pool.
THEOREM QueriesKeepTheirPool == Spec => []QueriesOnLivePool
<1>1. IInv => QueriesOnLivePool
  BY DEF IInv, ThinInv, QueriesOnLivePool
<1> QED
  BY <1>1, InductiveInvariant, PTL

\* A session without a warning sign has an open pool.
THEOREM HealthyIsUsable == Spec => []HealthyMeansUsable
<1>1. IInv => HealthyMeansUsable
  BY DEF IInv, HandleInv, HealthyMeansUsable
<1> QED
  BY <1>1, InductiveInvariant, PTL

\* A closed session is quiet.
THEOREM ClosedIsQuiet == Spec => []ClosedMeansQuiet
<1>1. IInv => ClosedMeansQuiet
  BY DEF ClosedMeansQuiet, IInv, TypeOK, PoolTypeOK, TasksInv, HandleInv, ThinInv
<1> QED
  BY <1>1, InductiveInvariant, PTL

\* After close() was called no pass begins: run() is cancelled or past its
\* priming, and _running is off, so no loop collects and collect_now() creates
\* no one-shot.
THEOREM NoPassStartsLate == Spec => NoPassAfterClose
<1> DEFINE Late ==
      \A w \in Worker :
        /\ phase \in {"stopping", "joining", "poolclosing", "closed"}
        /\ pc'[w] = "collect"
        => pc[w] = "collect"
<1>1. IInv /\ [Next]_vars => Late
  <2> SUFFICES ASSUME IInv, [Next]_vars, NEW w \in Worker,
                      phase \in {"stopping", "joining", "poolclosing", "closed"},
                      pc'[w] = "collect"
               PROVE  pc[w] = "collect"
    BY Zenon
  <2> USE DEF IInv, TypeOK, SchedTypeOK, TasksInv, Worker
  <2>1. CASE UNCHANGED vars
    BY <2>1 DEF vars, schedVars
  <2>2. CASE Connect \/ ConnectStep \/ Close
    BY <2>2 DEF Connect, ConnectStep, PoolCreated, ConnectDone, ConnectFailed,
                Close, schedVars
  <2>3. CASE SchedStep
    BY <2>3 DEF SchedStep, RunStarts, PrimeRest, EnterSteady, RunReturns,
                RunCancelled, StartPasses
  <2>4. ASSUME NEW v \in Worker, WorkerStep(v) PROVE pc[w] = "collect"
    BY <2>4 DEF WorkerStep, NextQuery, Answer, AtWork, EndPass, AfterPass
  <2>5. ASSUME NEW d \in Collector, CollectorStep(d) PROVE pc[w] = "collect"
    BY <2>5 DEF CollectorStep, Wake, CollectorCancelled, StartPasses
  <2>6. ASSUME NEW shots \in SUBSET Shot, CollectNow(shots)
        PROVE  pc[w] = "collect"
    BY <2>6 DEF CollectNow, StartPasses
  <2>7. ASSUME NEW s \in Shot, PanelWorker(s) PROVE pc[w] = "collect"
    BY <2>7 DEF PanelWorker, StartPasses
  <2>8. CASE CloseStep \/ HealthStep \/ Environment
             \/ \E h \in {"adv", "demo"} : HelperCancelled(h)
             \/ \E t \in Task : DriverGrants(t) \/ ThreadEnds(t)
    BY <2>8 DEF CloseStep, Stopped, Joined, PoolClosed, HealthStep, ProbeBegins,
                ProbeSucceeds, ProbeFails, HealthPoolClosed, HealthPoolCreated,
                Reconnected, ReconnectFails, HealthCancelled, Environment,
                HelperCancelled, DriverGrants, ThreadEnds, schedVars
  <2> QED
    BY <2>1, <2>2, <2>3, <2>4, <2>5, <2>6, <2>7, <2>8, Zenon
       DEF Next
<1> QED
  BY <1>1, InductiveInvariant, PTL DEF Spec, NoPassAfterClose

\* Until close() has joined the health check, a pool is taken away only by a
\* reconnect, and only from an unhealthy session.
THEOREM PoolLossesAreEarned == Spec => PoolLossIsEarned
<1> DEFINE Earned ==
      open \ open' # {} /\ phase \in {"up", "stopping"}
        => failures' = Threshold /\ ~healthy'
<1>1. IInv /\ [Next]_vars => Earned
  <2> SUFFICES ASSUME IInv, [Next]_vars,
                      open \ open' # {}, phase \in {"up", "stopping"}
               PROVE  failures' = Threshold /\ ~healthy'
    BY Zenon
  <2>1. CASE ProbeFails
    <3>1. ~healthy'
      BY <2>1 DEF ProbeFails
    <3> QED
      BY <2>1, <3>1, ProbeFailsKeeps DEF IInv, HandleInv
  <2>2. CASE Connect \/ ConnectStep \/ Close \/ CloseStep \/ Environment
    BY <2>2 DEF Connect, ConnectStep, PoolCreated, ConnectDone, ConnectFailed,
                Close, CloseStep, Stopped, Joined, PoolClosed, ConnectBegin,
                ThickCreated, ConnectReturns, ConnectRaises, CloseEnd,
                Environment, DbChanges, StrayEnds, poolVars
  <2>3. CASE HealthStep /\ ~ProbeFails
    BY <2>3 DEF HealthStep, ProbeBegins, ProbeSucceeds, HealthPoolClosed,
                HealthPoolCreated, Reconnected, ReconnectFails, HealthCancelled,
                ConnectBegin, ThickCreated, ConnectReturns, ConnectRaises,
                CloseEnd, Abandon
  <2>4. CASE open' = open
    BY <2>4
  <2>5. SchedStep => open' = open
    BY DEF SchedStep, RunStarts, PrimeRest, EnterSteady, RunReturns,
           RunCancelled, poolVars
  <2>6. ASSUME NEW w \in Worker, WorkerStep(w) PROVE open' = open
    BY <2>6 DEF WorkerStep, NextQuery, Answer
  <2>7. ASSUME NEW d \in Collector, CollectorStep(d) PROVE open' = open
    BY <2>7 DEF CollectorStep, Wake, CollectorCancelled, Abandon, poolVars
  <2>8. ASSUME NEW t \in Task, DriverGrants(t) \/ ThreadEnds(t)
        PROVE  open' = open
    BY <2>8 DEF DriverGrants, Granted, ThreadEnds
  <2>9. ASSUME NEW h \in {"adv", "demo"}, HelperCancelled(h) PROVE open' = open
    BY <2>9 DEF HelperCancelled, poolVars
  <2>10. ASSUME NEW shots \in SUBSET Shot, CollectNow(shots) PROVE open' = open
    BY <2>10 DEF CollectNow, poolVars
  <2>11. ASSUME NEW s \in Shot, PanelWorker(s) PROVE open' = open
    BY <2>11 DEF PanelWorker, poolVars
  <2>12. UNCHANGED vars => open' = open
    BY DEF vars, poolVars
  <2> QED
    BY <2>1, <2>2, <2>3, <2>4, <2>5, <2>6, <2>7, <2>8, <2>9, <2>10, <2>11,
       <2>12, Zenon DEF Next
<1> QED
  BY <1>1, InductiveInvariant, PTL DEF Spec, PoolLossIsEarned

-----------------------------------------------------------------------------
(* The session keeps the promise of TabSession *)

(* The initial states of the session are initial states of TabSession. *)
LEMMA InitKeepsPromise == Init => Tab!Init
  BY DEF Init, PoolInit, Tab!Init, TabState

\* A step that leaves phase, healthy, mode, handle and the open pool of the
\* handle alone is a stutter of the promise.
LEMMA PromiseStutters ==
  ASSUME UNCHANGED <<phase, healthy, mode>>,
         handle' \in open' <=> handle \in open
  PROVE  UNCHANGED Tab!vars
  BY DEF Tab!vars, TabState

(* connect()'s steps are steps or stutters of TabSession. *)
LEMMA ConnectKeepsPromise ==
  ASSUME IInv, Connect \/ ConnectDone \/ ConnectFailed PROVE Tab!Connect
<1> USE DEF IInv, TypeOK, PoolTypeOK, TasksInv, HandleInv, TabState, Tab!Connect
<1>1. CASE Connect
  BY <1>1 DEF Connect, ConnectBegin, ConnectRaisesAtOnce, Fresh, poolVars
<1>2. CASE ConnectDone
  <2>1. handle \in open
    BY <1>2 DEF ConnectDone, ConnectReturns, Rows, Idle
  <2> QED
    BY <1>2, <2>1 DEF ConnectDone, ConnectReturns
<1>3. CASE ConnectFailed
  BY <1>3 DEF ConnectFailed, ConnectRaises
<1> QED
  BY <1>1, <1>2, <1>3

\* The pool of a session that connects for the first time only appears.
LEMMA PoolCreatedKeepsPromise ==
  ASSUME IInv, PoolCreated PROVE Tab!Connect
  BY DEF IInv, OwnersInv, PoolCreated, ThickCreated, sessionVars, TabState,
         Tab!Connect

(* The health loop's steps are steps or stutters of TabSession. *)
LEMMA HealthKeepsPromise ==
  ASSUME IInv, IInv', HealthStep PROVE Tab!Health \/ UNCHANGED Tab!vars
<1>1. UNCHANGED <<phase, mode>>
  BY DEF HealthStep, ProbeBegins, ProbeSucceeds, ProbeFails, ReconnectBegins,
         HealthPoolClosed, HealthPoolCreated, Reconnected, ReconnectFails,
         HealthCancelled, ConnectBegin, ThickCreated, ConnectReturns,
         ConnectRaises, CloseBegin, CloseEnd, Abandon, sessionVars
<1>2. health \notin {"none", "done"}
  BY DEF IInv, TasksInv, OwnersInv, HealthStep, ProbeBegins, ProbeSucceeds,
         ProbeFails, HealthPoolClosed, HealthPoolCreated, ThickCreated,
         Reconnected, ReconnectFails, HealthCancelled
<1>3. phase \in {"up", "stopping", "joining"}
  BY <1>2 DEF IInv, TypeOK, Phase, TasksInv, Ended
<1>4. mode # "demo"
  BY <1>2 DEF IInv, HandleInv
<1>5. healthy' => handle' \in open'
  BY <1>1, <1>3, <1>4 DEF IInv, HandleInv
<1> QED
  BY <1>1, <1>3, <1>5 DEF Tab!Health, TabState

(* close()'s steps are steps or stutters of TabSession. *)
LEMMA CloseKeepsPromise ==
  ASSUME IInv, Close \/ Joined \/ PoolClosed PROVE Tab!Close
<1> USE DEF IInv, TypeOK, PoolTypeOK, OwnersInv, HandleInv, TabState, Tab!Close
<1>1. CASE Close
  BY <1>1 DEF Close, poolVars
<1>2. CASE Joined
  BY <1>2 DEF Joined, ClosePool, CloseNothing, CloseRefused, CloseBegin, poolVars
<1>3. CASE PoolClosed
  BY <1>3 DEF PoolClosed, CloseEnd
<1> QED
  BY <1>1, <1>2, <1>3

\* Whatever the panels, the scheduler, the driver and the database do.
LEMMA OthersKeepPromise ==
  ASSUME IInv,
         \/ Stopped \/ SchedStep \/ Environment
         \/ \E w \in Worker : WorkerStep(w)
         \/ \E c \in Collector : CollectorStep(c)
         \/ \E h \in {"adv", "demo"} : HelperCancelled(h)
         \/ \E shots \in SUBSET Shot : CollectNow(shots) /\ UNCHANGED sessionVars
         \/ \E s \in Shot : PanelWorker(s)
         \/ \E t \in Task : DriverGrants(t) \/ ThreadEnds(t)
  PROVE  UNCHANGED Tab!vars
<1>1. CASE Stopped
  BY <1>1 DEF Stopped, poolVars, Tab!vars, TabState
<1>2. CASE SchedStep
  BY <1>2, PromiseStutters
     DEF SchedStep, RunStarts, PrimeRest, EnterSteady, RunReturns, RunCancelled,
         poolVars, sessionVars
<1>3. CASE Environment
  BY <1>3, PromiseStutters
     DEF Environment, DbChanges, StrayEnds, Fresh, schedVars, sessionVars
<1>4. ASSUME NEW w \in Worker, WorkerStep(w) PROVE UNCHANGED Tab!vars
  BY <1>4, PromiseStutters DEF WorkerStep, NextQuery, Answer, sessionVars
<1>5. ASSUME NEW c \in Collector, CollectorStep(c) PROVE UNCHANGED Tab!vars
  BY <1>5, PromiseStutters
     DEF CollectorStep, Wake, CollectorCancelled, Abandon, poolVars, sessionVars
<1>6. ASSUME NEW h \in {"adv", "demo"}, HelperCancelled(h)
      PROVE  UNCHANGED Tab!vars
  BY <1>6, PromiseStutters DEF HelperCancelled, poolVars
<1>7. ASSUME NEW shots \in SUBSET Shot, CollectNow(shots), UNCHANGED sessionVars
      PROVE  UNCHANGED Tab!vars
  BY <1>7, PromiseStutters DEF CollectNow, poolVars, sessionVars
<1>8. ASSUME NEW s \in Shot, PanelWorker(s) PROVE UNCHANGED Tab!vars
  BY <1>8, PromiseStutters DEF PanelWorker, poolVars, sessionVars
<1>9. ASSUME NEW t \in Task, DriverGrants(t) \/ ThreadEnds(t)
      PROVE  UNCHANGED Tab!vars
  BY <1>9, PromiseStutters DEF DriverGrants, Granted, ThreadEnds, sessionVars
<1> QED
  BY <1>1, <1>2, <1>3, <1>4, <1>5, <1>6, <1>7, <1>8, <1>9, Zenon

\* ConnectionSession implements TabSession: every step of the session is a
\* step of the promise or leaves it alone.
THEOREM SessionKeepsPromise == Spec => KeepsPromise
<1>1. ASSUME IInv, IInv', [Next]_vars PROVE [Tab!Next]_(Tab!vars)
  <2>1. CASE UNCHANGED vars
    BY <2>1, <1>1, PromiseStutters DEF vars, poolVars, sessionVars
  <2>2. CASE Connect \/ ConnectStep
    <3>1. Tab!Connect
      BY <1>1, <2>2, ConnectKeepsPromise, PoolCreatedKeepsPromise, Zenon
         DEF ConnectStep
    <3> QED
      BY <3>1 DEF Tab!Next
  <2>3. CASE Close \/ Joined \/ PoolClosed
    <3>1. Tab!Close
      BY <1>1, <2>3, CloseKeepsPromise, Zenon
    <3> QED
      BY <3>1 DEF Tab!Next
  <2>4. CASE HealthStep
    BY <1>1, <2>4, HealthKeepsPromise DEF Tab!Next
  <2>5. CASE ~(Connect \/ ConnectStep \/ Close \/ Joined \/ PoolClosed
               \/ HealthStep \/ UNCHANGED vars)
    <3>1. UNCHANGED Tab!vars
      BY <1>1, <2>5, OthersKeepPromise, Zenon DEF Next, CloseStep
    <3> QED
      BY <3>1
  <2> QED
    BY <2>1, <2>2, <2>3, <2>4, <2>5, Zenon
<1> QED
  BY <1>1, InitKeepsPromise, InductiveInvariant, PTL DEF Spec, KeepsPromise, Tab!Spec
=============================================================================
