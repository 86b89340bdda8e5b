--------------------------- MODULE ConnectionSession ---------------------------
(***************************************************************************)
(* One connection tab's runtime (core/connection_session.py): connect(),   *)
(* the tasks it creates - scheduler, advisor, health check, or the demo    *)
(* runner -, the health check's reconnect, and close(), over the pool of   *)
(* ConnectionManager and the passes of Scheduler.                          *)
(***************************************************************************)
EXTENDS Scheduler

CONSTANT Threshold  \* _HEALTH_THRESHOLD

ASSUME SessionAssumption ==
  /\ Task = Worker \cup {"ui", "health"}
  /\ Worker \cap {"ui", "health", "sched", "adv", "demo"} = {}
  /\ Threshold \in Nat \ {0}

VARIABLES
  phase,      \* how far connect() and close() have come
  connected,  \* ConnectionSession.connected
  healthy,    \* ConnectionSession.is_healthy
  failures,   \* failures of _health_check_loop()
  health,     \* where the health check task is
  helper      \* the tasks that never query: the advisor and the demo runner

sessionVars == <<phase, connected, healthy, failures, health, helper>>

vars == <<poolVars, schedVars, sessionVars>>

Phase == {"new", "connecting", "failed", "up", "stopping", "joining",
          "poolclosing", "closed", "raised"}

TypeOK ==
  /\ PoolTypeOK
  /\ SchedTypeOK
  /\ phase \in Phase
  /\ connected \in BOOLEAN
  /\ healthy \in BOOLEAN
  /\ failures \in 0..Threshold
  /\ health \in {"none", "start", "probe", "closing", "connecting", "sleep", "done"}
  /\ helper \in [{"adv", "demo"} -> {"none", "run", "done"}]

Init ==
  /\ PoolInit
  /\ SchedInit
  /\ phase = "new"
  /\ connected = FALSE
  /\ healthy = TRUE
  /\ failures = 0
  /\ health = "none"
  /\ helper = [h \in {"adv", "demo"} |-> "none"]

-----------------------------------------------------------------------------
(* connect() *)

\* connect() is called: a demo session only starts its runner.
Connect ==
  /\ phase = "new"
  /\ \/ /\ mode = "demo"
        /\ phase' = "up"
        /\ connected' = TRUE
        /\ helper' = [helper EXCEPT !["demo"] = "run"]
        /\ UNCHANGED poolVars
     \/ /\ mode # "demo"
        /\ phase' = "connecting"
        /\ ConnectBegin("ui", handle)
        /\ UNCHANGED <<connected, helper>>
     \/ /\ mode # "demo"
        /\ ConnectRaisesAtOnce
        /\ phase' = "failed"
        /\ UNCHANGED <<connected, helper, poolVars>>
  /\ UNCHANGED <<healthy, failures, health, schedVars>>

PoolCreated ==
  /\ ThickCreated("ui")
  /\ UNCHANGED <<schedVars, sessionVars>>

\* The pool answers: the three tasks of the session are created.
ConnectDone ==
  /\ phase = "connecting"
  /\ ConnectReturns("ui")
  /\ phase' = "up"
  /\ connected' = TRUE
  /\ sched' = "created"
  /\ helper' = [helper EXCEPT !["adv"] = "run"]
  /\ health' = "start"
  /\ UNCHANGED <<healthy, failures, running, pc, left, cancelled>>

ConnectFailed ==
  /\ phase = "connecting"
  /\ ConnectRaises("ui")
  /\ phase' = "failed"
  /\ UNCHANGED <<connected, healthy, failures, health, helper, schedVars>>

-----------------------------------------------------------------------------
(* _health_check_loop() *)

HealthRuns == "health" \notin cancelled

\* Mutant: a reconnect does not close the old pool first.
ReconnectWithoutClose == ConnectBegin("health", handle) /\ health' = "connecting"

\* close() and connect() of a reconnect, up to their first await: connect()
\* follows at once when there is no pool to close, and what either raises is
\* logged.
ReconnectBegins ==
  \/ CloseNothing /\ ConnectBegin("health", handle) /\ health' = "connecting"
  \/ CloseBegin("health") /\ Release("health") /\ health' = "closing"
  \/ /\ CloseRefused("health") \/ (CloseNothing /\ ConnectRaisesAtOnce)
     /\ Release("health")
     /\ health' = "sleep"
     /\ UNCHANGED <<mode, db, handle, open, op, stray>>

\* The interval is over: the probe asks for a connection.
ProbeBegins ==
  /\ health \in {"start", "sleep"}
  /\ HealthRuns
  /\ Acquire("health")
  /\ health' = "probe"
  /\ UNCHANGED <<mode, db, handle, open, op, stray>>
  /\ UNCHANGED <<phase, connected, healthy, failures, helper, schedVars>>

\* Mutant: an answered probe does not take the warning sign off.
ProbeSucceedsUnseen ==
  /\ health = "probe"
  /\ HealthRuns
  /\ Rows("health")
  /\ failures' = 0
  /\ health' = "sleep"
  /\ UNCHANGED <<mode, db, handle, open, op, stray>>
  /\ UNCHANGED <<phase, connected, healthy, helper, schedVars>>

ProbeSucceeds ==
  /\ health = "probe"
  /\ HealthRuns
  /\ Rows("health")
  /\ healthy' = TRUE
  /\ failures' = 0
  /\ health' = "sleep"
  /\ UNCHANGED <<mode, db, handle, open, op, stray>>
  /\ UNCHANGED <<phase, connected, helper, schedVars>>

\* The probe fails: acquire() raises, or fetch_one() gives None.  In the same
\* turn of the event loop it is counted, compared with the threshold and,
\* when the session is unhealthy, followed by the start of a reconnect.
\* failures stays at Threshold: only "failures >= Threshold" reads it.
ProbeFails ==
  /\ HealthRuns
  /\ \/ health \in {"start", "sleep"} /\ AcquireRaises
     \/ health = "probe" /\ CanFail("health")
  /\ failures' = IF failures < Threshold THEN failures + 1 ELSE failures
  /\ healthy' = (healthy /\ failures' < Threshold)
  /\ IF healthy'
       THEN /\ Release("health")
            /\ health' = "sleep"
            /\ UNCHANGED <<mode, db, handle, open, op, stray>>
       ELSE ReconnectBegins
  /\ UNCHANGED <<phase, connected, helper, schedVars>>

\* Mutant: the session counts as healthy before connect() has succeeded.
HealthPoolClosedEarly ==
  /\ health = "closing"
  /\ HealthRuns
  /\ \/ ConnectBegin("health", NoPool) /\ health' = "connecting"
     \/ ConnectRaisesAtOnce /\ CloseEnd("health") /\ health' = "sleep"
  /\ healthy' = TRUE
  /\ UNCHANGED <<phase, connected, failures, helper, schedVars>>

\* The old pool is closed: clear the handle and go on with connect().
HealthPoolClosed ==
  /\ health = "closing"
  /\ HealthRuns
  /\ \/ ConnectBegin("health", NoPool) /\ health' = "connecting"
     \/ ConnectRaisesAtOnce /\ CloseEnd("health") /\ health' = "sleep"
  /\ UNCHANGED <<phase, connected, healthy, failures, helper, schedVars>>

HealthPoolCreated ==
  /\ HealthRuns
  /\ ThickCreated("health")
  /\ UNCHANGED <<schedVars, sessionVars>>

\* Mutant: a reconnect starts a new count but leaves the session unhealthy.
ReconnectedUnseen ==
  /\ health = "connecting"
  /\ HealthRuns
  /\ ConnectReturns("health")
  /\ failures' = 0
  /\ health' = "sleep"
  /\ UNCHANGED <<phase, connected, healthy, helper, schedVars>>

Reconnected ==
  /\ health = "connecting"
  /\ HealthRuns
  /\ ConnectReturns("health")
  /\ healthy' = TRUE
  /\ failures' = 0
  /\ health' = "sleep"
  /\ UNCHANGED <<phase, connected, helper, schedVars>>

ReconnectFails ==
  /\ health = "connecting"
  /\ HealthRuns
  /\ ConnectRaises("health")
  /\ health' = "sleep"
  /\ UNCHANGED <<phase, connected, healthy, failures, helper, schedVars>>

\* Mutant: the loop swallows the CancelledError and sleeps on.
HealthSwallowsCancel ==
  /\ "health" \in cancelled
  /\ Abandon("health")
  /\ health' = "sleep"
  /\ cancelled' = cancelled \ {"health"}
  /\ UNCHANGED <<running, sched, pc, left>>
  /\ UNCHANGED <<phase, connected, healthy, failures, helper>>

HealthCancelled ==
  /\ "health" \in cancelled
  /\ Abandon("health")
  /\ health' = "done"
  /\ cancelled' = cancelled \ {"health"}
  /\ UNCHANGED <<running, sched, pc, left>>
  /\ UNCHANGED <<phase, connected, healthy, failures, helper>>

-----------------------------------------------------------------------------
(* close() *)

\* task.cancel() on every task of _tasks that has not ended.
SessionTasks ==
  RunTasks \cup {h \in {"adv", "demo"} : helper[h] = "run"}
           \cup {h \in {"health"} : health \notin {"none", "done"}}

\* close() is called.  stop() awaits the interval loops it cancels; without
\* any it returns at once and the session's tasks are cancelled too.
Close ==
  /\ phase = "up"
  /\ running' = FALSE
  /\ IF StopTasks # {}
       THEN phase' = "stopping" /\ cancelled' = StopTasks
       ELSE phase' = "joining" /\ cancelled' = SessionTasks
  /\ UNCHANGED <<sched, pc, left, poolVars>>
  /\ UNCHANGED <<connected, healthy, failures, health, helper>>

\* stop() returned: cancel the session's tasks and gather them.
Stopped ==
  /\ phase = "stopping"
  /\ \A c \in Collector : pc[c] = "done"
  /\ phase' = "joining"
  /\ cancelled' = cancelled \cup SessionTasks
  /\ UNCHANGED <<running, sched, pc, left, poolVars>>
  /\ UNCHANGED <<connected, healthy, failures, health, helper>>

\* A task that never queries ends.
HelperCancelled(h) ==
  /\ h \in cancelled
  /\ helper' = [helper EXCEPT ![h] = "done"]
  /\ cancelled' = cancelled \ {h}
  /\ UNCHANGED <<running, sched, pc, left, poolVars>>
  /\ UNCHANGED <<phase, connected, healthy, failures, health>>

\* Mutant: the health check is not among the tasks that close() gathers.
EndedNoHealth ==
  /\ sched \in {"none", "done"}
  /\ \A h \in {"adv", "demo"} : helper[h] # "run"
  /\ \A c \in Collector : pc[c] \in {"none", "done"}

\* The gather() of close() returns when every task of the session has ended.
Ended ==
  /\ sched \in {"none", "done"}
  /\ health \in {"none", "done"}
  /\ \A h \in {"adv", "demo"} : helper[h] # "run"
  /\ \A c \in Collector : pc[c] \in {"none", "done"}

\* close() goes on to the pool.  What the driver refuses, close() raises, and
\* the session stays connected.
ClosePool ==
  \/ /\ mode = "demo" \/ CloseNothing
     /\ phase' = "closed"
     /\ connected' = FALSE
     /\ UNCHANGED poolVars
  \/ /\ CloseRefused("ui")
     /\ phase' = "raised"
     /\ UNCHANGED <<connected, poolVars>>
  \/ /\ CloseBegin("ui")
     /\ phase' = "poolclosing"
     /\ UNCHANGED <<connected, query>>

\* Mutant: close() does not wait for the tasks it cancelled.
JoinedAtOnce ==
  /\ phase = "joining"
  /\ ClosePool
  /\ UNCHANGED <<healthy, failures, health, helper, schedVars>>

\* Mutant: close() leaves the pool alone.
JoinedPoolKept ==
  /\ phase = "joining"
  /\ Ended
  /\ phase' = "closed"
  /\ connected' = FALSE
  /\ UNCHANGED <<healthy, failures, health, helper, schedVars, poolVars>>

Joined ==
  /\ phase = "joining"
  /\ Ended
  /\ ClosePool
  /\ UNCHANGED <<healthy, failures, health, helper, schedVars>>

PoolClosed ==
  /\ phase = "poolclosing"
  /\ CloseEnd("ui")
  /\ phase' = "closed"
  /\ connected' = FALSE
  /\ UNCHANGED <<healthy, failures, health, helper, schedVars>>

-----------------------------------------------------------------------------
(* The panels, the driver and the database *)

\* A panel's worker starts a query of its own (a plan, a detail screen, a
\* report).  The pane outlives close(): app.py removes it afterwards.
PanelWorker(s) ==
  /\ phase \in {"up", "stopping", "joining", "poolclosing", "raised"}
  /\ mode # "demo"
  /\ pc[s] = "none"
  /\ pc' = [pc EXCEPT ![s] = "panel"]
  /\ left' = [left EXCEPT ![s] = Queries]
  /\ UNCHANGED <<running, sched, cancelled, poolVars, sessionVars>>

\* A worker thread that outlived its task (thick) ends.
ThreadEnds(t) ==
  /\ \/ t \in Collector /\ pc[t] = "done"
     \/ t = "health" /\ health = "done"
  /\ Rows(t) \/ Fails(t)
  /\ UNCHANGED <<mode, db, handle, open, op, stray>>
  /\ UNCHANGED <<schedVars, sessionVars>>

SchedStep ==
  /\ RunStarts \/ PrimeRest \/ EnterSteady \/ RunReturns \/ RunCancelled
  /\ UNCHANGED sessionVars

WorkerStep(w) ==
  /\ NextQuery(w) \/ Answer(w)
  /\ UNCHANGED sessionVars

CollectorStep(c) ==
  /\ Wake(c) \/ CollectorCancelled(c)
  /\ UNCHANGED sessionVars

HealthStep ==
  \/ ProbeBegins \/ ProbeSucceeds \/ ProbeFails
  \/ HealthPoolClosed \/ HealthPoolCreated \/ Reconnected \/ ReconnectFails
  \/ HealthCancelled

ConnectStep == PoolCreated \/ ConnectDone \/ ConnectFailed

CloseStep == Stopped \/ Joined \/ PoolClosed

DriverGrants(t) == Granted(t) /\ UNCHANGED <<schedVars, sessionVars>>

Environment ==
  /\ DbChanges \/ StrayEnds
  /\ UNCHANGED <<schedVars, sessionVars>>

Next ==
  \/ Connect \/ Close
  \/ ConnectStep \/ CloseStep \/ SchedStep \/ HealthStep
  \/ \E w \in Worker : WorkerStep(w)
  \/ \E c \in Collector : CollectorStep(c)
  \/ \E h \in {"adv", "demo"} : HelperCancelled(h)
  \/ \E shots \in SUBSET Shot :
       CollectNow(shots) /\ UNCHANGED sessionVars
  \/ \E s \in Shot : PanelWorker(s)
  \/ \E t \in Task : DriverGrants(t) \/ ThreadEnds(t)
  \/ Environment

Spec == Init /\ [][Next]_vars

\* The event loop runs what is ready, a sleep ends, and the driver answers
\* every query and serves the tasks that wait for a connection in turn.
\* Neither the user nor the database owes a step.
Fairness ==
  /\ WF_vars(ConnectStep) /\ WF_vars(CloseStep)
  /\ WF_vars(SchedStep) /\ WF_vars(HealthStep)
  /\ \A w \in Worker : WF_vars(WorkerStep(w))
  /\ \A c \in Collector : WF_vars(CollectorStep(c))
  /\ \A h \in {"adv", "demo"} : WF_vars(HelperCancelled(h))
  /\ \A t \in Task : SF_vars(DriverGrants(t)) /\ WF_vars(ThreadEnds(t))

FairSpec == Spec /\ Fairness

-----------------------------------------------------------------------------
(* Safety *)

\* connect() and close() are not reentrant - each assigns the handle after an
\* await - and two tasks call them: the session's own and the health check.
\* They never overlap, because close() joins the health check before it
\* touches the pool.
LifecycleSerialised == op["ui"] = "none" \/ op["health"] = "none"

\* Thin: every pool the driver holds open is the one the handle names, so
\* the next close() can close it, however reconnects, their failures and
\* cancellation fall.
NoLeakedPool == mode = "thin" => open \subseteq {handle}

\* Thin: no reconnect and no close() ever takes the pool away from a query,
\* so a query fails only because the database does.
QueriesOnLivePool ==
  mode = "thin" => \A t \in Task : query[t] # Idle => query[t].pool \in open

\* A session that shows no warning sign on its tab, and is not closing, has
\* an open pool: its collectors do not fail silently behind a healthy label.
HealthyMeansUsable ==
  phase = "up" /\ mode # "demo" /\ healthy => handle \in open

\* After close() returned no task of the session is left, and in thin mode
\* no query and no pool either.
ClosedMeansQuiet ==
  phase = "closed" =>
    /\ ~connected
    /\ Ended
    /\ handle = NoPool
    /\ mode = "thin" => open = {} /\ \A t \in Task : query[t] = Idle

\* The inductive invariant behind the properties above.  Who runs which part
\* of connect() and close(), and when:
OwnersInv ==
  /\ \A w \in Worker : op[w] = "none"
  /\ phase = "connecting" <=> op["ui"] \in {"creating", "validating"}
  /\ phase = "poolclosing" <=> op["ui"] = "closing"
  /\ health = "connecting" <=> op["health"] \in {"creating", "validating"}
  /\ health = "closing" <=> op["health"] = "closing"

\* Nothing of the session runs before connect() is done, nor after close()
\* has joined its tasks.
TasksInv ==
  /\ phase \in {"new", "connecting", "failed"} =>
       /\ sched = "none" /\ health = "none" /\ cancelled = {}
       /\ \A c \in Collector : pc[c] = "none"
       /\ healthy
  /\ phase \in {"poolclosing", "closed", "raised"} => Ended
  /\ phase \in {"stopping", "joining", "poolclosing", "closed", "raised"} =>
       /\ ~running
       /\ sched \in {"created", "prime1", "prime2"} => "sched" \in cancelled
  /\ "health" \in cancelled => health \notin {"none", "done"}
  /\ \A w \in Worker : AtWork(w) => left[w] > 0

\* The handle, the pool whose query decides about it, and the health flag.
HandleInv ==
  /\ phase = "new" => handle = NoPool
  /\ mode = "demo" => handle = NoPool /\ health = "none" /\ phase # "connecting"
  /\ phase = "closed" => handle = NoPool /\ ~connected
  /\ \A t \in Task : op[t] = "closing" => handle \notin open
  /\ query["ui"] # Idle => phase = "connecting" /\ query["ui"].pool = handle
  /\ op["ui"] = "creating" => query["ui"] = Idle
  /\ query["health"] # Idle /\ health # "done" => query["health"].pool = handle
  /\ health \in {"none", "closing"} => query["health"] = Idle
  /\ health \in {"closing", "connecting"} => ~healthy
  /\ ~healthy => failures = Threshold
  /\ phase \in {"up", "stopping", "joining"} /\ mode # "demo" /\ healthy
       => handle \in open

\* Thin: one pool at most, and every query on it.
ThinInv ==
  mode = "thin" =>
    /\ open \subseteq {handle}
    /\ \A t \in Task : query[t] # Idle => query[t].pool \in open
    /\ ~stray
    /\ \A t \in Task : op[t] # "creating"

IInv == TypeOK /\ OwnersInv /\ TasksInv /\ HandleInv /\ ThinInv

\* Until close() has joined the health check, the pool is taken away only
\* after Threshold probes failed in a row, none answered since: a reconnect
\* that fails and is tried again does not start a new count, and one that
\* works does.
PoolLossIsEarned ==
  [][ open \ open' # {} /\ phase \in {"up", "stopping"}
        => failures' = Threshold /\ ~healthy' ]_vars

\* Once close() was called no pass begins: run() primes no collector, not even
\* when its task had not had its first turn, no loop that wakes collects, and
\* collect_now() creates no one-shot although the panes are still there and the
\* user may switch panels.  Only a panel's own worker may still query.  (A
\* one-shot counts from the collect_now() that creates its task.)
NoPassAfterClose ==
  [][ \A w \in Worker :
        /\ phase \in {"stopping", "joining", "poolclosing", "closed"}
        /\ pc'[w] = "collect"
        => pc[w] = "collect" ]_vars

\* The state of the tab as TabSession knows it.
TabState ==
  IF phase \in {"stopping", "joining", "poolclosing"} THEN "closing" ELSE phase

Tab == INSTANCE TabSession WITH
         state <- TabState,
         usable <- (mode = "demo" /\ phase # "closed") \/ handle \in open

\* The session keeps the promise of TabSession, which AppTabs relies on.
KeepsPromise == Tab!Spec

-----------------------------------------------------------------------------
(* What a docstring says, and a violation run refutes. *)

\* close() is documented as "Cancel tasks and close connection pool": once it
\* has come to an end no pool of the session is open.
CloseClosesPool == phase \in {"closed", "raised"} => open = {}

-----------------------------------------------------------------------------
(* Liveness *)

\* If the database stays reachable and the tab stays open, the session ends
\* up healthy for good, whatever state the outage left the pool in.
Recovers == <>[](db = "up" /\ phase = "up") => <>[]healthy

\* close() comes to an end, with the pool closed or with an exception.
CloseReturns == phase = "stopping" \/ phase = "joining"
                  ~> phase \in {"closed", "raised"}
=============================================================================
