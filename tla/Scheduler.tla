------------------------------- MODULE Scheduler -------------------------------
(***************************************************************************)
(* core/scheduler.py on top of the pool: the run() task, which primes the  *)
(* cache with one pass of every collector and then starts one interval     *)
(* loop per collector; the one-shot passes that collect_now() fires as     *)
(* tasks nobody keeps; and stop().                                         *)
(*                                                                         *)
(* A pass is collector.collect() under _safe_collect(): it awaits Queries  *)
(* queries one after the other.  execute_query() turns a DatabaseError     *)
(* into no rows, so the pass goes on; any other exception ends the pass    *)
(* and is logged.                                                          *)
(***************************************************************************)
EXTENDS ConnectionManager

CONSTANTS
  Collector,  \* the collectors
  Priority,   \* the first _PRIME_PRIORITY of them
  Shot,       \* the tasks that collect_now() and the panels may have in flight
  Queries     \* the queries of one pass

ASSUME SchedulerAssumption ==
  /\ Collector \cup Shot \subseteq Task
  /\ Collector \cap Shot = {}
  /\ Priority \subseteq Collector
  /\ Queries \in Nat \ {0}

VARIABLES
  running,   \* Scheduler._running
  sched,     \* where the task of run() is
  pc,        \* pc[t]: where the pass or the loop of t is
  left,      \* left[t]: the queries its current pass still has to make
  cancelled  \* the tasks that cancel() was called on and that have not ended

schedVars == <<running, sched, pc, left, cancelled>>

Worker == Collector \cup Shot

SchedTypeOK ==
  /\ running \in BOOLEAN
  /\ sched \in {"none", "created", "prime1", "prime2", "steady", "done"}
  /\ pc \in [Worker -> {"none", "sleep", "collect", "panel", "done"}]
  /\ left \in [Worker -> 0..Queries]
  /\ cancelled \subseteq Collector \cup {"sched", "adv", "health", "demo"}

SchedInit ==
  /\ running = FALSE
  /\ sched = "none"
  /\ pc = [w \in Worker |-> "none"]
  /\ left = [w \in Worker |-> 0]
  /\ cancelled = {}

Collecting == {w \in Worker : pc[w] = "collect"}

\* In a pass, or in the queries of a panel's own worker.
AtWork(w) == pc[w] \in {"collect", "panel"}

\* The passes of the workers in ws begin (their first query comes later: a
\* new task first runs on the next turn of the event loop).
StartPasses(ws) ==
  /\ pc' = [w \in Worker |-> IF w \in ws THEN "collect" ELSE pc[w]]
  /\ left' = [w \in Worker |-> IF w \in ws THEN Queries ELSE left[w]]

\* What a worker does when its pass is over: a priming pass and a one-shot
\* end, an interval loop sleeps, or ends when stop() was called.
AfterPass(w) ==
  IF w \in Shot THEN "none"
  ELSE IF sched = "steady" /\ running THEN "sleep" ELSE "done"

EndPass(w) ==
  /\ pc' = [pc EXCEPT ![w] = AfterPass(w)]
  /\ left' = [left EXCEPT ![w] = 0]

-----------------------------------------------------------------------------
(* run() *)

\* run() starts: _running, then one pass of each priority collector.
RunStarts ==
  /\ sched = "created"
  /\ "sched" \notin cancelled
  /\ running' = TRUE
  /\ sched' = "prime1"
  /\ StartPasses(Priority)
  /\ UNCHANGED <<cancelled, poolVars>>

\* The priority collectors are primed: one pass of each of the rest.
PrimeRest ==
  /\ sched = "prime1"
  /\ "sched" \notin cancelled
  /\ Collecting \cap Collector = {}
  /\ sched' = "prime2"
  /\ StartPasses(Collector \ Priority)
  /\ UNCHANGED <<running, cancelled, poolVars>>

\* All primed: _tasks becomes one interval loop per collector, asleep.
EnterSteady ==
  /\ sched = "prime2"
  /\ "sched" \notin cancelled
  /\ Collecting \cap Collector = {}
  /\ sched' = "steady"
  /\ pc' = [w \in Worker |-> IF w \in Collector THEN "sleep" ELSE pc[w]]
  /\ UNCHANGED <<running, left, cancelled, poolVars>>

\* The gather() of the interval loops returned: run() returns.
RunReturns ==
  /\ sched = "steady"
  /\ "sched" \notin cancelled
  /\ \A c \in Collector : pc[c] = "done"
  /\ sched' = "done"
  /\ UNCHANGED <<running, pc, left, cancelled, poolVars>>

\* The cancelled run() ends, at once or when the passes it gathers have.
RunCancelled ==
  /\ "sched" \in cancelled
  /\ Collecting \cap Collector = {}
  /\ sched' = "done"
  /\ cancelled' = cancelled \ {"sched"}
  /\ UNCHANGED <<running, pc, left, poolVars>>

-----------------------------------------------------------------------------
(* Passes *)

\* _steady_loop() wakes: a pass, unless stop() was called meanwhile.
Wake(c) ==
  /\ pc[c] = "sleep"
  /\ c \notin cancelled
  /\ IF running
       THEN StartPasses({c})
       ELSE pc' = [pc EXCEPT ![c] = "done"] /\ UNCHANGED left
  /\ UNCHANGED <<running, sched, cancelled, poolVars>>

\* The pass asks for its next query; an acquire() that raises ends it.
NextQuery(w) ==
  /\ AtWork(w)
  /\ w \notin cancelled
  /\ query[w] = Idle
  /\ \/ Acquire(w) /\ UNCHANGED <<pc, left>>
     \/ AcquireRaises /\ EndPass(w) /\ UNCHANGED query
  /\ UNCHANGED <<running, sched, cancelled, mode, db, handle, open, op, stray>>

\* The answer: rows, or the empty list that execute_query() returns for a
\* DatabaseError.  After the last one the pass is over.
Answer(w) ==
  /\ AtWork(w)
  /\ w \notin cancelled
  /\ Rows(w) \/ Fails(w)
  /\ IF left[w] = 1
       THEN EndPass(w)
       ELSE left' = [left EXCEPT ![w] = @ - 1] /\ UNCHANGED pc
  /\ UNCHANGED <<running, sched, cancelled, mode, db, handle, open, op, stray>>

\* The CancelledError reaches a collector's pass or its sleep.
CollectorCancelled(c) ==
  /\ c \in cancelled
  /\ Abandon(c)
  /\ pc' = [pc EXCEPT ![c] = "done"]
  /\ left' = [left EXCEPT ![c] = 0]
  /\ cancelled' = cancelled \ {c}
  /\ UNCHANGED <<running, sched>>

\* Mutant: collect_now() does not look at _running.
CollectNowUnguarded(shots) ==
  /\ sched # "none"
  /\ shots # {}
  /\ \A s \in shots : pc[s] = "none"
  /\ StartPasses(shots)
  /\ UNCHANGED <<running, sched, cancelled, poolVars>>

\* collect_now(): one-shot passes of the collectors behind a panel, each an
\* untracked task; nothing when the scheduler is not running.
CollectNow(shots) ==
  /\ running
  /\ shots # {}
  /\ \A s \in shots : pc[s] = "none"
  /\ StartPasses(shots)
  /\ UNCHANGED <<running, sched, cancelled, poolVars>>

-----------------------------------------------------------------------------
(* stop() *)

\* _tasks that still run: none before the steady phase.
StopTasks == IF sched \in {"steady", "done"}
               THEN {c \in Collector : pc[c] \in {"sleep", "collect"}}
               ELSE {}

\* Mutant: the session does not keep the task of run().
RunTasksForgotten == {}

\* What cancelling the task of run() cancels: itself and what it gathers.
RunTasks == IF sched \in {"none", "done"}
              THEN {}
              ELSE {"sched"} \cup {c \in Collector : pc[c] \in {"sleep", "collect"}}
=============================================================================
