------------------------------ MODULE TabSession ------------------------------
(***************************************************************************)
(* What a connection tab promises the application that opens and closes    *)
(* it: connect() ends up or failed; while up, its pool may be lost and     *)
(* regained, but never behind a healthy label; and close() ends closed,    *)
(* with no pool and for good, or raises and leaves an open pool behind     *)
(* that nobody will close.                                                 *)
(***************************************************************************)
VARIABLES
  state,   \* "new", "connecting", "failed", "up", "closing", "closed", "raised"
  usable,  \* the session has an open pool, or is a demo session, which needs none
  healthy  \* no warning sign on the tab

vars == <<state, usable, healthy>>

Init ==
  /\ state = "new"
  /\ usable \in BOOLEAN
  /\ healthy = TRUE

\* connect(): the pool comes first, and a failed connect() keeps it.
Connect ==
  /\ state \in {"new", "connecting"}
  /\ state' \in {"connecting", "failed", "up"}
  /\ usable => usable'
  /\ state' = "up" => usable'
  /\ UNCHANGED healthy

\* The health check: the sign goes on before the pool is lost, and goes off
\* once there is a pool again.  It goes on while close() stops the scheduler.
Health ==
  /\ state \in {"up", "closing"}
  /\ UNCHANGED state
  /\ healthy' => usable'

\* close() itself only takes the pool away.
Close ==
  /\ state \in {"up", "closing"}
  /\ state' \in {"closing", "closed", "raised"}
  /\ usable' => usable
  /\ state' = "raised" => usable'
  /\ state' = "closed" => ~usable'
  /\ UNCHANGED healthy

Next == Connect \/ Health \/ Close

Spec == Init /\ [][Next]_vars

-----------------------------------------------------------------------------
\* What follows for whoever holds the session.
HealthyMeansUsable == state = "up" /\ healthy => usable
=============================================================================
