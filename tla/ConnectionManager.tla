-------------------------- MODULE ConnectionManager --------------------------
(***************************************************************************)
(* The Oracle pool wrapper of core/connection_manager.py: the handle to    *)
(* the driver pool (_pool in thin mode, _sync_pool in thick mode), the     *)
(* queries that hold its connections, and connect() and close(), which     *)
(* asyncio tasks run with other tasks' queries in flight.                  *)
(*                                                                         *)
(* Every step is what one task does between two awaits.  A query is one    *)
(* "async with acquire()" block: it waits for a connection of the pool it  *)
(* named, holds it, and gives it back with rows or with an error.          *)
(***************************************************************************)
EXTENDS Naturals, FiniteSets

CONSTANTS
  Task,     \* whoever runs queries, connect() or close()
  PoolId,   \* identities of driver pools
  NoPool,   \* the value None of a handle
  PoolMax,  \* config.pool_max, the connections of one pool
  Modes     \* the modes of config to consider; a demo session never uses its
            \* manager

ASSUME PoolAssumption ==
  /\ NoPool \notin PoolId
  /\ PoolMax \in Nat \ {0}
  /\ Modes \subseteq {"thin", "thick", "demo"}

VARIABLES
  mode,    \* config.thick_mode as "thin" or "thick", or "demo"
  db,      \* "up" when the database answers this session, else "down"
  handle,  \* the pool _pool or _sync_pool names, or NoPool
  open,    \* the pools the driver holds open
  query,   \* query[t]: the query t waits for or runs, and on which pool
  op,      \* op[t]: the part of connect() or close() that t awaits
  stray    \* a create_pool() thread runs on after its task was cancelled

poolVars == <<mode, db, handle, open, query, op, stray>>

Idle == [st |-> "none", pool |-> NoPool]

Op == {"none", "creating", "validating", "closing"}

Query == {Idle} \cup [st : {"wait", "held"}, pool : PoolId]

PoolTypeOK ==
  /\ mode \in Modes
  /\ db \in {"up", "down"}
  /\ handle \in PoolId \cup {NoPool}
  /\ open \subseteq PoolId
  /\ query \in [Task -> Query]
  /\ op \in [Task -> Op]
  /\ stray \in BOOLEAN

PoolInit ==
  /\ mode \in Modes
  /\ db = "up"
  /\ handle = NoPool
  /\ open = {}
  /\ query = [t \in Task |-> Idle]
  /\ op = [t \in Task |-> "none"]
  /\ stray = FALSE

-----------------------------------------------------------------------------
(* Pools and queries. *)

\* The tasks that wait for or hold a connection of pool p.
Users(p) == {t \in Task : query[t].pool = p}

\* A pool the driver has never shown to this manager's tasks.
Fresh == {p \in PoolId : p \notin open /\ p # handle /\ Users(p) = {}}

\* execute_query() and fetch_one() fail before any await: acquire() raises
\* the "not connected" RuntimeError, or the driver refuses a closed pool.
AcquireRaises == handle \notin open

\* acquire(): t names the pool of the current handle and waits for one of
\* its connections.
Acquire(t) ==
  /\ query[t] = Idle
  /\ ~AcquireRaises
  /\ query' = [query EXCEPT ![t] = [st |-> "wait", pool |-> handle]]

\* The driver hands t a connection of the pool t waits on.
Granted(t) ==
  /\ query[t].st = "wait"
  /\ query[t].pool \in open
  /\ Cardinality({u \in Users(query[t].pool) : query[u].st = "held"}) < PoolMax
  /\ query' = [query EXCEPT ![t].st = "held"]
  /\ UNCHANGED <<mode, db, handle, open, op, stray>>

\* t gives its connection back, if it has one.
Release(t) == query' = [query EXCEPT ![t] = Idle]

\* The query ends with rows.
Rows(t) ==
  /\ query[t].st = "held"
  /\ query[t].pool \in open
  /\ db = "up"
  /\ Release(t)

\* The query ends with a DatabaseError, or its pool was closed under it.
CanFail(t) ==
  /\ query[t] # Idle
  /\ db = "down" \/ query[t].pool \notin open

Fails(t) == CanFail(t) /\ Release(t)

-----------------------------------------------------------------------------
(* connect(): h is what the handle holds when it is called. *)

\* Thin: create_pool_async() returns at once and its pool becomes the handle
\* before connect() first awaits, on the query that validates it.
\* Thick: create_pool() runs in a worker thread that the task awaits.
ConnectBegin(t, h) ==
  /\ op[t] \in {"none", "closing"}
  /\ IF mode = "thin"
       THEN \E p \in Fresh :
              /\ handle' = p
              /\ open' = open \cup {p}
              /\ query' = [query EXCEPT ![t] = [st |-> "wait", pool |-> p]]
              /\ op' = [op EXCEPT ![t] = "validating"]
       ELSE /\ handle' = h
            /\ op' = [op EXCEPT ![t] = "creating"]
            /\ query' = [query EXCEPT ![t] = Idle]
            /\ UNCHANGED open
  /\ UNCHANGED <<mode, db, stray>>

\* connect() raises before it awaits anything: the wallet zip is gone, the
\* Instant Client is missing or the driver refuses the parameters.  Such an
\* environment counts as a database that is "down".
ConnectRaisesAtOnce == db = "down"

\* The worker thread created the pool (thick) and the task resumes: the
\* pool becomes the handle and a second thread validates it.
ThickCreated(t) ==
  /\ op[t] = "creating"
  /\ db = "up"
  /\ \E p \in Fresh :
       /\ handle' = p
       /\ open' = open \cup {p}
       /\ query' = [query EXCEPT ![t] = [st |-> "wait", pool |-> p]]
  /\ op' = [op EXCEPT ![t] = "validating"]
  /\ UNCHANGED <<mode, db, stray>>

\* _collect_db_info() returned: connect() returns.
ConnectReturns(t) ==
  /\ op[t] = "validating"
  /\ Rows(t)
  /\ op' = [op EXCEPT ![t] = "none"]
  /\ UNCHANGED <<mode, db, handle, open, stray>>

\* connect() raises: the pool cannot be created (thick) or does not validate.
\* Nothing undoes what was assigned: a pool that exists stays the handle.
ConnectRaises(t) ==
  /\ \/ /\ op[t] = "creating"
        /\ db = "down"
        /\ UNCHANGED query
     \/ /\ op[t] = "validating"
        /\ Fails(t)
  /\ op' = [op EXCEPT ![t] = "none"]
  /\ UNCHANGED <<mode, db, handle, open, stray>>

-----------------------------------------------------------------------------
(* close() *)

\* close() returns without awaiting when there is no pool.
CloseNothing == handle = NoPool

\* Mutant: thin mode forces its pool closed too.
CloseForced(t) == t \notin Task

\* Thin: the driver refuses close(force=False) while the pool has waiting or
\* busy connections other than t's own, which t has given back by then.
CloseRefused(t) ==
  /\ mode = "thin"
  /\ handle \in open
  /\ Users(handle) \ {t} # {}

\* The driver closes the pool (thick: force=True, under its queries); t
\* awaits it with the handle still in place.
CloseBegin(t) ==
  /\ op[t] = "none"
  /\ ~CloseNothing
  /\ ~CloseRefused(t)
  /\ open' = open \ {handle}
  /\ op' = [op EXCEPT ![t] = "closing"]
  /\ UNCHANGED <<mode, db, handle, stray>>

\* pool.close() returned: close() clears the handles and returns.
CloseEnd(t) ==
  /\ op[t] = "closing"
  /\ handle' = NoPool
  /\ op' = [op EXCEPT ![t] = "none"]
  /\ UNCHANGED <<mode, db, open, query, stray>>

-----------------------------------------------------------------------------
(* Cancellation of a task that runs a query, connect() or close(). *)

\* Thin: the "async with" gives the connection back on the way out.  Thick:
\* the worker thread goes on without its task, holding the connection, and
\* a create_pool() thread goes on to create a pool nobody will name.
Abandon(t) ==
  /\ query' = IF mode = "thin" THEN [query EXCEPT ![t] = Idle] ELSE query
  /\ op' = [op EXCEPT ![t] = "none"]
  /\ stray' = (stray \/ op[t] = "creating")
  /\ UNCHANGED <<mode, db, handle, open>>

\* An abandoned create_pool() thread ends, with a pool or without one.
StrayEnds ==
  /\ stray
  /\ stray' = FALSE
  /\ \/ db = "up" /\ \E p \in Fresh : open' = open \cup {p}
     \/ db = "down" /\ UNCHANGED open
  /\ UNCHANGED <<mode, db, handle, query, op>>

\* The database stops or resumes answering: a listener, a network, an
\* instance.  Outside the program, so never fair.
DbChanges ==
  /\ db' \in {"up", "down"} \ {db}
  /\ UNCHANGED <<mode, handle, open, query, op, stray>>
=============================================================================
