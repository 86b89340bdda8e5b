---------------------------- MODULE AdvisorEngine ----------------------------
(***************************************************************************)
(* The advisor of a session, advisor/engine.py: every interval seconds it  *)
(* runs its rules over the readings that the collectors have left in the   *)
(* cache, sorts what they find and keeps the first fifty.  A reading is a  *)
(* sequence of rows with just the figures the rules look at.               *)
(*                                                                         *)
(* The database changes at any time.  Each collector's loop reads it, and  *)
(* some time later sets its key; a query that fails reads as no rows, so   *)
(* its findings go, or leaves what was there.  Time is in seconds; only    *)
(* AdvisorSecond lets it pass, and timers are on time.                     *)
(***************************************************************************)
EXTENDS Integers, Sequences, FiniteSets, SequencesExt

CONSTANTS
  Watched,     \* the sets of sources to consider, one of them at a time
  Reading,     \* Reading[k]: what the database may have for key k
  Every,       \* Every[k]: of its collector
  interval,    \* of the advisor: 30
  PassMax,     \* the seconds a collector's pass takes, at most
  FindingMax,  \* 50
  NoPass       \* no pass under way

\* The sources in the order of the rules; sessions.* count as one.
Rules == <<"sql.top", "sessions", "waits.system_top", "awr.tablespaces",
           "rman.history", "dg.stats", "asm.fra", "health.cpu_load",
           "health.rates">>

Sources == {Rules[i] : i \in DOMAIN Rules}

ASSUME AdvisorAssumption ==
  /\ \A sources \in Watched : sources \subseteq Sources
  /\ \A k \in Sources : \A r \in Reading[k] : r \in Seq(Range(r))
  /\ \A k \in Sources : Every[k] \in Nat \ {0}
  /\ interval \in Nat \ {0}
  /\ PassMax \in Nat
  /\ FindingMax \in Nat
  /\ \A k \in Sources : NoPass \notin [value : Reading[k], secs : 0..PassMax]

VARIABLES
  sources,   \* the sources considered
  db,        \* db[k]: what the database has
  cache,     \* cache[k]: what is in the cache, no rows before the first pass
  sleep,     \* sleep[k]: what is left of the sleep of the collector's loop
  pass,      \* pass[k]: what its pass has read and for how long it is at it
  rest,      \* what is left of the advisor's sleep
  findings,  \* cache: advisor.findings
  since      \* history: seconds since db[k] changed, or a query of it failed;
             \* saturates

advisorVars == <<sources, db, cache, sleep, pass, rest, findings, since>>

-----------------------------------------------------------------------------
(* The rules: the severities of what each finds in a row of its reading *)

CRITICAL == <<"CRITICAL">>
WARNING == <<"WARNING">>
If(condition, found) == IF condition THEN found ELSE <<>>

\* A statement's share of the CPU time of those in the list, in percent, and
\* its buffer gets per execution, in millions.
_check_top_sql(r) ==
  If(r.cpu > 30, CRITICAL) \o If(r.cpu \in 16..30, WARNING) \o If(r.gets > 1, WARNING)

_check_sessions(r) == If(r.total > 500, WARNING) \o If(r.blockers > 3, CRITICAL)

\* The average wait is in milliseconds.
_check_waits(r) ==
  If(\/ r.event = "log file sync" /\ r.avg > 20
     \/ r.event = "db file sequential read" /\ r.avg > 15
     \/ r.event = "buffer busy waits", WARNING)

_check_tablespaces(r) ==
  If(~r.auto /\ r.pct >= 95, CRITICAL) \o If(~r.auto /\ r.pct \in 85..94, WARNING)

_check_rman(r) == If(r.failed > 0, CRITICAL)

_check_dg(r) == If(r.apply > 0, WARNING) \o If(r.transport > 0, WARNING)

_check_fra(r) == If(r.pct >= 95, CRITICAL) \o If(r.pct \in 85..94, WARNING)

_check_health(k, r) ==
  If(\/ k = "health.cpu_load" /\ r.value > 8
     \/ k = "health.rates" /\ r.value > 100, WARNING)

RowRule(k, r) ==
  CASE k = "sql.top" -> _check_top_sql(r)
    [] k = "sessions" -> _check_sessions(r)
    [] k = "waits.system_top" -> _check_waits(r)
    [] k = "awr.tablespaces" -> _check_tablespaces(r)
    [] k = "rman.history" -> _check_rman(r)
    [] k = "dg.stats" -> _check_dg(r)
    [] k = "asm.fra" -> _check_fra(r)
    [] OTHER -> _check_health(k, r)

\* The rows that are looked at.
Considered(k, rows) ==
  LET most == CASE k = "sql.top" -> 10 [] k = "waits.system_top" -> 5
                [] OTHER -> Len(rows)
  IN  SubSeq(rows, 1, IF Len(rows) < most THEN Len(rows) ELSE most)

Found(k, rows) ==
  LET some == Considered(k, rows)
  IN  FlattenSeq([i \in DOMAIN some |-> RowRule(k, some[i])])

\* The findings about key k, by the severities found.
About(k, severities) ==
  [i \in DOMAIN severities |-> [key |-> k, severity |-> severities[i]]]

Only(found, severity) ==
  FlattenSeq([i \in DOMAIN found |->
                IF found[i].severity = severity THEN <<found[i]>> ELSE <<>>])

Sorted(found) == Only(found, "CRITICAL") \o Only(found, "WARNING")

Capped(found) ==
  SubSeq(found, 1, IF Len(found) < FindingMax THEN Len(found) ELSE FindingMax)

\* What the rules find in readings.
AllFoundIn(readings) ==
  FlattenSeq([i \in DOMAIN Rules |->
    IF Rules[i] \in sources
      THEN About(Rules[i], Found(Rules[i], readings[Rules[i]]))
      ELSE <<>>])

AllFound == AllFoundIn(cache)

\* Mutant: the first ones are kept, and then sorted.
CappedFirst == Sorted(Capped(AllFound))

_evaluate == Capped(Sorted(AllFound))

-----------------------------------------------------------------------------
\* The longest it takes until a reading is among the findings: the pass under
\* way, the sleep, the next pass, and the advisor's sleep.
Delay(k) == PassMax + Every[k] + PassMax + interval

Least(m, n) == IF m <= n THEN m ELSE n

AdvisorTypeOK ==
  /\ sources \in Watched
  /\ db \in [sources -> UNION {Reading[k] : k \in sources}]
  /\ sleep \in [sources -> Nat]
  /\ \A k \in sources : pass[k] # NoPass => pass[k].secs \in 0..PassMax
  /\ rest \in 0..interval
  /\ findings \in Seq([key : sources, severity : {"CRITICAL", "WARNING"}])
  /\ Len(findings) <= FindingMax
  /\ \A k \in sources : since[k] \in 0..(Delay(k) + 1)

AdvisorInit ==
  /\ sources \in Watched
  /\ db \in {f \in [sources -> UNION {Reading[k] : k \in sources}] :
               \A k \in sources : f[k] \in Reading[k]}
  /\ cache = [k \in sources |-> <<>>]
  /\ sleep \in {f \in [sources -> 0..10] : \A k \in sources : f[k] <= Every[k]}
  /\ pass = [k \in sources |-> NoPass]
  /\ rest = 0
  /\ findings = <<>>
  /\ since = [k \in sources |-> 0]

\* A second passes.  No pass is at it for longer than the slack.
AdvisorSecond ==
  /\ rest > 0
  /\ rest' = rest - 1
  /\ \A k \in sources :
       IF pass[k] = NoPass THEN sleep[k] > 0 ELSE pass[k].secs < PassMax
  /\ sleep' = [k \in sources |->
                 IF pass[k] = NoPass THEN sleep[k] - 1 ELSE sleep[k]]
  /\ pass' = [k \in sources |->
                IF pass[k] = NoPass THEN NoPass
                ELSE [pass[k] EXCEPT !.secs = @ + 1]]
  /\ since' = [k \in sources |-> Least(since[k] + 1, Delay(k) + 1)]
  /\ UNCHANGED <<sources, db, cache, findings>>

\* Something begins or ends in the database.
Change(k) ==
  /\ \E r \in Reading[k] \ {db[k]} : db' = [db EXCEPT ![k] = r]
  /\ since' = [since EXCEPT ![k] = 0]
  /\ UNCHANGED <<sources, cache, sleep, pass, rest, findings>>

\* A query of the pass reads the database.
ReadDatabase(k) ==
  /\ pass[k] = NoPass
  /\ sleep[k] = 0
  /\ pass' = [pass EXCEPT ![k] = [value |-> db[k], secs |-> 0]]
  /\ UNCHANGED <<sources, db, cache, sleep, rest, findings, since>>

\* What a pass leaves in the cache when a query fails: no rows, hence for the
\* rules nothing.  The load of the CPU is left as it was, and so are the figures
\* of Data Guard when the query of the role, before theirs, has failed.
AfterFailure(k) ==
  CASE k = "health.cpu_load" -> {cache[k]}
    [] k = "dg.stats" -> {<<>>, cache[k]}
    [] OTHER -> {<<>>}

\* The pass sets its key, or its query has failed.
SetKey(k) ==
  \/ /\ cache' = [cache EXCEPT ![k] = pass[k].value]
     /\ UNCHANGED since
  \/ /\ \E r \in AfterFailure(k) : cache' = [cache EXCEPT ![k] = r]
     /\ since' = [since EXCEPT ![k] = 0]

\* The loop's pass ends.
PassEnds(k) ==
  /\ pass[k] # NoPass
  /\ SetKey(k)
  /\ pass' = [pass EXCEPT ![k] = NoPass]
  /\ sleep' = [sleep EXCEPT ![k] = Every[k]]
  /\ UNCHANGED <<sources, db, rest, findings>>

\* run(): one round.
run ==
  /\ rest = 0
  /\ findings' = _evaluate
  /\ rest' = interval
  /\ UNCHANGED <<sources, db, cache, sleep, pass, since>>

AdvisorNext ==
  \/ AdvisorSecond
  \/ run
  \/ \E k \in sources : Change(k) \/ ReadDatabase(k) \/ PassEnds(k)

AdvisorSpec == AdvisorInit /\ [][AdvisorNext]_advisorVars

-----------------------------------------------------------------------------
(* Properties *)

Rank == [CRITICAL |-> 1, WARNING |-> 2]

\* How many findings there are about k that are as severe as s.
HowMany(found, k, s) ==
  Cardinality({i \in DOMAIN found : found[i] = [key |-> k, severity |-> s]})

\* A reading that has been in the database for as long as a pass under way, the
\* collector's interval, its next pass and the advisor's interval take, and was
\* always read without failure, is what the advisor shows: just the findings of
\* its rule and none of an earlier reading, and if any is missing the list is
\* full of others that are no less severe.
ShowsWhatPersists ==
  \A k \in sources : since[k] > Delay(k) =>
    LET due == About(k, Found(k, db[k]))
    IN  \A s \in DOMAIN Rank :
          \/ HowMany(findings, k, s) = HowMany(due, k, s)
          \/ /\ HowMany(findings, k, s) < HowMany(due, k, s)
             /\ Len(findings) = FindingMax
             /\ \A i \in DOMAIN findings : Rank[findings[i].severity] <= Rank[s]
=============================================================================
