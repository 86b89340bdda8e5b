------------------------------- MODULE MCTimes -------------------------------
(* What depends on time, for TLC: the age of the data on the screen, the rates *)
(* per second, and the advisor.  Each has a clock of its own, and one of them  *)
(* at a time is enough.                                                        *)
EXTENDS Freshness, HealthRates, AdvisorEngine

VARIABLE part

Row(r) == <<r>>

\* For each key a quiet reading, and one or two that its rule is about.
MCReading == [k \in Sources |->
  CASE k = "sql.top" ->
         { <<>>, <<[cpu |-> 40, gets |-> 2], [cpu |-> 20, gets |-> 0]>> }
    [] k = "sessions" -> {Row([total |-> 501, blockers |-> n]) : n \in {3, 4}}
    [] k = "waits.system_top" ->
         { <<>>, <<[event |-> "log file sync", avg |-> 21],
                   [event |-> "buffer busy waits", avg |-> 1]>> }
    [] k = "awr.tablespaces" ->
         { <<[pct |-> 97, auto |-> TRUE]>>,
           <<[pct |-> 90, auto |-> FALSE], [pct |-> 97, auto |-> FALSE]>> }
    [] k = "rman.history" -> {Row([failed |-> n]) : n \in {0, 2}}
    [] k = "dg.stats" -> {Row([apply |-> n, transport |-> 1]) : n \in {0, 2}}
    [] k = "asm.fra" -> {Row([pct |-> n]) : n \in {50, 90, 95}}
    [] k = "health.cpu_load" -> {Row([value |-> n]) : n \in {8, 9}}
    [] k = "health.rates" -> {Row([value |-> n]) : n \in {100, 101}}]

MCEvery == [k \in Sources |-> 2]

MCWatched == { {"awr.tablespaces", "health.rates"}, {"sql.top", "dg.stats"},
               {"waits.system_top", "rman.history"},
               {"sessions", "health.cpu_load"}, {"asm.fra"} }

\* The parts that are not considered have one initial state.
MCInit ==
  /\ part \in {"age", "rates", "advisor"}
  /\ AgeInit
  /\ part # "age" => panel = "dashboard"
  /\ RatesInit
  /\ AdvisorInit
  /\ part # "advisor" =>
       /\ sources = {"asm.fra"}
       /\ \A k \in sources : sleep[k] = 0 /\ db[k] = Row([pct |-> 50])

MCNext ==
  /\ UNCHANGED part
  /\ \/ part = "age" /\ AgeNext /\ UNCHANGED <<rateVars, advisorVars>>
     \/ part = "rates" /\ RatesNext /\ UNCHANGED <<ageVars, advisorVars>>
     \/ part = "advisor" /\ AdvisorNext /\ UNCHANGED <<ageVars, rateVars>>

\* Types of the three parts.
TypesOK == AgeTypeOK /\ RatesTypeOK /\ AdvisorTypeOK

MCSpec == MCInit /\ [][MCNext]_<<ageVars, rateVars, advisorVars, part>>
=============================================================================
