------------------------------ MODULE HealthRates ------------------------------
(***************************************************************************)
(* The per-second rates of collectors/health.py.  A pass of the collector  *)
(* reads a cumulative counter of the database and _compute_rates() takes   *)
(* its difference to the snapshot of the previous pass, _prev_stats.  The  *)
(* interval loop and a one-shot run passes of the one collector object, so *)
(* two may be under way at a time.                                         *)
(*                                                                         *)
(* One counter stands for all: each is treated alike.  Its unit is what    *)
(* the busiest database does in a second.                                  *)
(***************************************************************************)
EXTENDS Integers

CONSTANTS
  NoRow,           \* no rows: the query failed; no snapshot
  HealthInterval,  \* the interval of the collector, in seconds
  Horizon          \* bound: the seconds that pass

ASSUME RatesAssumption ==
  /\ NoRow \notin Int
  /\ HealthInterval \in Nat \ {0}
  /\ Horizon \in Nat

Pass == {"loop", "shot"}

VARIABLES
  clock,     \* seconds since the session began
  counter,   \* the database's counter since the instance started
  grown,     \* what happened in the database, restarts or not
  nap_s,       \* what is left of the loop's sleep
  pc,        \* pc[w]: "none", or w "asked", or has "rows"
  row,       \* row[w]: the counter as w's query read it
  prev,      \* _prev_stats
  delta,     \* the difference behind the last rate in the cache
  counted,   \* history: the sum of the differences
  crossed    \* history: two passes were under way at a time

rateVars == <<clock, counter, grown, nap_s, pc, row, prev, delta, counted, crossed>>

RatesTypeOK ==
  /\ clock \in 0..Horizon
  /\ counter \in 0..Horizon
  /\ grown \in 0..Horizon
  /\ nap_s \in 0..HealthInterval
  /\ pc \in [Pass -> {"none", "asked", "rows"}]
  /\ row \in [Pass -> 0..Horizon \cup {NoRow}]
  /\ prev \in 0..Horizon \cup {NoRow}
  /\ delta \in 0..Horizon \cup {NoRow}
  /\ counted \in Nat
  /\ crossed \in BOOLEAN

RatesInit ==
  /\ clock = 0
  /\ counter = 0
  /\ grown = 0
  /\ nap_s = 0
  /\ pc = [w \in Pass |-> "none"]
  /\ row = [w \in Pass |-> NoRow]
  /\ prev = NoRow
  /\ delta = NoRow
  /\ counted = 0
  /\ crossed = FALSE

-----------------------------------------------------------------------------
\* A second passes, in which the database did nothing or as much as it can.
RatesSecond ==
  /\ clock < Horizon
  /\ pc["loop"] = "none" => nap_s > 0
  /\ clock' = clock + 1
  /\ \E n \in {0, 1} : counter' = counter + n /\ grown' = grown + n
  /\ nap_s' = IF pc["loop"] = "none" THEN nap_s - 1 ELSE nap_s
  /\ UNCHANGED <<pc, row, prev, delta, counted, crossed>>

\* The instance is restarted: its counters start from zero.
DatabaseRestarts ==
  /\ counter' = 0
  /\ UNCHANGED <<clock, grown, nap_s, pc, row, prev, delta, counted, crossed>>

\* A pass comes to the query of the counters: the loop's when it has slept,
\* a one-shot's at any time.
Ask(w) ==
  /\ pc[w] = "none"
  /\ w = "loop" => nap_s = 0
  /\ pc' = [pc EXCEPT ![w] = "asked"]
  /\ crossed' = (crossed \/ \E u \in Pass : pc[u] # "none")
  /\ UNCHANGED <<clock, counter, grown, nap_s, row, prev, delta, counted>>

\* The query reads the counter, or fails.
Answer(w) ==
  /\ pc[w] = "asked"
  /\ pc' = [pc EXCEPT ![w] = "rows"]
  /\ \E r \in {counter, NoRow} : row' = [row EXCEPT ![w] = r]
  /\ UNCHANGED <<clock, counter, grown, nap_s, prev, delta, counted, crossed>>

\* max(0, curr - prev), where a failed query has no counter: zero.
Difference(new, old) ==
  LET n == IF new = NoRow THEN 0 ELSE new
  IN  IF n > old THEN n - old ELSE 0

\* Mutant: the snapshot is taken only when there is none.
SnapshotKept(w) == IF prev = NoRow THEN row[w] ELSE prev

\* What _compute_rates() leaves as _prev_stats: {} after a failed query.
Snapshot(w) == row[w]

\* _compute_rates() and the cache.set() of the rates; without a previous
\* snapshot there are no rates.
ComputeRates(w) ==
  /\ pc[w] = "rows"
  /\ pc' = [pc EXCEPT ![w] = "none"]
  /\ row' = [row EXCEPT ![w] = NoRow]
  /\ nap_s' = IF w = "loop" THEN HealthInterval ELSE nap_s
  /\ prev' = Snapshot(w)
  /\ delta' = IF prev = NoRow THEN NoRow ELSE Difference(row[w], prev)
  /\ counted' = IF prev = NoRow THEN counted ELSE counted + delta'
  /\ UNCHANGED <<clock, counter, grown, crossed>>

RatesNext ==
  \/ RatesSecond \/ DatabaseRestarts
  \/ \E w \in Pass : Ask(w) \/ Answer(w) \/ ComputeRates(w)

RatesSpec == RatesInit /\ [][RatesNext]_rateVars

-----------------------------------------------------------------------------
(* Properties *)

\* The rates never show more than happened: as long as no two passes cross,
\* the differences add up to no more than the database did, however often it
\* is restarted and however many queries fail.
CountsOnce == ~crossed => counted <= grown
=============================================================================
