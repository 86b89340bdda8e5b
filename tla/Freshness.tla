------------------------------- MODULE Freshness -------------------------------
(***************************************************************************)
(* How old the data on the screen is, and what the header says about it:   *)
(* core/cache.py stamps a key when it is set, with a time to live; the     *)
(* collector of the key comes round at its interval; _tick_refresh() puts  *)
(* the age of the active panel's key in the header; a switch to a panel    *)
(* fires a one-shot of its collectors.  One panel is followed, the others  *)
(* are "elsewhere".  Time is in seconds; only Second lets it pass.         *)
(***************************************************************************)
EXTENDS Collectors

CONSTANTS
  Panels,          \* the panels to consider
  RefreshInterval  \* --refresh

\* The longest that "interval + 2" lets a key's passes take.
Slack == 2

ASSUME FreshnessAssumption ==
  /\ Panels \subseteq DOMAIN _PANEL_COLLECTORS
  /\ RefreshInterval \in Nat \ {0}

VARIABLES
  panel,   \* the panel
  shown,   \* it is the active one
  sub,     \* what the header says of it
  due,     \* _tick_refresh() has not come this second
  age,     \* seconds since its key was set, -1 when it never was; saturates
  loop,    \* where the collector's interval loop, or its priming pass, is
  nap,     \* what is left of the loop's sleep
  wrote,   \* the loop's pass has set the key
  shot,    \* a one-shot of the collector: "none", or its pass
  busy,    \* history: seconds since the key was set that the loop did not
           \* sleep; saturates
  missed,  \* history: a pass that did not set the key ended since it was set
  seen     \* history: the key was set since the panel is shown

ageVars == <<panel, shown, sub, due, age, loop, nap, wrote, shot, busy, missed, seen>>

-----------------------------------------------------------------------------
(* The tables of Scheduler.__init__(), of the collectors and of the pane *)

AtMost(m, n) == IF m <= n THEN m ELSE n
AtLeast(m, n) == IF m >= n THEN m ELSE n

Interval(c) ==
  CASE c \in {"Health", "Waits"} -> AtMost(RefreshInterval, 2)
    [] c \in {"Sessions", "SQL", "RAC", "SQLMonitor"} -> AtLeast(RefreshInterval, 3)
    [] c \in {"DataGuard", "ASM", "RMAN", "IOActivity", "PDB", "Jobs"} ->
         AtLeast(RefreshInterval * 2, 12)
    [] c \in {"Exadata", "Advisor", "MemoryAdvisor"} -> 30
    [] OTHER -> 60

PrimedFirst == {"Health", "Waits", "Sessions", "SQL"}

PrimaryKey ==
  [p \in Panels |-> IF p \in DOMAIN _PANEL_PRIMARY_KEY
                      THEN _PANEL_PRIMARY_KEY[p] ELSE "health.total_sessions"]

CollectorOf == [p \in Panels |-> CHOOSE c \in Name : PrimaryKey[p] \in KeysOf(c)]

active_primary_key == PrimaryKey[panel]

Collector == CollectorOf[panel]

\* The ttl that the collector gives the key.
TTL ==
  CASE active_primary_key \in {"awr.tablespaces", "rman.history"} -> 60
    [] active_primary_key = "obj.biggest_segments" -> 300
    [] active_primary_key \in {"jobs.list", "planhist.unstable"} -> Interval(Collector) + 5
    [] OTHER -> Interval(Collector) + 2

\* Mutant: an entry expires when its time to live is reached.
ExpiredEarly == age >= TTL

is_expired == age > TTL

Subtitle == IF age = -1 THEN "waiting" ELSE IF is_expired THEN "stale" ELSE "fresh"

AgeTypeOK ==
  /\ panel \in Panels
  /\ shown \in BOOLEAN
  /\ sub \in {"other", "waiting", "stale", "fresh"}
  /\ due \in BOOLEAN
  /\ age \in Nat \cup {-1}
  /\ loop \in {"queued", "prime", "primed", "sleep", "collect"}
  /\ nap \in Nat
  /\ wrote \in BOOLEAN
  /\ shot \in {"none", "collect", "wrote"}
  /\ busy \in 0..(Slack + 1)
  /\ missed \in BOOLEAN
  /\ seen \in BOOLEAN

AgeInit ==
  /\ panel \in Panels
  /\ shown = FALSE
  /\ sub = "other"
  /\ due = FALSE
  /\ age = -1
  /\ loop = IF Collector \in PrimedFirst THEN "prime" ELSE "queued"
  /\ nap = 0
  /\ wrote = FALSE
  /\ shot = "none"
  /\ busy = 0
  /\ missed = FALSE
  /\ seen = FALSE

-----------------------------------------------------------------------------
\* Mutant: the sleep does not end.
SecondOversleeps ==
  /\ ~due
  /\ age' = IF age = -1 THEN -1 ELSE AtMost(age + 1, TTL + 2)
  /\ busy' = IF loop = "sleep" THEN busy ELSE AtMost(busy + 1, Slack + 1)
  /\ nap' = IF loop = "sleep" THEN nap - 1 ELSE nap
  /\ due' = TRUE
  /\ UNCHANGED <<panel, shown, sub, loop, wrote, shot, missed, seen>>

\* A second passes.  Timers are on time: the header's tick of the last second
\* has come, and a sleep that is over has ended.
Second ==
  /\ ~due
  /\ loop = "sleep" => nap > 0
  /\ age' = IF age = -1 THEN -1 ELSE AtMost(age + 1, TTL + 2)
  /\ busy' = IF loop = "sleep" THEN busy ELSE AtMost(busy + 1, Slack + 1)
  /\ nap' = IF loop = "sleep" THEN nap - 1 ELSE nap
  /\ due' = TRUE
  /\ UNCHANGED <<panel, shown, sub, loop, wrote, shot, missed, seen>>

\* cache.set() of the key.
KeySet ==
  /\ age' = 0
  /\ busy' = 0
  /\ missed' = FALSE
  /\ seen' = shown
  /\ UNCHANGED <<panel, shown, sub, due, loop, nap>>

\* run(): the priority collectors are primed, the others' turn comes.
PrimeRest ==
  /\ loop = "queued"
  /\ loop' = "prime"
  /\ UNCHANGED <<panel, shown, sub, due, age, nap, wrote, shot, busy, missed, seen>>

\* run(): all are primed, the interval loops start asleep.
EnterSteady ==
  /\ loop = "primed"
  /\ loop' = "sleep"
  /\ nap' = Interval(Collector)
  /\ UNCHANGED <<panel, shown, sub, due, age, wrote, shot, busy, missed, seen>>

Wake ==
  /\ loop = "sleep"
  /\ nap = 0
  /\ loop' = "collect"
  /\ UNCHANGED <<panel, shown, sub, due, age, nap, wrote, shot, busy, missed, seen>>

LoopSetsKey ==
  /\ loop \in {"prime", "collect"}
  /\ ~wrote
  /\ wrote' = TRUE
  /\ KeySet
  /\ UNCHANGED shot

\* The pass ends, or raises, or is not for this kind of database.
LoopPassEnds ==
  /\ \/ loop = "prime" /\ loop' = "primed" /\ UNCHANGED nap
     \/ loop = "collect" /\ loop' = "sleep" /\ nap' = Interval(Collector)
  /\ wrote' = FALSE
  /\ missed' = (missed \/ ~wrote)
  /\ UNCHANGED <<panel, shown, sub, due, age, shot, busy, seen>>

ShotSetsKey ==
  /\ shot = "collect"
  /\ shot' = "wrote"
  /\ KeySet
  /\ UNCHANGED wrote

ShotEnds ==
  /\ shot # "none"
  /\ shot' = "none"
  /\ missed' = (missed \/ shot = "collect")
  /\ UNCHANGED <<panel, shown, sub, due, age, loop, nap, wrote, busy, seen>>

\* Mutant: the locks panel is fed by the collector of waits.
CollectorsWrong(p) == IF p = "locks" THEN {"Waits"} ELSE _PANEL_COLLECTORS[p]

Fired(p) == _PANEL_COLLECTORS[p]

\* show_panel(): collect_now() of the panel, which does something only while the
\* scheduler runs; it does as long as the session is up, and nothing else happens
\* here once it is not.  Bound: the user does not come back before the one-shot
\* of the last time has ended.
ShowPanel ==
  /\ ~shown
  /\ shot = "none"
  /\ shown' = TRUE
  /\ seen' = FALSE
  /\ shot' = IF Collector \in Fired(panel) THEN "collect" ELSE "none"
  /\ UNCHANGED <<panel, sub, due, age, loop, nap, wrote, busy, missed>>

ShowOther ==
  /\ shown
  /\ shown' = FALSE
  /\ seen' = FALSE
  /\ UNCHANGED <<panel, sub, due, age, loop, nap, wrote, shot, busy, missed>>

\* Mutant: the header is only rewritten after a switch.
TickOnSwitch ==
  /\ sub' = IF ~shown THEN "other" ELSE IF sub = "other" THEN Subtitle ELSE sub
  /\ due' = FALSE
  /\ UNCHANGED <<panel, shown, age, loop, nap, wrote, shot, busy, missed, seen>>

\* _tick_refresh(), at least once a second.
_tick_refresh ==
  /\ sub' = IF shown THEN Subtitle ELSE "other"
  /\ due' = FALSE
  /\ UNCHANGED <<panel, shown, age, loop, nap, wrote, shot, busy, missed, seen>>

AgeNext ==
  \/ Second \/ PrimeRest \/ EnterSteady \/ Wake
  \/ LoopSetsKey \/ LoopPassEnds \/ ShotSetsKey \/ ShotEnds
  \/ ShowPanel \/ ShowOther \/ _tick_refresh

AgeSpec == AgeInit /\ [][AgeNext]_ageVars

-----------------------------------------------------------------------------
(* Properties *)

\* Collection has stalled: the collector spent more than the slack collecting since
\* it last set the key, or a pass of it ended without setting it.
HasStalled == busy > Slack \/ missed

\* The key lives longer than its collector sleeps, by the slack: the rule of
\* "interval + 2", which most keys follow.
OutlivesSleep == Interval(Collector) + Slack <= TTL

\* Of a panel whose key outlives its collector's sleep - not of the AWR panel, nor
\* of the RMAN one when its collector comes round once a minute - the header says
\* that collection has stalled only when it has, whatever switches and one-shots
\* come in between.
AlarmIsEarned ==
  [][ OutlivesSleep /\ sub' = "stale" /\ sub # "stale" => HasStalled ]_ageVars

\* The header never passes over data that is past its time to live for longer
\* than a second, whatever switches and passes come in between.
SilenceIsFresh == shown /\ sub = "fresh" => age <= TTL + 1

\* A switch to a panel with a key of its own refreshes it: once the one-shot
\* that the switch fired is over, the key was set after the switch, unless a
\* pass failed.
SwitchRefreshes ==
  shown /\ shot = "none" /\ panel \in DOMAIN _PANEL_PRIMARY_KEY => seen \/ missed

-----------------------------------------------------------------------------
(* What a comment says, and a violation run refutes. *)

\* The header is there "so the user knows when collection has stalled": of any
\* panel it says so only when it has, or a one-shot is still at it.
StaleMeansStalled ==
  [][ sub' = "stale" /\ sub # "stale" => HasStalled \/ shot # "none" ]_ageVars
=============================================================================
