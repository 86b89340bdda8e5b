------------------------------- MODULE TimesProofs -------------------------------
(***************************************************************************)
(* The theorems of what depends on time, for any panels, intervals and     *)
(* readings.  Of Freshness: its types, SilenceIsFresh, SwitchRefreshes and *)
(* AlarmIsEarned; the last two rest on the tables: which collector, of all *)
(* the programs, sets the key of a panel.  Of HealthRates: its types and   *)
(* CountsOnce.  Of AdvisorEngine: its types and ShowsWhatPersists, which   *)
(* rests on what its operators on lists keep.                              *)
(***************************************************************************)
EXTENDS MCTimes, SequenceLemmas

-----------------------------------------------------------------------------
(* THE AGE OF THE DATA *)

\* What was fresh when the header was written is a second older at most when it
\* is written again, whichever panel was shown meanwhile.
SilenceInv == sub = "fresh" => age <= TTL + (IF due THEN 1 ELSE 0)

\* Once the one-shot that the switch fired has set the key or is over.
SwitchInv ==
  shown /\ shot # "collect" /\ panel \in DOMAIN _PANEL_PRIMARY_KEY => seen \/ missed

\* How old a key can be of which no pass was missed: as old as the loop has been
\* at work since, and as it has slept.  It sleeps once between a pass that has set
\* the key and the pass that sets it next.
SinceSet ==
  CASE loop = "sleep" -> busy + Interval(Collector) - nap
    [] loop = "collect" /\ ~wrote -> busy + Interval(Collector)
    [] OTHER -> busy

AlarmInv ==
  /\ wrote => loop \in {"prime", "collect"}
  /\ nap <= Interval(Collector)
  /\ age # -1 /\ ~missed /\ busy <= Slack => age <= SinceSet

AgeInv == AgeTypeOK /\ SilenceInv /\ SwitchInv /\ AlarmInv

-----------------------------------------------------------------------------
(* The tables *)

LEMMA TheKeys == PrimaryKeys = {"health.total_sessions", "sessions.list",
     "sql.top", "waits.system_top", "rac.instances", "dg.stats",
     "asm.diskgroups", "rman.history", "awr.tablespaces", "ash.samples",
     "pdb.list", "io.load_profile", "obj.biggest_segments", "sqlmon.active",
     "alertlog.recent", "planhist.unstable", "jobs.list"}
  BY DEF PrimaryKeys, _PANEL_PRIMARY_KEY

\* Of the primary keys a program sets just some.
Own(p, ks) ==
  \A i \in DOMAIN p : \A s \in p[i].sets : s[1] \in PrimaryKeys => s[1] \in ks

LEMMA Owners ==
  /\ Own(Program["Health"], {"health.total_sessions"})
  /\ Own(Program["Waits"], {"waits.system_top"})
  /\ Own(Program["Sessions"], {"sessions.list"})
  /\ Own(Program["SQL"], {"sql.top"})
  /\ Own(Program["RAC"], {"rac.instances"})
  /\ Own(Program["SQLMonitor"], {"sqlmon.active"})
  /\ Own(Program["DataGuard"], {"dg.stats"})
  /\ Own(Program["ASM"], {"asm.diskgroups"})
  /\ Own(Program["RMAN"], {"rman.history"})
  /\ Own(Program["IOActivity"], {"io.load_profile"})
  /\ Own(Program["PDB"], {"pdb.list"})
  /\ Own(Program["Jobs"], {"jobs.list"})
  /\ Own(Program["Exadata"], {})
  /\ Own(Program["Advisor"], {})
  /\ Own(Program["MemoryAdvisor"], {})
  /\ Own(Program["AWR"], {"ash.samples", "awr.tablespaces"})
  /\ Own(Program["Objects"], {"obj.biggest_segments"})
  /\ Own(Program["AlertLog"], {"alertlog.recent"})
  /\ Own(Program["PlanHist"], {"planhist.unstable"})
<1>. USE TheKeys DEF Program, Own, Rows, KeepRow, Step, Read
<1>1. Own(Program["Health"], {"health.total_sessions"})
  BY DEF HealthCollector
<1>2. Own(Program["Waits"], {"waits.system_top"})
  BY DEF WaitsCollector
<1>3. Own(Program["Sessions"], {"sessions.list"})
  BY DEF SessionsCollector
<1>4. Own(Program["SQL"], {"sql.top"})
  BY DEF SQLCollector
<1>5. Own(Program["RAC"], {"rac.instances"})
  BY DEF RACCollector
<1>6. Own(Program["SQLMonitor"], {"sqlmon.active"})
  BY DEF SQLMonitorCollector
<1>7. Own(Program["DataGuard"], {"dg.stats"})
  BY DEF DataGuardCollector
<1>8. Own(Program["ASM"], {"asm.diskgroups"})
  BY DEF ASMCollector
<1>9. Own(Program["RMAN"], {"rman.history"})
  BY DEF RMANCollector
<1>10. Own(Program["IOActivity"], {"io.load_profile"})
  BY DEF IOActivityCollector
<1>11. Own(Program["PDB"], {"pdb.list"})
  BY DEF PDBCollector
<1>12. Own(Program["Jobs"], {"jobs.list"})
  BY DEF JobsCollector
<1>13. Own(Program["Exadata"], {})
  BY DEF ExadataCollector
<1>14. Own(Program["Advisor"], {})
  BY DEF AdvisorCollector
<1>15. Own(Program["MemoryAdvisor"], {})
  BY DEF MemoryAdvisorCollector
<1>16. Own(Program["AWR"], {"ash.samples", "awr.tablespaces"})
  BY DEF AWRCollector
<1>17. Own(Program["Objects"], {"obj.biggest_segments"})
  BY DEF ObjectsCollector
<1>18. Own(Program["AlertLog"], {"alertlog.recent"})
  BY DEF AlertLogCollector
<1>19. Own(Program["PlanHist"], {"planhist.unstable"})
  BY DEF PlanHistCollector
<1>. HIDE DEF Program, Own, Rows, KeepRow, Step, Read
<1>. QED
  BY <1>1, <1>2, <1>3, <1>4, <1>5, <1>6, <1>7, <1>8, <1>9, <1>10, <1>11,
     <1>12, <1>13, <1>14, <1>15, <1>16, <1>17, <1>18, <1>19

\* Step i of a program sets a key from some queries.
Does(p, i, s) == i \in DOMAIN p /\ s \in p[i].sets
LEMMA Setters ==
  /\ Does(Program["Health"], 2, <<"health.total_sessions", {2}>>)
  /\ Does(Program["Waits"], 1, <<"waits.system_top", {1}>>)
  /\ Does(Program["Sessions"], 1, <<"sessions.list", {1}>>)
  /\ Does(Program["SQL"], 1, <<"sql.top", {1}>>)
  /\ Does(Program["RAC"], 2, <<"rac.instances", {2}>>)
  /\ Does(Program["SQLMonitor"], 1, <<"sqlmon.active", {1}>>)
  /\ Does(Program["DataGuard"], 2, <<"dg.stats", {2}>>)
  /\ Does(Program["ASM"], 1, <<"asm.diskgroups", {1}>>)
  /\ Does(Program["RMAN"], 8, <<"rman.history", {7}>>)
  /\ Does(Program["IOActivity"], 3, <<"io.load_profile", {3}>>)
  /\ Does(Program["PDB"], 2, <<"pdb.list", {2}>>)
  /\ Does(Program["Jobs"], 2, <<"jobs.list", {1, 2}>>)
  /\ Does(Program["AWR"], 4, <<"ash.samples", {4}>>)
  /\ Does(Program["AWR"], 5, <<"awr.tablespaces", {5}>>)
  /\ Does(Program["Objects"], 8, <<"obj.biggest_segments", {8}>>)
  /\ Does(Program["AlertLog"], 1, <<"alertlog.recent", {1}>>)
  /\ Does(Program["PlanHist"], 1, <<"planhist.unstable", {1}>>)
<1>. USE DEF Program, Does, Rows, KeepRow, Step, Read
<1>1. Does(Program["Health"], 2, <<"health.total_sessions", {2}>>)
  BY DEF HealthCollector
<1>2. Does(Program["Waits"], 1, <<"waits.system_top", {1}>>)
  BY DEF WaitsCollector
<1>3. Does(Program["Sessions"], 1, <<"sessions.list", {1}>>)
  BY DEF SessionsCollector
<1>4. Does(Program["SQL"], 1, <<"sql.top", {1}>>)
  BY DEF SQLCollector
<1>5. Does(Program["RAC"], 2, <<"rac.instances", {2}>>)
  BY DEF RACCollector
<1>6. Does(Program["SQLMonitor"], 1, <<"sqlmon.active", {1}>>)
  BY DEF SQLMonitorCollector
<1>7. Does(Program["DataGuard"], 2, <<"dg.stats", {2}>>)
  BY DEF DataGuardCollector
<1>8. Does(Program["ASM"], 1, <<"asm.diskgroups", {1}>>)
  BY DEF ASMCollector
<1>9. Does(Program["RMAN"], 8, <<"rman.history", {7}>>)
  BY DEF RMANCollector
<1>10. Does(Program["IOActivity"], 3, <<"io.load_profile", {3}>>)
  BY DEF IOActivityCollector
<1>11. Does(Program["PDB"], 2, <<"pdb.list", {2}>>)
  BY DEF PDBCollector
<1>12. Does(Program["Jobs"], 2, <<"jobs.list", {1, 2}>>)
  BY DEF JobsCollector
<1>13. Does(Program["AWR"], 4, <<"ash.samples", {4}>>)
  BY DEF AWRCollector
<1>14. Does(Program["AWR"], 5, <<"awr.tablespaces", {5}>>)
  BY DEF AWRCollector
<1>15. Does(Program["Objects"], 8, <<"obj.biggest_segments", {8}>>)
  BY DEF ObjectsCollector
<1>16. Does(Program["AlertLog"], 1, <<"alertlog.recent", {1}>>)
  BY DEF AlertLogCollector
<1>17. Does(Program["PlanHist"], 1, <<"planhist.unstable", {1}>>)
  BY DEF PlanHistCollector
<1>. HIDE DEF Program, Does, Rows, KeepRow, Step, Read
<1>. QED
  BY <1>1, <1>2, <1>3, <1>4, <1>5, <1>6, <1>7, <1>8, <1>9, <1>10, <1>11,
     <1>12, <1>13, <1>14, <1>15, <1>16, <1>17

LEMMA KeysAreSet ==
  \A c \in Name : \A k : k \in KeysOf(c) <=>
    \E i \in DOMAIN Program[c] : \E s \in Program[c][i].sets : s[1] = k
  BY DEF KeysOf

LEMMA Names ==
  Name = {"Health", "Waits", "Sessions", "SQL", "RAC", "SQLMonitor", "DataGuard",
          "ASM", "RMAN", "IOActivity", "PDB", "Jobs", "Exadata", "Advisor",
          "MemoryAdvisor", "AWR", "Objects", "AlertLog", "PlanHist"}
  BY DEF Name, Program

\* Each primary key is set by some collector.
LEMMA EachIsSet == \A k \in PrimaryKeys : \E c \in Name : k \in KeysOf(c)
<1>1. \A c \in Name : \A k, i, Q : Does(Program[c], i, <<k, Q>>) => k \in KeysOf(c)
  <2>1. \A k, Q : <<k, Q>>[1] = k
    OBVIOUS
  <2>. QED  BY <2>1, KeysAreSet DEF Does
<1>. QED  BY <1>1, TheKeys, Setters, Names

\* A collector that sets the key of a panel is fired by a switch to it.
LEMMA WhoSets ==
  ASSUME NEW c \in Name, NEW p \in DOMAIN _PANEL_PRIMARY_KEY,
         _PANEL_PRIMARY_KEY[p] \in KeysOf(c)
  PROVE  /\ c \in _PANEL_COLLECTORS[p]
         /\ p = "rman" => c = "RMAN"
         /\ p = "segments" => c = "Objects"
<1>1. _PANEL_PRIMARY_KEY[p] \in PrimaryKeys
  BY DEF PrimaryKeys
<1>2. \A ks : Own(Program[c], ks) => _PANEL_PRIMARY_KEY[p] \in ks
  BY <1>1, KeysAreSet DEF Own
<1>. QED  BY <1>2, Owners, Names DEF _PANEL_PRIMARY_KEY, _PANEL_COLLECTORS

LEMMA CollectorFeeds ==
  ASSUME panel \in Panels
  PROVE  /\ Collector \in Name
         /\ panel \in DOMAIN _PANEL_PRIMARY_KEY => Collector \in Fired(panel)
         /\ panel = "rman" => Collector = "RMAN"
         /\ panel = "segments" => Collector = "Objects"
<1>1. PrimaryKey[panel] \in PrimaryKeys
  <2>1. "health.total_sessions" \in PrimaryKeys
    BY TheKeys
  <2>. QED  BY <2>1 DEF PrimaryKey, PrimaryKeys
<1>2. Collector \in Name /\ PrimaryKey[panel] \in KeysOf(Collector)
  BY <1>1, EachIsSet DEF Collector, CollectorOf
<1>3. /\ "rman" \in DOMAIN _PANEL_PRIMARY_KEY
      /\ "segments" \in DOMAIN _PANEL_PRIMARY_KEY
  BY DEF _PANEL_PRIMARY_KEY
<1>. QED  BY <1>2, <1>3, WhoSets DEF PrimaryKey, Fired

LEMMA Intervals == \A c : Interval(c) \in Nat \ {0}
<1>1. RefreshInterval \in Nat \ {0}
  BY FreshnessAssumption
<1>. QED  BY <1>1 DEF Interval, AtMost, AtLeast

LEMMA TimesToLive == TTL \in Nat
  BY Intervals DEF TTL

\* The time to live leaves room for a sleep and the slack, but for the key of the
\* AWR panel, and that of the RMAN panel at a slow refresh.
LEMMA LeavesRoom ==
  ASSUME panel \in Panels, panel # "awr",
         panel = "rman" => 2 * RefreshInterval + Slack <= 60
  PROVE  Interval(Collector) + Slack <= TTL
<1>1. RefreshInterval \in Nat \ {0}
  BY FreshnessAssumption
<1>2. Interval(Collector) \in Nat
  BY Intervals
<1>3. /\ active_primary_key = "rman.history" => panel = "rman"
      /\ active_primary_key # "awr.tablespaces"
      /\ active_primary_key = "obj.biggest_segments" => panel = "segments"
  BY DEF active_primary_key, PrimaryKey, _PANEL_PRIMARY_KEY
<1>4. panel = "rman" => Interval(Collector) = AtLeast(RefreshInterval * 2, 12)
  BY CollectorFeeds DEF Interval
<1>5. panel = "segments" => Interval(Collector) = 60
  BY CollectorFeeds DEF Interval
<1>. QED  BY <1>1, <1>2, <1>3, <1>4, <1>5 DEF TTL, Slack, AtLeast

-----------------------------------------------------------------------------
(* The invariant *)

LEMMA InitEstablishesAge == AgeInit => AgeInv
<1>. SUFFICES ASSUME AgeInit
              PROVE  AgeInv
  OBVIOUS
<1>1. /\ Interval(Collector) \in Nat
      /\ TTL \in Nat
  BY Intervals, TimesToLive
<1>2. AgeTypeOK
  <2>1. panel \in Panels /\ loop \in {"queued", "prime", "primed", "sleep", "collect"}
    BY DEF AgeInit
  <2>2. shown \in BOOLEAN /\ due \in BOOLEAN /\ wrote \in BOOLEAN
    BY Zenon DEF AgeInit
  <2>3. missed \in BOOLEAN /\ seen \in BOOLEAN
    BY Zenon DEF AgeInit
  <2>. QED  BY <2>1, <2>2, <2>3 DEF AgeInit, AgeTypeOK, Slack
<1>3. SilenceInv /\ SwitchInv
  BY DEF AgeInit, SilenceInv, SwitchInv
<1>4. AlarmInv
  BY <1>1 DEF AgeInit, AlarmInv
<1>. QED  BY <1>2, <1>3, <1>4 DEF AgeInv

\* The panel that is followed stays the same, and so do its tables.
LEMMA TablesStay ==
  ASSUME UNCHANGED panel
  PROVE  TTL' = TTL /\ Collector' = Collector /\ Interval(Collector)' = Interval(Collector)
  BY DEF TTL, Collector, active_primary_key, Interval, AtMost, AtLeast

LEMMA NextKeepsAge == AgeInv /\ [AgeNext]_ageVars => AgeInv'
<1>. SUFFICES ASSUME AgeInv, [AgeNext]_ageVars
              PROVE  AgeInv'
  OBVIOUS
<1>. DEFINE T == TTL
            L == Interval(Collector)
<1>1. UNCHANGED panel
  BY DEF AgeNext, ageVars, Second, PrimeRest, EnterSteady, Wake, LoopSetsKey, KeySet,
         LoopPassEnds, ShotSetsKey, ShotEnds, ShowPanel, ShowOther, _tick_refresh
<1>2. /\ TTL' = T /\ Interval(Collector)' = L
      /\ T \in Nat /\ L \in Nat \ {0}
      /\ is_expired <=> age > T
  BY <1>1, TablesStay, TimesToLive, Intervals DEF is_expired
<1>3. /\ AgeTypeOK
      /\ sub = "fresh" => age <= T + (IF due THEN 1 ELSE 0)
      /\ SwitchInv
      /\ wrote => loop \in {"prime", "collect"}
      /\ nap <= L
      /\ age # -1 /\ ~missed /\ busy <= Slack =>
           /\ loop = "sleep" => age <= busy + L - nap
           /\ loop # "sleep" => age <= busy + L
           /\ loop # "sleep" /\ (loop # "collect" \/ wrote) => age <= busy
  BY <1>2 DEF AgeInv, SilenceInv, AlarmInv, SinceSet, AgeTypeOK, Slack
<1>4. SUFFICES /\ AgeTypeOK'
               /\ sub' = "fresh" => age' <= T + (IF due' THEN 1 ELSE 0)
               /\ SwitchInv'
               /\ wrote' => loop' \in {"prime", "collect"}
               /\ nap' <= L
               /\ age' # -1 /\ ~missed' /\ busy' <= Slack =>
                    /\ loop' = "sleep" => age' <= busy' + L - nap'
                    /\ loop' # "sleep" => age' <= busy' + L
                    /\ loop' # "sleep" /\ (loop' # "collect" \/ wrote') => age' <= busy'
  BY <1>2 DEF AgeInv, SilenceInv, AlarmInv, SinceSet
<1>5. Interval(Collector) = L /\ TTL = T
  OBVIOUS
<1>. HIDE DEF T, L
<1>. USE DEF AgeTypeOK, SwitchInv, Slack
<1>10. CASE Second
  BY <1>1, <1>2, <1>3, <1>5, <1>10 DEF Second, AtMost
<1>11. CASE PrimeRest
  BY <1>1, <1>2, <1>3, <1>11 DEF PrimeRest
<1>12. CASE EnterSteady
  BY <1>1, <1>2, <1>3, <1>5, <1>12 DEF EnterSteady
<1>13. CASE Wake
  <2>1. AgeTypeOK'
    BY <1>1, <1>2, <1>3, <1>13 DEF Wake
  <2>2. /\ sub' = "fresh" => age' <= T + (IF due' THEN 1 ELSE 0)
        /\ SwitchInv'
        /\ wrote' => loop' \in {"prime", "collect"}
        /\ nap' <= L
    BY <1>1, <1>2, <1>3, <1>13 DEF Wake
  <2>3. age' # -1 /\ ~missed' /\ busy' <= Slack =>
          /\ loop' = "sleep" => age' <= busy' + L - nap'
          /\ loop' # "sleep" => age' <= busy' + L
          /\ loop' # "sleep" /\ (loop' # "collect" \/ wrote') => age' <= busy'
    <3>1. age \in Int /\ busy \in Nat /\ nap \in Nat /\ L \in Nat
      BY <1>2, <1>3
    <3>. HIDE DEF AgeTypeOK, SwitchInv
    <3>. QED  BY <1>3, <1>5, <1>13, <3>1 DEF Wake
  <2>. QED  BY <2>1, <2>2, <2>3
<1>14. CASE LoopSetsKey
  <2>1. AgeTypeOK'
    <3>1. seen' \in BOOLEAN
      BY Zenon, <1>3, <1>14 DEF LoopSetsKey, KeySet
    <3>2. missed' \in BOOLEAN /\ wrote' \in BOOLEAN
      BY Zenon, <1>3, <1>14 DEF LoopSetsKey, KeySet
    <3>. QED  BY <1>1, <1>3, <1>14, <3>1, <3>2 DEF LoopSetsKey, KeySet
  <2>2. /\ sub' = "fresh" => age' <= T + (IF due' THEN 1 ELSE 0)
        /\ SwitchInv'
        /\ wrote' => loop' \in {"prime", "collect"}
        /\ nap' <= L
    BY <1>1, <1>2, <1>3, <1>14 DEF LoopSetsKey, KeySet
  <2>3. age' # -1 /\ ~missed' /\ busy' <= Slack =>
          /\ loop' = "sleep" => age' <= busy' + L - nap'
          /\ loop' # "sleep" => age' <= busy' + L
          /\ loop' # "sleep" /\ (loop' # "collect" \/ wrote') => age' <= busy'
    BY <1>1, <1>2, <1>3, <1>14 DEF LoopSetsKey, KeySet
  <2>. QED  BY <2>1, <2>2, <2>3
<1>15. CASE LoopPassEnds
  <2>1. AgeTypeOK'
    BY <1>1, <1>2, <1>3, <1>5, <1>15 DEF LoopPassEnds
  <2>2. /\ sub' = "fresh" => age' <= T + (IF due' THEN 1 ELSE 0)
        /\ SwitchInv'
        /\ wrote' => loop' \in {"prime", "collect"}
        /\ nap' <= L
    BY <1>1, <1>2, <1>3, <1>5, <1>15 DEF LoopPassEnds
  <2>3. age' # -1 /\ ~missed' /\ busy' <= Slack =>
          /\ loop' = "sleep" => age' <= busy' + L - nap'
          /\ loop' # "sleep" => age' <= busy' + L
          /\ loop' # "sleep" /\ (loop' # "collect" \/ wrote') => age' <= busy'
    <3>1. age \in Int /\ busy \in Nat /\ nap \in Nat /\ L \in Nat
      BY <1>2, <1>3
    <3>2. ~missed' => ~missed /\ wrote
      BY Zenon, <1>15 DEF LoopPassEnds
    <3>. HIDE DEF AgeTypeOK, SwitchInv
    <3>. QED  BY <1>3, <1>5, <1>15, <3>1, <3>2 DEF LoopPassEnds
  <2>. QED  BY <2>1, <2>2, <2>3
<1>16. CASE ShotSetsKey
  <2>1. AgeTypeOK'
    <3>1. seen' \in BOOLEAN
      BY Zenon, <1>3, <1>16 DEF ShotSetsKey, KeySet
    <3>2. missed' \in BOOLEAN /\ wrote' \in BOOLEAN
      BY Zenon, <1>3, <1>16 DEF ShotSetsKey, KeySet
    <3>. QED  BY <1>1, <1>3, <1>16, <3>1, <3>2 DEF ShotSetsKey, KeySet
  <2>2. /\ sub' = "fresh" => age' <= T + (IF due' THEN 1 ELSE 0)
        /\ SwitchInv'
        /\ wrote' => loop' \in {"prime", "collect"}
        /\ nap' <= L
    BY <1>1, <1>2, <1>3, <1>16 DEF ShotSetsKey, KeySet
  <2>3. age' # -1 /\ ~missed' /\ busy' <= Slack =>
          /\ loop' = "sleep" => age' <= busy' + L - nap'
          /\ loop' # "sleep" => age' <= busy' + L
          /\ loop' # "sleep" /\ (loop' # "collect" \/ wrote') => age' <= busy'
    BY <1>1, <1>2, <1>3, <1>16 DEF ShotSetsKey, KeySet
  <2>. QED  BY <2>1, <2>2, <2>3
<1>17. CASE ShotEnds
  BY <1>1, <1>2, <1>3, <1>17 DEF ShotEnds
<1>18. CASE ShowPanel
  <2>1. panel \in DOMAIN _PANEL_PRIMARY_KEY => shot' = "collect"
    BY <1>3, <1>18, CollectorFeeds DEF ShowPanel
  <2>. QED  BY <1>1, <1>2, <1>3, <1>18, <2>1 DEF ShowPanel
<1>19. CASE ShowOther
  BY <1>1, <1>2, <1>3, <1>19 DEF ShowOther
<1>20. CASE _tick_refresh
  <2>1. AgeTypeOK'
    BY <1>1, <1>2, <1>3, <1>20 DEF _tick_refresh, Subtitle
  <2>2. /\ sub' = "fresh" => age' <= T + (IF due' THEN 1 ELSE 0)
        /\ SwitchInv'
        /\ wrote' => loop' \in {"prime", "collect"}
        /\ nap' <= L
    BY <1>1, <1>2, <1>3, <1>20 DEF _tick_refresh, Subtitle
  <2>3. age' # -1 /\ ~missed' /\ busy' <= Slack =>
          /\ loop' = "sleep" => age' <= busy' + L - nap'
          /\ loop' # "sleep" => age' <= busy' + L
          /\ loop' # "sleep" /\ (loop' # "collect" \/ wrote') => age' <= busy'
    BY <1>1, <1>2, <1>3, <1>20 DEF _tick_refresh, Subtitle
  <2>. QED  BY <2>1, <2>2, <2>3
<1>21. CASE UNCHANGED ageVars
  BY <1>1, <1>2, <1>3, <1>21 DEF ageVars
<1>. QED
  BY <1>10, <1>11, <1>12, <1>13, <1>14, <1>15, <1>16, <1>17, <1>18, <1>19, <1>20,
     <1>21 DEF AgeNext

LEMMA AgeIsInvariant == AgeSpec => []AgeInv
  BY InitEstablishesAge, NextKeepsAge, PTL DEF AgeSpec

-----------------------------------------------------------------------------
\* Types: AgeTypeOK holds for any set of panels and any refresh interval.
THEOREM AgeTypes == AgeSpec => []AgeTypeOK
<1>1. AgeInv => AgeTypeOK
  BY DEF AgeInv
<1>. QED  BY <1>1, AgeIsInvariant, PTL

\* The header calls data fresh that is past its time to live for a second at
\* most, for any panel: SilenceIsFresh.
THEOREM SilenceMeansFresh == AgeSpec => []SilenceIsFresh
<1>1. AgeInv => SilenceIsFresh
  <2>. SUFFICES ASSUME AgeInv, sub = "fresh"
                PROVE  age <= TTL + 1
    BY DEF SilenceIsFresh
  <2>. QED  BY TimesToLive DEF AgeInv, SilenceInv, AgeTypeOK
<1>. QED  BY <1>1, AgeIsInvariant, PTL

\* A switch refreshes every panel that has a key of its own, for the collectors
\* that it fires are those that set the key: SwitchRefreshes.
THEOREM SwitchesRefresh == AgeSpec => []SwitchRefreshes
<1>1. AgeInv => SwitchRefreshes
  BY DEF AgeInv, SwitchInv, SwitchRefreshes
<1>. QED  BY <1>1, AgeIsInvariant, PTL

\* The header says that collection has stalled only when it has, of every panel
\* whose key outlives its collector's sleep: AlarmIsEarned.
THEOREM AlarmsAreEarned == AgeSpec => AlarmIsEarned
<1>1. ASSUME AgeInv, [AgeNext]_ageVars
      PROVE  [OutlivesSleep /\ sub' = "stale" /\ sub # "stale" => HasStalled]_ageVars
  <2>. SUFFICES ASSUME AgeNext, OutlivesSleep, sub' = "stale", sub # "stale",
                       ~missed, ~(busy > Slack)
                PROVE  FALSE
    BY <1>1 DEF HasStalled
  <2>1. _tick_refresh /\ Subtitle = "stale"
    BY DEF AgeNext, Second, PrimeRest, EnterSteady, Wake, LoopSetsKey, KeySet,
           LoopPassEnds, ShotSetsKey, ShotEnds, ShowPanel, ShowOther, _tick_refresh
  <2>2. age # -1 /\ age > TTL
    BY <2>1 DEF Subtitle, is_expired
  <2>3. /\ Interval(Collector) \in Nat /\ TTL \in Nat
        /\ Interval(Collector) + Slack <= TTL
    BY Intervals, TimesToLive DEF OutlivesSleep
  <2>4. /\ nap \in Nat /\ busy \in Nat /\ busy <= Slack /\ age \in Nat
        /\ nap <= Interval(Collector) /\ age <= SinceSet
    BY <1>1, <2>2 DEF AgeInv, AgeTypeOK, AlarmInv, Slack
  <2>5. SinceSet <= Interval(Collector) + Slack
    BY <2>3, <2>4 DEF SinceSet, Slack
  <2>6. SinceSet \in Int
    BY <2>3, <2>4 DEF SinceSet
  <2>. QED  BY <2>2, <2>3, <2>4, <2>5, <2>6 DEF Slack
<1>. QED  BY <1>1, AgeIsInvariant, PTL DEF AgeSpec, AlarmIsEarned

\* Two panels only are excepted: the key of the AWR panel lives just as long as its
\* collector sleeps, and the one of the RMAN panel a minute whatever the interval.
THEOREM OthersAreEarned ==
  ASSUME "awr" \notin Panels,
         "rman" \in Panels => 2 * RefreshInterval + Slack <= 60
  PROVE  AgeSpec => StaleMeansStalled
<1>1. AgeInv => OutlivesSleep
  BY LeavesRoom DEF AgeInv, AgeTypeOK, OutlivesSleep
<1>2. AgeInv /\ [OutlivesSleep /\ sub' = "stale" /\ sub # "stale" => HasStalled]_ageVars
        => [sub' = "stale" /\ sub # "stale" => HasStalled \/ shot # "none"]_ageVars
  BY <1>1
<1>. QED
  BY <1>2, AlarmsAreEarned, AgeIsInvariant, PTL DEF AlarmIsEarned, StaleMeansStalled

-----------------------------------------------------------------------------
(* THE RATES PER SECOND *)

\* The counter has seen no more than the database did since it was started, which
\* is no more than it could.
Bounded == counter <= grown /\ grown <= clock

OnePass ==
  ~crossed => \A u, w \in Pass : pc[u] # "none" /\ pc[w] # "none" => u = w

Above(new, old) == IF new = NoRow \/ old = NoRow THEN 0 ELSE Difference(new, old)

\* The differences there will be, if the pass that is under way reads the counter
\* as it is, or has read it and another one follows: a restart makes them fewer,
\* for what the counter lost with it is never counted.
NotTooMuch ==
  ~crossed =>
    /\ (\A w \in Pass : pc[w] # "rows") => counted + Above(counter, prev) <= grown
    /\ \A w \in Pass : pc[w] = "rows" =>
         counted + Above(row[w], prev) + Above(counter, row[w]) <= grown

RatesInv == RatesTypeOK /\ Bounded /\ OnePass /\ NotTooMuch

-----------------------------------------------------------------------------
LEMMA DifferenceBounds ==
  ASSUME NEW new \in 0..Horizon \cup {NoRow}, NEW old \in 0..Horizon
  PROVE  Difference(new, old) \in 0..Horizon
  BY RatesAssumption DEF Difference

\* What is above an older snapshot is a number, and grows with the counter by as
\* much as the counter at most.
LEMMA AboveGrows ==
  ASSUME NEW old \in 0..Horizon \cup {NoRow}, NEW new \in Nat, NEW n \in {0, 1}
  PROVE  /\ Above(new, old) \in Nat
         /\ Above(new + n, old) \in Nat
         /\ Above(new + n, old) <= Above(new, old) + n
         /\ Above(0, old) = 0
  BY RatesAssumption DEF Above, Difference

LEMMA AboveNat ==
  ASSUME NEW old \in 0..Horizon \cup {NoRow}, NEW new \in 0..Horizon \cup {NoRow}
  PROVE  Above(new, old) \in Nat
  BY RatesAssumption DEF Above, Difference

LEMMA InitEstablishesRates == RatesInit => RatesInv
<1>. SUFFICES ASSUME RatesInit PROVE RatesInv
  OBVIOUS
<1>. USE RatesAssumption DEF RatesInit
<1>1. /\ pc \in [Pass -> {"none", "asked", "rows"}]
      /\ row \in [Pass -> 0..Horizon \cup {NoRow}]
  OBVIOUS
<1>2. RatesTypeOK
  BY <1>1 DEF RatesTypeOK
<1>3. Bounded /\ OnePass
  BY DEF Bounded, OnePass
<1>4. NotTooMuch
  BY DEF NotTooMuch, Above
<1>. QED  BY <1>2, <1>3, <1>4 DEF RatesInv

LEMMA NextKeepsRates == RatesInv /\ [RatesNext]_rateVars => RatesInv'
<1>. SUFFICES ASSUME RatesInv, [RatesNext]_rateVars PROVE RatesInv'
  OBVIOUS
<1>. USE RatesAssumption DEF RatesInv
<1>1. CASE RatesSecond
  <2>1. PICK n \in {0, 1} : counter' = counter + n /\ grown' = grown + n
    BY <1>1 DEF RatesSecond
  <2>2. RatesTypeOK' /\ Bounded' /\ OnePass'
    BY <1>1, <2>1 DEF RatesSecond, RatesTypeOK, Bounded, OnePass
  <2>3. UNCHANGED <<pc, row, prev, counted, crossed>>
    BY <1>1 DEF RatesSecond
  <2>4. /\ counter \in Nat /\ grown \in Nat /\ counted \in Nat
        /\ prev \in 0..Horizon \cup {NoRow}
        /\ \A w \in Pass : row[w] \in 0..Horizon \cup {NoRow}
    BY DEF RatesTypeOK
  <2>5. Above(counter', prev) <= Above(counter, prev) + n /\ Above(counter, prev) \in Nat
        /\ Above(counter', prev) \in Nat
    BY <2>1, <2>4, AboveGrows
  <2>6. \A w \in Pass : /\ Above(counter', row[w]) <= Above(counter, row[w]) + n
                        /\ Above(counter, row[w]) \in Nat
                        /\ Above(counter', row[w]) \in Nat
                        /\ Above(row[w], prev) \in Nat
    BY <2>1, <2>4, AboveGrows, AboveNat
  <2>7. NotTooMuch'
    BY <2>1, <2>3, <2>4, <2>5, <2>6 DEF NotTooMuch
  <2>. QED  BY <2>2, <2>7
<1>2. CASE DatabaseRestarts
  <2>1. RatesTypeOK' /\ Bounded' /\ OnePass'
    BY <1>2 DEF DatabaseRestarts, RatesTypeOK, Bounded, OnePass
  <2>2. UNCHANGED <<grown, pc, row, prev, counted, crossed>> /\ counter' = 0
    BY <1>2 DEF DatabaseRestarts
  <2>3. counted \in Nat /\ grown \in Nat /\ counter \in Nat
    BY DEF RatesTypeOK
  <2>4. Above(counter', prev) = 0 /\ Above(counter, prev) \in Nat
    BY <2>2, <2>3, AboveGrows DEF RatesTypeOK
  <2>5. \A w \in Pass : /\ Above(counter', row[w]) = 0 /\ Above(counter, row[w]) \in Nat
                        /\ Above(row[w], prev) \in Nat
    BY <2>2, <2>3, AboveGrows, AboveNat DEF RatesTypeOK
  <2>6. NotTooMuch'
    BY <2>2, <2>3, <2>4, <2>5 DEF NotTooMuch
  <2>. QED  BY <2>1, <2>6
<1>3. ASSUME NEW w \in Pass, Ask(w)
      PROVE  RatesInv'
  <2>1. RatesTypeOK' /\ Bounded'
    BY <1>3 DEF Ask, RatesTypeOK, Bounded
  <2>2. OnePass'
    BY <1>3 DEF Ask, OnePass, RatesTypeOK
  <2>3. NotTooMuch'
    BY <1>3 DEF Ask, NotTooMuch, RatesTypeOK
  <2>. QED  BY <2>1, <2>2, <2>3
<1>4. ASSUME NEW w \in Pass, Answer(w)
      PROVE  RatesInv'
  <2>1. PICK r \in {counter, NoRow} : row' = [row EXCEPT ![w] = r]
    BY <1>4 DEF Answer
  <2>2. /\ pc[w] = "asked" /\ pc' = [pc EXCEPT ![w] = "rows"]
        /\ UNCHANGED <<clock, counter, grown, nap_s, prev, delta, counted, crossed>>
    BY <1>4 DEF Answer
  <2>3. RatesTypeOK' /\ Bounded' /\ OnePass'
    BY <2>1, <2>2 DEF RatesTypeOK, Bounded, OnePass
  <2>4. ASSUME ~crossed
        PROVE  /\ pc'[w] = "rows" /\ row'[w] = r
               /\ \A u \in Pass : pc'[u] = "rows" => u = w
               /\ counted + Above(counter, prev) <= grown
    BY <2>1, <2>2, <2>4 DEF OnePass, NotTooMuch, RatesTypeOK
  <2>5. counted \in Nat /\ grown \in Nat /\ counter \in 0..Horizon
    BY DEF RatesTypeOK
  <2>6. Above(counter, counter) = 0 /\ Above(counter, prev) \in Nat
    BY <2>5, AboveNat DEF Above, Difference, RatesTypeOK
  <2>7. Above(NoRow, prev) = 0 /\ Above(counter, NoRow) = 0
    BY DEF Above
  <2>8. NotTooMuch'
    BY <2>2, <2>4, <2>5, <2>6, <2>7 DEF NotTooMuch
  <2>. QED  BY <2>3, <2>8
<1>5. ASSUME NEW w \in Pass, ComputeRates(w)
      PROVE  RatesInv'
  <2>1. /\ pc[w] = "rows" /\ pc' = [pc EXCEPT ![w] = "none"]
        /\ row' = [row EXCEPT ![w] = NoRow] /\ prev' = row[w]
        /\ delta' = IF prev = NoRow THEN NoRow ELSE Difference(row[w], prev)
        /\ counted' = IF prev = NoRow THEN counted ELSE counted + delta'
        /\ UNCHANGED <<clock, counter, grown, crossed>>
        /\ nap_s' \in {HealthInterval, nap_s}
    BY <1>5 DEF ComputeRates, Snapshot
  <2>2. row[w] \in 0..Horizon \cup {NoRow} /\ counted \in Nat /\ grown \in Nat
        /\ counter \in 0..Horizon /\ prev \in 0..Horizon \cup {NoRow}
    BY DEF RatesTypeOK
  <2>3. delta' \in 0..Horizon \cup {NoRow} /\ counted' \in Nat
    <3>1. CASE prev = NoRow
      BY <2>1, <2>2, <3>1
    <3>2. CASE prev \in 0..Horizon
      <4>1. Difference(row[w], prev) \in 0..Horizon
        BY <2>2, <3>2, DifferenceBounds
      <4>2. delta' = Difference(row[w], prev) /\ counted' = counted + delta'
        BY <2>1, <3>2
      <4>. QED  BY <2>2, <4>1, <4>2
    <3>. QED  BY <2>2, <3>1, <3>2
  <2>4. RatesTypeOK' /\ Bounded' /\ OnePass'
    BY <2>1, <2>2, <2>3 DEF RatesTypeOK, Bounded, OnePass
  <2>5. counted' = counted + (IF prev = NoRow THEN 0 ELSE Difference(row[w], prev))
    BY <2>1, <2>2
  <2>6. ASSUME ~crossed
        PROVE  /\ \A u \in Pass : pc'[u] # "rows"
               /\ counted + Above(row[w], prev) + Above(counter, row[w]) <= grown
    BY <2>1, <2>6 DEF OnePass, NotTooMuch, RatesTypeOK
  <2>7. (IF prev = NoRow THEN 0 ELSE Difference(row[w], prev)) = Above(row[w], prev)
    BY <2>2 DEF Above, Difference
  <2>8. NotTooMuch'
    BY <2>1, <2>5, <2>6, <2>7 DEF NotTooMuch
  <2>. QED  BY <2>4, <2>8
<1>6. CASE UNCHANGED rateVars
  BY <1>6 DEF rateVars, RatesTypeOK, Bounded, OnePass, NotTooMuch
<1>. QED  BY <1>1, <1>2, <1>3, <1>4, <1>5, <1>6 DEF RatesNext

-----------------------------------------------------------------------------
\* Types: a difference, and with it a rate, is never negative, although counters
\* fall and queries fail.
THEOREM RatesTypesCorrect == RatesSpec => []RatesTypeOK
<1>1. RatesInv => RatesTypeOK
  BY DEF RatesInv
<1>. QED  BY <1>1, InitEstablishesRates, NextKeepsRates, PTL DEF RatesSpec

\* As long as no two passes cross, the differences add up to no more than the
\* database did.
THEOREM RatesCountOnce == RatesSpec => []CountsOnce
<1>1. RatesInv => CountsOnce
  <2>. SUFFICES ASSUME RatesInv, ~crossed PROVE counted <= grown
    BY DEF CountsOnce
  <2>1. counted \in Nat /\ grown \in Nat
    BY DEF RatesInv, RatesTypeOK
  <2>2. Above(counter, prev) \in Nat
    BY AboveNat DEF RatesInv, RatesTypeOK
  <2>3. \A w \in Pass : Above(row[w], prev) \in Nat /\ Above(counter, row[w]) \in Nat
    BY AboveNat DEF RatesInv, RatesTypeOK
  <2>. QED  BY <2>1, <2>2, <2>3 DEF RatesInv, NotTooMuch
<1>. QED  BY <1>1, InitEstablishesRates, NextKeepsRates, PTL DEF RatesSpec

-----------------------------------------------------------------------------
(* THE ADVISOR *)

\* What the database has, and what is in the cache.
IsReading(k, r) == r \in Reading[k]
MayBeCached(k, r) == r \in Reading[k] \/ r = <<>>

CollectorInv(k) ==
  /\ db[k] \in Reading[k]
  /\ MayBeCached(k, cache[k])
  /\ pass[k] \in [value : Reading[k], secs : 0..PassMax] \cup {NoPass}
  /\ sleep[k] \in 0..Every[k]
  /\ since[k] \in 0..(Delay(k) + 1)

\* A pass has read what the database has, if it has had it for longer than the
\* pass is at it, and with the time the loop has slept and the next pass is at it,
\* so has the cache.
CacheInv(k) ==
  IF pass[k] = NoPass
    THEN since[k] > PassMax + Every[k] - sleep[k] => cache[k] = db[k]
    ELSE /\ since[k] > pass[k].secs => pass[k].value = db[k]
         /\ since[k] > PassMax + Every[k] + pass[k].secs => cache[k] = db[k]

\* The findings are those of the readings that were cached when they were made.
Made(c) ==
  /\ findings = Capped(Sorted(AllFoundIn(c)))
  /\ \A k \in sources :
       /\ MayBeCached(k, c[k])
       /\ since[k] > 2 * PassMax + Every[k] + interval - rest => c[k] = db[k]

NoneYet == findings = <<>> /\ rest = 0 /\ \A k \in sources : since[k] = 0

AdvisorInv ==
  /\ sources \in Watched
  /\ db = [k \in sources |-> db[k]]
  /\ cache = [k \in sources |-> cache[k]]
  /\ sleep = [k \in sources |-> sleep[k]]
  /\ pass = [k \in sources |-> pass[k]]
  /\ since = [k \in sources |-> since[k]]
  /\ rest \in 0..interval
  /\ \A k \in sources : CollectorInv(k) /\ CacheInv(k)
  /\ NoneYet \/ \E c : Made(c)

-----------------------------------------------------------------------------
(* What the rules find, for any readings *)

Severity == {"CRITICAL", "WARNING"}

Finding == [key : sources, severity : Severity]

Severe(s) == {f \in Finding : f.severity = s}

LEMMA IfTypes ==
  ASSUME NEW c, NEW q \in Seq(Severity)
  PROVE  If(c, q) \in Seq(Severity)
BY DEF If

LEMMA RuleTypes ==
  ASSUME NEW k, NEW r
  PROVE  RowRule(k, r) \in Seq(Severity)
<1>1. CRITICAL \in Seq(Severity) /\ WARNING \in Seq(Severity)
  BY DEF CRITICAL, WARNING, Severity
<1>2. \A c : If(c, CRITICAL) \in Seq(Severity) /\ If(c, WARNING) \in Seq(Severity)
  BY <1>1, IfTypes
<1>3. \A p, q \in Seq(Severity) : p \o q \in Seq(Severity)
  OBVIOUS
<1>4. _check_top_sql(r) \in Seq(Severity)
  <2>1. If(r.cpu > 30, CRITICAL) \in Seq(Severity) /\ If(r.cpu \in 16..30, WARNING) \in Seq(Severity)
        /\ If(r.gets > 1, WARNING) \in Seq(Severity)
    BY <1>2
  <2>. QED  BY <1>3, <2>1 DEF _check_top_sql
<1>5. _check_sessions(r) \in Seq(Severity)
  <2>1. If(r.total > 500, WARNING) \in Seq(Severity) /\ If(r.blockers > 3, CRITICAL) \in Seq(Severity)
    BY <1>2
  <2>. QED  BY <1>3, <2>1 DEF _check_sessions
<1>6. _check_waits(r) \in Seq(Severity)
  BY <1>2 DEF _check_waits
<1>7. _check_tablespaces(r) \in Seq(Severity)
  <2>1. If(~r.auto /\ r.pct >= 95, CRITICAL) \in Seq(Severity)
        /\ If(~r.auto /\ r.pct \in 85..94, WARNING) \in Seq(Severity)
    BY <1>2
  <2>. QED  BY <1>3, <2>1 DEF _check_tablespaces
<1>8. _check_rman(r) \in Seq(Severity)
  BY <1>2 DEF _check_rman
<1>9. _check_dg(r) \in Seq(Severity)
  <2>1. If(r.apply > 0, WARNING) \in Seq(Severity) /\ If(r.transport > 0, WARNING) \in Seq(Severity)
    BY <1>2
  <2>. QED  BY <1>3, <2>1 DEF _check_dg
<1>10. _check_fra(r) \in Seq(Severity)
  <2>1. If(r.pct >= 95, CRITICAL) \in Seq(Severity) /\ If(r.pct \in 85..94, WARNING) \in Seq(Severity)
    BY <1>2
  <2>. QED  BY <1>3, <2>1 DEF _check_fra
<1>11. _check_health(k, r) \in Seq(Severity)
  BY <1>2 DEF _check_health
<1>. QED  BY <1>4, <1>5, <1>6, <1>7, <1>8, <1>9, <1>10, <1>11 DEF RowRule

LEMMA FoundTypes ==
  ASSUME NEW k, NEW X, NEW rows \in Seq(X)
  PROVE  Found(k, rows) \in Seq(Severity)
<1>. DEFINE some == Considered(k, rows)
            seqs == [i \in DOMAIN some |-> RowRule(k, some[i])]
<1>1. some \in Seq(X)
  <2>. DEFINE most == CASE k = "sql.top" -> 10 [] k = "waits.system_top" -> 5
                        [] OTHER -> Len(rows)
              n == IF Len(rows) < most THEN Len(rows) ELSE most
  <2>1. n \in 0..Len(rows)
    <3>1. Len(rows) \in Nat
      OBVIOUS
    <3>2. most \in Nat
      BY <3>1
    <3>. HIDE DEF most
    <3>. QED  BY <3>1, <3>2
  <2>. HIDE DEF n
  <2>2. SubSeq(rows, 1, n) \in Seq(X)
    BY <2>1
  <2>. QED  BY <2>2 DEF n, Considered
<1>. HIDE DEF some
<1>2. seqs \in [1..Len(some) -> Seq(Severity)] /\ Len(some) \in Nat
  BY <1>1, RuleTypes
<1>. HIDE DEF seqs
<1>3. seqs \in Seq(Seq(Severity))
  BY <1>2
<1>4. FlattenSeq(seqs) \in Seq(Severity)
  BY <1>3, FlattenTypes
<1>. QED  BY <1>4 DEF Found, some, seqs

LEMMA SeqOfFunction ==
  ASSUME NEW T, NEW n \in Nat, NEW g \in [1..n -> T]
  PROVE  g \in Seq(T) /\ Len(g) = n
OBVIOUS

LEMMA AboutTypes ==
  ASSUME NEW k, NEW q \in Seq(Severity)
  PROVE  About(k, q) \in Seq([key : {k}, severity : Severity])
<1>1. \A i \in 1..Len(q) : [key |-> k, severity |-> q[i]] \in [key : {k}, severity : Severity]
  OBVIOUS
<1>2. About(k, q) \in [1..Len(q) -> [key : {k}, severity : Severity]] /\ Len(q) \in Nat
  BY <1>1 DEF About
<1>. QED  BY <1>2, SeqOfFunction

\* What the cache may have is a sequence.
LEMMA CachedTypes ==
  ASSUME NEW k \in Sources, NEW r, MayBeCached(k, r)
  PROVE  r \in Seq(Range(r))
<1>1. <<>> \in Seq(Range(<<>>))
  OBVIOUS
<1>. QED  BY <1>1, AdvisorAssumption DEF MayBeCached

LEMMA SeqOfMore ==
  ASSUME NEW S, NEW T, S \subseteq T, NEW q \in Seq(S)
  PROVE  q \in Seq(T)
BY SeqMonotonic

\* The findings of the rules, one sequence for each.
Sequences(c) ==
  [i \in DOMAIN Rules |->
    IF Rules[i] \in sources THEN About(Rules[i], Found(Rules[i], c[Rules[i]]))
                            ELSE <<>>]

LEMMA SequencesTypes ==
  ASSUME sources \in Watched, NEW c, \A k \in sources : MayBeCached(k, c[k])
  PROVE  /\ Sequences(c) \in Seq(Seq(Finding)) /\ Len(Sequences(c)) = 9
         /\ \A k \in sources :
              About(k, Found(k, c[k])) \in Seq([key : {k}, severity : Severity])
<1>1. ASSUME NEW k \in sources
      PROVE  About(k, Found(k, c[k])) \in Seq([key : {k}, severity : Severity])
  <2>1. k \in Sources
    BY AdvisorAssumption
  <2>2. c[k] \in Seq(Range(c[k]))
    BY <2>1, CachedTypes
  <2>. QED  BY <2>2, FoundTypes, AboutTypes
<1>2. DOMAIN Rules = 1..9
  BY DEF Rules
<1>3. ASSUME NEW i \in 1..9
      PROVE  (IF Rules[i] \in sources THEN About(Rules[i], Found(Rules[i], c[Rules[i]]))
                                      ELSE <<>>) \in Seq(Finding)
  <2>1. PICK k : k = Rules[i]
    OBVIOUS
  <2>2. CASE k \in sources
    <3>1. About(k, Found(k, c[k])) \in Seq([key : {k}, severity : Severity])
      BY <1>1, <2>2
    <3>2. [key : {k}, severity : Severity] \subseteq Finding
      BY <2>2 DEF Finding
    <3>3. \A q \in Seq([key : {k}, severity : Severity]) : q \in Seq(Finding)
      BY <3>2, SeqOfMore
    <3>. QED  BY <2>1, <2>2, <3>1, <3>3
  <2>3. CASE k \notin sources
    <3>1. <<>> \in Seq(Finding)
      OBVIOUS
    <3>. QED  BY <2>1, <2>3, <3>1
  <2>. QED  BY <2>2, <2>3
<1>4. Sequences(c) \in [1..9 -> Seq(Finding)]
  BY <1>2, <1>3 DEF Sequences
<1>5. Sequences(c) \in Seq(Seq(Finding)) /\ Len(Sequences(c)) = 9
  <2>1. 9 \in Nat
    OBVIOUS
  <2>. QED  BY <1>4, <2>1, SeqOfFunction
<1>. QED  BY <1>1, <1>5

LEMMA AllFoundTypes ==
  ASSUME sources \in Watched, NEW c, \A k \in sources : MayBeCached(k, c[k])
  PROVE  AllFoundIn(c) \in Seq(Finding)
<1>1. FlattenSeq(Sequences(c)) \in Seq(Finding)
  BY SequencesTypes, FlattenTypes
<1>2. AllFoundIn(c) = FlattenSeq(Sequences(c))
  BY DEF AllFoundIn, Sequences
<1>. QED  BY <1>1, <1>2

LEMMA RulesDiffer ==
  /\ DOMAIN Rules = 1..9
  /\ \A i, j \in 1..9 : Rules[i] = Rules[j] => i = j
  /\ \A k \in Sources : \E i \in 1..9 : Rules[i] = k
<1>1. DOMAIN Rules = 1..9
  BY DEF Rules
<1>2. ASSUME NEW i \in 1..9, NEW j \in 1..9, Rules[i] = Rules[j]
      PROVE  i = j
  BY <1>2 DEF Rules
<1>3. \A k \in Sources : \E i \in 1..9 : Rules[i] = k
  BY <1>1 DEF Sources
<1>. QED  BY <1>1, <1>2, <1>3

LEMMA HowManyCounts ==
  ASSUME NEW q, NEW k, NEW s
  PROVE  HowMany(q, k, s) = Count(q, [key |-> k, severity |-> s])
BY DEF HowMany, Count, Positions

\* About a key there are just the findings of its own rule.
LEMMA OwnRule ==
  ASSUME sources \in Watched, NEW c, \A k \in sources : MayBeCached(k, c[k]),
         NEW k \in sources, NEW s \in Severity
  PROVE  HowMany(AllFoundIn(c), k, s) = HowMany(About(k, Found(k, c[k])), k, s)
<1>. DEFINE x == [key |-> k, severity |-> s]
<1>1. k \in Sources
  BY AdvisorAssumption
<1>2. PICK m \in 1..9 : Rules[m] = k
  BY <1>1, RulesDiffer
<1>3. /\ Sequences(c) \in Seq(Seq(Finding)) /\ Len(Sequences(c)) = 9
      /\ \A j \in sources :
           About(j, Found(j, c[j])) \in Seq([key : {j}, severity : Severity])
  BY SequencesTypes
<1>4. ASSUME NEW i \in 1..9, i # m
      PROVE  Count(Sequences(c)[i], x) = 0
  <2>1. PICK j : j = Rules[i]
    OBVIOUS
  <2>2. j # k
    BY <1>2, <1>4, <2>1, RulesDiffer
  <2>3. CASE j \in sources
    <3>1. PICK q : q = About(j, Found(j, c[j]))
      OBVIOUS
    <3>2. Sequences(c)[i] = q
      BY <2>1, <2>3, <3>1, RulesDiffer DEF Sequences
    <3>3. q \in Seq([key : {j}, severity : Severity])
      BY <1>3, <2>3, <3>1
    <3>4. ASSUME NEW n \in DOMAIN q
          PROVE  q[n] # x
      <4>1. q[n] \in [key : {j}, severity : Severity]
        BY <3>3, ElementOfSeq, LenProperties
      <4>2. q[n].key = j /\ x.key = k
        BY <4>1
      <4>. QED  BY <2>2, <4>2
    <3>. HIDE DEF x
    <3>5. Count(q, x) = 0
      BY <3>4, CountNone
    <3>. QED  BY <3>2, <3>5
  <2>4. CASE j \notin sources
    <3>1. Sequences(c)[i] = <<>>
      BY <2>1, <2>4, RulesDiffer DEF Sequences
    <3>2. Count(<<>>, x) = 0
      BY CountNone
    <3>. QED  BY <3>1, <3>2
  <2>. QED  BY <2>3, <2>4
<1>. HIDE DEF x
<1>5. Count(FlattenSeq(Sequences(c)), x) = Count(Sequences(c)[m], x)
  BY <1>3, <1>4, FlattenCounts
<1>6. AllFoundIn(c) = FlattenSeq(Sequences(c))
  BY DEF AllFoundIn, Sequences
<1>7. Sequences(c)[m] = About(k, Found(k, c[k]))
  BY <1>2, RulesDiffer DEF Sequences
<1>. QED  BY <1>5, <1>6, <1>7, HowManyCounts DEF x

-----------------------------------------------------------------------------
(* What is kept of it *)

LEMMA OnlyTypes ==
  ASSUME NEW q \in Seq(Finding), NEW s
  PROVE  /\ Only(q, s) \in Seq(Severe(s)) /\ Only(q, s) \in Seq(Finding)
         /\ \A x \in Severe(s) : Count(Only(q, s), x) = Count(q, x)
<1>1. Only(q, s) = FlattenSeq(Those(q, Severe(s)))
  <2>1. ASSUME NEW i \in DOMAIN q
        PROVE  (q[i].severity = s) <=> (q[i] \in Severe(s))
    <3>1. q[i] \in Finding
      OBVIOUS
    <3>. QED  BY <3>1 DEF Severe
  <2>2. [i \in DOMAIN q |-> IF q[i].severity = s THEN <<q[i]>> ELSE <<>>] = Those(q, Severe(s))
    BY <2>1 DEF Those
  <2>. QED  BY <2>2 DEF Only
<1>2. FlattenSeq(Those(q, Severe(s))) \in Seq(Finding \cap Severe(s))
  BY ThoseTypes, FlattenTypes
<1>3. Finding \cap Severe(s) = Severe(s) /\ Severe(s) \subseteq Finding
  BY DEF Severe
<1>4. FlattenSeq(Those(q, Severe(s))) \in Seq(Finding)
  BY <1>2, <1>3, SeqOfMore
<1>5. \A x \in Severe(s) : Count(FlattenSeq(Those(q, Severe(s))), x) = Count(q, x)
  BY ThoseCounts
<1>. QED  BY <1>1, <1>2, <1>3, <1>4, <1>5

LEMMA NoOthers ==
  ASSUME NEW s, NEW q \in Seq(Severe(s)), NEW x \in Finding, x.severity # s
  PROVE  Count(q, x) = 0
<1>1. ASSUME NEW i \in DOMAIN q
      PROVE  q[i] # x
  <2>1. q[i] \in Severe(s)
    OBVIOUS
  <2>. QED  BY <2>1 DEF Severe
<1>. QED  BY <1>1, CountNone

\* Sorting loses nothing.
LEMMA SortedKeeps ==
  ASSUME NEW q \in Seq(Finding)
  PROVE  /\ Sorted(q) \in Seq(Finding)
         /\ \A x \in Finding : Count(Sorted(q), x) = Count(q, x)
<1>1. PICK p : p = Only(q, "CRITICAL")
  OBVIOUS
<1>2. PICK r : r = Only(q, "WARNING")
  OBVIOUS
<1>3. /\ p \in Seq(Severe("CRITICAL")) /\ p \in Seq(Finding)
      /\ \A x \in Severe("CRITICAL") : Count(p, x) = Count(q, x)
  BY <1>1, OnlyTypes
<1>4. /\ r \in Seq(Severe("WARNING")) /\ r \in Seq(Finding)
      /\ \A x \in Severe("WARNING") : Count(r, x) = Count(q, x)
  BY <1>2, OnlyTypes
<1>5. Sorted(q) = p \o r
  BY <1>1, <1>2 DEF Sorted
<1>6. p \o r \in Seq(Finding)
  BY <1>3, <1>4
<1>7. ASSUME NEW x \in Finding
      PROVE  Count(p \o r, x) = Count(q, x)
  <2>1. Count(p \o r, x) = Count(p, x) + Count(r, x)
    BY <1>3, <1>4, CountConcat
  <2>2. Count(q, x) \in Nat
    BY CountTypes
  <2>3. CASE x.severity = "CRITICAL"
    <3>1. Count(p, x) = Count(q, x)
      BY <1>3, <2>3 DEF Severe
    <3>2. Count(r, x) = 0
      BY <1>4, <2>3, NoOthers
    <3>. QED  BY <2>1, <2>2, <3>1, <3>2
  <2>4. CASE x.severity = "WARNING"
    <3>1. Count(r, x) = Count(q, x)
      BY <1>4, <2>4 DEF Severe
    <3>2. Count(p, x) = 0
      BY <1>3, <2>4, NoOthers
    <3>. QED  BY <2>1, <2>2, <3>1, <3>2
  <2>5. x.severity \in Severity
    BY DEF Finding
  <2>. QED  BY <2>3, <2>4, <2>5 DEF Severity
<1>. QED  BY <1>5, <1>6, <1>7

LEMMA CappedTypes ==
  ASSUME NEW S, NEW q \in Seq(S)
  PROVE  /\ Capped(q) \in Seq(S)
         /\ Len(Capped(q)) = IF Len(q) < FindingMax THEN Len(q) ELSE FindingMax
         /\ \A i \in 1..Len(Capped(q)) : Capped(q)[i] = q[i]
<1>. DEFINE n == IF Len(q) < FindingMax THEN Len(q) ELSE FindingMax
<1>1. n \in 0..Len(q) /\ Len(q) \in Nat
  BY AdvisorAssumption
<1>. HIDE DEF n
<1>2. /\ SubSeq(q, 1, n) \in Seq(S) /\ Len(SubSeq(q, 1, n)) = n
      /\ \A i \in 1..n : SubSeq(q, 1, n)[i] = q[i]
  BY <1>1
<1>3. Capped(q) = SubSeq(q, 1, n)
  BY DEF Capped, n
<1>. QED  BY <1>2, <1>3 DEF n

\* If a finding is dropped, the list is full of others that are no less severe.
LEMMA CappedKeeps ==
  ASSUME NEW q \in Seq(Finding), NEW x \in Finding
  PROVE  LET t == Capped(Sorted(q))
         IN  \/ Count(t, x) = Count(q, x)
             \/ /\ Count(t, x) < Count(q, x)
                /\ Len(t) = FindingMax
                /\ \A i \in DOMAIN t : Rank[t[i].severity] <= Rank[x.severity]
<1>1. PICK p : p = Only(q, "CRITICAL")
  OBVIOUS
<1>2. PICK r : r = Only(q, "WARNING")
  OBVIOUS
<1>3. PICK l : l = Sorted(q)
  OBVIOUS
<1>4. PICK t : t = Capped(l)
  OBVIOUS
<1>5. p \in Seq(Severe("CRITICAL")) /\ r \in Seq(Severe("WARNING")) /\ l = p \o r
  BY <1>1, <1>2, <1>3, OnlyTypes DEF Sorted
<1>6. l \in Seq(Finding) /\ Count(l, x) = Count(q, x)
  BY <1>3, SortedKeeps
<1>7. /\ t \in Seq(Finding)
      /\ Len(t) = IF Len(l) < FindingMax THEN Len(l) ELSE FindingMax
      /\ \A i \in 1..Len(t) : t[i] = l[i]
  BY <1>4, <1>6, CappedTypes
<1>8. /\ Len(l) \in Nat /\ Len(t) \in Nat /\ FindingMax \in Nat
      /\ DOMAIN l = 1..Len(l) /\ DOMAIN t = 1..Len(t)
  BY <1>6, <1>7, AdvisorAssumption
<1>9. Positions(t, x) \subseteq Positions(l, x)
  BY <1>7, <1>8 DEF Positions
<1>10. Count(t, x) \in Nat /\ Count(l, x) \in Nat /\ Count(t, x) <= Count(l, x)
  <2>1. IsFiniteSet(Positions(l, x)) /\ Count(t, x) \in Nat /\ Count(l, x) \in Nat
    BY <1>6, <1>7, CountTypes
  <2>. QED  BY <1>9, <2>1, FS_Subset DEF Count
<1>11. CASE Len(l) <= FindingMax
  <2>1. Positions(t, x) = Positions(l, x)
    BY <1>7, <1>8, <1>11 DEF Positions
  <2>2. Count(t, x) = Count(l, x)
    BY <2>1 DEF Count
  <2>. QED  BY <1>3, <1>4, <1>6, <2>2
<1>12. CASE Len(l) > FindingMax
  <2>1. Len(t) = FindingMax
    <3>1. ~(Len(l) < FindingMax)
      BY <1>8, <1>12
    <3>. QED  BY <1>7, <3>1, Zenon
  <2>2. CASE x.severity = "WARNING"
    <3>1. ASSUME NEW i \in DOMAIN t
          PROVE  Rank[t[i].severity] <= Rank[x.severity]
      <4>1. t[i] \in Finding
        BY <1>7
      <4>2. t[i].severity \in Severity
        BY <4>1 DEF Finding
      <4>. QED  BY <2>2, <4>2 DEF Severity, Rank
    <3>. QED  BY <1>3, <1>4, <1>6, <1>10, <2>1, <3>1
  <2>3. CASE x.severity = "CRITICAL"
    <3>1. /\ Len(p) \in Nat /\ Len(r) \in Nat /\ Len(l) = Len(p) + Len(r)
          /\ \A i \in 1..Len(p) : l[i] = p[i] /\ p[i] \in Severe("CRITICAL")
          /\ \A i \in 1..Len(l) : i > Len(p) =>
               l[i] = r[i - Len(p)] /\ r[i - Len(p)] \in Severe("WARNING")
      <4>1. Len(p) \in Nat /\ Len(r) \in Nat /\ Len(l) = Len(p) + Len(r)
        BY <1>5
      <4>2. \A i \in 1..Len(p) : l[i] = p[i] /\ p[i] \in Severe("CRITICAL")
        BY <1>5
      <4>3. ASSUME NEW i \in 1..Len(l), i > Len(p)
            PROVE  l[i] = r[i - Len(p)] /\ r[i - Len(p)] \in Severe("WARNING")
        <5>1. i - Len(p) \in 1..Len(r)
          BY <4>1, <4>3
        <5>2. r[i - Len(p)] \in Severe("WARNING")
          BY <1>5, <5>1, ElementOfSeq
        <5>3. l[i] = r[i - Len(p)]
          BY <1>5, <4>1, <4>3
        <5>. QED  BY <5>2, <5>3
      <4>. QED  BY <4>1, <4>2, <4>3
    <3>2. CASE Len(p) <= FindingMax
      <4>1. Positions(l, x) \subseteq Positions(t, x)
        <5>. SUFFICES ASSUME NEW i \in Positions(l, x)
                      PROVE  i \in Positions(t, x)
          OBVIOUS
        <5>1. i \in 1..Len(l) /\ l[i] = x
          BY <1>8 DEF Positions
        <5>2. ~(i > Len(p))
          <6>. SUFFICES ASSUME i > Len(p)
                        PROVE  FALSE
            OBVIOUS
          <6>1. x \in Severe("WARNING")
            BY <3>1, <5>1
          <6>. QED  BY <2>3, <6>1 DEF Severe
        <5>3. i \in 1..Len(t)
          BY <1>8, <2>1, <3>1, <3>2, <5>1, <5>2
        <5>. QED  BY <1>7, <1>8, <5>1, <5>3 DEF Positions
      <4>2. Positions(t, x) = Positions(l, x)
        BY <1>9, <4>1
      <4>3. Count(t, x) = Count(l, x)
        BY <4>2 DEF Count
      <4>. QED  BY <1>3, <1>4, <1>6, <4>3
    <3>3. CASE Len(p) > FindingMax
      <4>1. ASSUME NEW i \in DOMAIN t
            PROVE  Rank[t[i].severity] <= Rank[x.severity]
        <5>1. i \in 1..Len(p) /\ t[i] = l[i]
          BY <1>7, <1>8, <2>1, <3>1, <3>3
        <5>2. t[i] \in Severe("CRITICAL")
          BY <3>1, <5>1
        <5>3. t[i].severity = "CRITICAL"
          BY <5>2 DEF Severe
        <5>. QED  BY <2>3, <5>3 DEF Rank
      <4>. QED  BY <1>3, <1>4, <1>6, <1>10, <2>1, <4>1
    <3>. QED  BY <1>8, <3>1, <3>2, <3>3
  <2>4. x.severity \in Severity
    BY DEF Finding
  <2>. QED  BY <2>2, <2>3, <2>4 DEF Severity
<1>. QED  BY <1>8, <1>11, <1>12

-----------------------------------------------------------------------------
(* The invariant *)

LEMMA Numbers ==
  ASSUME sources \in Watched, NEW k \in sources
  PROVE  /\ k \in Sources /\ Every[k] \in Nat \ {0} /\ PassMax \in Nat
         /\ interval \in Nat \ {0}
         /\ Delay(k) = 2 * PassMax + Every[k] + interval /\ Delay(k) \in Nat
<1>1. k \in Sources
  BY AdvisorAssumption
<1>2. Every[k] \in Nat \ {0} /\ PassMax \in Nat /\ interval \in Nat \ {0}
  BY <1>1, AdvisorAssumption
<1>3. Delay(k) = 2 * PassMax + Every[k] + interval /\ Delay(k) \in Nat
  BY <1>2 DEF Delay
<1>. QED  BY <1>1, <1>2, <1>3

LEMMA InitEstablishesAdvisor == AdvisorInit => AdvisorInv
<1>. SUFFICES ASSUME AdvisorInit
              PROVE  AdvisorInv
  OBVIOUS
<1>1. /\ sources \in Watched
      /\ db = [k \in sources |-> db[k]]
      /\ cache = [k \in sources |-> cache[k]]
      /\ sleep = [k \in sources |-> sleep[k]]
      /\ pass = [k \in sources |-> pass[k]]
      /\ since = [k \in sources |-> since[k]]
  BY DEF AdvisorInit
<1>2. rest = 0 /\ rest \in 0..interval
  BY AdvisorAssumption DEF AdvisorInit
<1>3. ASSUME NEW k \in sources
      PROVE  CollectorInv(k) /\ CacheInv(k)
  <2>1. /\ db[k] \in Reading[k] /\ cache[k] = <<>> /\ pass[k] = NoPass /\ since[k] = 0
        /\ sleep[k] \in 0..10 /\ sleep[k] <= Every[k]
    BY DEF AdvisorInit
  <2>2. /\ Every[k] \in Nat \ {0} /\ PassMax \in Nat /\ Delay(k) \in Nat
    BY <1>1, Numbers
  <2>3. CollectorInv(k)
    BY <2>1, <2>2 DEF CollectorInv, MayBeCached
  <2>4. CacheInv(k)
    <3>1. ~(since[k] > PassMax + Every[k] - sleep[k])
      BY <2>1, <2>2
    <3>. QED  BY <2>1, <3>1 DEF CacheInv
  <2>. QED  BY <2>3, <2>4
<1>4. NoneYet
  BY <1>2 DEF NoneYet, AdvisorInit
<1>. QED  BY <1>1, <1>2, <1>3, <1>4 DEF AdvisorInv

\* What is made of some readings depends on the sources alone.
LEMMA StaysMade ==
  ASSUME sources' = sources, NEW c
  PROVE  Capped(Sorted(AllFoundIn(c)))' = Capped(Sorted(AllFoundIn(c)))
<1>1. AllFoundIn(c)' = AllFoundIn(c)
  BY DEF AllFoundIn
<1>. QED  BY <1>1

LEMMA SecondKeepsAdvisor == AdvisorInv /\ AdvisorSecond => AdvisorInv'
<1>. SUFFICES ASSUME AdvisorInv, AdvisorSecond
              PROVE  AdvisorInv'
  OBVIOUS
<1>. USE DEF AdvisorInv
<1>1. /\ sources' = sources /\ sources \in Watched /\ db' = db /\ cache' = cache
      /\ findings' = findings /\ rest' = rest - 1 /\ rest > 0
  BY DEF AdvisorSecond
<1>2. /\ sleep' = [k \in sources |-> sleep'[k]]
      /\ pass' = [k \in sources |-> pass'[k]]
      /\ since' = [k \in sources |-> since'[k]]
  BY DEF AdvisorSecond
<1>3. rest' \in 0..interval
  BY <1>1, AdvisorAssumption
<1>4. ASSUME NEW k \in sources
      PROVE  /\ since'[k] = (IF since[k] <= Delay(k) THEN since[k] + 1 ELSE since[k])
             /\ since'[k] \in 0..(Delay(k) + 1)
  <2>1. since'[k] = Least(since[k] + 1, Delay(k) + 1)
    BY DEF AdvisorSecond
  <2>2. since[k] \in 0..(Delay(k) + 1) /\ Delay(k) \in Nat
    BY Numbers DEF CollectorInv
  <2>. QED  BY <2>1, <2>2 DEF Least
<1>5. ASSUME NEW k \in sources
      PROVE  CollectorInv(k)' /\ CacheInv(k)'
  <2>1. /\ Every[k] \in Nat \ {0} /\ PassMax \in Nat /\ interval \in Nat \ {0}
        /\ Delay(k) = 2 * PassMax + Every[k] + interval /\ Delay(k) \in Nat
    BY Numbers
  <2>2. /\ since'[k] = (IF since[k] <= Delay(k) THEN since[k] + 1 ELSE since[k])
        /\ since'[k] \in 0..(Delay(k) + 1)
    BY <1>4
  <2>3. Delay(k)' = Delay(k)
    BY DEF Delay
  <2>4. CASE pass[k] = NoPass
    <3>1. pass'[k] = NoPass /\ sleep'[k] = sleep[k] - 1 /\ sleep[k] > 0
      BY <2>4 DEF AdvisorSecond
    <3>2. CollectorInv(k)'
      <4>1. sleep'[k] \in 0..Every[k]
        <5>1. sleep[k] \in 0..Every[k]
          BY DEF CollectorInv
        <5>. QED  BY <2>1, <3>1, <5>1
      <4>2. db'[k] \in Reading[k] /\ MayBeCached(k, cache'[k])
        BY <1>1 DEF CollectorInv
      <4>. QED  BY <2>2, <2>3, <3>1, <4>1, <4>2 DEF CollectorInv, MayBeCached
    <3>3. CacheInv(k)'
      BY <1>1, <2>1, <2>2, <2>4, <3>1 DEF CollectorInv, CacheInv
    <3>. QED  BY <3>2, <3>3
  <2>5. CASE pass[k] # NoPass
    <3>1. /\ pass[k] \in [value : Reading[k], secs : 0..PassMax]
          /\ pass[k].secs < PassMax
          /\ pass'[k] = [pass[k] EXCEPT !.secs = @ + 1] /\ sleep'[k] = sleep[k]
      BY <2>5 DEF AdvisorSecond, CollectorInv
    <3>2. /\ pass'[k] \in [value : Reading[k], secs : 0..PassMax]
          /\ pass'[k].value = pass[k].value /\ pass'[k].secs = pass[k].secs + 1
      BY <2>1, <3>1
    <3>3. pass'[k] # NoPass
      BY <3>2, Numbers, AdvisorAssumption
    <3>4. CollectorInv(k)'
      BY <1>1, <2>1, <2>2, <2>3, <3>1, <3>2 DEF CollectorInv, MayBeCached
    <3>5. pass[k].secs \in 0..PassMax
      BY <3>1
    <3>6. CacheInv(k)'
      BY <1>1, <2>1, <2>2, <2>5, <3>2, <3>3, <3>5 DEF CollectorInv, CacheInv
    <3>. QED  BY <3>4, <3>6
  <2>. QED  BY <2>4, <2>5
<1>6. PICK c : Made(c)
  BY <1>1 DEF NoneYet
<1>7. Made(c)'
  <2>1. findings' = Capped(Sorted(AllFoundIn(c)))'
    BY <1>1, <1>6, StaysMade DEF Made
  <2>2. ASSUME NEW k \in sources
        PROVE  /\ MayBeCached(k, c[k])
               /\ since'[k] > 2 * PassMax + Every[k] + interval - rest' => c[k] = db[k]
    <3>1. /\ Every[k] \in Nat \ {0} /\ PassMax \in Nat /\ interval \in Nat \ {0}
          /\ Delay(k) = 2 * PassMax + Every[k] + interval /\ Delay(k) \in Nat
      BY Numbers
    <3>2. /\ MayBeCached(k, c[k])
          /\ since[k] > 2 * PassMax + Every[k] + interval - rest => c[k] = db[k]
      BY <1>6 DEF Made
    <3>3. since[k] \in 0..(Delay(k) + 1)
      BY DEF CollectorInv
    <3>. QED  BY <1>1, <1>4, <3>1, <3>2, <3>3
  <2>. QED  BY <1>1, <2>1, <2>2 DEF Made, MayBeCached
<1>. QED  BY <1>1, <1>2, <1>3, <1>5, <1>7

\* What the invariant says of a key, after a step about that key or another one.
LEMMA OthersStay ==
  ASSUME NEW k, CollectorInv(k), CacheInv(k),
         db'[k] = db[k], cache'[k] = cache[k], sleep'[k] = sleep[k],
         pass'[k] = pass[k], since'[k] = since[k]
  PROVE  CollectorInv(k)' /\ CacheInv(k)'
BY DEF CollectorInv, CacheInv, MayBeCached, Delay

\* What was found stays so, if the database does, or what was begins anew.
LEMMA FoundStays ==
  ASSUME AdvisorInv, sources' = sources, findings' = findings, rest' = rest,
         NEW j \in sources,
         since'[j] = 0 \/ (since'[j] = since[j] /\ db'[j] = db[j]),
         \A k \in sources : k # j => since'[k] = since[k] /\ db'[k] = db[k]
  PROVE  NoneYet' \/ \E c : Made(c)'
<1>0. sources \in Watched /\ rest \in 0..interval
  BY DEF AdvisorInv
<1>1. CASE NoneYet
  BY <1>1 DEF NoneYet
<1>2. CASE ~NoneYet
  <2>1. PICK c : Made(c)
    BY <1>2 DEF AdvisorInv
  <2>2. findings' = Capped(Sorted(AllFoundIn(c)))'
    BY <2>1, StaysMade DEF Made
  <2>3. ASSUME NEW k \in sources
        PROVE  /\ MayBeCached(k, c[k])
               /\ since'[k] > 2 * PassMax + Every[k] + interval - rest => c[k] = db'[k]
    <3>1. /\ Every[k] \in Nat \ {0} /\ PassMax \in Nat /\ interval \in Nat \ {0}
      BY <1>0, Numbers
    <3>2. /\ MayBeCached(k, c[k])
          /\ since[k] > 2 * PassMax + Every[k] + interval - rest => c[k] = db[k]
      BY <2>1 DEF Made
    <3>3. CASE since'[k] = 0
      BY <1>0, <3>1, <3>2, <3>3
    <3>4. CASE since'[k] = since[k] /\ db'[k] = db[k]
      BY <3>2, <3>4
    <3>. QED  BY <3>3, <3>4
  <2>4. Made(c)'
    BY <2>2, <2>3 DEF Made, MayBeCached
  <2>. QED  BY <2>4
<1>. QED  BY <1>1, <1>2

LEMMA ChangeKeepsAdvisor ==
  ASSUME AdvisorInv, NEW j \in sources, Change(j)
  PROVE  AdvisorInv'
<1>. USE DEF AdvisorInv
<1>1. PICK r \in Reading[j] \ {db[j]} : db' = [db EXCEPT ![j] = r]
  BY DEF Change
<1>2. /\ sources' = sources /\ cache' = cache /\ sleep' = sleep /\ pass' = pass
      /\ rest' = rest /\ findings' = findings /\ since' = [since EXCEPT ![j] = 0]
  BY DEF Change
<1>3. /\ db' = [k \in sources |-> db'[k]] /\ since' = [k \in sources |-> since'[k]]
      /\ db'[j] = r /\ since'[j] = 0
      /\ \A k \in sources : k # j => db'[k] = db[k] /\ since'[k] = since[k]
  BY <1>1, <1>2
<1>4. ASSUME NEW k \in sources
      PROVE  CollectorInv(k)' /\ CacheInv(k)'
  <2>1. CASE k # j
    BY <1>2, <1>3, <2>1, OthersStay
  <2>2. CASE k = j
    <3>1. Every[k] \in Nat \ {0} /\ PassMax \in Nat /\ Delay(k) \in Nat
      BY Numbers
    <3>2. Delay(k)' = Delay(k)
      BY DEF Delay
    <3>3. CollectorInv(k)'
      BY <1>2, <1>3, <2>2, <3>1, <3>2 DEF CollectorInv, MayBeCached
    <3>4. pass[k] = NoPass => sleep[k] \in 0..Every[k]
      BY DEF CollectorInv
    <3>5. pass[k] # NoPass => pass[k].secs \in 0..PassMax
      BY DEF CollectorInv
    <3>6. CacheInv(k)'
      BY <1>2, <1>3, <2>2, <3>1, <3>4, <3>5 DEF CacheInv
    <3>. QED  BY <3>3, <3>6
  <2>. QED  BY <2>1, <2>2
<1>5. NoneYet' \/ \E c : Made(c)'
  BY <1>2, <1>3, FoundStays
<1>. QED  BY <1>2, <1>3, <1>4, <1>5

LEMMA ReadKeepsAdvisor ==
  ASSUME AdvisorInv, NEW j \in sources, ReadDatabase(j)
  PROVE  AdvisorInv'
<1>. USE DEF AdvisorInv
<1>1. /\ sources' = sources /\ cache' = cache /\ sleep' = sleep /\ db' = db
      /\ rest' = rest /\ findings' = findings /\ since' = since
      /\ pass[j] = NoPass /\ sleep[j] = 0
      /\ pass' = [pass EXCEPT ![j] = [value |-> db[j], secs |-> 0]]
  BY DEF ReadDatabase
<1>2. /\ pass' = [k \in sources |-> pass'[k]]
      /\ pass'[j] = [value |-> db[j], secs |-> 0]
      /\ \A k \in sources : k # j => pass'[k] = pass[k]
  BY <1>1
<1>3. ASSUME NEW k \in sources
      PROVE  CollectorInv(k)' /\ CacheInv(k)'
  <2>1. CASE k # j
    BY <1>1, <1>2, <2>1, OthersStay
  <2>2. CASE k = j
    <3>1. Every[k] \in Nat \ {0} /\ PassMax \in Nat /\ Delay(k) \in Nat
      BY Numbers
    <3>2. Delay(k)' = Delay(k)
      BY DEF Delay
    <3>3. pass'[k] \in [value : Reading[k], secs : 0..PassMax]
      BY <1>2, <2>2, <3>1 DEF CollectorInv
    <3>4. CollectorInv(k)'
      BY <1>1, <3>2, <3>3 DEF CollectorInv, MayBeCached
    <3>5. pass'[k] # NoPass
      BY <3>3, Numbers, AdvisorAssumption
    <3>6. pass'[k].value = db[k] /\ pass'[k].secs = 0
      BY <1>2, <2>2
    <3>7. since[k] > PassMax + Every[k] => cache[k] = db[k]
      BY <1>1, <2>2, <3>1 DEF CacheInv
    <3>8. CacheInv(k)'
      BY <1>1, <3>1, <3>5, <3>6, <3>7 DEF CacheInv
    <3>. QED  BY <3>4, <3>8
  <2>. QED  BY <2>1, <2>2
<1>4. NoneYet' \/ \E c : Made(c)'
  BY <1>1, FoundStays
<1>. QED  BY <1>1, <1>2, <1>3, <1>4

LEMMA EndKeepsAdvisor ==
  ASSUME AdvisorInv, NEW j \in sources, PassEnds(j)
  PROVE  AdvisorInv'
<1>. USE DEF AdvisorInv
<1>1. /\ sources' = sources /\ db' = db /\ rest' = rest /\ findings' = findings
      /\ pass[j] # NoPass /\ pass' = [pass EXCEPT ![j] = NoPass]
      /\ sleep' = [sleep EXCEPT ![j] = Every[j]]
  BY DEF PassEnds
<1>2. PICK r : /\ cache' = [cache EXCEPT ![j] = r]
               /\ \/ r = pass[j].value /\ since' = since
                  \/ r \in {<<>>, cache[j]} /\ since' = [since EXCEPT ![j] = 0]
  <2>1. CASE cache' = [cache EXCEPT ![j] = pass[j].value] /\ since' = since
    BY <2>1
  <2>2. CASE /\ \E r \in AfterFailure(j) : cache' = [cache EXCEPT ![j] = r]
             /\ since' = [since EXCEPT ![j] = 0]
    <3>1. AfterFailure(j) \subseteq {<<>>, cache[j]}
      BY DEF AfterFailure
    <3>. QED  BY <2>2, <3>1
  <2>. QED  BY <2>1, <2>2 DEF PassEnds, SetKey
<1>3. /\ pass' = [k \in sources |-> pass'[k]] /\ sleep' = [k \in sources |-> sleep'[k]]
      /\ pass'[j] = NoPass /\ sleep'[j] = Every[j]
      /\ \A k \in sources : k # j => pass'[k] = pass[k] /\ sleep'[k] = sleep[k]
  BY <1>1
<1>4. /\ cache' = [k \in sources |-> cache'[k]] /\ since' = [k \in sources |-> since'[k]]
      /\ cache'[j] = r
      /\ \A k \in sources : k # j => cache'[k] = cache[k] /\ since'[k] = since[k]
      /\ \/ since'[j] = 0
         \/ since'[j] = since[j] /\ r = pass[j].value
  BY <1>2
<1>5. ASSUME NEW k \in sources
      PROVE  CollectorInv(k)' /\ CacheInv(k)'
  <2>1. CASE k # j
    BY <1>1, <1>3, <1>4, <2>1, OthersStay
  <2>2. CASE k = j
    <3>1. Every[k] \in Nat \ {0} /\ PassMax \in Nat /\ Delay(k) \in Nat
      BY Numbers
    <3>2. Delay(k)' = Delay(k)
      BY DEF Delay
    <3>3. /\ pass[k] \in [value : Reading[k], secs : 0..PassMax]
          /\ pass[k].secs \in 0..PassMax /\ pass[k].value \in Reading[k]
          /\ since[k] \in 0..(Delay(k) + 1) /\ MayBeCached(k, cache[k])
      BY <1>1, <2>2 DEF CollectorInv
    <3>4. MayBeCached(k, cache'[k])
      <4>1. cache'[k] = r
        BY <1>4, <2>2
      <4>2. r = pass[k].value \/ r = <<>> \/ r = cache[k]
        BY <1>2, <2>2
      <4>. QED  BY <3>3, <4>1, <4>2 DEF MayBeCached
    <3>5. since'[k] \in 0..(Delay(k) + 1)
      BY <1>4, <2>2, <3>1, <3>3
    <3>6. sleep'[k] \in 0..Every[k]
      BY <1>3, <2>2, <3>1
    <3>7. CollectorInv(k)'
      BY <1>1, <1>3, <2>2, <3>2, <3>4, <3>5, <3>6 DEF CollectorInv, MayBeCached
    <3>8. since'[k] > PassMax => cache'[k] = db[k]
      <4>1. since[k] > pass[k].secs => pass[k].value = db[k]
        BY <1>1, <2>2 DEF CacheInv
      <4>2. CASE since'[k] = 0
        BY <3>1, <4>2
      <4>3. CASE since'[k] = since[k] /\ cache'[k] = pass[k].value
        BY <3>1, <3>3, <4>1, <4>3
      <4>. QED  BY <1>4, <2>2, <4>2, <4>3
    <3>9. CacheInv(k)'
      <4>1. pass'[k] = NoPass /\ sleep'[k] = Every[k]
        BY <1>3, <2>2
      <4>2. PassMax + Every[k] - sleep'[k] = PassMax
        BY <3>1, <4>1
      <4>3. since'[k] > PassMax + Every[k] - sleep'[k] => cache'[k] = db'[k]
        BY <1>1, <3>8, <4>2
      <4>. QED  BY <4>1, <4>3 DEF CacheInv
    <3>. QED  BY <3>7, <3>9
  <2>. QED  BY <2>1, <2>2
<1>6. NoneYet' \/ \E c : Made(c)'
  BY <1>1, <1>4, FoundStays
<1>. QED  BY <1>1, <1>3, <1>4, <1>5, <1>6

\* What the database has had for long enough is in the cache.
LEMMA LongCached ==
  ASSUME AdvisorInv, NEW k \in sources, since[k] > 2 * PassMax + Every[k]
  PROVE  cache[k] = db[k]
<1>. USE DEF AdvisorInv
<1>1. Every[k] \in Nat \ {0} /\ PassMax \in Nat /\ Delay(k) \in Nat
  BY Numbers
<1>2. since[k] \in Nat /\ sleep[k] \in 0..Every[k]
  BY <1>1 DEF CollectorInv
<1>3. CASE pass[k] = NoPass
  BY <1>1, <1>2, <1>3 DEF CacheInv
<1>4. CASE pass[k] # NoPass
  <2>1. pass[k].secs \in 0..PassMax
    BY <1>4 DEF CollectorInv
  <2>. QED  BY <1>1, <1>2, <1>4, <2>1 DEF CacheInv
<1>. QED  BY <1>3, <1>4

LEMMA RunKeepsAdvisor ==
  ASSUME AdvisorInv, run
  PROVE  AdvisorInv'
<1>. USE DEF AdvisorInv
<1>1. /\ sources' = sources /\ db' = db /\ cache' = cache /\ sleep' = sleep
      /\ pass' = pass /\ since' = since
      /\ findings' = Capped(Sorted(AllFoundIn(cache))) /\ rest' = interval
  BY DEF run, _evaluate, AllFound
<1>2. PICK c : c = cache
  OBVIOUS
<1>3. findings' = Capped(Sorted(AllFoundIn(c)))'
  BY <1>1, <1>2, StaysMade
<1>4. ASSUME NEW k \in sources
      PROVE  /\ MayBeCached(k, c[k])
             /\ since[k] > 2 * PassMax + Every[k] + interval - interval => c[k] = db[k]
  <2>1. Every[k] \in Nat \ {0} /\ PassMax \in Nat /\ interval \in Nat \ {0}
    BY Numbers
  <2>2. 2 * PassMax + Every[k] + interval - interval = 2 * PassMax + Every[k]
    BY <2>1
  <2>3. MayBeCached(k, c[k])
    BY <1>2 DEF CollectorInv
  <2>. QED  BY <1>2, <2>2, <2>3, LongCached
<1>5. Made(c)'
  BY <1>1, <1>3, <1>4 DEF Made, MayBeCached
<1>6. rest' \in 0..interval
  BY <1>1, AdvisorAssumption
<1>7. \A k \in sources : CollectorInv(k)' /\ CacheInv(k)'
  BY <1>1, OthersStay
<1>. QED  BY <1>1, <1>5, <1>6, <1>7

LEMMA AdvisorIsInvariant == AdvisorSpec => []AdvisorInv
<1>1. AdvisorInv /\ [AdvisorNext]_advisorVars => AdvisorInv'
  <2>. SUFFICES ASSUME AdvisorInv, [AdvisorNext]_advisorVars
                PROVE  AdvisorInv'
    OBVIOUS
  <2>1. CASE AdvisorNext
    BY <2>1, SecondKeepsAdvisor, RunKeepsAdvisor, ChangeKeepsAdvisor, ReadKeepsAdvisor,
       EndKeepsAdvisor DEF AdvisorNext
  <2>2. CASE UNCHANGED advisorVars
    <3>1. /\ sources' = sources /\ db' = db /\ cache' = cache /\ sleep' = sleep
          /\ pass' = pass /\ since' = since /\ findings' = findings /\ rest' = rest
      BY <2>2 DEF advisorVars
    <3>2. \A k \in sources : CollectorInv(k)' /\ CacheInv(k)'
      BY <3>1, OthersStay DEF AdvisorInv
    <3>3. NoneYet' \/ \E c : Made(c)'
      <4>1. CASE NoneYet
        BY <3>1, <4>1 DEF NoneYet
      <4>2. CASE ~NoneYet
        <5>1. PICK c : Made(c)
          BY <4>2 DEF AdvisorInv
        <5>2. Made(c)'
          BY <3>1, <5>1, StaysMade DEF Made, MayBeCached
        <5>. QED  BY <5>2
      <4>. QED  BY <4>1, <4>2
    <3>. QED  BY <3>1, <3>2, <3>3 DEF AdvisorInv
  <2>. QED  BY <2>1, <2>2
<1>. QED  BY <1>1, InitEstablishesAdvisor, PTL DEF AdvisorSpec

\* The types of the advisor: no list of findings has more than fifty, and no pass
\* takes longer than it may (engine.py:84-123).
LEMMA AdvisorTypes == AdvisorInv => AdvisorTypeOK
<1>. SUFFICES ASSUME AdvisorInv
              PROVE  AdvisorTypeOK
  OBVIOUS
<1>. USE DEF AdvisorInv
<1>1. db \in [sources -> UNION {Reading[k] : k \in sources}]
  <2>1. \A k \in sources : db[k] \in UNION {Reading[i] : i \in sources}
    BY DEF CollectorInv
  <2>. QED  BY <2>1
<1>2. sleep \in [sources -> Nat]
  <2>1. \A k \in sources : sleep[k] \in Nat
    BY Numbers DEF CollectorInv
  <2>. QED  BY <2>1
<1>3. \A k \in sources : (pass[k] # NoPass => pass[k].secs \in 0..PassMax)
                         /\ since[k] \in 0..(Delay(k) + 1)
  BY DEF CollectorInv
<1>4. findings \in Seq(Finding) /\ Len(findings) <= FindingMax
  <2>1. CASE NoneYet
    BY <2>1, AdvisorAssumption DEF NoneYet
  <2>2. CASE ~NoneYet
    <3>1. PICK c : Made(c)
      BY <2>2
    <3>2. AllFoundIn(c) \in Seq(Finding)
      BY <3>1, AllFoundTypes DEF Made
    <3>3. Sorted(AllFoundIn(c)) \in Seq(Finding)
      BY <3>2, SortedKeeps
    <3>4. PICK l : l = Sorted(AllFoundIn(c))
      OBVIOUS
    <3>5. findings = Capped(l) /\ l \in Seq(Finding)
      BY <3>1, <3>3, <3>4 DEF Made
    <3>6. /\ findings \in Seq(Finding)
          /\ Len(findings) = IF Len(l) < FindingMax THEN Len(l) ELSE FindingMax
      BY <3>5, CappedTypes
    <3>7. Len(l) \in Nat /\ FindingMax \in Nat
      BY <3>5, AdvisorAssumption
    <3>. QED  BY <3>6, <3>7
  <2>. QED  BY <2>1, <2>2
<1>. QED  BY <1>1, <1>2, <1>3, <1>4 DEF AdvisorTypeOK, Finding, Severity

\* What has been in the database for long enough is what the advisor shows, or its
\* list is full of what is no less severe (engine.py:84-99).
LEMMA AdvisorShows == AdvisorInv => ShowsWhatPersists
<1>. SUFFICES ASSUME AdvisorInv, NEW k \in sources, since[k] > Delay(k),
                     NEW s \in DOMAIN Rank
              PROVE  \/ HowMany(findings, k, s) = HowMany(About(k, Found(k, db[k])), k, s)
                     \/ /\ HowMany(findings, k, s)
                              < HowMany(About(k, Found(k, db[k])), k, s)
                        /\ Len(findings) = FindingMax
                        /\ \A i \in DOMAIN findings :
                             Rank[findings[i].severity] <= Rank[s]
  BY DEF ShowsWhatPersists
<1>. USE DEF AdvisorInv
<1>1. /\ Every[k] \in Nat \ {0} /\ PassMax \in Nat /\ interval \in Nat \ {0}
      /\ Delay(k) = 2 * PassMax + Every[k] + interval /\ since[k] \in Nat
      /\ rest \in 0..interval
  BY Numbers DEF CollectorInv
<1>2. ~NoneYet
  BY <1>1 DEF NoneYet
<1>3. PICK c : Made(c)
  BY <1>2
<1>4. c[k] = db[k]
  <2>1. since[k] > 2 * PassMax + Every[k] + interval - rest
    BY <1>1
  <2>. QED  BY <1>3, <2>1 DEF Made
<1>5. s \in Severity
  BY DEF Rank, Severity
<1>6. \A j \in sources : MayBeCached(j, c[j])
  BY <1>3 DEF Made
<1>7. HowMany(AllFoundIn(c), k, s) = HowMany(About(k, Found(k, db[k])), k, s)
  BY <1>4, <1>5, <1>6, OwnRule
<1>. DEFINE x == [key |-> k, severity |-> s]
<1>8. x \in Finding /\ x.severity = s
  BY <1>5 DEF Finding
<1>. HIDE DEF x
<1>9. AllFoundIn(c) \in Seq(Finding)
  BY <1>6, AllFoundTypes
<1>10. PICK q : q = AllFoundIn(c)
  OBVIOUS
<1>11. findings = Capped(Sorted(q))
  BY <1>3, <1>10 DEF Made
<1>12. \/ Count(findings, x) = Count(q, x)
       \/ /\ Count(findings, x) < Count(q, x)
          /\ Len(findings) = FindingMax
          /\ \A i \in DOMAIN findings : Rank[findings[i].severity] <= Rank[s]
  BY <1>8, <1>9, <1>10, <1>11, CappedKeeps
<1>13. Count(findings, x) = HowMany(findings, k, s)
       /\ Count(q, x) = HowMany(About(k, Found(k, db[k])), k, s)
  BY <1>7, <1>10, HowManyCounts DEF x
<1>. QED  BY <1>12, <1>13

\* Types of the advisor: its list is never longer than its limit, and a collector
\* neither sleeps nor collects for longer than it may: AdvisorTypeOK.
THEOREM AdvisorTypesCorrect == AdvisorSpec => []AdvisorTypeOK
<1>. QED  BY AdvisorIsInvariant, AdvisorTypes, PTL

\* A reading that lasts is shown by just the findings of its rule, and one is
\* missing only if the list is full of findings that are no less severe, for any
\* rules' readings, intervals and length of the list: ShowsWhatPersists.
THEOREM PersistentIsShown == AdvisorSpec => []ShowsWhatPersists
<1>. QED  BY AdvisorIsInvariant, AdvisorShows, PTL

-----------------------------------------------------------------------------
(* THE THREE TOGETHER *)

\* Each part does what it does alone.
LEMMA PartsAlone == MCSpec => AgeSpec /\ RatesSpec /\ AdvisorSpec
<1>1. MCInit => AgeInit /\ RatesInit /\ AdvisorInit
  BY DEF MCInit
<1>2. [MCNext]_<<ageVars, rateVars, advisorVars, part>> =>
        [AgeNext]_ageVars /\ [RatesNext]_rateVars /\ [AdvisorNext]_advisorVars
  BY DEF MCNext
<1>. QED  BY <1>1, <1>2, PTL DEF MCSpec, AgeSpec, RatesSpec, AdvisorSpec

\* Types of the three parts, for any of their constants.
THEOREM TimesTypesCorrect == MCSpec => []TypesOK
<1>1. AgeTypeOK /\ RatesTypeOK /\ AdvisorTypeOK => TypesOK
  BY DEF TypesOK
<1>. QED  BY <1>1, PartsAlone, AgeTypes, RatesTypesCorrect, AdvisorTypesCorrect, PTL
==============================================================================
