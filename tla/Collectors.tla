------------------------------ MODULE Collectors ------------------------------
(***************************************************************************)
(* The collectors of collectors/*.py, as programs: what collect() queries, *)
(* which cache keys it sets between two awaits and from which queries, and *)
(* what it does when a query has no answer.  With them, the tables of      *)
(* core/scheduler.py and widgets/connection_pane.py that say which         *)
(* collectors feed a panel and which key tells how old the panel is.       *)
(*                                                                         *)
(* A program is a sequence of steps, one per query.  A step's sets are     *)
(* pairs <<key, queries>>: the keys it sets, each computed from the rows   *)
(* of those queries of the pass.  Its field "on" says how:                 *)
(*   "set"     the keys are set; a failed query counts as no rows;         *)
(*   "keep"    a failed query leaves the keys as they are;                 *)
(*   "gate"    a failed query ends the pass;                               *)
(*   "detect"  only while the database's kind is not known: latch it, and  *)
(*             end the pass when it is not the collector's kind;           *)
(*   "branch"  when there are no rows the next query is left out, and what *)
(*             it would set is set to nothing.                             *)
(***************************************************************************)
EXTENDS Integers, Sequences, FiniteSets, FiniteSetsExt

Step(on, i, keys) == [on |-> on, sets |-> {<<k, {i}>> : k \in keys}]

\* Query i, whose rows become the value of the keys.
Rows(i, keys) == Step("set", i, keys)
KeepRow(i, keys) == Step("keep", i, keys)

\* A query whose rows are used later in the pass only.
Read == [on |-> "set", sets |-> {}]

HealthCollector ==
  <<KeepRow(1, {"health.db_info"}),
    KeepRow(2, {"health.total_sessions", "health.active_sessions"}),
    KeepRow(3, {"health.sga_mb"}),
    KeepRow(4, {"health.pga_mb"}),
    KeepRow(5, {"health.cpu_load"}),
    KeepRow(6, {"health.memory"}),
    Rows(7, {"health.rates"})>>

WaitsCollector ==
  <<Rows(1, {"waits.system_top"}),
    Rows(2, {"waits.active_sessions"}),
    [on |-> "set",
     sets |-> {<<"waits.by_class", {3}>>, <<"waits.top_wait_sec", {1}>>,
               <<"waits.non_idle_total_sec", {1}>>, <<"waits.active_count", {2}>>}]>>

\* Mutant: the counts are set with the locks, one await later.
SessionsCollectorLate ==
  <<Rows(1, {"sessions.list"}),
    [on |-> "set",
     sets |-> {<<"sessions.active_count", {1}>>, <<"sessions.total_count", {1}>>,
               <<"locks.blockers", {2}>>}],
    Rows(3, {"locks.waiters"}),
    Rows(4, {"locks.objects"})>>

SessionsCollector ==
  <<Rows(1, {"sessions.list", "sessions.active_count", "sessions.total_count"}),
    Rows(2, {"locks.blockers"}),
    Rows(3, {"locks.waiters"}),
    Rows(4, {"locks.objects"})>>

SQLCollector == <<Rows(1, {"sql.top"})>>

RACCollector ==
  <<Step("detect", 1, {"rac.detected"}),
    Rows(2, {"rac.instances"}),
    Rows(3, {"rac.gc_stats"}),
    Rows(4, {"rac.interconnect"}),
    Rows(5, {"rac.services"})>>

SQLMonitorCollector == <<Rows(1, {"sqlmon.active", "sqlmon.recent"})>>

DataGuardCollector ==
  <<Step("gate", 1, {"dg.role", "dg.protection_mode"}),
    Rows(2, {"dg.stats"}),
    Rows(3, {"dg.standby_processes"}),
    Rows(4, {"dg.rac_processes"}),
    Rows(5, {"dg.archive_dests"}),
    Rows(6, {"dg.archive_gap"}),
    Rows(7, {"dg.log_history"})>>

ASMCollector ==
  <<Rows(1, {"asm.diskgroups"}),
    Rows(2, {"asm.fra"}),
    Rows(3, {"asm.fra_files"}),
    Rows(4, {"asm.archive_rate_mb"}),
    Rows(5, {"asm.disks"})>>

RMANCollector ==
  <<Read, Read, Read, Read, Read,
    [on |-> "set",
     sets |-> {<<"rman.sessions", {1}>>, <<"rman.longops", {2}>>,
               <<"rman.wait_events", {3}>>, <<"rman.disk_io", {4}>>,
               <<"rman.tape_io", {5}>>, <<"rman.perf_summary", {6}>>}],
    Read,
    [on |-> "set", sets |-> {<<"rman.history", {7}>>, <<"rman.backup_sets", {8}>>}]>>

IOActivityCollector ==
  <<Rows(1, {"io.file_stats"}),
    Rows(2, {"io.function_stats"}),
    Rows(3, {"io.load_profile"}),
    Rows(4, {"io.redo_logs"}),
    Rows(5, {"io.redo_log_files"}),
    Rows(6, {"io.redo_switches_per_hour"}),
    Rows(7, {"io.undo_stats"}),
    Rows(8, {"io.undo_extents"})>>

PDBCollector ==
  <<Step("detect", 1, {"pdb.detected"}),
    Rows(2, {"pdb.list"}),
    Rows(3, {"pdb.tablespaces"}),
    Rows(4, {"pdb.dg_status"})>>

JobsCollector ==
  <<Read,
    [on |-> "set", sets |-> {<<"jobs.list", {1, 2}>>}],
    Rows(3, {"jobs.running"}),
    Rows(4, {"jobs.upcoming"}),
    Rows(5, {"jobs.daily"}),
    [on |-> "set", sets |-> {<<"jobs.summary", {1, 2, 3, 6}>>}]>>

ExadataCollector ==
  <<Step("detect", 1, {"exa.detected"}),
    Rows(2, {"exa.cells"}),
    Rows(3, {"exa.smart_scan"}),
    Rows(4, {"exa.flash_cache"}),
    Rows(5, {"exa.offload"}),
    Rows(6, {"exa.sql_offload"}),
    Rows(7, {"exa.cell_waits"}),
    Rows(8, {"exa.hcc_objects"}),
    Rows(9, {"exa.params"})>>

AdvisorCollector ==
  <<Rows(1, {"advisor.oracle_advisors"}),
    Rows(2, {"advisor.oracle_findings"}),
    Step("branch", 3, {"advisor.sql_monitor"}),
    Rows(4, {"advisor.sql_plan"})>>

MemoryAdvisorCollector ==
  <<Rows(1, {"mem.sga_advice"}),
    Rows(2, {"mem.pga_advice"}),
    Rows(3, {"mem.pga_stats"}),
    Rows(4, {"mem.buffer_pool"}),
    Rows(5, {"mem.db_cache_advice"}),
    Rows(6, {"mem.resize_ops"}),
    Rows(7, {"mem.latches"}),
    Rows(8, {"mem.mutex_sleep"})>>

AWRCollector ==
  <<Rows(1, {"awr.snapshots"}),
    Rows(2, {"awr.addm_tasks"}),
    Rows(3, {"awr.addm_findings"}),
    Rows(4, {"ash.samples"}),
    Rows(5, {"awr.tablespaces"}),
    Rows(6, {"awr.top_sql"}),
    Rows(7, {"awr.top_waits"}),
    Rows(8, {"awr.sysstat"})>>

ObjectsCollector ==
  <<Rows(1, {"obj.top_segments"}),
    Rows(2, {"obj.stale_stats"}),
    Rows(3, {"obj.scheduler_jobs"}),
    Rows(4, {"obj.scheduler_history"}),
    Rows(5, {"obj.wait_chains"}),
    Rows(6, {"obj.plan_baselines"}),
    Rows(7, {"obj.px_sessions"}),
    Rows(8, {"obj.biggest_segments"})>>

AlertLogCollector ==
  <<Rows(1, {"alertlog.recent"}), Rows(2, {"alertlog.incidents"})>>

PlanHistCollector ==
  <<Rows(1, {"planhist.unstable"}),
    Rows(2, {"planhist.adaptive"}),
    Rows(3, {"planhist.awr_ok"})>>

Program ==
  [Health |-> HealthCollector, Waits |-> WaitsCollector,
   Sessions |-> SessionsCollector, SQL |-> SQLCollector, RAC |-> RACCollector,
   SQLMonitor |-> SQLMonitorCollector, DataGuard |-> DataGuardCollector,
   ASM |-> ASMCollector, RMAN |-> RMANCollector,
   IOActivity |-> IOActivityCollector, PDB |-> PDBCollector,
   Jobs |-> JobsCollector, Exadata |-> ExadataCollector,
   Advisor |-> AdvisorCollector, MemoryAdvisor |-> MemoryAdvisorCollector,
   AWR |-> AWRCollector, Objects |-> ObjectsCollector,
   AlertLog |-> AlertLogCollector, PlanHist |-> PlanHistCollector]

Name == DOMAIN Program

\* The keys a collector may set.
KeysOf(c) == {p[1] : p \in UNION {Program[c][i].sets : i \in DOMAIN Program[c]}}

-----------------------------------------------------------------------------
(* Which collectors feed a panel, and which key tells the panel's age *)

_PANEL_COLLECTORS ==
  [dashboard |-> {"Health", "Waits", "RAC"}, sessions |-> {"Sessions"},
   topsql |-> {"SQL"}, waits |-> {"Waits"}, locks |-> {"Sessions"},
   rac |-> {"RAC"}, dataguard |-> {"DataGuard"}, asm |-> {"ASM"},
   rman |-> {"RMAN"}, awr |-> {"AWR"}, ash |-> {"AWR"},
   advisor |-> {"Advisor"}, exadata |-> {"Exadata"}, pdb |-> {"PDB"},
   io |-> {"IOActivity"}, memory |-> {"MemoryAdvisor"},
   segments |-> {"Objects"}, sqlmonitor |-> {"SQLMonitor"},
   alertlog |-> {"AlertLog"}, waitchains |-> {"Objects"},
   planbaselines |-> {"Objects"}, parallelquery |-> {"Objects"},
   planhist |-> {"PlanHist"}, jobs |-> {"Jobs"}]

_PANEL_PRIMARY_KEY ==
  [dashboard |-> "health.total_sessions", sessions |-> "sessions.list",
   topsql |-> "sql.top", waits |-> "waits.system_top",
   locks |-> "sessions.list", rac |-> "rac.instances",
   dataguard |-> "dg.stats", asm |-> "asm.diskgroups",
   rman |-> "rman.history", awr |-> "awr.tablespaces",
   ash |-> "ash.samples", pdb |-> "pdb.list", io |-> "io.load_profile",
   segments |-> "obj.biggest_segments", sqlmonitor |-> "sqlmon.active",
   alertlog |-> "alertlog.recent", planhist |-> "planhist.unstable",
   jobs |-> "jobs.list"]

PrimaryKeys == {_PANEL_PRIMARY_KEY[p] : p \in DOMAIN _PANEL_PRIMARY_KEY}
=============================================================================
