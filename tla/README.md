# A TLA+ verification of ORA BRABO

ORA BRABO is a terminal monitor for Oracle databases: a Textual application
whose tabs each hold a connection, with a pool, a scheduler of 19 collectors, a
cache, an advisor and a health check. All of it runs on one asyncio event loop
(thick-mode driver calls in threads), so what is hard about it is the order in
which tasks resume: a reconnect under running queries, a close under a
reconnect, two passes of one collector, a tab closed while another one opens, a
key pressed on a table whose rows have been replaced, an answer for a row left
meanwhile. Besides, instances of the application share two things on disk, the
saved connections and the wallets, and lock neither.

## The system

| part | state | operations | talks to |
|---|---|---|---|
| `core/connection_manager.py` | the pool handle `_pool` or `_sync_pool`; the wallet's directory | `connect`, `close`, `acquire`, `execute_query`, `fetch_one`, `execute_ddl`, `_extract_wallet` | the driver, the disk |
| `core/scheduler.py` | `_running`, `_tasks` | `run` (prime twice, then one loop per collector), `collect_now`, `stop` | collectors |
| `core/connection_session.py` | `connected`, `is_healthy`, `_tasks`, `failures` | `connect`, `_health_check_loop`, `_start_demo`, `close` | manager, scheduler, advisor |
| `collectors/*.py` | what was detected, the previous snapshot | `collect` | manager, cache |
| `core/cache.py` | value, time and ttl of a key | `set`, `get`, `is_fresh`, `age` | - |
| `advisor/engine.py` | the findings, in the cache | `run`, `_evaluate` and eight rules | cache |
| `app.py` | `_sessions`, `_active_id`, `_active_mode`, tabs, panes, dialogs | add, select and close a tab, tick, unmount | sessions, Textual |
| `widgets/connection_pane.py` | the active panel | `show_panel`, `active_primary_key`, keys that are forwarded | scheduler, panels |
| `widgets/panels.py` | cursor, filter, selection, workers and caches of each panel | redraw, kill, trace, detail, plan, history | cache, manager, Textual |
| `widgets/add_connection_modal.py` | the saved list, the highlighted index, the form | reload, highlight, delete, submit | store, Textual |
| `core/connections_store.py` | `connections.json`, the keyring | load, save, remove | the disk, other instances |
| `core/demo_data.py`, `reports/generator.py` | - | invent data, render a PDF | cache |

What makes each correct:

- manager and session: one `connect()` or `close()` at a time; no pool leaked or
  taken from a query; a session without a warning sign can query; `close()` ends
  and leaves nothing behind; an outage is recovered from; a wallet that counts as
  extracted is whole and current;
- scheduler: no pass, of a loop or a one-shot, starts after `stop()`, whenever that comes;
- collectors and cache: keys that one query's rows go into agree again after every
  pass that is alone, and always if they are set at once; what is latched is earned; a
  panel does not go back in time by itself; a failure is recovered from; old data
  is flagged, young data is not unless collection has stalled; rates count nothing twice;
- advisor: it shows what its rules find in readings that persist, and a full list
  drops nothing severe for something less severe;
- application: every session that is up can be reached by a tab; the keys act on
  the tab that is shown; a connection that the driver would refuse for its mode is
  blocked with a message; quitting ends;
- panels: a command goes to what the dialog said; a key acts on the cursor's line;
  what is drawn below a table belongs to the selected row, and arrives;
- store and dialog: the store is a map, no key has two entries, Delete removes
  the connection that was highlighted.

`PROJECT.json` lists the hazards line by line, each with its properties.

## The modules

| module | models | role |
|---|---|---|
| `ConnectionManager` | `core/connection_manager.py` | pool, handle, queries, `connect()` and `close()` in parts between awaits |
| `Scheduler` | `core/scheduler.py` | EXTENDS the manager: `run()`, loops, one-shots, `stop()` |
| `ConnectionSession` | `core/connection_session.py` | EXTENDS the scheduler: the complete task system of one tab, its properties and inductive invariant |
| `TabSession` | - | the contract of a session, as the application sees it |
| `AppTabs` | `app.py` | the application over sessions known by `TabSession` only |
| `Collectors` | `collectors/*.py` and two tables | the programs of the 19 collectors, as data |
| `CollectorPass` | `collect()` under `_safe_collect()` | two passes of one collector over a cache |
| `Freshness` | cache expiry, intervals, header, panel switch | in discrete time |
| `HealthRates` | `collectors/health.py` `_compute_rates` | in discrete time |
| `AdvisorEngine` | `advisor/engine.py` | in discrete time: the rules over readings that pass through collectors and cache |
| `TablePanels` | sessions, locks, Top SQL and advisor panels, the confirmation dialog, `execute_ddl()` | a table redrawn from the cache, and keys that act on its cursor's line |
| `SelectionPanels` | SQL monitor and jobs panels | a worker fetches a detail of the selected row |
| `PlanHistory` | the plan history panel | five groups of workers that start each other |
| `ConnectionMap` | - | the contract of the store: a map in which a call takes effect at once |
| `ConnectionsStore` | `core/connections_store.py` | several instances over one file and one keyring |
| `AddConnectionModal` | `widgets/add_connection_modal.py` | EXTENDS the store: the dialog of one instance, among the others |
| `Wallet` | `_extract_wallet()` | several instances over one directory |
| `SequenceLemmas` | - | what the proofs about lists and tables rest on: induction, `FlattenSeq`, counting in sequences |
| `AppTabsProofs`, `ConnectionSessionProofs`, `ConnectionsStoreProofs` | - | the theorems about the module they are named after |
| `TimesProofs` | - | of `Freshness`, `HealthRates`, `AdvisorEngine` and `MCTimes` |
| `ScreenProofs` | - | of `CollectorPass` and `SelectionPanels` |
| `PanelsProofs` | - | of `TablePanels`, `PlanHistory` and `MCPanels` |
| `LocalFilesProofs` | - | of `AddConnectionModal`, `Wallet` and `MCLocalFiles` |
| `MCConnectionSession`, `MCAppTabs` | - | instances for TLC |
| `MCTimes`, `MCScreen`, `MCPanels`, `MCLocalFiles` | - | two or three specifications side by side, for TLC |
| `MCPanelsPasses`, `MCTimesFiles` | - | two of those, or one of them and `CollectorPass`, in one run |

Components that interact are composed by EXTENDS (manager, scheduler, session;
collectors under a pass; store, dialog), or by a contract. There are two:

- `ConnectionSession` implements `TabSession` (property `KeepsPromise`: checked
  and proved); `AppTabs` has a session do whatever `TabSession` allows, and shows
  (`KeepsContracts`: checked and proved) that the application never uses a session outside of it:
  `connect()` once, `close()` at most once, on a session that is up. So what
  `AppTabs` shows holds with the real session in place.
- `ConnectionsStore` implements `ConnectionMap` as long as calls do not overlap
  and none is cut (property `IsAMap`: checked and proved), by the refinement
  mapping `MapStore`, which puts file and keyring together to what a lookup would
  return, and `MapCall`.

The MC modules but two hold specifications that have nothing to do with each other,
side by side: a variable (`part`, `side`, `passes`, `files`), chosen initially and then
constant, says which one takes steps while the others stay in one initial state. Their state spaces add up and do not
multiply; each part is checked as if it were alone.

### ConnectionManager, Scheduler, ConnectionSession

A step is what one task does between two awaits. `query[t]` is the query a task
waits for or runs, and on which pool: a task that named the pool before a
reconnect still holds the old one. `op[t]` is the await inside `connect()` or
`close()`. `cancelled` holds the tasks `cancel()` was called on: their next step
is the `CancelledError`.

- Thin mode: `create_pool_async()` returns at once, and the handle is assigned
  before the query that validates the pool; `close(force=False)` is refused when
  the pool has users.
- Thick mode: `create_pool()` runs in a thread, which goes on when its task is
  cancelled (`stray`), and so do queries (`ThreadEnds`); `close(force=True)`
  takes the pool away under its queries.
- A failed probe and what follows it up to the next await - counting, comparing,
  taking the healthy flag off, starting to close and connect - is one step
  (`ProbeFails`), as it is in the code.
- `db` stands for all that makes creating a pool or a query fail.
- `failures` stops at `Threshold`; the code only compares it with that.

Assumed of the driver and of asyncio, which are not in the repository: the driver
refuses `close(force=False)` while connections are busy or awaited; `acquire()`
on a closed pool raises something that is not a DatabaseError; closing a closed
pool returns; a thread outlives its cancelled task; `gather()` waits for what it
gathers.

### AppTabs

Handlers of the application run one at a time (`pump`), except timers and the
`_add_connection_tab()` of a confirmed dialog, which are tasks of their own. Which
neighbour Tabs selects, whether it selects an added tab that is not the first,
and whether the application survives an exception in a handler is left open.
`remove_tab()` counts as one step. The driver is locked in a mode by the first
thin pool or the first initialised thick client, also when that connection then
fails. That the driver refuses another mode from then on (`DriverConflict`) is the
driver's doing; the application's own check is `ModeConflict`, which knows only of
connections that have come up.

### Collectors, CollectorPass, Freshness, HealthRates, AdvisorEngine

`Collectors` writes each `collect()` down as a sequence of steps, one per query,
each with the keys that are set before the next await, the queries they are
computed from, and what a query without an answer does ("set", "keep", "gate",
"detect", "branch"). `CollectorPass` runs two passes of one such program, the
loop's and a one-shot's, against a database whose contents change and that fails
for a while. A key's value is the set of answers it was computed from. Two keys
that the rows of one query go into, or one key without such a twin, are followed at
a time (`WatchSets`, derived from the programs), since no key is computed from
another key. Some twins are set with no await in between and never
disagree (`AtOnce`). Others are set in different steps of a pass - `waits.system_top` and the
sums drawn next to it, `waits.active_sessions` and their count, `jobs.list` and the
summary above it (`collectors/waits.py:67`, `collectors/jobs.py:117`) - so that panels draw a mix of
two passes between the steps, or for longer if the pass ends there or another one
overlaps it. `TwinsAgree` says what is left: a pass that is alone puts them in
agreement again.

`Freshness` follows the key that stands for one panel: seconds since it was set,
the loop's sleep, a one-shot, and the header, which is rewritten at least once a
second (the code ticks every half second). `HealthRates` follows one counter.
Passes there may cross, fail and be late; the instance may restart.
`AdvisorEngine` has the rules with their thresholds, as the severities of what
each finds in a row of its reading; a reading goes from the database through the
query of a collector's pass into the cache, and one query in between may fail,
which blanks the key or leaves it. The findings are sorted and cut.

### TablePanels, SelectionPanels, PlanHistory

The DataTable of Textual is not in the repository and is modelled by how the
panels use it: `clear()` takes the cursor to the first line, `move_cursor()` and
the user move it, a second row with the same key raises, and a RowHighlighted
message is posted when the cursor moves and handled later. (No panel sets
`cursor_type`, so that Textual may post the message less often than this, or not at all:
the selections it makes are then moves that the model has too many.)

- `TablePanels`: `Refresh` is the whole `refresh_data()`: filter, draw, restore the
  cursor, or stop at a duplicate key. `Pick` is what a key acts on: the cursor as
  an index into the list in the cache, which collectors replace. A kill opens a
  dialog whose command was made when the key was pressed; the confirmed command is
  a task. Sessions come, go and have their numbers used again on any instance.
- `SelectionPanels`: selections come from messages and from the redraw; `worker` is
  the only worker of its exclusive group; an answer is compared with the
  selection.
- `PlanHistory`: the groups are `ph-plans`, `ph-detail`, `ph-prefetch`, `ph-ash` and
  `ph-tl`. Answers are told by the hash value of the plan alone, which statements
  share. The cache of plans is emptied when it is full.

The other panels of `widgets/panels.py` draw what is in the cache and keep no
state but rings for their charts.

### ConnectionsStore, AddConnectionModal, Wallet

A step of the store is one access to the file or the keyring. `open(..., "w")`
truncates the file, so a write is two steps (`OpenFile`, `WriteFile`) between
which an instance may die, and two instances may write into one file; a file
that cannot be parsed loads as no connections. A password goes to the keyring or,
if that fails, into the entry.

The dialog's handlers run one at a time from `inbox`, but the list of saved
connections has a queue of its own, so that the user moves its highlight while a
handler awaits `clear()` or `append()`. A message carries the position, and as
history what the user saw there. An index out of range raises: "down".

In `Wallet` the files of an extraction are written one by one, before the marker,
by instances that may overlap, with the zip replaced at any time. The version of a
zip and its date are two things: a replacement may be dated before, at or after the
marker, for a copy may keep its date or come from the clock of another system, and
`_extract_wallet()` compares only dates. `overlooked` and `raced` are the histories that
`MarkedIsCurrent` excludes.

## What the runs show

| run | question | states (distinct) |
|---|---|---|
| `session` | the safety properties and the contract, in all three modes | 0.65 M |
| `session_live` | recovery from an outage, and the end of `close()` | 11 k |
| `tabs` | the application with two connections of any kind, safety and liveness | 0.31 M |
| `panels_passes` | what the keys of the table panels act on; what the plan history draws; all 19 programs under overlapping passes and an outage | 2.4 M |
| `screen_live` | what the screen settles on: rows after an outage, the detail of the selected row | 0.25 M |
| `times_files` | the header against the age of what is shown; the rates against what happened; the findings against readings that persist; store, dialog and wallets, shared by two instances | 2.4 M |
| `close_refused` (violation) | `close()` in thin mode ends by an exception with the pool open, because of a query it does not track | |
| `last_values` (violation) | a failed query blanks a panel | |
| `wrong_row` (violation) | kill, trace and detail are about another session than the highlighted one | |
| `top_sql` (violation) | a statement with two cursors ends the Top SQL table at its second line | |
| `mode_message` (violation) | a connection in the other mode meets the driver's error instead of the message | |
| `stale_awr` (violation) | the header says of a healthy AWR collector, once a round, that collection has stalled | |

The violations are what comments, docstrings, titles and the project's README say
and the code does not do; `PROJECT.json` quotes them under findings.

### Other observations

Met while modelling, visible in the models, and without a run of their own:

- A failed detection query counts as "no" for ever (`collectors/rac.py:82`, and
  likewise PDB and Exadata): `LatchIsEarned` allows it after an outage only.
- The proof of `AlarmIsEarned` found that besides the AWR panel's there is one more key that
  may live no longer than its collector sleeps: the RMAN panel's lives 60 seconds
  whatever the interval is (`collectors/rman.py:214`), so that with `--refresh` of 30 or
  more the header calls it stalled once a round, too. `OthersAreEarned` says that these two
  are all.
- Keys that one query's rows go into and that are set in different steps may be a mix
  of two passes for a while (`collectors/waits.py:67`, `collectors/jobs.py:117`); see `TwinsAgree`.
- In thick mode a pool that an abandoned `create_pool()` thread makes after
  `close()` is never closed.
- `_compute_rates()` divides by the interval instead of the time between the
  snapshots, so a "per-second" rate (`collectors/health.py:130`) may exceed what
  happened in a second. `CountsOnce` is about the differences.
- Two instances that save at a time lose one of the saves, and one killed between
  truncating and writing loses all saved connections (`core/connections_store.py:118`).
  `IsAMap` ends at the first overlap or cut (`disturbed`); `OneEntryPerKey` does not.
- A highlight that is handled after the list was reloaded may index past its end
  (`widgets/add_connection_modal.py:388`), or fill the form from another entry
  (`late`).
- A zip that is replaced while it is extracted, or extracted by two instances, may be
  marked as extracted with files of two versions (`raced`). One that replaces another
  with a date not after the marker's is not extracted at all (`overlooked`,
  `core/connection_manager.py:66`).
- A kill from the sessions panel names no instance (`widgets/panels.py:517`).
- The advisor's table never restores its cursor, and falls back to the plan of
  another statement when it has none of the selected one (`widgets/panels.py:2601`).
- Coming back from a DBMS_JOB row to the job selected before it leaves the message
  of the former on the screen (`widgets/panels.py:4871`, `foreign`).
- A typed SQL ID is overwritten by the next redraw, a plan selected while the table
  still shows another statement's plans is fetched for the wrong statement
  (`crossed`), and an answer of another statement with the same plan, "not found"
  included, replaces the right tree.
- `forward_explain()` (`widgets/connection_pane.py:201`) calls an action that no panel
  has; the rules for row locks and PGA that the project's README names (line 83) do
  not exist; the Data Guard rules look for statistics by another name than
  some releases use.

### Bounds

- `session`: two collectors (one primed first, one after it), one one-shot or panel
  worker, two queries per pass, two connections, a threshold of two, and enough
  pools: four, as thick mode may have one in use, one under threads that outlived
  it, a new one and one from an abandoned thread. A hazard here needs at most two
  queries on a pool, a reconnect, and a close. The liveness run has one collector,
  one connection and thin mode only. The theorems cover every size.
- `tabs`: two connections, one that may be of the command line and one of the dialog,
  with every combination of kinds; in `mode_message` both are of the dialog. One
  dialog at a time (`ModalMax`): a second one stacked on it could only confirm the
  same two connections;
  `ClickMax` bounds the unprocessed messages a user adds to.
- `panels_passes`, collectors: one change of the contents and one outage, of which the
  programs of six queries and more see only one at a time (`LongBound`). Two versions tell old
  rows from new ones, two passes are what a loop and a one-shot make.
  `screen_live` has seven collectors that fail in different ways and no change of
  the contents, which recovery does not depend on.
- `times_files`, ages: times to live and intervals are the code's, with `--refresh 5`; one
  one-shot at a time; ten panels, of every interval, whose keys live for 2, 5 or 48 seconds
  longer than it is. The panel whose key lives for 300 seconds is left out because of its size;
  the AWR panel is in `stale_awr`. Ages saturate past the
  time to live. Rates: five seconds, of the two-second interval: three passes of the
  loop. Advisor: one or two keys at a time, with readings on both sides of each threshold;
  its interval and its list are cut to 2 (`interval`, `FindingMax`), so that the list is
  often full; the code's are 30 and 50. The theorems cover both.
- `screen_live`, details: two keys, lists of two rows (with and without a key, the
  same key twice), three messages on their way: those of a redraw and one more.
- `panels_passes`, tables: three rows at most: a session, one with its numbers used again, and
  one on another instance; one command on its way besides the one in the
  dialog. Plans: two statements that share one of two plans; a cache of one;
  no SQL ID is typed once `crossed` (`OneExcuse`), as `TreeIsOfSelection` excepts both.
- `times_files`, files: two connections, two instances. While calls may overlap and
  instances die: three calls and one death, enough for two calls that overlap and a
  third that finds what they left; one message waits for the dialog then, two
  otherwise. The dialog with an undisturbed store: four calls, since it takes two saves
  and two deletes for a delete to act on a reloaded list. Wallet:
  two files, two dates, which tell a later one from one that is not, two replacements,
  three extractions, one of them cut.

`CHECK_DEADLOCK FALSE` is set throughout: a closed session, an application that
is down, and a run out of its bounds have nothing left to do.

### Fairness

Weak fairness of every task: the event loop runs what is ready, sleeps and
timers end. Strong fairness of the driver's handing out connections: waiters are
served in turn, though a connection may be free only at times. Queries of a
reachable or a down database end, with rows or with an error. The user and the
database owe nothing: liveness properties that need the database up say so
(`Recovers`, `Refills`), and so do those that need the tab to stay open.

`SelectionFairness` is for the panels that fetch a detail. The pane's timer redraws the
panel for ever; a redraw waits for nothing but the bound on messages, hence strong
fairness. Messages are handled (weak fairness). Redraws and moves may replace a worker by
another one, but a query that is made again and again for the selected row is once
answered before the next of them (strong fairness): a query takes less than the seconds
between two redraws at least now and then. `SettlesOnCursor` asks nothing of
moves: the user stays on the line from some time on.

## What is proved

Every safety property of the passing runs is a theorem: for all values of the constants,
which includes all bounds, and any number of instances, connections, keys, rows,
statements and plans. Assumed are only the named assumptions of the constants, which
TLC evaluates in the runs.

| module | theorem | property |
|---|---|---|
| `ConnectionSessionProofs` | `InductiveInvariant` | the inductive invariant `IInv` |
| | `TypeCorrect` | the type invariant `TypeOK` |
| | `LifecycleIsSerialised` | `LifecycleSerialised` |
| | `PoolsAreNotLeaked` | `NoLeakedPool` |
| | `QueriesKeepTheirPool` | `QueriesOnLivePool` |
| | `HealthyIsUsable` | `HealthyMeansUsable` |
| | `ClosedIsQuiet` | `ClosedMeansQuiet` |
| | `NoPassStartsLate` | `NoPassAfterClose` |
| | `PoolLossesAreEarned` | `PoolLossIsEarned` |
| | `SessionKeepsPromise` | `KeepsPromise`, the refinement of `TabSession` |
| `AppTabsProofs` | `TypeCorrect` | the type invariant `TypeOK` |
| | `SessionsHaveTabs` | `TabsAreSessions` |
| | `KeysActOnSelected` | `ActiveIsSelected` |
| | `ModeCheckIsExact` | `ClearOnceUp` |
| | `ContractsAreKept` | `KeepsContracts`, what it does to a session refines `TabSession` |
| `ScreenProofs` | `TypeCorrect`, `SelectionTypesCorrect` | the type invariants of `CollectorPass` and `SelectionPanels` |
| | `LatchIsEarnedAlways` | `LatchIsEarned` |
| | `TwinsAlwaysAgree` | `TwinsAgree` |
| | `AlonePassesGoForward` | `AloneGoesForward` |
| | `DetailFollowsSelection` | `DetailIsOfSelection` |
| `TimesProofs` | `AgeTypes`, `RatesTypesCorrect`, `AdvisorTypesCorrect`, `TimesTypesCorrect` | the type invariants, and `TypesOK` of the three |
| | `SilenceMeansFresh` | `SilenceIsFresh` |
| | `SwitchesRefresh` | `SwitchRefreshes` |
| | `AlarmsAreEarned` | `AlarmIsEarned` |
| | `OthersAreEarned` | `StaleMeansStalled`, without the AWR panel, and the RMAN panel at long intervals |
| | `RatesCountOnce` | `CountsOnce` |
| | `PersistentIsShown` | `ShowsWhatPersists` |
| `PanelsProofs` | `PlansTypeCorrect`, `PanelTypesCorrect` | the type invariant of `PlanHistory`, and `TypesOK` of both |
| | `TargetsAreOnLine` | `TargetIsOnLine` |
| | `OnlyConfirmedAreKilled` | `KilledWasConfirmed` |
| | `TableOfSelection`, `TreeOfSelection` | `TableIsOfSelection`, `TreeIsOfSelection` |
| `ConnectionsStoreProofs` | `TypeCorrect` | the type invariant `StoreTypeOK`, a part of the dialog's |
| | `KeysAreUnique` | `OneEntryPerKey` |
| | `StoreIsAMap` | `IsAMap`, the refinement of `ConnectionMap` |
| `LocalFilesProofs` | `DeleteMeansTheSeen` | `DeletesWhatWasSeen` |
| | `MarkedWalletIsCurrent` | `MarkedIsCurrent` |
| | `LocalTypesCorrect` | `FilesTypesOK`, of store, dialog and wallet |

Few of the properties are inductive; what each needs:

- Session. `LifecycleSerialised` needs that the health
  check has ended when `close()` comes to the pool, which needs that it was
  cancelled and has not been forgotten; `HealthyMeansUsable` needs that the handle
  only ever names a closed pool while a reconnect is under way, which begins when
  the flag is off; `NoLeakedPool` needs that a new pool is only made when the old
  one is closed, which needs that the failed query's connection was given back.
  `IInv` collects this: `OwnersInv` (who is inside `connect()` or `close()`, and
  in which phase), `TasksInv` (what runs in which phase), `HandleInv` (the handle,
  the pool that its query is on, and the flag) and `ThinInv` (one pool, every query
  on it).
- Application. `AddInv`: a connection has a pane, a tab and an entry in `_sessions` only
  after its session was up, as far as its `_add_connection_tab()` has come. `PumpInv`: one
  session at a time is being closed, and a tab left behind by a closed one is the next to
  go; `UpInv` and `TabsAreSessions` rest on it, and so does the contract, with `FreshInv`.
  `SelectInv`: the last message on its way is about the selected tab, and when none is,
  the application has followed. `ModeInv`: who waits for a pool has locked the driver in
  its own mode, so that once a session is up `_active_mode` is the driver's mode, and the check
  against the one is as good as against the other.
- Collector types. `PassTypes`: a pass is at a step of its program and holds answers of
  no query but those it has made, which needs that every program has a step, and a
  detecting one has two (`ProgramsFit`, from the 19 programs).
- Latch. `FailuresAreEarned`: a failed answer that a pass still holds has an outage behind
  it, though the database may be up again when the pass latches.
- Twins. Facts about the 19 programs come first: all but six have no twins
  (`ProgramsWithoutTwins`), four set theirs together in one step from one query (`Together`), and
  the waits and the jobs set each of their keys once in every pass that gets so far
  (`Steady`). So twins set in one step always hold the same rows (`SameRows`); and of the
  others, what a pass that is alone has set agrees, with what it has got, too
  (`LeavesInAgreement`), which rests on `AloneInv` below.
- Going forward. `AloneInv`: a pass that is not marked as overlapping is the only one
  under way (`Solitude`), what it has got is at least as new as what is shown
  (`NotOlder`), nothing is newer than the database (`PastOnly`), and it has kept the answers
  it has yet to use (`HoldsWhatItNeeds`, again from the programs).
- Selections. The two halves of `DetailIsOfSelection` - what is drawn or fetched is of the
  selected row, and "fetching" has a worker behind it - keep each other.
- Ages. `SilenceInv` has one second more between two headers; `SwitchInv` says so before the
  one-shot is over, and needs that the collectors which a switch fires set the panel's key;
  `AlarmInv` bounds the age of a key by how long the loop has collected and slept
  since (`SinceSet`).
- Rates. `NotTooMuch`: what is counted, and what the pass under way and the next one
  will count, is no more than what happened.
- Advisor. `AdvisorInv` follows a reading with the clock: a pass has read what the
  database has, if it has had it for longer than the pass is at it; the cache, with
  the loop's sleep and the next pass; the findings are those of some cached readings
  (`Made`), which are what the database had, with the time the advisor has slept. The rest is
  about lists: about a key there are just the findings of its own rule (`OwnRule`), sorting
  loses none (`SortedKeeps`), and cutting loses one only to others that are no less
  severe (`CappedKeeps`).
- Tables. `TasksConfirmed`: a command on its way is one that was confirmed. `LineInv`: a
  table that was drawn from the list in the cache is a beginning of it - the whole, or what
  comes before a duplicate - and not an empty one, so that the cursor's line is in both.
- Plan history. `TableInv` (plans are fetched of the selected statement, and the table is
  of it or will be), `DrawnInv` (what is drawn is of the selected plan, or a worker will
  replace it) and `KnownInv` (a statement has the plan with which it is fetched
  or drawn, unless `crossed`).
- Store. `StoreInv` adds that the list each instance is about to write is unique, and
  that a call has the argument its step needs. For the refinement: without a
  disturbance one instance at a time is inside a call, the list it is going to write is
  what the file holds but for its own key, and the abstract effect happens when the
  entry, or for a removal the keyring, comes to say so.
- Dialog. `QueueInv`: a Delete that waits in the queue will find highlighted what the user
  saw, if all before it is handled, for every place in the queue and for the next message
  too; `DialogInv` keeps room for what a reload posts.
- Wallet. `OneExtracts`: without a race one process extracts the zip as it is, the
  directory counts as not extracted until it touches the marker, and what it has
  not yet to write is there. None of it needs dates to say more than whether the zip's
  is after the marker's.

In each module a lemma per action, or per group of actions, shows that a step keeps the
invariant, and the temporal theorems are two lines each. The invariants were first checked
by TLC on the instances of the runs.

List comprehensions of the code are stated with `FlattenSeq`, a recursive function, and not
with `SelectSeq`, a recursive operator that the prover cannot expand. Induction is stated
for sets (`FromZero`: a set that has 0, and n + 1 whenever it has n, has every number), and
follows from the least element of a set; `SequenceLemmas` uses it to say what
`FlattenSeq` makes of any number of sequences.

Model-checked only: liveness, which is out of the prover's reach (`Recovers`,
`CloseReturns`, `LastTabPrompts`, `SignAppears`, `QuitEnds`, `Refills`, `SettlesOnCursor`),
and the violations. `TypesOK` in a run is the conjunction of the type invariants of
the specifications that its module holds side by side; the type invariants of
`CollectorPass`, `SelectionPanels` and of the session are proved and in no run.

## What is not modelled

- The demo data, the PDF, the charts and the screens that only show text, and with
  them the panels that only draw: layout.
- The history rings of the cache: they are appended to with every `set()` and
  drawn as charts. `clear()` of the cache has no caller.
- SQL, and the shapes of rows; the wording of findings, plans and messages.
- The validation of the dialog's fields: it refuses or accepts.
- The command line, the installer, the launcher and the offline checker of the queries.
- A `connect()` that fails leaves the pool it created open (`usable` in state
  "failed" of `TabSession`); that is modelled, and no property forbids it.
- A failed fetch of a plan is cached like a plan that is gone
  (`widgets/panels.py:4570`): what a plan says is left out.

## What could follow

Theorems that say more than the runs ask: that each MC module's parts implement their own
specifications is proved for `MCTimes` (`PartsAlone`) and could be for the others; that
`AppTabs` with real sessions in place of the contract is a composition of the two proved
refinements. And, if the application is to be run more than once on a desk, a store that
replaces its file instead of rewriting it, for which `ConnectionMap` without `disturbed`
would be the specification.
