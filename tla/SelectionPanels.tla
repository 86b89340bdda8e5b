--------------------------- MODULE SelectionPanels ---------------------------
(***************************************************************************)
(* The two panels of widgets/panels.py that fetch something about the row  *)
(* under the cursor: SQLMonitorPanel an execution plan (of a sql_id) and   *)
(* JobsPanel a history of runs (of a job of DBMS_SCHEDULER).               *)
(*                                                                         *)
(* A selection comes from a RowHighlighted message, which the table posts  *)
(* when its cursor moves and which is handled later, or from the redraw.   *)
(* The fetch is a worker of an exclusive group: the next one cancels it.   *)
(* What it answers is compared with the selection before it is drawn.      *)
(*                                                                         *)
(* A row is the key its detail is fetched by, or NoKey when it has none: no *)
(* sql_id, or a job of DBMS_JOB.  Positions count from 0.  What a detail   *)
(* says is left out; a failed query is drawn as "not found".               *)
(***************************************************************************)
EXTENDS Naturals, Sequences

CONSTANTS
  Key,       \* the sql_ids, the jobs
  NoKey,      \* no key
  RowMax,    \* bound: rows of the list
  EventMax   \* bound: messages not handled yet

ASSUME KeyAssumption == NoKey \notin Key
ASSUME BoundAssumption == RowMax \in Nat /\ EventMax \in Nat

VARIABLES
  panel,     \* which of the two
  list,      \* the cache: sqlmon.active and sqlmon.recent, or jobs.list
  rows,      \* _rows, _job_rows: what the table was drawn from
  cursor,    \* cursor_row
  events,    \* RowHighlighted messages: their cursor_row
  selected,  \* _last_plan_sql_id, _sel_key
  detail,    \* what is drawn: of which key, and how far it is
  worker,    \* the worker of the exclusive group: the key it fetches
  foreign    \* history: a row of DBMS_JOB has been selected

selectionVars == <<panel, list, rows, cursor, events, selected, detail, worker, foreign>>

Lists == UNION {[1..n -> Key \cup {NoKey}] : n \in 0..RowMax}
Details == [what : {"nothing", "message"}, of : {NoKey}]
           \cup [what : {"fetching", "answer"}, of : Key]

SelectionTypeOK ==
  /\ panel \in {"sqlmon", "jobs"}
  /\ list \in Lists
  /\ rows \in Lists
  /\ cursor \in Nat /\ (cursor = 0 \/ cursor < Len(rows))
  /\ events \in Seq(Nat)
  /\ selected \in Key \cup {NoKey}
  /\ detail \in Details
  /\ worker \in Key \cup {NoKey}
  /\ foreign \in BOOLEAN

Nothing == [what |-> "nothing", of |-> NoKey]
Message == [what |-> "message", of |-> NoKey]
Fetching(k) == [what |-> "fetching", of |-> k]
DetailOf(k) == [what |-> "answer", of |-> k]

SelectionInit ==
  /\ panel \in {"sqlmon", "jobs"}
  /\ list = <<>>
  /\ rows = <<>>
  /\ cursor = 0
  /\ events = <<>>
  /\ selected = NoKey
  /\ detail = Nothing
  /\ worker = NoKey
  /\ foreign = FALSE

-----------------------------------------------------------------------------
\* A collector has put another list in the cache.
Collect ==
  /\ list' \in Lists
  /\ UNCHANGED <<panel, rows, cursor, events, selected, detail, worker, foreign>>

\* run_worker() with exclusive=True: the worker that runs is cancelled.
Start(k) == worker' = k

\* Mutant: both panels keep it.
KeepsSelection ==
  /\ detail' = Message
  /\ foreign' = (foreign \/ panel = "jobs")
  /\ UNCHANGED <<selected, worker>>

\* A row without a key.  SQL Monitor forgets the selection, the jobs panel
\* keeps it; the worker that runs is not cancelled.
SelectKeyless ==
  /\ IF panel = "sqlmon"
       THEN selected' = NoKey /\ detail' = Nothing
       ELSE selected' = selected /\ detail' = Message
  /\ foreign' = (foreign \/ panel = "jobs")
  /\ UNCHANGED worker

SelectKey(k) ==
  /\ selected' = k
  /\ IF k = selected
       THEN UNCHANGED <<detail, worker>>
       ELSE detail' = Fetching(k) /\ Start(k)
  /\ UNCHANGED foreign

\* _select_row(), _select_job(): row at of those shown, if there is one.
Select(shown, at) ==
  IF at < Len(shown)
    THEN IF shown[at + 1] = NoKey THEN SelectKeyless ELSE SelectKey(shown[at + 1])
    ELSE UNCHANGED <<selected, detail, worker, foreign>>

\* clear() takes the cursor to line 0, and move_cursor() takes it back.
CursorAfter(lines) ==
  IF Len(lines) = 0 THEN 0
    ELSE IF cursor < Len(lines) THEN cursor ELSE Len(lines) - 1

\* The table posts a message for line 0 when it has a line again, and one for
\* the cursor when it moves from there.
Posted(lines, at) ==
  IF Len(lines) = 0 THEN <<>> ELSE IF at = 0 THEN <<0>> ELSE <<0, at>>

\* refresh_data()
Refresh ==
  LET at == CursorAfter(list)
  IN  /\ Len(events) + Len(Posted(list, at)) <= EventMax
      /\ rows' = list
      /\ cursor' = at
      /\ events' = events \o Posted(list, at)
      /\ Select(list, at)
      /\ UNCHANGED <<panel, list>>

\* The user moves the cursor.
MoveCursor ==
  /\ Len(events) < EventMax
  /\ cursor' \in {c \in 0..RowMax : c < Len(rows)} \ {cursor}
  /\ events' = Append(events, cursor')
  /\ UNCHANGED <<panel, list, rows, selected, detail, worker, foreign>>

\* on_data_table_row_highlighted(): the table may have other rows by now.
Highlighted ==
  /\ events # <<>>
  /\ Select(rows, Head(events))
  /\ events' = Tail(events)
  /\ UNCHANGED <<panel, list, rows, cursor>>

\* Mutant: what was fetched is drawn, whatever is selected.
DrawAnyway(k) == detail' = DetailOf(k)

\* An answer that is not of the selection is dropped.
Draw(k) == detail' = IF k = selected THEN DetailOf(k) ELSE detail

\* _load_plan(), _load_runhist() after the query, or after its failure.
DetailAnswered(k) ==
  /\ worker = k
  /\ Draw(k)
  /\ worker' = NoKey
  /\ UNCHANGED <<panel, list, rows, cursor, events, selected, foreign>>

SelectionNext ==
  Collect \/ Refresh \/ MoveCursor \/ Highlighted \/ \E k \in Key : DetailAnswered(k)

SelectionSpec == SelectionInit /\ [][SelectionNext]_selectionVars

\* The panel is on the screen and redrawn every few seconds, messages are
\* handled, and a query ends.  Redraws and moves keep coming, but a query that
\* is made again and again once ends before the next of them.
\* A redraw waits for nothing but the bound of the messages, hence SF.
SelectionFairness ==
  /\ SF_selectionVars(Refresh)
  /\ WF_selectionVars(Highlighted)
  /\ \A k \in Key : SF_selectionVars(selected = k /\ DetailAnswered(k))

SelectionFairSpec == SelectionSpec /\ SelectionFairness

-----------------------------------------------------------------------------
(* Properties *)

\* What is drawn as fetched is of the selection, although a worker may still run
\* for a row that was left for one without a key.  "Fetching ..." is on the screen
\* only while a worker fetches just that: no order of moves, redraws and cancelled
\* workers leaves it there for ever.
DetailIsOfSelection ==
  /\ detail.what = "answer" => detail.of = selected
  /\ detail.what = "fetching" => worker = detail.of

\* The row on the cursor's line, in the cache.
At(k) == cursor < Len(list) /\ list[cursor + 1] = k

\* If the user stays on a line that keeps its key, its detail is drawn again
\* and again: late messages and the message for line 0 that every redraw posts
\* take the selection away, but not for good.  In the jobs panel this takes that
\* no job of DBMS_JOB has been selected: coming back from one to the job that
\* was selected before it leaves the message of the other on the screen.
SettlesOnCursor ==
  \A k \in Key :
    <>[](At(k) /\ ~foreign) => []<>(detail = DetailOf(k))
=============================================================================
