------------------------------ MODULE TablePanels -----------------------------
(***************************************************************************)
(* The panels of widgets/panels.py whose keys act on the line under the    *)
(* cursor of a table: sessions (kill, trace, detail), Top SQL and advisor  *)
(* (execution plan), and the locks panel, which kills the first blocker.   *)
(*                                                                         *)
(* Collectors replace the lists in the cache at any time, the pane redraws *)
(* the table of the panel it shows once a second, and the user moves the   *)
(* cursor, types a filter and presses keys in between.  A key takes the    *)
(* cursor as an index into the list of the cache.  A confirmed kill is a   *)
(* task of its own; sessions come and go, and their numbers are used again.*)
(*                                                                         *)
(* A row is a session (id is its sid) or a cursor in the shared pool (id   *)
(* is its sql_id, serial its child number) of one instance of the database.*)
(* Positions count from 0.  SQL texts and the layout of rows are left out. *)
(***************************************************************************)
EXTENDS Naturals, Sequences, FiniteSets, SequencesExt

CONSTANTS
  Row,      \* the rows there may be: [inst, id, serial]
  Hit,      \* the rows that match what may be typed as a filter
  Local,    \* the instance of the database that is connected
  TaskMax,  \* bound: commands on their way at a time
  None      \* no dialog; no instance in a command; no blocker

ASSUME RowAssumption == Hit \subseteq Row /\ IsFiniteSet(Row)

Panels == {"sessions", "topsql", "advisor"}

VARIABLES
  panel,     \* which of the panels
  shown,     \* the pane shows it, or another panel
  alive,     \* the rows in the database
  list,      \* cache: sessions.list, sql.top or advisor.sql_monitor
  blockers,  \* cache: locks.blockers, the first one
  blocking,  \* cache: the least blocking_session of sessions.list
  filter,    \* something is typed in the filter
  drawn,     \* the lines of the table
  cursor,    \* cursor_row
  exact,     \* history: drawn without a filter from the list in the cache
  picked,    \* history: the row a key acts on, and the one on the line
  dialog,    \* the command that waits for a confirmation
  tasks,     \* _do_kill(): the commands on their way
  confirmed  \* history: what the user has said yes to and is not done

tableVars == <<panel, shown, alive, list, blockers, blocking, filter, drawn, cursor,
          exact, picked, dialog, tasks, confirmed>>

Ids == {r.id : r \in Row}
Serials == {r.serial : r \in Row} \cup {1}
Instances == {r.inst : r \in Row}
Command == [id : Ids, serial : Serials, inst : Instances \cup {None}]

TablesTypeOK ==
  /\ panel \in Panels
  /\ shown \in BOOLEAN
  /\ alive \in SUBSET Row
  /\ list \in Seq(Row)
  /\ blockers \in Row \cup {None}
  /\ blocking \in Ids \cup {None}
  /\ filter \in BOOLEAN
  /\ drawn \in Seq(Row)
  /\ cursor \in Nat /\ (cursor = 0 \/ cursor < Len(drawn))
  /\ exact \in BOOLEAN
  /\ picked \in [row : Row, line : Row \cup {None}, exact : BOOLEAN] \cup {None}
  /\ dialog \in Command \cup {None}
  /\ tasks \in SUBSET Command
  /\ confirmed \in SUBSET Command

TablesInit ==
  /\ panel \in Panels
  /\ shown \in BOOLEAN
  /\ alive = {}
  /\ list = <<>>
  /\ blockers = None
  /\ blocking = None
  /\ filter = FALSE
  /\ drawn = <<>>
  /\ cursor = 0
  /\ exact = TRUE
  /\ picked = None
  /\ dialog = None
  /\ tasks = {}
  /\ confirmed = {}

ui == <<panel, shown, filter, drawn, cursor, dialog, tasks, confirmed>>

-----------------------------------------------------------------------------
(* The database and the collectors *)

\* A row appears: an instance has one session with an id at a time, and a
\* statement may be in its shared pool several times.
Appears ==
  /\ \E r \in Row \ alive :
       /\ panel = "sessions" => \A o \in alive : o.inst = r.inst => o.id # r.id
       /\ alive' = alive \cup {r}
  /\ UNCHANGED <<list, blockers, blocking, exact, ui>>

Disappears ==
  /\ \E r \in alive : alive' = alive \ {r}
  /\ UNCHANGED <<list, blockers, blocking, exact, ui>>

\* A pass reads the rows there are, in an order that may be another one.  Of
\* the sessions some may wait for others.
Collect ==
  /\ list' \in SetToSeqs(alive)
  /\ blocking' \in IF panel = "sessions" THEN {r.id : r \in alive} \cup {None}
                                         ELSE {None}
  /\ exact' = (exact /\ list' = list)
  /\ UNCHANGED <<alive, blockers, ui>>

\* Its next query, of the blockers, after an await.
CollectBlockers ==
  /\ panel = "sessions"
  /\ blockers' \in alive \cup {None}
  /\ UNCHANGED <<alive, list, blocking, exact, ui>>

-----------------------------------------------------------------------------
(* The table *)

\* add_row() with a key that is there already raises; tick() is left.
Keyed == panel \in {"topsql", "advisor"}

\* The lines that are added before that.
UpToDuplicate(rows) ==
  LET fine == {n \in 0..Len(rows) :
                 \A i, j \in 1..n : rows[i].id = rows[j].id => i = j}
  IN  SubSeq(rows, 1, CHOOSE n \in fine : \A m \in fine : m <= n)

Filtered(rows) ==
  IF filter
    THEN FlattenSeq([i \in DOMAIN rows |-> IF rows[i] \in Hit THEN <<rows[i]>> ELSE <<>>])
    ELSE rows

Lines == IF Keyed THEN UpToDuplicate(list) ELSE Filtered(list)

\* Mutant: it is restored to a line that may be gone.
NotCapped(lines) == cursor

\* clear() takes the cursor to the first line; move_cursor() takes it back,
\* unless add_row() raised, or it is the advisor's table.
CursorAfter(lines) ==
  IF panel = "advisor" \/ lines = <<>> \/ (Keyed /\ Len(lines) < Len(list))
    THEN 0
    ELSE IF cursor < Len(lines) THEN cursor ELSE Len(lines) - 1

\* refresh_data(), by the tick of the pane.
Refresh ==
  /\ shown
  /\ drawn' = Lines
  /\ cursor' = CursorAfter(Lines)
  /\ exact' = ~filter
  /\ UNCHANGED <<panel, shown, alive, list, blockers, blocking, filter,
                 dialog, tasks, confirmed>>

\* The user, who sees the panel and no dialog over it.
At == shown /\ dialog = None

MoveCursor ==
  /\ At
  /\ cursor' \in {c \in 0..Len(drawn) : c < Len(drawn)}
  /\ UNCHANGED <<panel, shown, alive, list, blockers, blocking, filter, drawn,
                 exact, dialog, tasks, confirmed>>

\* action_toggle_filter(), and typing: drawn with the next refresh.
TypeFilter ==
  /\ At
  /\ panel = "sessions"
  /\ filter' = ~filter
  /\ UNCHANGED <<panel, shown, alive, list, blockers, blocking, drawn, cursor,
                 exact, dialog, tasks, confirmed>>

\* ConnectionPane.show_panel(): a panel that is hidden is not redrawn.
ShowPanel ==
  /\ dialog = None
  /\ shown' = ~shown
  /\ UNCHANGED <<panel, alive, list, blockers, blocking, filter, drawn, cursor,
                 exact, dialog, tasks, confirmed>>

-----------------------------------------------------------------------------
(* Keys *)

\* Mutant: lines are counted from one.
TargetFromOne == list[IF cursor = 0 THEN 1 ELSE cursor]

\* The row a key acts on.
Target == list[cursor + 1]

\* A key takes the row at the cursor; beyond the list it does nothing.
Pick ==
  /\ dialog = None
  /\ cursor < Len(list)
  /\ picked' = [row |-> Target,
                line |-> IF cursor < Len(drawn) THEN drawn[cursor + 1] ELSE None,
                exact |-> exact]

\* action_session_detail(), action_show_explain(), action_show_sql_detail():
\* a screen about the row.
ShowDetail ==
  /\ shown
  /\ Pick
  /\ UNCHANGED <<panel, shown, alive, list, blockers, blocking, filter, drawn,
                 cursor, exact, dialog, tasks, confirmed>>

Ask(command) ==
  /\ dialog' = command
  /\ UNCHANGED <<panel, shown, alive, list, blockers, blocking, filter, drawn,
                 cursor, exact, tasks, confirmed>>

\* SessionsPanel.action_kill() and action_trace(), also reached through
\* forward_kill() while another panel is shown.
KillSession ==
  /\ panel = "sessions"
  /\ Pick
  /\ Ask([id |-> Target.id, serial |-> Target.serial, inst |-> None])

\* The serial# of the first session in the list with that sid.
SerialOf(id) ==
  LET at == {i \in 1..Len(list) : list[i].id = id}
  IN  IF at = {} THEN 1
      ELSE list[CHOOSE i \in at : \A j \in at : i <= j].serial

\* LocksPanel.action_kill(): the first blocker, or if the list of blockers is
\* empty the first that a session in sessions.list waits for.
KillBlocker ==
  /\ panel = "sessions"
  /\ ~shown /\ dialog = None
  /\ \/ /\ blockers # None
        /\ Ask([id |-> blockers.id, serial |-> blockers.serial,
                inst |-> blockers.inst])
     \/ /\ blockers = None /\ blocking # None
        /\ Ask([id |-> blocking, serial |-> SerialOf(blocking), inst |-> None])

\* Mutant: the command is made when the dialog is confirmed.
MadeLate ==
  IF cursor < Len(list)
    THEN [id |-> Target.id, serial |-> Target.serial, inst |-> None]
    ELSE dialog

\* What the task of a confirmed dialog executes: it was made with the dialog.
Closure == dialog

Confirm ==
  /\ dialog # None
  /\ Cardinality(tasks) < TaskMax
  /\ tasks' = tasks \cup {Closure}
  /\ confirmed' = confirmed \cup {dialog}
  /\ dialog' = None
  /\ UNCHANGED <<panel, shown, alive, list, blockers, blocking, filter, drawn,
                 cursor, exact>>

Cancel ==
  /\ dialog # None
  /\ dialog' = None
  /\ UNCHANGED <<panel, shown, alive, list, blockers, blocking, filter, drawn,
                 cursor, exact, tasks, confirmed>>

\* The session a command is about: a command that names no instance is for
\* the one that is connected.
Names(command, r) ==
  /\ r.id = command.id
  /\ r.serial = command.serial

\* execute_ddl() has ended: the database has ended the session, if there is
\* one, or only traces it, or has refused.
Execute ==
  \E command \in tasks :
    /\ tasks' = tasks \ {command}
    /\ confirmed' = confirmed \ {command}
    /\ LET inst == IF command.inst = None THEN Local ELSE command.inst
       IN  \/ alive' = {r \in alive : ~(Names(command, r) /\ r.inst = inst)}
           \/ UNCHANGED alive
    /\ UNCHANGED <<panel, shown, list, blockers, blocking, filter, drawn,
                   cursor, exact, dialog>>

TablesNext ==
  \/ ShowDetail
  \/ KillSession
  \/ /\ picked' = None
     /\ \/ Appears \/ Disappears \/ Collect \/ CollectBlockers
        \/ Refresh \/ MoveCursor \/ TypeFilter \/ ShowPanel
        \/ KillBlocker \/ Confirm \/ Cancel \/ Execute

TablesSpec == TablesInit /\ [][TablesNext]_tableVars

-----------------------------------------------------------------------------
(* Properties *)

\* A session dies by the program's hand only if its numbers, and its instance
\* if the command names one, stood in a dialog that the user has confirmed:
\* whatever happened to the list, the table and the cursor while the dialog
\* was open and while the command was on its way.
KilledWasConfirmed ==
  [][\A r \in alive \ alive' :
       tasks' # tasks =>
         \E c \in confirmed : /\ c.id = r.id /\ c.serial = r.serial
                             /\ c.inst \in {None, r.inst}]_tableVars

\* A key acts on the row on the cursor's line if the table was drawn without a
\* filter and the list is the one it was drawn from: also if the drawing was
\* given up at a duplicate, or the cursor did not come back to its line.
TargetIsOnLine ==
  picked # None /\ picked.exact => picked.row = picked.line

\* "all fields from GV$SESSION for a selected session": detail, kill and trace
\* are about the session on the cursor's line.  Broken by a filter, and by a list
\* that was replaced since the table was drawn.
SelectedIsTarget ==
  panel = "sessions" /\ picked # None /\ picked.line # None =>
    picked.row = picked.line

\* "Top SQL [n statements]": the table lists the statements that its title
\* counts.  Broken by a statement that is in the shared pool twice.
ShowsAllStatements ==
  [][panel = "topsql" /\ drawn' # drawn => Len(drawn') = Len(list)]_tableVars
=============================================================================
