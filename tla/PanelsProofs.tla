------------------------------ MODULE PanelsProofs -----------------------------
(***************************************************************************)
(* The theorems of TablePanels, for any rows of any database, and of       *)
(* PlanHistory, for any statements and plans.                              *)
(***************************************************************************)
EXTENDS MCPanels, SequenceLemmas

-----------------------------------------------------------------------------
(* The lines of a table *)

LEMMA FilteredLines ==
  ASSUME NEW rows \in Seq(Row)
  PROVE  Filtered(rows) \in Seq(Row) /\ (~filter => Filtered(rows) = rows)
<1>. DEFINE matching == [i \in DOMAIN rows |-> IF rows[i] \in Hit THEN <<rows[i]>> ELSE <<>>]
<1>1. matching \in Seq(Seq(Row))
  <2>1. \A i \in 1..Len(rows) : <<rows[i]>> \in Seq(Row) /\ <<>> \in Seq(Row)
    OBVIOUS
  <2>2. DOMAIN rows = 1..Len(rows) /\ Len(rows) \in Nat
    OBVIOUS
  <2>3. matching \in [1..Len(rows) -> Seq(Row)]
    BY <2>1, <2>2
  <2>. HIDE DEF matching
  <2>. QED  BY <2>2, <2>3
<1>2. Filtered(rows) = IF filter THEN FlattenSeq(matching) ELSE rows
  BY DEF Filtered
<1>. HIDE DEF matching
<1>. QED  BY <1>1, <1>2, FlattenTypes

\* The lines up to a duplicate are a beginning of the rows, and not an empty one
\* unless there are no rows.
LEMMA LinesUpToDuplicate ==
  ASSUME NEW rows \in Seq(Row)
  PROVE  \E n \in 0..Len(rows) :
           /\ UpToDuplicate(rows) = SubSeq(rows, 1, n)
           /\ n = 0 => Len(rows) = 0
<1>. DEFINE fine == {n \in 0..Len(rows) :
                       \A i, j \in 1..n : rows[i].id = rows[j].id => i = j}
            n == CHOOSE n \in fine : \A m \in fine : m <= n
<1>1. 0 \in fine /\ (Len(rows) # 0 => 1 \in fine)
  OBVIOUS
<1>2. fine \subseteq 0..Len(rows) /\ Len(rows) \in Nat
  OBVIOUS
<1>3. n \in fine /\ \A m \in fine : m <= n
  <2>. HIDE DEF fine
  <2>1. \E x \in fine : \A m \in fine : m <= x
    BY <1>1, <1>2, GreatestOf
  <2>. QED  BY <2>1
<1>4. UpToDuplicate(rows) = SubSeq(rows, 1, n)
  BY DEF UpToDuplicate
<1>5. n = 0 => Len(rows) = 0
  <2>. HIDE DEF fine, n
  <2>. QED  BY <1>1, <1>2, <1>3
<1>. QED
  <2>. HIDE DEF fine, n
  <2>. QED  BY <1>2, <1>3, <1>4, <1>5

-----------------------------------------------------------------------------
(* Types, and the row on the cursor's line *)

\* The table was drawn from the beginning of the list in the cache: the whole of
\* it, or up to a duplicate.
Begins(short, long) ==
  /\ Len(short) <= Len(long)
  /\ \A i \in 1..Len(short) : short[i] = long[i]
  /\ Len(short) = 0 => Len(long) = 0

LineInv ==
  /\ TablesTypeOK
  /\ exact => Begins(drawn, list)
  /\ TargetIsOnLine

LEMMA TypesOfLines ==
  ASSUME list \in Seq(Row)
  PROVE  /\ Lines \in Seq(Row)
         /\ ~filter \/ Keyed => Begins(Lines, list)
<1>1. CASE Keyed
  <2>1. PICK n \in 0..Len(list) :
          UpToDuplicate(list) = SubSeq(list, 1, n) /\ (n = 0 => Len(list) = 0)
    BY LinesUpToDuplicate
  <2>2. /\ SubSeq(list, 1, n) \in Seq(Row)
        /\ Len(SubSeq(list, 1, n)) = n
        /\ \A i \in 1..n : SubSeq(list, 1, n)[i] = list[i]
    OBVIOUS
  <2>. QED  BY <1>1, <2>1, <2>2 DEF Lines, Begins
<1>2. CASE ~Keyed
  BY <1>2, FilteredLines DEF Lines, Begins
<1>. QED  BY <1>1, <1>2

LEMMA CursorOnLines ==
  ASSUME NEW lines \in Seq(Row), cursor \in Nat
  PROVE  /\ CursorAfter(lines) \in Nat
         /\ CursorAfter(lines) = 0 \/ CursorAfter(lines) < Len(lines)
<1>1. lines # <<>> => Len(lines) \in Nat \ {0}
  OBVIOUS
<1>. QED  BY <1>1 DEF CursorAfter

LEMMA Orders ==
  ASSUME NEW S \in SUBSET Row, NEW q \in SetToSeqs(S)
  PROVE  q \in Seq(Row)
<1>1. IsFiniteSet(S)
  BY RowAssumption, FS_Subset
<1>2. Cardinality(S) \in Nat
  BY <1>1, FS_CardinalityType
<1>3. q \in [1..Cardinality(S) -> S]
  BY DEF SetToSeqs
<1>. QED  BY <1>2, <1>3

LEMMA InitLine == TablesInit => LineInv
<1>. SUFFICES ASSUME TablesInit
              PROVE  LineInv
  OBVIOUS
<1>1. shown \in BOOLEAN /\ filter \in BOOLEAN /\ exact \in BOOLEAN
  BY Zenon DEF TablesInit
<1>2. TablesTypeOK
  BY <1>1 DEF TablesInit, TablesTypeOK
<1>. QED  BY <1>2 DEF TablesInit, LineInv, Begins, TargetIsOnLine

\* What is picked is on the line.
LEMMA PickLine ==
  ASSUME LineInv, Pick
  PROVE  /\ picked' \in [row : Row, line : Row \cup {None}, exact : BOOLEAN]
         /\ picked'.exact => picked'.row = picked'.line
         /\ Target \in Row
<1>1. /\ list \in Seq(Row) /\ drawn \in Seq(Row) /\ cursor \in Nat
      /\ cursor = 0 \/ cursor < Len(drawn)
      /\ exact \in BOOLEAN
  BY DEF LineInv, TablesTypeOK
<1>2. cursor < Len(list) /\ cursor + 1 \in 1..Len(list)
  BY <1>1 DEF Pick
<1>3. Target \in Row
  BY <1>1, <1>2 DEF Target
<1>4. ASSUME cursor < Len(drawn)
      PROVE  drawn[cursor + 1] \in Row
  BY <1>1, <1>4
<1>. DEFINE line == IF cursor < Len(drawn) THEN drawn[cursor + 1] ELSE None
<1>5. line \in Row \cup {None}
  BY <1>4
<1>6. ASSUME exact
      PROVE  Target = line
  <2>1. Begins(drawn, list)
    BY <1>6 DEF LineInv
  <2>2. cursor < Len(drawn)
    BY <1>1, <1>2, <2>1 DEF Begins
  <2>3. drawn[cursor + 1] = list[cursor + 1]
    BY <1>1, <2>1, <2>2 DEF Begins
  <2>. QED  BY <2>2, <2>3 DEF Target
<1>7. picked' = [row |-> Target, line |-> line, exact |-> exact]
  BY DEF Pick
<1>. HIDE DEF line
<1>. QED  BY <1>1, <1>3, <1>5, <1>6, <1>7

LEMMA Commands ==
  ASSUME NEW r \in Row, NEW i \in Instances \cup {None}
  PROVE  /\ [id |-> r.id, serial |-> r.serial, inst |-> i] \in Command
         /\ r.inst \in Instances
  BY DEF Command, Ids, Serials, Instances

LEMMA SerialsOf ==
  ASSUME list \in Seq(Row), NEW id
  PROVE  SerialOf(id) \in Serials
<1>. DEFINE at == {i \in 1..Len(list) : list[i].id = id}
            first == CHOOSE i \in at : \A j \in at : i <= j
<1>1. CASE at = {}
  BY <1>1 DEF SerialOf, Serials
<1>2. CASE at # {}
  <2>1. at \subseteq Nat /\ at \subseteq 1..Len(list)
    OBVIOUS
  <2>2. first \in at
    <3>. HIDE DEF at
    <3>1. \E x \in at : \A y \in at : x <= y
      BY <1>2, <2>1, LeastOf
    <3>. QED  BY <3>1
  <2>3. SerialOf(id) = list[first].serial
    BY <1>2 DEF SerialOf
  <2>4. list[first] \in Row
    <3>. HIDE DEF at, first
    <3>. QED  BY <2>1, <2>2
  <2>. HIDE DEF at, first
  <2>. QED  BY <2>3, <2>4 DEF Serials
<1>. QED  BY <1>1, <1>2

\* The steps of the database and of the collectors.
LEMMA BackgroundLine ==
  ASSUME LineInv, picked' = None, Appears \/ Disappears \/ Collect \/ CollectBlockers
  PROVE  LineInv'
<1>1. UNCHANGED <<panel, shown, filter, drawn, cursor, dialog, tasks, confirmed>>
  BY DEF Appears, Disappears, Collect, CollectBlockers, ui
<1>2. alive' \in SUBSET Row /\ blockers' \in Row \cup {None}
  BY DEF Appears, Disappears, Collect, CollectBlockers, LineInv, TablesTypeOK
<1>3. list' \in Seq(Row)
  <2>1. CASE Collect
    BY <2>1, Orders DEF Collect, LineInv, TablesTypeOK
  <2>2. CASE ~Collect
    BY <2>2 DEF Appears, Disappears, CollectBlockers, LineInv, TablesTypeOK
  <2>. QED  BY <2>1, <2>2
<1>4. blocking' \in Ids \cup {None}
  <2>1. CASE Collect
    <3>1. {r.id : r \in alive} \subseteq Ids
      BY DEF LineInv, TablesTypeOK, Ids
    <3>. QED  BY <2>1, <3>1 DEF Collect
  <2>2. CASE ~Collect
    BY <2>2 DEF Appears, Disappears, CollectBlockers, LineInv, TablesTypeOK
  <2>. QED  BY <2>1, <2>2
<1>5. exact' \in BOOLEAN /\ (exact' => exact /\ list' = list)
  <2>1. CASE Collect
    BY <2>1, Zenon DEF Collect
  <2>2. CASE ~Collect
    BY <2>2 DEF Appears, Disappears, CollectBlockers, LineInv, TablesTypeOK
  <2>. QED  BY <2>1, <2>2
<1>6. TablesTypeOK'
  BY <1>1, <1>2, <1>3, <1>4, <1>5 DEF LineInv, TablesTypeOK
<1>7. exact' => Begins(drawn, list)'
  BY <1>1, <1>5 DEF LineInv, Begins
<1>. QED  BY <1>6, <1>7 DEF LineInv, TargetIsOnLine

LEMMA RefreshLine ==
  ASSUME LineInv, picked' = None, Refresh
  PROVE  LineInv'
<1>1. /\ drawn' = Lines /\ cursor' = CursorAfter(Lines)
      /\ UNCHANGED <<panel, shown, alive, list, blockers, blocking, filter,
                     dialog, tasks, confirmed>>
  BY DEF Refresh
<1>2. exact' \in BOOLEAN /\ (exact' => ~filter)
  BY Zenon DEF Refresh
<1>3. list \in Seq(Row) /\ cursor \in Nat
  BY DEF LineInv, TablesTypeOK
<1>4. Lines \in Seq(Row) /\ (~filter => Begins(Lines, list))
  BY <1>3, TypesOfLines
<1>5. cursor' \in Nat /\ (cursor' = 0 \/ cursor' < Len(drawn'))
  BY <1>1, <1>3, <1>4, CursorOnLines
<1>6. TablesTypeOK'
  BY <1>1, <1>2, <1>4, <1>5 DEF LineInv, TablesTypeOK
<1>7. exact' => Begins(drawn, list)'
  BY <1>1, <1>2, <1>4 DEF Begins
<1>. QED  BY <1>6, <1>7 DEF LineInv, TargetIsOnLine

\* The steps of the user that are no keys, and the end of a command.
LEMMA UserLine ==
  ASSUME LineInv, picked' = None,
         MoveCursor \/ TypeFilter \/ ShowPanel \/ Confirm \/ Cancel \/ Execute
  PROVE  LineInv'
<1>1. UNCHANGED <<panel, list, blockers, blocking, drawn, exact>>
  BY DEF MoveCursor, TypeFilter, ShowPanel, Confirm, Cancel, Execute
<1>2. shown' \in BOOLEAN /\ filter' \in BOOLEAN
  <2>1. CASE TypeFilter
    <3>1. filter' \in BOOLEAN
      BY <2>1, Zenon DEF TypeFilter
    <3>. QED  BY <2>1, <3>1 DEF TypeFilter, LineInv, TablesTypeOK
  <2>2. CASE ShowPanel
    <3>1. shown' \in BOOLEAN
      BY <2>2, Zenon DEF ShowPanel
    <3>. QED  BY <2>2, <3>1 DEF ShowPanel, LineInv, TablesTypeOK
  <2>3. CASE MoveCursor \/ Confirm \/ Cancel \/ Execute
    BY <2>3 DEF MoveCursor, Confirm, Cancel, Execute, LineInv, TablesTypeOK
  <2>. QED  BY <2>1, <2>2, <2>3
<1>3. cursor' \in Nat /\ (cursor' = 0 \/ cursor' < Len(drawn))
  BY DEF MoveCursor, TypeFilter, ShowPanel, Confirm, Cancel, Execute, LineInv, TablesTypeOK
<1>4. alive' \in SUBSET Row
  BY DEF MoveCursor, TypeFilter, ShowPanel, Confirm, Cancel, Execute, LineInv, TablesTypeOK
<1>5. /\ dialog' \in Command \cup {None}
      /\ tasks' \in SUBSET Command /\ confirmed' \in SUBSET Command
  BY DEF MoveCursor, TypeFilter, ShowPanel, Confirm, Closure, Cancel, Execute,
         LineInv, TablesTypeOK
<1>6. TablesTypeOK'
  BY <1>1, <1>2, <1>3, <1>4, <1>5 DEF LineInv, TablesTypeOK
<1>7. exact' => Begins(drawn, list)'
  BY <1>1 DEF LineInv, Begins
<1>. QED  BY <1>6, <1>7 DEF LineInv, TargetIsOnLine

\* The keys.
LEMMA KeysLine ==
  ASSUME LineInv, ShowDetail \/ KillSession \/ (picked' = None /\ KillBlocker)
  PROVE  LineInv'
<1>1. UNCHANGED <<panel, shown, alive, list, blockers, blocking, filter, drawn, cursor,
                  exact, tasks, confirmed>>
  BY DEF ShowDetail, KillSession, KillBlocker, Ask
<1>2. /\ picked' \in [row : Row, line : Row \cup {None}, exact : BOOLEAN] \cup {None}
      /\ TargetIsOnLine'
  BY PickLine DEF ShowDetail, KillSession, TargetIsOnLine
<1>3. dialog' \in Command \cup {None}
  <2>1. CASE ShowDetail
    BY <2>1 DEF ShowDetail, LineInv, TablesTypeOK
  <2>2. CASE KillSession
    <3>1. Target \in Row
      BY <2>2, PickLine DEF KillSession
    <3>. QED  BY <2>2, <3>1, Commands DEF KillSession, Ask
  <2>3. CASE KillBlocker
    <3>1. /\ blockers \in Row \cup {None} /\ blocking \in Ids \cup {None}
          /\ list \in Seq(Row)
      BY DEF LineInv, TablesTypeOK
    <3>2. CASE blockers # None
      <4>1. blockers \in Row
        BY <3>1, <3>2
      <4>2. [id |-> blockers.id, serial |-> blockers.serial, inst |-> blockers.inst]
              \in Command
        BY <4>1, Commands
      <4>. QED  BY <2>3, <3>2, <4>2 DEF KillBlocker, Ask
    <3>3. CASE blockers = None
      <4>1. blocking \in Ids /\ SerialOf(blocking) \in Serials
        BY <2>3, <3>1, <3>3, SerialsOf DEF KillBlocker
      <4>2. [id |-> blocking, serial |-> SerialOf(blocking), inst |-> None] \in Command
        BY <4>1 DEF Command
      <4>. QED  BY <2>3, <3>3, <4>2 DEF KillBlocker, Ask
    <3>. QED  BY <3>2, <3>3
  <2>. QED  BY <2>1, <2>2, <2>3
<1>4. TablesTypeOK'
  BY <1>1, <1>2, <1>3 DEF LineInv, TablesTypeOK
<1>5. exact' => Begins(drawn, list)'
  BY <1>1 DEF LineInv, Begins
<1>. QED  BY <1>2, <1>4, <1>5 DEF LineInv

LEMMA NextKeepsLine == LineInv /\ [TablesNext]_tableVars => LineInv'
<1>1. LineInv /\ UNCHANGED tableVars => LineInv'
  BY DEF LineInv, TablesTypeOK, Begins, TargetIsOnLine, tableVars
<1>. QED  BY <1>1, BackgroundLine, RefreshLine, UserLine, KeysLine DEF TablesNext

\* A key acts on the row on the cursor's line if the table was drawn without a
\* filter and the list is still the one it was drawn from.
THEOREM TargetsAreOnLine == TablesSpec => []TargetIsOnLine
<1>1. LineInv => TargetIsOnLine
  BY DEF LineInv
<1>. QED  BY <1>1, InitLine, NextKeepsLine, PTL DEF TablesSpec

-----------------------------------------------------------------------------
(* What is killed was confirmed *)

\* A command that is on its way is one that the user has said yes to: it is made
\* when the dialog opens, and nothing that happens meanwhile changes it.
TasksConfirmed == tasks \subseteq confirmed

-----------------------------------------------------------------------------
LEMMA InitConfirmed == TablesInit => TasksConfirmed
  BY DEF TablesInit, TasksConfirmed

\* Steps that have nothing to do with commands.
LEMMA OthersKeep ==
  ASSUME TasksConfirmed,
         \/ Appears \/ Disappears \/ Collect \/ CollectBlockers
         \/ Refresh \/ MoveCursor \/ TypeFilter \/ ShowPanel
         \/ ShowDetail \/ KillSession \/ KillBlocker \/ Cancel
  PROVE  TasksConfirmed' /\ tasks' = tasks
<1>1. UNCHANGED <<tasks, confirmed>>
  BY DEF Appears, Disappears, Collect, CollectBlockers, Refresh, MoveCursor,
         TypeFilter, ShowPanel, ShowDetail, KillSession, KillBlocker, Cancel, Ask, ui
<1>. QED  BY <1>1 DEF TasksConfirmed

LEMMA ConfirmKeeps ==
  ASSUME TasksConfirmed, Confirm
  PROVE  TasksConfirmed' /\ alive' = alive
  BY DEF TasksConfirmed, Confirm, Closure

\* The end of a command, of which alive is a part.
LEMMA ExecuteKills ==
  ASSUME TasksConfirmed, Execute
  PROVE  /\ TasksConfirmed'
         /\ \A r \in alive \ alive' :
              \E c \in confirmed : /\ c.id = r.id /\ c.serial = r.serial
                                  /\ c.inst \in {None, r.inst}
<1>. DEFINE InstOf(c) == IF c.inst = None THEN Local ELSE c.inst
<1>1. PICK c \in tasks :
        /\ tasks' = tasks \ {c} /\ confirmed' = confirmed \ {c}
        /\ \/ alive' = {r \in alive : ~(Names(c, r) /\ r.inst = InstOf(c))}
           \/ UNCHANGED alive
  BY DEF Execute
<1>2. c \in confirmed
  BY <1>1 DEF TasksConfirmed
<1>3. TasksConfirmed'
  BY <1>1 DEF TasksConfirmed
<1>4. ASSUME NEW r \in alive \ alive'
      PROVE  c.id = r.id /\ c.serial = r.serial /\ c.inst \in {None, r.inst}
  <2>1. Names(c, r) /\ r.inst = InstOf(c)
    BY <1>1, <1>4
  <2>2. c.inst \in {None, r.inst}
    BY <2>1
  <2>. QED  BY <2>1, <2>2 DEF Names
<1>. QED  BY <1>2, <1>3, <1>4

LEMMA NextKeepsConfirmed == TasksConfirmed /\ [TablesNext]_tableVars => TasksConfirmed'
<1>1. TasksConfirmed /\ UNCHANGED tableVars => TasksConfirmed'
  BY DEF tableVars, TasksConfirmed
<1>. QED  BY <1>1, OthersKeep, ConfirmKeeps, ExecuteKills DEF TablesNext

-----------------------------------------------------------------------------
\* A session dies by the program's hand only if its numbers, and its instance if
\* the command names one, stood in a dialog that the user has confirmed.
THEOREM OnlyConfirmedAreKilled == TablesSpec => KilledWasConfirmed
<1>. DEFINE Right ==
       \A r \in alive \ alive' :
         tasks' # tasks =>
           \E c \in confirmed : /\ c.id = r.id /\ c.serial = r.serial
                               /\ c.inst \in {None, r.inst}
<1>1. TasksConfirmed /\ [TablesNext]_tableVars => Right
  <2>. SUFFICES ASSUME TasksConfirmed, [TablesNext]_tableVars PROVE Right
    OBVIOUS
  <2>1. CASE Execute
    BY <2>1, ExecuteKills
  <2>2. CASE Confirm
    <3>1. alive' = alive
      BY <2>2, ConfirmKeeps
    <3>. QED  BY <3>1
  <2>3. CASE tasks' = tasks
    BY <2>3
  <2>4. UNCHANGED tableVars => tasks' = tasks
    BY DEF tableVars
  <2>. QED  BY <2>1, <2>2, <2>3, <2>4, OthersKeep DEF TablesNext
<1>. QED  BY <1>1, InitConfirmed, NextKeepsConfirmed, PTL DEF TablesSpec, KilledWasConfirmed

-----------------------------------------------------------------------------
(* The plan history *)

\* Plans are fetched of the selected statement, and the table is of it, or will
\* be.
TableInv ==
  /\ plans_w # Nil => plans_w = sel_sql
  /\ TableIsOfSelection
  /\ plan_rows.sql = Nil => plan_rows.phvs = <<>>
  /\ sel_sql = Nil => plan_rows.sql = Nil /\ sel_phv = Nil

\* A worker fetches the tree, and with it the timeline, of the selected plan.
DetailComes == detail_w # Nil /\ detail_w.phv = sel_phv

\* What is drawn is of the selected plan, or a worker will replace it.
DrawnInv ==
  /\ tree \in [fetching : Phv] => DetailComes
  /\ tree \in Pair => tree.phv = sel_phv \/ DetailComes
  /\ timeline \in Pair => \/ timeline.phv = sel_phv
                          \/ DetailComes
                          \/ tl_w # Nil /\ tl_w.phv = sel_phv

\* A statement has the plan with which it is fetched or drawn, unless ever a plan
\* was selected in the table of another statement.
Known(k) == k \in Pair => k.phv \in Elements(Plans[k.sql])

KnownInv ==
  /\ plan_rows.sql \in Sql => Elements(plan_rows.phvs) \subseteq Elements(Plans[plan_rows.sql])
  /\ ~crossed => Known(tree) /\ Known(timeline) /\ Known(detail_w) /\ Known(tl_w)
  /\ ~crossed /\ ~typed /\ sel_phv # Nil => sel_phv \in Elements(Plans[sel_sql])

PlansInv == PlansTypeOK /\ TableInv /\ DrawnInv /\ KnownInv

-----------------------------------------------------------------------------
LEMMA Kinds ==
  /\ Nil \notin Sql /\ Nil \notin Phv /\ Nil \notin Pair /\ Nil \notin [fetching : Phv]
  /\ Nil \notin [sql : Sql, left : SUBSET Phv]
  /\ \A k \in Pair : k \notin [fetching : Phv]
<1>1. \A k \in Pair : k \notin [fetching : Phv]
  <2>. SUFFICES ASSUME NEW k \in Pair, k \in [fetching : Phv] PROVE FALSE
    OBVIOUS
  <2>1. DOMAIN k = {"sql", "phv"} /\ DOMAIN k = {"fetching"}
    BY DEF Pair
  <2>. QED  BY <2>1
<1>. QED  BY <1>1, NoneAssumption DEF Pair

LEMMA Pairs ==
  ASSUME NEW s \in Sql, NEW p \in Phv
  PROVE  P(s, p) \in Pair /\ P(s, p).sql = s /\ P(s, p).phv = p
  BY DEF P, Pair

LEMMA ElementsOf ==
  ASSUME NEW q \in Seq(Phv)
  PROVE  /\ Elements(q) \subseteq Phv
         /\ q # <<>> => q[1] \in Elements(q)
         /\ Elements(<<>>) = {}
  BY DEF Elements

\* The first plan is one of those of the statement.
LEMMA FirstPlanOf ==
  ASSUME NEW q \in Seq(Phv), q # <<>>
  PROVE  FirstPlan(q) \in Elements(q) /\ FirstPlan(q) \in Phv
  BY ElementsOf DEF FirstPlan

LEMMA InitEstablishesInv == PlansInit => PlansInv
<1>. SUFFICES ASSUME PlansInit PROVE PlansInv
  OBVIOUS
<1>. USE Kinds DEF PlansInit
<1>1. PlansTypeOK
  <2>1. plan_rows \in [sql : Sql \cup {Nil}, phvs : Seq(Phv), ash : SUBSET Sql]
    OBVIOUS
  <2>2. typed \in BOOLEAN /\ crossed \in BOOLEAN
    OBVIOUS
  <2>. QED  BY <2>1, <2>2 DEF PlansTypeOK
<1>2. TableInv
  BY DEF TableInv, TableIsOfSelection
<1>3. DrawnInv
  BY DEF DrawnInv
<1>4. KnownInv
  BY DEF KnownInv, Known
<1>. QED  BY <1>1, <1>2, <1>3, <1>4 DEF PlansInv

-----------------------------------------------------------------------------
LEMMA SelectSqlKeeps ==
  ASSUME PlansInv, NEW s \in Sql, SelectSql(s)
  PROVE  PlansInv'
<1>. USE Kinds DEF PlansInv
<1>1. /\ sel_sql' = s /\ sel_cur' = Current[s] /\ sel_phv' = Nil /\ typed' = FALSE
      /\ tree' = Nil /\ timeline' = Nil /\ plans_w' = s
      /\ UNCHANGED <<crossed, plan_cache, plan_rows, detail_w, prefetch_w, ash_w, tl_w>>
  BY DEF SelectSql, SelectedSql
<1>2. PlansTypeOK'
  BY <1>1, PlansAssumption DEF PlansTypeOK
<1>3. TableInv'
  BY <1>1 DEF TableInv, TableIsOfSelection
<1>4. DrawnInv' /\ KnownInv'
  BY <1>1 DEF DrawnInv, KnownInv, Known
<1>. QED  BY <1>2, <1>3, <1>4

LEMMA InputSqlKeeps ==
  ASSUME PlansInv, NEW s \in Sql, InputSql(s)
  PROVE  PlansInv'
<1>. USE Kinds DEF PlansInv
<1>1. /\ sel_sql' = s /\ sel_cur' = Nil /\ typed' = TRUE /\ plans_w' = s
      /\ UNCHANGED <<sel_phv, crossed, plan_cache, plan_rows, tree, timeline, detail_w,
                     prefetch_w, ash_w, tl_w>>
  BY DEF InputSql, screen
<1>2. PlansTypeOK'
  BY <1>1 DEF PlansTypeOK
<1>3. TableInv'
  BY <1>1 DEF TableInv, TableIsOfSelection
<1>4. DrawnInv' /\ KnownInv'
  BY <1>1 DEF DrawnInv, DetailComes, KnownInv, Known
<1>. QED  BY <1>2, <1>3, <1>4

LEMMA ShowPlanKeeps ==
  ASSUME PlansInv, NEW p \in Elements(plan_rows.phvs), ShowPlan(p)
  PROVE  PlansInv'
<1>. USE Kinds DEF PlansInv
<1>1. /\ sel_phv' = p /\ crossed' = (crossed \/ plan_rows.sql # sel_sql)
      /\ \/ /\ tree' = P(sel_sql, p) /\ tl_w' = P(sel_sql, p)
            /\ UNCHANGED detail_w
         \/ /\ tree' = [fetching |-> p] /\ detail_w' = P(sel_sql, p)
            /\ UNCHANGED tl_w
      /\ UNCHANGED <<sel_sql, sel_cur, typed, plan_cache, plan_rows, timeline, plans_w,
                     prefetch_w, ash_w>>
  BY DEF ShowPlan
<1>2. plan_rows.phvs \in Seq(Phv) /\ plan_rows.sql \in Sql \cup {Nil}
  BY DEF PlansTypeOK
<1>3. p \in Phv /\ plan_rows.phvs # <<>>
  BY <1>2, ElementsOf
<1>4. plan_rows.sql \in Sql /\ sel_sql \in Sql
  BY <1>2, <1>3 DEF TableInv, PlansTypeOK
<1>5. /\ P(sel_sql, p) \in Pair /\ P(sel_sql, p).phv = p /\ P(sel_sql, p).sql = sel_sql
      /\ [fetching |-> p] \in [fetching : Phv] /\ [fetching |-> p] \notin Pair
  BY <1>3, <1>4, Pairs
<1>6. ~crossed' => p \in Elements(Plans[sel_sql])
  BY <1>1, <1>4 DEF KnownInv
<1>7. crossed' \in BOOLEAN
  BY <1>1
<1>8. PlansTypeOK'
  BY <1>1, <1>3, <1>5, <1>7 DEF PlansTypeOK
<1>9. TableInv'
  BY <1>1, <1>4 DEF TableInv, TableIsOfSelection
<1>10. DrawnInv'
  BY <1>1, <1>3, <1>5 DEF DrawnInv, DetailComes
<1>11. KnownInv'
  BY <1>1, <1>5, <1>6 DEF KnownInv, Known
<1>. QED  BY <1>8, <1>9, <1>10, <1>11

\* The plans that were loaded are of the selected statement; if another plan is
\* selected for that, a worker is started for it.
LEMMA PlansLoadedKeeps ==
  ASSUME PlansInv, NEW s \in Sql, PlansLoaded(s)
  PROVE  PlansInv'
<1>. USE Kinds DEF PlansInv
<1>1. PICK q \in {Plans[s], <<>>} :
        /\ plan_rows' = [sql |-> s, phvs |-> q, ash |-> {}]
        /\ StartTrees(s, q)
  BY DEF PlansLoaded
<1>2. /\ plans_w = s /\ plans_w' = Nil
      /\ UNCHANGED <<sel_sql, sel_cur, typed, crossed, plan_cache, tree, timeline, ash_w, tl_w>>
  BY DEF PlansLoaded
<1>3. sel_sql = s /\ q \in Seq(Phv) /\ Elements(q) \subseteq Elements(Plans[s])
  <2>1. sel_sql = s
    BY <1>2 DEF TableInv
  <2>2. q \in Seq(Phv)
    <3>1. Plans[s] \in Seq(Phv)
      BY PlansAssumption
    <3>2. <<>> \in Seq(Phv)
      OBVIOUS
    <3>. QED  BY <3>1, <3>2
  <2>3. Elements(<<>>) = {}
    BY DEF Elements
  <2>. QED  BY <1>1, <2>1, <2>2, <2>3
<1>4. TableInv'
  BY <1>1, <1>2, <1>3 DEF TableInv, TableIsOfSelection
<1>5. plan_rows' \in [sql : Sql \cup {Nil}, phvs : Seq(Phv), ash : SUBSET Sql]
  BY <1>1, <1>3
<1>6. CASE q = <<>>
  <2>1. UNCHANGED <<sel_phv, detail_w, prefetch_w>>
    BY <1>1, <1>6 DEF StartTrees
  <2>2. PlansTypeOK'
    BY <1>2, <1>5, <2>1 DEF PlansTypeOK
  <2>3. DrawnInv'
    BY <1>2, <2>1 DEF DrawnInv, DetailComes
  <2>4. KnownInv'
    BY <1>1, <1>2, <1>3, <2>1 DEF KnownInv, Known
  <2>. QED  BY <1>4, <2>2, <2>3, <2>4
<1>7. CASE q # <<>>
  <2>. DEFINE p == FirstPlan(q)
  <2>1. p \in Elements(q) /\ p \in Phv
    BY <1>3, <1>7, FirstPlanOf
  <2>2. /\ sel_phv' = p
        /\ IF p = sel_phv THEN UNCHANGED detail_w ELSE detail_w' = P(s, p)
        /\ prefetch_w' = [sql |-> s, left |-> Elements(q)]
    BY <1>1, <1>7 DEF StartTrees
  <2>3. P(s, p) \in Pair /\ P(s, p).sql = s /\ P(s, p).phv = p
    BY <2>1, Pairs
  <2>4. prefetch_w' \in [sql : Sql, left : SUBSET Phv]
    BY <1>3, <2>2, ElementsOf
  <2>. HIDE DEF p
  <2>5. PlansTypeOK'
    BY <1>2, <1>5, <2>1, <2>2, <2>3, <2>4 DEF PlansTypeOK
  <2>6. DrawnInv'
    BY <1>2, <2>2, <2>3 DEF DrawnInv, DetailComes
  <2>7. KnownInv'
    BY <1>1, <1>2, <1>3, <2>1, <2>2, <2>3 DEF KnownInv, Known
  <2>. QED  BY <1>4, <2>5, <2>6, <2>7
<1>. QED  BY <1>6, <1>7

LEMMA DetailLoadedKeeps ==
  ASSUME PlansInv, DetailLoaded
  PROVE  PlansInv'
<1>. USE Kinds DEF PlansInv
<1>1. /\ detail_w # Nil /\ detail_w' = Nil
      /\ IF detail_w.phv = sel_phv THEN tree' = detail_w /\ tl_w' = detail_w
                                   ELSE UNCHANGED <<tree, tl_w>>
      /\ UNCHANGED <<sel_sql, sel_cur, sel_phv, typed, crossed, plan_rows, timeline,
                     plans_w, prefetch_w, ash_w>>
  BY DEF DetailLoaded, IsSelected, selection
<1>2. detail_w \in Pair
  BY <1>1 DEF PlansTypeOK
<1>3. plan_cache' \in SUBSET Pair
  BY <1>2 DEF DetailLoaded, PlansTypeOK
<1>4. PlansTypeOK'
  BY <1>1, <1>2, <1>3 DEF PlansTypeOK
<1>5. TableInv'
  BY <1>1 DEF TableInv, TableIsOfSelection
<1>6. DrawnInv'
  BY <1>1, <1>2 DEF DrawnInv, DetailComes
<1>7. KnownInv'
  BY <1>1 DEF KnownInv, Known
<1>. QED  BY <1>4, <1>5, <1>6, <1>7

\* What is fetched ahead goes to the cache only.
LEMMA PrefetchKeeps ==
  ASSUME PlansInv, Prefetched \/ PrefetchEnds
  PROVE  PlansInv'
<1>. USE Kinds DEF PlansInv
<1>1. UNCHANGED <<sel_sql, sel_cur, sel_phv, typed, crossed, plan_rows, tree, timeline,
                  plans_w, detail_w, tl_w>>
  BY DEF Prefetched, PrefetchEnds, selection, screen
<1>2. prefetch_w \in [sql : Sql, left : SUBSET Phv]
  BY DEF Prefetched, PrefetchEnds, PlansTypeOK
<1>3. plan_cache' \in SUBSET Pair /\ ash_w' \in Sql \cup {Nil}
      /\ prefetch_w' \in [sql : Sql, left : SUBSET Phv] \cup {Nil}
  <2>1. CASE Prefetched
    <3>1. PICK p \in prefetch_w.left :
            /\ plan_cache' = plan_cache \cup {P(prefetch_w.sql, p)}
            /\ prefetch_w' = [prefetch_w EXCEPT !.left = @ \ {p}]
      BY <2>1 DEF Prefetched
    <3>2. P(prefetch_w.sql, p) \in Pair
      BY <1>2, <3>1, Pairs
    <3>3. prefetch_w' \in [sql : Sql, left : SUBSET Phv]
      BY <1>2, <3>1
    <3>. QED  BY <2>1, <3>1, <3>2, <3>3 DEF Prefetched, PlansTypeOK
  <2>2. CASE PrefetchEnds
    BY <1>2, <2>2 DEF PrefetchEnds, PlansTypeOK
  <2>. QED  BY <2>1, <2>2
<1>4. PlansTypeOK'
  BY <1>1, <1>3 DEF PlansTypeOK
<1>5. TableInv'
  BY <1>1 DEF TableInv, TableIsOfSelection
<1>6. DrawnInv' /\ KnownInv'
  BY <1>1 DEF DrawnInv, DetailComes, KnownInv, Known
<1>. QED  BY <1>4, <1>5, <1>6

\* Numbers of ASH are added to the table if they are of the selected statement.
LEMMA EnrichedKeeps ==
  ASSUME PlansInv, Enriched
  PROVE  PlansInv'
<1>. USE Kinds DEF PlansInv
<1>1. /\ ash_w # Nil /\ ash_w' = Nil
      /\ UNCHANGED <<sel_sql, sel_cur, sel_phv, typed, crossed, plan_cache, tree, timeline,
                     plans_w, detail_w, prefetch_w, tl_w>>
  BY DEF Enriched, selection
<1>2. /\ plan_rows' \in [sql : Sql \cup {Nil}, phvs : Seq(Phv), ash : SUBSET Sql]
      /\ plan_rows'.sql = plan_rows.sql /\ plan_rows'.phvs = plan_rows.phvs
      /\ \/ plan_rows'.ash = plan_rows.ash
         \/ ash_w = sel_sql /\ plan_rows'.ash = plan_rows.ash \cup {ash_w}
  BY <1>1 DEF Enriched, OfSelected, PlansTypeOK
<1>3. PlansTypeOK'
  BY <1>1, <1>2 DEF PlansTypeOK
<1>4. TableInv'
  BY <1>1, <1>2 DEF TableInv, TableIsOfSelection
<1>5. DrawnInv' /\ KnownInv'
  BY <1>1, <1>2 DEF DrawnInv, DetailComes, KnownInv, Known
<1>. QED  BY <1>3, <1>4, <1>5

LEMMA TimelineLoadedKeeps ==
  ASSUME PlansInv, TimelineLoaded
  PROVE  PlansInv'
<1>. USE Kinds DEF PlansInv
<1>1. /\ tl_w # Nil /\ tl_w' = Nil
      /\ timeline' = IF tl_w.phv = sel_phv THEN tl_w ELSE timeline
      /\ UNCHANGED <<sel_sql, sel_cur, sel_phv, typed, crossed, plan_cache, plan_rows, tree,
                     plans_w, detail_w, prefetch_w, ash_w>>
  BY DEF TimelineLoaded, IsSelected, selection
<1>2. PlansTypeOK'
  BY <1>1 DEF PlansTypeOK
<1>3. TableInv'
  BY <1>1 DEF TableInv, TableIsOfSelection
<1>4. DrawnInv' /\ KnownInv'
  BY <1>1 DEF DrawnInv, DetailComes, KnownInv, Known
<1>. QED  BY <1>2, <1>3, <1>4

LEMMA NextKeepsInv == PlansInv /\ [PlansNext]_planVars => PlansInv'
<1>. SUFFICES ASSUME PlansInv, [PlansNext]_planVars PROVE PlansInv'
  OBVIOUS
<1>1. CASE UNCHANGED planVars
  BY <1>1 DEF planVars, selection, screen, workers, PlansInv, PlansTypeOK, TableInv,
              TableIsOfSelection, DrawnInv, DetailComes, KnownInv, Known
<1>. QED
  BY <1>1, SelectSqlKeeps, InputSqlKeeps, ShowPlanKeeps, PlansLoadedKeeps,
     DetailLoadedKeeps, PrefetchKeeps, EnrichedKeeps, TimelineLoadedKeeps
     DEF PlansNext

-----------------------------------------------------------------------------
\* Types: a worker and what is drawn are of statements and plans; the plan that
\* is selected first is a plan.
THEOREM PlansTypeCorrect == PlansSpec => []PlansTypeOK
<1>1. PlansInv => PlansTypeOK
  BY DEF PlansInv
<1>. QED  BY <1>1, InitEstablishesInv, NextKeepsInv, PTL DEF PlansSpec

\* When no plans are being fetched the table of plans is that of the selected
\* statement, and so are its numbers of ASH.
THEOREM TableOfSelection == PlansSpec => []TableIsOfSelection
<1>1. PlansInv => TableIsOfSelection
  BY DEF PlansInv, TableInv
<1>. QED  BY <1>1, InitEstablishesInv, NextKeepsInv, PTL DEF PlansSpec

\* When nothing is being fetched no "fetching" is left, and the tree and the
\* timeline are of the selected plan, and of the selected statement or of one that
\* shares it, unless a plan was selected in the table of another statement, or an
\* SQL ID was typed.
THEOREM TreeOfSelection == PlansSpec => []TreeIsOfSelection
<1>1. ASSUME PlansInv, detail_w = Nil
      PROVE  tree \notin [fetching : Phv]
  BY <1>1 DEF PlansInv, DrawnInv, DetailComes
<1>2. ASSUME PlansInv, plans_w = Nil, detail_w = Nil, tl_w = Nil, ~typed,
             NEW k \in {tree, timeline} \cap Pair
      PROVE  k.phv = sel_phv /\ (k.sql = sel_sql \/ Shared(k.phv) \/ crossed)
  <2>1. k.phv = sel_phv /\ k.phv \in Phv /\ k.sql \in Sql
    BY <1>2 DEF PlansInv, DrawnInv, DetailComes, Pair
  <2>2. sel_phv # Nil
    BY <2>1, Kinds
  <2>3. CASE ~crossed /\ k.sql # sel_sql
    <3>1. k.phv \in Elements(Plans[k.sql]) /\ k.phv \in Elements(Plans[sel_sql])
      BY <1>2, <2>1, <2>2, <2>3 DEF PlansInv, KnownInv, Known
    <3>2. sel_sql \in Sql
      BY <1>2, <2>2 DEF PlansInv, PlansTypeOK, TableInv
    <3>. QED  BY <2>1, <2>3, <3>1, <3>2 DEF Shared
  <2>. QED  BY <2>1, <2>3
<1>3. PlansInv => TreeIsOfSelection
  BY <1>1, <1>2 DEF TreeIsOfSelection
<1>. QED  BY <1>3, InitEstablishesInv, NextKeepsInv, PTL DEF PlansSpec

-----------------------------------------------------------------------------
(* Both *)

\* Every variable of the two parts has its type: above all, the cursor is on a
\* line of the table or there is none, and lines, targets and commands are made
\* of rows there may be.
THEOREM PanelTypesCorrect == MCSpec => []TypesOK
<1>. DEFINE Inv == LineInv /\ PlansInv
<1>1. MCInit => Inv
  BY InitLine, InitEstablishesInv DEF MCInit
<1>2. Inv /\ [MCNext]_<<tableVars, planVars, part>> => Inv'
  <2>. SUFFICES ASSUME Inv, [MCNext]_<<tableVars, planVars, part>>
                PROVE  Inv'
    OBVIOUS
  <2>1. [TablesNext]_tableVars /\ [PlansNext]_planVars
    BY DEF MCNext
  <2>. QED  BY <2>1, NextKeepsLine, NextKeepsInv
<1>3. Inv => TypesOK
  BY DEF LineInv, PlansInv, TypesOK
<1>. QED  BY <1>1, <1>2, <1>3, PTL DEF MCSpec
=============================================================================
