----------------------------- MODULE PlanHistory -----------------------------
(***************************************************************************)
(* PlanHistPanel of widgets/panels.py: a table of statements, a table of   *)
(* the plans of the selected statement, and below it the tree of the       *)
(* selected plan and the timeline of its executions.                       *)
(*                                                                         *)
(* Everything below the first table is fetched by workers, each of which   *)
(* belongs to an exclusive group (the next worker of the group cancels it) *)
(* and starts others when it ends.  There is no cancelling across groups:  *)
(* what comes late is told by comparing it with the selection.             *)
(*                                                                         *)
(* Plan hash values are shared: two statements may have the same plan.     *)
(* What the trees, the tables and the queries say is left out, as is       *)
(* whether a plan was found; a query that fails finds nothing.             *)
(***************************************************************************)
EXTENDS Naturals, Sequences, FiniteSets

CONSTANTS
  Sql,       \* the sql_ids
  Phv,       \* the plan hash values
  Plans,     \* the plans the database knows of a statement, in order
  Current,   \* PHV atual: the plan of a statement in the list of statements
  CacheMax,  \* plan trees that are kept
  Nil

ASSUME PlansAssumption ==
  /\ Plans \in [Sql -> Seq(Phv)]
  /\ Current \in [Sql -> Phv]
ASSUME NoneAssumption ==
  /\ Nil \notin Sql /\ Nil \notin Phv
  /\ Nil \notin [sql : Sql, phv : Phv] \cup [fetching : Phv]
  /\ Nil \notin [sql : Sql, left : SUBSET Phv]
ASSUME CacheAssumption == CacheMax \in Nat

VARIABLES
  sel_sql,     \* _sel_sql_id
  sel_cur,     \* _sel_current_phv
  sel_phv,     \* _sel_phv
  typed,       \* history: the statement was typed, not chosen in the table
  crossed,     \* history: a plan was selected in the table of another statement
  plan_rows,   \* _plan_rows: of which statement, their plans, and (history)
               \* of which statements they have got numbers of ASH
  plan_cache,  \* _plan_cache: its keys
  tree,        \* the tree that is drawn, or its "fetching"
  timeline,    \* the timeline that is drawn
  plans_w,     \* the worker of the group ph-plans: its statement
  detail_w,    \* ph-detail: its statement and plan
  prefetch_w,  \* ph-prefetch: its statement and what it still waits for
  ash_w,       \* ph-ash
  tl_w         \* ph-tl

selection == <<sel_sql, sel_cur, sel_phv, typed, crossed>>
screen == <<plan_rows, tree, timeline>>
workers == <<plans_w, detail_w, prefetch_w, ash_w, tl_w>>
planVars == <<selection, plan_cache, screen, workers>>

Pair == [sql : Sql, phv : Phv]
P(s, p) == [sql |-> s, phv |-> p]
Elements(seq) == {seq[i] : i \in DOMAIN seq}

\* Two statements have the plan.
Shared(p) ==
  \E s, t \in Sql :
    s # t /\ p \in Elements(Plans[s]) /\ p \in Elements(Plans[t])

PlansTypeOK ==
  /\ sel_sql \in Sql \cup {Nil}
  /\ sel_cur \in Phv \cup {Nil}
  /\ sel_phv \in Phv \cup {Nil}
  /\ typed \in BOOLEAN
  /\ crossed \in BOOLEAN
  /\ plan_rows \in [sql : Sql \cup {Nil}, phvs : Seq(Phv), ash : SUBSET Sql]
  /\ plan_cache \in SUBSET Pair
  /\ tree \in Pair \cup [fetching : Phv] \cup {Nil}
  /\ timeline \in Pair \cup {Nil}
  /\ plans_w \in Sql \cup {Nil}
  /\ detail_w \in Pair \cup {Nil}
  /\ prefetch_w \in [sql : Sql, left : SUBSET Phv] \cup {Nil}
  /\ ash_w \in Sql \cup {Nil}
  /\ tl_w \in Pair \cup {Nil}

PlansInit ==
  /\ sel_sql = Nil
  /\ sel_cur = Nil
  /\ sel_phv = Nil
  /\ typed = FALSE
  /\ crossed = FALSE
  /\ plan_rows = [sql |-> Nil, phvs |-> <<>>, ash |-> {}]
  /\ plan_cache = {}
  /\ tree = Nil
  /\ timeline = Nil
  /\ plans_w = Nil
  /\ detail_w = Nil
  /\ prefetch_w = Nil
  /\ ash_w = Nil
  /\ tl_w = Nil

-----------------------------------------------------------------------------
(* Selections *)

SelectedSql(s) ==
  /\ sel_sql' = s
  /\ sel_cur' = Current[s]
  /\ sel_phv' = Nil

\* _select_sql(), by a move in the table of statements or by its redraw.
SelectSql(s) ==
  /\ s # sel_sql
  /\ SelectedSql(s)
  /\ typed' = FALSE
  /\ tree' = Nil
  /\ timeline' = Nil
  /\ plans_w' = s
  /\ UNCHANGED <<crossed, plan_cache, plan_rows, detail_w, prefetch_w, ash_w, tl_w>>

\* action_input_sql(): the selected plan and what is drawn of it stay.
InputSql(s) ==
  /\ sel_sql' = s
  /\ sel_cur' = Nil
  /\ typed' = TRUE
  /\ plans_w' = s
  /\ UNCHANGED <<sel_phv, crossed, plan_cache, screen, detail_w, prefetch_w, ash_w,
                 tl_w>>

\* _show_plan(), by a move in the table of plans.  While the plans of another
\* statement are fetched the table still shows those of the one before.
ShowPlan(p) ==
  /\ p # sel_phv
  /\ sel_phv' = p
  /\ crossed' = (crossed \/ plan_rows.sql # sel_sql)
  /\ IF P(sel_sql, p) \in plan_cache
       THEN /\ tree' = P(sel_sql, p)
            /\ tl_w' = P(sel_sql, p)
            /\ UNCHANGED detail_w
       ELSE /\ tree' = [fetching |-> p]
            /\ detail_w' = P(sel_sql, p)
            /\ UNCHANGED tl_w
  /\ UNCHANGED <<sel_sql, sel_cur, typed, plan_cache, plan_rows, timeline, plans_w,
                 prefetch_w, ash_w>>

-----------------------------------------------------------------------------
(* Workers *)

\* The plan to show first: the current one, if it is among them.
FirstPlan(phvs) == IF sel_cur \in Elements(phvs) THEN sel_cur ELSE phvs[1]

\* The workers it starts: for the tree of the first plan, unless that is the
\* selected one already, and for the trees of all of them.
StartTrees(s, phvs) ==
  IF phvs = <<>>
    THEN UNCHANGED <<sel_phv, detail_w, prefetch_w>>
    ELSE /\ sel_phv' = FirstPlan(phvs)
         /\ IF FirstPlan(phvs) = sel_phv THEN UNCHANGED detail_w
              ELSE detail_w' = P(s, FirstPlan(phvs))
         /\ prefetch_w' = [sql |-> s, left |-> Elements(phvs)]

\* The end of _load_plans(): from AWR or the shared pool, or none.
PlansLoaded(s) ==
  /\ plans_w = s
  /\ plans_w' = Nil
  /\ \E phvs \in {Plans[s], <<>>} :
       /\ plan_rows' = [sql |-> s, phvs |-> phvs, ash |-> {}]
       /\ StartTrees(s, phvs)
  /\ UNCHANGED <<sel_sql, sel_cur, typed, crossed, plan_cache, tree, timeline, ash_w,
                 tl_w>>

\* Mutant: what was fetched is drawn, whatever is selected.
Anyway(k) == TRUE

\* What was fetched is of the selected plan, if not of the statement.
IsSelected(k) == k.phv = sel_phv

\* The end of _load_plan_detail(): the tree was in the cache, or goes there,
\* which is emptied before if it is full.
DetailLoaded ==
  /\ detail_w # Nil
  /\ \/ detail_w \in plan_cache /\ plan_cache' = plan_cache
     \/ plan_cache' = (IF Cardinality(plan_cache) > CacheMax THEN {} ELSE plan_cache)
                   \cup {detail_w}
  /\ IF IsSelected(detail_w)
       THEN tree' = detail_w /\ tl_w' = detail_w
       ELSE UNCHANGED <<tree, tl_w>>
  /\ detail_w' = Nil
  /\ UNCHANGED <<selection, plan_rows, timeline, plans_w, prefetch_w, ash_w>>

\* One of the queries _prefetch_plans() makes at the same time.
Prefetched ==
  /\ prefetch_w # Nil
  /\ \E p \in prefetch_w.left :
       /\ plan_cache' = plan_cache \cup {P(prefetch_w.sql, p)}
       /\ prefetch_w' = [prefetch_w EXCEPT !.left = @ \ {p}]
  /\ UNCHANGED <<selection, screen, plans_w, detail_w, ash_w, tl_w>>

\* Its end, when all of them have answered.
PrefetchEnds ==
  /\ prefetch_w # Nil /\ prefetch_w.left = {}
  /\ ash_w' = IF prefetch_w.sql = sel_sql THEN prefetch_w.sql ELSE ash_w
  /\ prefetch_w' = Nil
  /\ UNCHANGED <<selection, plan_cache, screen, plans_w, detail_w, tl_w>>

\* Mutant: the numbers are of the statement that was selected then.
OfAnyStatement(s) == TRUE

OfSelected(s) == s = sel_sql

\* The end of _enrich_ash(): the rows of the table get the numbers of ASH of
\* the plans with the same hash value, if there are any.
Enriched ==
  /\ ash_w # Nil
  /\ \/ /\ OfSelected(ash_w)
        /\ plan_rows' = [plan_rows EXCEPT !.ash = @ \cup {ash_w}]
     \/ UNCHANGED plan_rows
  /\ ash_w' = Nil
  /\ UNCHANGED <<selection, plan_cache, tree, timeline, plans_w, detail_w,
                 prefetch_w, tl_w>>

\* The end of _load_timeline()
TimelineLoaded ==
  /\ tl_w # Nil
  /\ timeline' = IF IsSelected(tl_w) THEN tl_w ELSE timeline
  /\ tl_w' = Nil
  /\ UNCHANGED <<selection, plan_cache, plan_rows, tree, plans_w, detail_w,
                 prefetch_w, ash_w>>

PlansNext ==
  \/ \E s \in Sql : SelectSql(s) \/ InputSql(s) \/ PlansLoaded(s)
  \/ \E p \in Elements(plan_rows.phvs) : ShowPlan(p)
  \/ DetailLoaded \/ Prefetched \/ PrefetchEnds \/ Enriched \/ TimelineLoaded

PlansSpec == PlansInit /\ [][PlansNext]_planVars

-----------------------------------------------------------------------------
(* Properties *)

\* When no plans are being fetched the table of plans is that of the selected
\* statement, and its numbers of ASH are of that statement, however many others
\* were selected or typed in between and whichever answers came last.
TableIsOfSelection ==
  plans_w = Nil => /\ plan_rows.sql = sel_sql
                    /\ plan_rows.ash \subseteq {sel_sql}

\* When nothing is being fetched the tree and the timeline are of the selected
\* plan, and no "fetching" is left where the tree should be.  A late answer is told
\* by the hash value alone, so it may be of another statement that has the same
\* plan; and of any other if ever a plan was selected while the table still showed
\* those of the statement before.  Except after an SQL ID was typed: then what was
\* drawn before stays until another plan is selected.
TreeIsOfSelection ==
  plans_w = Nil /\ detail_w = Nil /\ tl_w = Nil =>
    /\ tree \notin [fetching : Phv]
    /\ ~typed => \A k \in {tree, timeline} \cap Pair :
                   k.phv = sel_phv /\ (k.sql = sel_sql \/ Shared(k.phv) \/ crossed)
=============================================================================
