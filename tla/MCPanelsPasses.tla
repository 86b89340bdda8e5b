---------------------------- MODULE MCPanelsPasses ----------------------------
(* For TLC, in one run: the panels, and the passes of the collectors that fill *)
(* the cache they draw.  A panel does not care when it was filled, so that one *)
(* of the two at a time is enough.                                             *)
EXTENDS MCPanels, CollectorPass

VARIABLE passes

panelsVars == <<tableVars, planVars, part>>

\* What is not considered has one initial state.
BothInit ==
  /\ passes \in BOOLEAN
  /\ MCInit
  /\ passes => part = "plans"
  /\ Init
  /\ ~passes => who = "SQL" /\ watch = CHOOSE t \in WatchSets("SQL") : TRUE

\* Bound: passes of six queries or more see a change or an outage, not both.
LongBound == Len(Prog) > 5 => version + outages <= 1

BothNext ==
  /\ UNCHANGED passes
  /\ \/ ~passes /\ MCNext /\ UNCHANGED vars
     \/ passes /\ Next /\ LongBound' /\ UNCHANGED panelsVars

BothSpec == BothInit /\ [][BothNext]_<<passes, panelsVars, vars>>
=============================================================================
