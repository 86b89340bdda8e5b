------------------------------- MODULE MCPanels -------------------------------
(* What the keys and the answers that come late act on, for TLC: the panels of *)
(* a table, or the plan history.  They have nothing in common, so that one of  *)
(* them at a time is enough.                                                   *)
EXTENDS TablePanels, PlanHistory

VARIABLE part

R(i, d, s) == [inst |-> i, id |-> d, serial |-> s]

\* The numbers of a session that are used again, and the same id on another
\* instance.
MCRow == {R(1, 10, 5), R(1, 10, 6), R(2, 11, 5)}
MCHit == {R(1, 10, 6), R(2, 11, 5)}

\* A plan that two statements share, and one that only the first has.
MCPlans == [s \in Sql |-> IF s = "A" THEN <<"p", "q">> ELSE <<"p">>]
MCCurrent == [s \in Sql |-> IF s = "A" THEN "q" ELSE "p"]

\* Bound: once a plan was selected in the table of another statement, no SQL ID
\* is typed.  TreeIsOfSelection makes an exception of each.
OneExcuse == ~(typed /\ crossed)

\* The part that is not considered stays as it is at first.
MCInit ==
  /\ part \in {"tables", "plans"}
  /\ TablesInit
  /\ part # "tables" => panel = "sessions" /\ shown
  /\ PlansInit

MCNext ==
  /\ UNCHANGED part
  /\ \/ part = "tables" /\ TablesNext /\ UNCHANGED planVars
     \/ part = "plans" /\ PlansNext /\ OneExcuse' /\ UNCHANGED tableVars

\* Types of the two parts.
TypesOK == TablesTypeOK /\ PlansTypeOK

MCSpec == MCInit /\ [][MCNext]_<<tableVars, planVars, part>>
=============================================================================
