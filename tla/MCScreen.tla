------------------------------- MODULE MCScreen -------------------------------
(* What must eventually be on the screen, for TLC: the rows that a collector   *)
(* fetches, or the detail that a panel fetches about the row under the cursor. *)
(* They have nothing in common, so that one of them at a time is enough.       *)
EXTENDS CollectorPass, SelectionPanels

VARIABLE part

\* The part that is not considered stays as it is at first; for "detail" that is
\* a collector of which Refills says nothing.
MCInit ==
  /\ part \in {"rows", "detail"}
  /\ Init
  /\ part # "rows" => who = "RAC" /\ kind /\ watch = CHOOSE t \in WatchSets("RAC") : TRUE
  /\ SelectionInit
  /\ part # "detail" => panel = "jobs"

MCNext ==
  /\ UNCHANGED part
  /\ \/ part = "rows" /\ Next /\ UNCHANGED selectionVars
     \/ part = "detail" /\ SelectionNext /\ UNCHANGED vars

\* Fairness and SelectionFairness; the second asks for nothing while its part is
\* as it is at first.
MCFairness ==
  /\ WF_vars(part = "rows" /\ Begin("loop"))
  /\ \A w \in Pass : /\ WF_vars(part = "rows" /\ DatabaseAnswers(w))
                     /\ WF_vars(part = "rows" /\ Resume(w))
  /\ SelectionFairness

MCSpec == MCInit /\ [][MCNext]_<<vars, selectionVars, part>> /\ MCFairness
=============================================================================
