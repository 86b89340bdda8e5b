----------------------------- MODULE MCTimesFiles -----------------------------
(* For TLC, in one run: what depends on time, and what instances of the        *)
(* application share on disk.  They have nothing in common, so that one of     *)
(* them at a time is enough.                                                   *)
EXTENDS MCTimes, MCLocalFiles

VARIABLE files

timesVars == <<ageVars, rateVars, advisorVars, part>>
filesVars == <<vars, walletVars, side>>

\* What is not considered has one initial state.
BothInit ==
  /\ files \in BOOLEAN
  /\ MCInit
  /\ FilesInit
  /\ files => part = "rates"
  /\ ~files => side = "store" /\ hasKeyring /\ zip = 0

BothNext ==
  /\ UNCHANGED files
  /\ \/ ~files /\ MCNext /\ UNCHANGED filesVars
     \/ files /\ FilesNext /\ UNCHANGED timesVars

BothSpec == BothInit /\ [][BothNext]_<<files, timesVars, filesVars>>
=============================================================================
