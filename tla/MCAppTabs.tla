------------------------------- MODULE MCAppTabs -------------------------------
(* A small AppTabs for TLC: the cfg files choose the connections. *)
EXTENDS AppTabs
=============================================================================
