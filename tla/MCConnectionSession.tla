-------------------------- MODULE MCConnectionSession --------------------------
(* A small ConnectionSession for TLC.  The cfg files choose the collectors,
   the one-shots and the modes; the tasks follow from them. *)
EXTENDS ConnectionSession, TLC

MCTask == Collector \cup Shot \cup {"ui", "health"}

\* Collectors that are primed together are interchangeable, and so are pools
\* and one-shots (safety runs only).
Symmetry == Permutations(PoolId) \cup Permutations(Shot)
=============================================================================
