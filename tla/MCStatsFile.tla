---------------------------- MODULE MCStatsFile -----------------------------
(* TLC instances of StatsFile. *)
EXTENDS StatsFile, TLC

Symmetry == Permutations(Files)
=============================================================================
