-------------------------- MODULE MCUpstreamPool ---------------------------
(* TLC instances of UpstreamPool. *)
EXTENDS UpstreamPool, TLC

Symmetry == Permutations(Queries)
=============================================================================
