---------------------------- MODULE MCDotUpstream ---------------------------
(* TLC instances of DotUpstream. *)
EXTENDS DotUpstream, TLC

Symmetry == Permutations(Queries) \cup Permutations(Streams)
=============================================================================
