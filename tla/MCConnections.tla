--------------------------- MODULE MCConnections ----------------------------
(* TLC instances of Connections: two connections of one address, two of *)
(* the other.                                                             *)
EXTENDS Connections, TLC

CONSTANTS c1, c2, c3, c4, a, b

IpOfDef == (c1 :> a) @@ (c2 :> a) @@ (c3 :> b) @@ (c4 :> b)
=============================================================================
