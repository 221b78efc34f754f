--------------------------- MODULE MCUpstreamQuery --------------------------
(* Pools for TLC. *)
EXTENDS UpstreamQuery

Plain(t)  == [protocol |-> "plain", timeout |-> t, endpoints |-> 1]
Dot(t, n) == [protocol |-> "tls", timeout |-> t, endpoints |-> n]
Doh(t, n) == [protocol |-> "https", timeout |-> t, endpoints |-> n]

\* The default timeout, and hostnames with two addresses.
MixedPool == <<Plain(5), Dot(3, 2), Doh(1, 1)>>

\* Two resolvers that are down and one that is not, with the default timeout.
FallbackPool == <<Plain(5), Plain(5), Plain(5)>>
=============================================================================
