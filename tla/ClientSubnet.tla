---------------------------- MODULE ClientSubnet ----------------------------
(***************************************************************************)
(* The EDNS client subnet option: query_with_ecs and the functions it      *)
(* calls in src/src/server.rs.  The option that goes upstream is the       *)
(* client's own, if the configuration keeps it, or made from the address   *)
(* of the client with the bits after the prefix cleared.                   *)
(*                                                                         *)
(* An address is its family and a number of Width[family] bits.            *)
(***************************************************************************)
EXTENDS Integers

CONSTANTS Width,      \* 32 and 128 bits, or fewer
          Private,    \* addresses that are no public client address
          NoEcs       \* no option, or no address

Families == {"v4", "v6"}

\* Options.
Subnets == [family : Families, prefix : Nat, bits : Nat]

ASSUME ClientSubnetAssumption == /\ Width \in [Families -> Nat \ {0}]
                                 /\ NoEcs \notin Subnets

\* The bits after the prefix are cleared.
mask_bits(value, prefix, total_bits) ==
    IF prefix = 0 THEN 0
    ELSE (value \div 2 ^ (total_bits - prefix)) * 2 ^ (total_bits - prefix)

is_public_client_ip(ip) == ip \notin Private

\* The option made from a client's address, if it is to have one.
client_subnet(ip, config) ==
    LET prefix == config.prefix[ip.family]
    IN  IF config.exclude_private /\ ~is_public_client_ip(ip) THEN NoEcs
        ELSE [family |-> ip.family, prefix |-> prefix,
              bits |-> mask_bits(ip.bits, prefix, Width[ip.family])]

\* The query that goes upstream.
query_with_ecs(query, ip, config) ==
    IF \/ ~config.enabled
       \/ config.preserve_client /\ query.ecs # NoEcs
       \/ ip = NoEcs
       \/ client_subnet(ip, config) = NoEcs
    THEN query
    ELSE [query EXCEPT !.ecs = client_subnet(ip, config)]

-----------------------------------------------------------------------------
Bit(value, i, width) == (value \div 2 ^ (width - i)) % 2

\* The reference: an option for the client has the leading bits of its address, as
\* many as the configuration allows, and no others.
SubnetOf(ecs, ip, config) ==
    LET width == Width[ip.family]
    IN  /\ ecs.family = ip.family /\ ecs.prefix = config.prefix[ip.family]
        /\ \A i \in 1 .. width :
               Bit(ecs.bits, i, width) = IF i <= ecs.prefix THEN Bit(ip.bits, i, width)
                                                            ELSE 0

\* What upstream may learn of the client: the option the client chose to send, or
\* one for its subnet if there may be one.
Reveals(query, ip, config, ecs) ==
    IF \/ ~config.enabled \/ ip = NoEcs
       \/ query.ecs # NoEcs /\ config.preserve_client
       \/ ip \in Private /\ config.exclude_private
    THEN ecs = query.ecs
    ELSE ecs # NoEcs /\ SubnetOf(ecs, ip, config)
=============================================================================
