------------------------------- MODULE Config -------------------------------
(***************************************************************************)
(* The configuration file: Config::validate in src/src/config.rs, with the *)
(* defaults of the settings it looks at.  A setting is abstracted to what  *)
(* validate and the start of the daemon tell apart; durations are in       *)
(* seconds.  A list of paths or of urls is a set of their flaws.           *)
(***************************************************************************)
EXTENDS Integers, Sequences, FiniteSetsExt

CONSTANTS Hosts,       \* host names
          Servers,     \* bootstrap DNS servers
          None         \* an option that is not given

Ports == 0 .. 65535

\* Address of an upstream as written: without a port, or with one; an IPv6
\* address in brackets or, wrongly, without them, in which case what stands before
\* its last group is no address (bare_v6) or is one (cut_v6); a url of either
\* scheme.
Addresses == [form : {"empty", "name", "v4", "v6", "bare_v6", "cut_v6", "http_url"},
              host : Hosts, port : {None} \cup Ports]

\* UpstreamEntry, and the default of its timeout
UpstreamEntry(address, protocol) ==
    [address |-> address, protocol |-> protocol, tls_cert_path |-> FALSE,
     timeout |-> 5]

\* BlocklistConfig::default
DefaultBlocklist ==
    [paths |-> {}, allowlist_paths |-> {}, urls |-> {}, allowlist_urls |-> {},
     refresh_interval |-> None, download_timeout |-> 30, enabled |-> TRUE,
     blocked_ttl |-> 300]

\* EdnsConfig::default and ClientSubnetConfig::default
DefaultEdns ==
    [enabled |-> TRUE, preserve_client |-> TRUE,
     client_subnet |-> [enabled |-> FALSE, ipv4_prefix |-> 24,
                        ipv6_prefix |-> 56, exclude_private |-> TRUE]]

\* What serde makes of the file: the types of the fields, before validate.  A
\* prefix is a byte.
UpstreamEntries == [address : Addresses, protocol : {"plain", "dot", "doh"},
                    tls_cert_path : BOOLEAN, timeout : Nat]

Configs ==
    [binds : Nat, cert_path : BOOLEAN, key_path : BOOLEAN,
     upstreams : Seq(UpstreamEntries),
     bootstrap : Seq([id : Servers, port : Ports]),
     edns : [enabled : BOOLEAN, preserve_client : BOOLEAN,
             client_subnet : [enabled : BOOLEAN, ipv4_prefix : 0 .. 255,
                              ipv6_prefix : 0 .. 255, exclude_private : BOOLEAN]],
     blocklist : [paths : SUBSET {"good", "missing"},
                  allowlist_paths : SUBSET {"good", "missing"},
                  urls : SUBSET {"good", "no_scheme"},
                  allowlist_urls : SUBSET {"good", "no_scheme"},
                  refresh_interval : {None} \cup Nat, download_timeout : Nat,
                  enabled : BOOLEAN, blocked_ttl : Nat],
     management : {"unix", "loopback", "public"}, doh : {None} \cup Nat]

\* A file that gives what it must, and nothing else.
DefaultConfig(upstreams) ==
    [binds |-> 1, cert_path |-> TRUE, key_path |-> TRUE, upstreams |-> upstreams,
     bootstrap |-> <<>>, edns |-> DefaultEdns, blocklist |-> DefaultBlocklist,
     management |-> "unix", doh |-> None]

-----------------------------------------------------------------------------
\* host_from_address gives an address: an IPv6 address without brackets loses its
\* last group, as if that were a port.
IsIpHost(address) == address.form \in {"v4", "v6", "cut_v6"}

\* Each flaw of a configuration, in the order validate looks for them.
Flaws(c) == <<
    [found |-> c.upstreams = <<>>,                         error |-> "NoUpstreams"],
    [found |-> \/ c.binds = 0
               \/ \E i \in DOMAIN c.upstreams :
                      LET u == c.upstreams[i]
                      IN  \/ u.address.form = "empty"
                          \/ u.timeout = 0
                          \/ u.protocol = "dot" /\ IsIpHost(u.address)
               \/ \E i \in DOMAIN c.bootstrap : c.bootstrap[i].port = 0,
                                                           error |-> "InvalidValue"],
    [found |-> c.cert_path # c.key_path,                   error |-> "TlsIncomplete"],
    [found |-> c.doh # None /\ (c.doh = 0 \/ ~c.cert_path), error |-> "InvalidValue"],
    [found |-> c.management = "public",            error |-> "ManagementNotLoopback"],
    [found |-> "missing" \in c.blocklist.paths,    error |-> "BlocklistPathNotFound"],
    [found |-> "missing" \in c.blocklist.allowlist_paths,
                                                   error |-> "AllowlistPathNotFound"],
    [found |-> "no_scheme" \in c.blocklist.urls,     error |-> "InvalidBlocklistUrl"],
    [found |-> "no_scheme" \in c.blocklist.allowlist_urls,
                                                     error |-> "InvalidAllowlistUrl"],
    [found |-> \/ c.blocklist.refresh_interval = 0
               \/ c.blocklist.download_timeout = 0
               \/ c.blocklist.blocked_ttl = 0
               \/ c.edns.client_subnet.ipv4_prefix > 32
               \/ c.edns.client_subnet.ipv6_prefix > 128,  error |-> "InvalidValue"] >>

\* Config::validate: the first flaw, if there is one.
validate(c) == LET found == {i \in DOMAIN Flaws(c) : Flaws(c)[i].found}
               IN  IF found = {} THEN "Ok" ELSE Flaws(c)[Min(found)].error

\* Config::from_toml; None is a file that cannot be parsed.
from_toml(c) == IF c = None THEN "InvalidValue" ELSE validate(c)
=============================================================================
