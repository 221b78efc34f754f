------------------------------- MODULE Startup ------------------------------
(***************************************************************************)
(* The start of the daemon: the serve command and run_serve in             *)
(* src/src/main.rs.  The configuration is read and validated (Config.tla), *)
(* the certificate loaded, the lists parsed (BlocklistRules.tla), the      *)
(* upstreams built and their hosts resolved (Bootstrap.tla), and the DoT,  *)
(* DoH and management servers run side by side until one of them fails or  *)
(* a signal comes.                                                         *)
(*                                                                         *)
(* The lists are those on disk; their download is in Blocklist.tla, the    *)
(* statistics file in StatsFile.tla.                                       *)
(***************************************************************************)
EXTENDS Config, BlocklistRules, Bootstrap

CONSTANTS Inputs,      \* configurations, and the lines of the list files
          Mangled,     \* a host name made of a part of an IPv6 address
          Literal      \* the address an IPv4 upstream is written with

\* The file is one that can be parsed or not, the lists are lines of text, a host
\* has the addresses it resolves to, and an address written in the file is told
\* apart from one that a host resolved to.
ASSUME StartupAssumption ==
    /\ \A i \in Inputs : /\ i.config \in {None} \cup Configs
                         /\ i.lists \in Seq([target : {"Block", "Allow"}, line : Lines])
    /\ Hosts \cup {Mangled} \subseteq DOMAIN AddressesOf
    /\ \A h \in DOMAIN AddressesOf : Literal \notin AddressesOf[h]

VARIABLES config,      \* what the file holds; None if it cannot be parsed
          lists,       \* the lines of the lists, each with its kind of list
          stage,       \* where run_serve stands
          fresh,       \* the engine being built
          line,        \* lines read
          engine,      \* the engine in use
          pool,        \* the endpoints of the upstreams built
          up           \* the servers that listen

startVars == <<config, lists, stage, fresh, line, engine, pool, up>>
vars == <<startVars, bootVars>>

Stages == {"config", "tls", "lists", "pool", "doh", "run", "serving", "stopped",
           "exit"}

TypeOK == /\ BootTypeOK
          /\ stage \in Stages
          /\ line \in 0 .. Len(lists)
          /\ {fresh.total, engine.total} \subseteq 0 .. line
          /\ Len(pool) <= (IF config = None THEN 0 ELSE Len(config.upstreams))
          /\ up \subseteq {"dot", "doh", "management"}

Init == /\ \E i \in Inputs : config = i.config /\ lists = i.lists
        /\ stage = "config"
        /\ fresh = NoRules
        /\ line = 0
        /\ engine = NoRules
        /\ pool = <<>>
        /\ up = {}
        /\ BootInit

Go(s) == stage' = s

\* std::process::exit(1): the sockets are closed.
Exit == Go("exit") /\ up' = {}

-----------------------------------------------------------------------------
\* The file is read, parsed and validated.
ReadConfig ==
    /\ stage = "config"
    /\ \/ from_toml(config) = "Ok" /\ Go("tls") /\ UNCHANGED up
       \/ from_toml(config) # "Ok" /\ Exit
    /\ UNCHANGED <<config, lists, fresh, line, engine, pool, bootVars>>

\* validate_tls_config: a certificate must be given, be there and fit its key.
LoadCertificate ==
    /\ stage = "tls"
    /\ \/ config.cert_path /\ Go("lists") /\ UNCHANGED up
       \/ Exit
    /\ UNCHANGED <<config, lists, fresh, line, engine, pool, bootVars>>

\* The lists are read line by line into a new engine ...
ReadLine == /\ stage = "lists" /\ config.blocklist.enabled
            /\ line < Len(lists)
            /\ line' = line + 1
            /\ fresh' = load_line(fresh, lists[line'].target, lists[line'].line)
            /\ UNCHANGED <<config, lists, stage, engine, pool, up, bootVars>>

\* ... which is put in use when all is read.
UseRules == /\ stage = "lists" /\ config.blocklist.enabled
            /\ line = Len(lists)
            /\ engine' = fresh
            /\ Go("pool")
            /\ UNCHANGED <<config, lists, fresh, line, pool, up, bootVars>>

\* The blocklist is not enabled, or a list cannot be read: the start goes on
\* with no rules.
NoLists == /\ stage = "lists"
           /\ Go("pool")
           /\ UNCHANGED <<config, lists, fresh, line, engine, pool, up, bootVars>>

-----------------------------------------------------------------------------
Upstream == config.upstreams[Len(pool) + 1]

Building == stage = "pool" /\ Len(pool) < Len(config.upstreams)

\* Upstream::from_entry refuses what validate lets pass.
Unsupported(u) == \/ u.tls_cert_path
                  \/ u.protocol = "doh" /\ u.address.form \in {"http_url", "bare_v6", "cut_v6"}

\* resolve_host is given an address: not for an IPv6 address of a url, which keeps
\* its brackets.
IsLiteral(u) == IsIpHost(u.address) /\ ~(u.protocol = "doh" /\ u.address.form = "v6")

\* extract_host, which cuts at the last colon, or host_str of the url
Host(u) == IF u.address.form = "name" THEN u.address.host ELSE Mangled

\* port_from_address, or the port of the url
Port(u) == IF u.address.port # None THEN u.address.port
           ELSE IF u.protocol = "dot" THEN 853 ELSE 443

Endpoints(u, ips) == {[ip |-> a, port |-> Port(u)] : a \in ips}

Built(u, ips) == pool' = Append(pool, Endpoints(u, ips))

\* Upstream::from_entry of an upstream whose host needs no resolving.
BuildDirect ==
    /\ Building /\ step = "idle"
    /\ \/ /\ Unsupported(Upstream)
          /\ Exit /\ UNCHANGED pool
       \/ /\ ~Unsupported(Upstream)
          /\ \/ Upstream.protocol = "plain" /\ Built(Upstream, {})
             \/ /\ Upstream.protocol # "plain" /\ IsLiteral(Upstream)
                /\ Built(Upstream, {Literal})
          /\ UNCHANGED <<stage, up>>
    /\ UNCHANGED <<config, lists, fresh, line, engine, bootVars>>

Named == /\ Building /\ step = "idle"
         /\ ~Unsupported(Upstream) /\ Upstream.protocol # "plain" /\ ~IsLiteral(Upstream)

\* resolve_host without bootstrap servers: the system's resolver.
BuildSystem ==
    /\ Named /\ config.bootstrap = <<>>
    /\ \/ \E ips \in SUBSET AddressesOf[Host(Upstream)] :
              ips # {} /\ Built(Upstream, ips) /\ UNCHANGED <<stage, up>>
       \/ Exit /\ UNCHANGED pool
    /\ UNCHANGED <<config, lists, fresh, line, engine, bootVars>>

\* resolve_host with bootstrap servers ...
AskBootstrap == /\ Named /\ config.bootstrap # <<>>
                /\ Resolve(Host(Upstream), config.bootstrap)
                /\ UNCHANGED startVars

\* ... and what they say.
BuildResolved ==
    /\ Take
    /\ \/ step = "resolved" /\ Built(Upstream, addrs) /\ UNCHANGED <<stage, up>>
       \/ step = "failed" /\ Exit /\ UNCHANGED pool
    /\ UNCHANGED <<config, lists, fresh, line, engine>>

\* All upstreams are built.
PoolReady == /\ stage = "pool" /\ Len(pool) = Len(config.upstreams)
             /\ Go("doh")
             /\ UNCHANGED <<config, lists, fresh, line, engine, pool, up, bootVars>>

-----------------------------------------------------------------------------
\* DohServer::new loads the certificate again.
BuildDoh == /\ stage = "doh"
            /\ \/ Go("run") /\ UNCHANGED up
               \/ config.doh # None /\ Exit
            /\ UNCHANGED <<config, lists, fresh, line, engine, pool, bootVars>>

Wanted == {"dot", "management"} \cup {s \in {"doh"} : config.doh # None}

\* One of the servers binds its addresses.
Listen(s) == /\ stage = "run"
             /\ s \in Wanted \ up
             /\ up' = up \cup {s}
             /\ Go(IF up' = Wanted THEN "serving" ELSE "run")
             /\ UNCHANGED <<config, lists, fresh, line, engine, pool, bootVars>>

\* One of them fails, while it binds or later, and ends the process.
ServerFails == /\ stage \in {"run", "serving"}
               /\ Exit
               /\ UNCHANGED <<config, lists, fresh, line, engine, pool, bootVars>>

\* wait_for_shutdown
Shutdown == /\ stage \in {"run", "serving"}
            /\ Go("stopped") /\ up' = {}
            /\ UNCHANGED <<config, lists, fresh, line, engine, pool, bootVars>>

Start == \/ ReadConfig \/ LoadCertificate \/ ReadLine \/ UseRules \/ NoLists
         \/ BuildDirect \/ BuildSystem \/ AskBootstrap \/ BuildResolved \/ PoolReady
         \/ BuildDoh \/ \E s \in {"dot", "doh", "management"} : Listen(s)
         \/ BootNext /\ UNCHANGED startVars

Next == Start \/ ServerFails \/ Shutdown

Spec == Init /\ [][Next]_vars

\* run_serve is one task, and it is polled.
FairSpec == Spec /\ WF_vars(Start)

-----------------------------------------------------------------------------
\* A daemon that listens has a configuration none of its later steps chokes on:
\* a timer with an interval (an interval of zero panics), prefixes the mask can
\* shift by, queries that may take time, a management socket nobody else reaches,
\* a certificate, and an address for every encrypted upstream.
ServesSound ==
    stage \in {"run", "serving"} =>
        /\ config.blocklist.refresh_interval # 0
        /\ config.edns.client_subnet.ipv4_prefix \in 0 .. 32
        /\ config.edns.client_subnet.ipv6_prefix \in 0 .. 128
        /\ config.management # "public"
        /\ config.cert_path /\ config.key_path
        /\ Len(pool) = Len(config.upstreams) /\ pool # <<>>
        /\ \A i \in DOMAIN pool : /\ config.upstreams[i].timeout > 0
                                  /\ \/ config.upstreams[i].protocol = "plain"
                                     \/ pool[i] # {}

\* Whatever arrives on the bootstrap sockets, the endpoints of an upstream are
\* addresses of its own host, on the port written or that of its protocol.
EndpointsOfHost ==
    \A i \in DOMAIN pool : \A e \in pool[i] :
        LET u == config.upstreams[i]
        IN  /\ e.ip \in {Literal} \cup AddressesOf[Host(u)]
            /\ e.ip = Literal <=> IsLiteral(u)
            /\ u.address.port # None => e.port = u.address.port
            /\ u.address.port = None /\ u.protocol = "dot" => e.port = 853
            /\ u.address.port = None /\ u.protocol = "doh" => e.port = 443

\* All names of a bounded length.
Names(n) == UNION {[1 .. k -> Chars] : k \in 0 .. n}

\* An engine in use, that is one made of lists read to their end, blocks exactly
\* the names that a rule of a block list covers and no exception does; a name that
\* only ends like a rule is left alone.
VerdictsMeetReference ==
    engine # NoRules /\ stage = "pool" /\ pool = <<>> /\ step = "idle" =>
        \A name \in Names(4) :
            decide(engine, name) = "Block" <=>
                /\ Listed(lists, name, IsBlock)
                /\ ~Listed(lists, name, IsException)

\* The start ends, whatever the network does to the bootstrap queries: the daemon
\* serves, or it has exited.
StartEnds == <>(stage \in {"serving", "stopped", "exit"})
=============================================================================
