----------------------------- MODULE MCStartup ------------------------------
(* The TLC instance of Startup: configurations with at most two settings away
   from the default, each with one short list, and longer lists with the default
   configuration. *)
EXTENDS Startup, TLC

CONSTANTS h1, h2, s1, s2

LowerDef == ("a" :> "a") @@ ("A" :> "a") @@ ("b" :> "b") @@ ("." :> ".") @@ ("*" :> "*")

AddressesOfDef == (h1 :> {[kind |-> "A", ip |-> 1], [kind |-> "AAAA", ip |-> 1]})
                  @@ (h2 :> {[kind |-> "A", ip |-> 2]}) @@ (Mangled :> {})

LiteralDef == [kind |-> "A", ip |-> 0]

Address(form, h, port) == [form |-> form, host |-> h, port |-> port]

Plain == UpstreamEntry(Address("v4", h1, 53), "plain")
Dot   == UpstreamEntry(Address("name", h1, None), "dot")
Doh   == UpstreamEntry(Address("name", h2, 8443), "doh")

\* One upstream that may be wrong in any way, with the rest as it should be.
Entries == {[address |-> Address(f, h1, p), protocol |-> t, tls_cert_path |-> c,
             timeout |-> s] :
               f \in {"empty", "name", "v4", "v6", "bare_v6", "cut_v6", "http_url"},
               p \in {None, 853}, t \in {"plain", "dot", "doh"}, c \in BOOLEAN,
               s \in {0, 5}}

Default == DefaultConfig(<<Plain>>)

List(f) == {{}, {f}, {"good", f}}

\* One or two settings of the rest away from the default.
Changed ==
    LET b == DefaultBlocklist
        e == DefaultEdns
    IN  {[Default EXCEPT !.upstreams = us] : us \in {<<>>} \cup {<<u>> : u \in Entries}}
        \cup {[Default EXCEPT !.binds = n, !.management = m] :
                  n \in 0 .. 1, m \in {"unix", "loopback", "public"}}
        \cup {[Default EXCEPT !.cert_path = c, !.key_path = k, !.doh = d] :
                  c \in BOOLEAN, k \in BOOLEAN, d \in {None, 0, 1}}
        \cup {[Default EXCEPT !.blocklist = [b EXCEPT !.paths = p, !.allowlist_paths = a,
                                                      !.urls = u, !.allowlist_urls = v]] :
                  p \in List("missing"), a \in List("missing"),
                  u \in List("no_scheme"), v \in List("no_scheme")}
        \cup {[Default EXCEPT !.blocklist = [b EXCEPT !.refresh_interval = r,
                                                      !.download_timeout = t,
                                                      !.blocked_ttl = x,
                                                      !.enabled = on]] :
                  r \in {None, 0, 60}, t \in {0, 30}, x \in {0, 300}, on \in BOOLEAN}
        \cup {[Default EXCEPT !.edns = [e EXCEPT !.client_subnet.ipv4_prefix = p4,
                                                 !.client_subnet.ipv6_prefix = p6]] :
                  p4 \in {0, 32, 33}, p6 \in {0, 128, 129}}

Server(s, port) == [id |-> s, port |-> port]

\* Two upstreams to resolve, through up to two servers.
Resolving ==
    {[Default EXCEPT !.upstreams = us, !.bootstrap = b] :
         us \in {<<Dot, Doh>>, <<Doh, Dot>>},
         b \in {<<>>, <<Server(s1, 53)>>, <<Server(s1, 53), Server(s2, 53)>>,
                <<Server(s1, 0)>>}}

Texts(n) == UNION {[1 .. k -> Chars] : k \in 0 .. n}

Rule(f, x, t) == [mark |-> "rule", exception |-> x, form |-> f, text |-> t]

In(target, l) == [target |-> target, line |-> l]

\* Every rule of up to three characters, alone.
OneLine == {<<In(tg, Rule("adblock", x, t))>> :
                tg \in {"Block", "Allow"}, x \in BOOLEAN, t \in Texts(3)}

\* Lines of every form that may meet in the same lists.
Some == {In(tg, Rule("hosts", FALSE, t)) : tg \in {"Block", "Allow"},
             t \in {<<"a", ".", "b">>, <<"A", ".", "b">>, <<"b">>}}
        \cup {In("Block", Rule("plain", x, t)) : x \in BOOLEAN,
                  t \in {<<".", "b">>, <<"b", ".", "a", ".", "b">>, <<"a", ".">>}}
        \cup {In("Block", [Rule("plain", FALSE, <<"a", ".", "a">>) EXCEPT !.mark = m]) :
                  m \in {"blank", "comment", "modifier"}}

TwoLines == {<<x, y>> : x \in Some, y \in Some}

InputsDef == {[config |-> c, lists |-> <<>>] :
                  c \in {None} \cup Changed \cup Resolving}
             \cup {[config |-> Default, lists |-> l] : l \in OneLine \cup TwoLines}
=============================================================================
