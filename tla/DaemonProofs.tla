---------------------------- MODULE DaemonProofs ----------------------------
(***************************************************************************)
(* Proofs about the life of the process: its start (Startup) and the       *)
(* counters it keeps over restarts (StatsFile).                            *)
(*                                                                         *)
(* The start, for any configuration, any lists and any network.  A stage   *)
(* relies on what the stages before it have checked, and the endpoints of  *)
(* an upstream on the question that its addresses answered.  What the      *)
(* engine blocks is stated for names of any length: the suffixes it looks  *)
(* up are exactly the domains that cover the name.                         *)
(*                                                                         *)
(* The counters, for any set of files and any bound.  As long as saves do  *)
(* not overlap, the file under the permanent name always holds the         *)
(* snapshot of the latest save that went well, and no save writes to that  *)
(* file: what is being written is the temporary one, which is another.  A  *)
(* crash between any two steps leaves this as it is, so the next start     *)
(* loads what was saved.                                                   *)
(***************************************************************************)
EXTENDS Startup, StatsFile, SequenceTheorems, WellFoundedInduction, TLAPS

-----------------------------------------------------------------------------
(* The rules of the lists, for names of any length.                        *)

LEMMA NormalizedType ==
    ASSUME NEW text \in Seq(Chars)
    PROVE  /\ normalize_domain(text) \in Seq(Chars)
           /\ Len(normalize_domain(text)) = Len(text)
PROOF BY RulesAssumption DEF normalize_domain

\* What a line blocks or excepts is a domain with a dot in it.
LEMMA ParsedType ==
    ASSUME NEW l \in Lines
    PROVE  /\ parse_line(l).domain \in Seq(Chars)
           /\ parse_line(l).kind \in {"Block", "Exception"} =>
                  parse_line(l).domain # <<>>
PROOF
<1> DEFINE text == normalize_domain(l.text)
<1>1. text \in Seq(Chars)
  BY NormalizedType DEF Lines
<1>2. looks_like_domain(text) => text # <<>>
  BY <1>1 DEF looks_like_domain
<1> HIDE DEF text
<1>3. <<>> \in Seq(Chars) OBVIOUS
<1>4. \/ parse_line(l).kind \in {"Skip", "Unsupported"} /\ parse_line(l).domain = <<>>
      \/ looks_like_domain(text) /\ parse_line(l).domain = text
  BY DEF parse_line, text
<1> QED BY <1>1, <1>2, <1>3, <1>4

\* The suffixes that the engine looks up are the domains that cover the name: a
\* rule matches whole labels only.
LEMMA SuffixesCover ==
    ASSUME NEW name \in Seq(Chars), NEW d \in Seq(Chars), d # <<>>
    PROVE  d \in domain_suffixes(name) <=> Covers(d, name)
PROOF
<1> USE DEF domain_suffixes, Covers
<1>1. ASSUME d \in domain_suffixes(name) PROVE Covers(d, name)
  <2>1. PICK j \in 1 .. Len(name) : /\ j = 1 \/ name[j - 1] = "."
                                    /\ d = SubSeq(name, j, Len(name))
    BY <1>1
  <2>2. /\ Len(d) = Len(name) - j + 1
        /\ \A i \in 1 .. Len(d) : d[i] = name[j + i - 1]
    BY <2>1
  <2>3. CASE j = 1
    <3>1. d = name BY <2>1, <2>3
    <3> QED BY <3>1
  <2>4. CASE j # 1
    <3>1. /\ j - 1 \in 1 .. Len(name)
          /\ (j - 1) + Len(d) = Len(name)
          /\ name[j - 1] = "."
      BY <2>1, <2>2, <2>4
    <3>2. \A i \in DOMAIN d : name[(j - 1) + i] = d[i]
      BY <2>1, <2>2
    <3> QED BY <3>1, <3>2
  <2> QED BY <2>3, <2>4
<1>2. ASSUME Covers(d, name) PROVE d \in domain_suffixes(name)
  <2>0. Len(d) >= 1 BY EmptySeq
  <2>1. CASE name = d
    <3>1. d = SubSeq(name, 1, Len(name)) BY <2>1
    <3> QED BY <2>0, <2>1, <3>1
  <2>2. CASE \E k \in 1 .. Len(name) :
                 /\ k + Len(d) = Len(name)
                 /\ name[k] = "."
                 /\ \A i \in DOMAIN d : name[k + i] = d[i]
    <3>1. PICK k \in 1 .. Len(name) :
              /\ k + Len(d) = Len(name)
              /\ name[k] = "."
              /\ \A i \in DOMAIN d : name[k + i] = d[i]
      BY <2>2
    <3>2. k + 1 \in 1 .. Len(name) /\ (k + 1) - 1 = k
      BY <2>0, <3>1
    <3>3. d = SubSeq(name, k + 1, Len(name))
      <4> DEFINE s == SubSeq(name, k + 1, Len(name))
      <4>1. /\ s \in Seq(Chars)
            /\ Len(s) = Len(d)
            /\ \A i \in 1 .. Len(d) : s[i] = name[k + i]
        BY <3>1, <3>2
      <4> HIDE DEF s
      <4>2. \A i \in 1 .. Len(d) : d[i] = s[i]
        <5>1. DOMAIN d = 1 .. Len(d) OBVIOUS
        <5> QED BY <3>1, <4>1, <5>1, Zenon
      <4>3. d = s BY <4>1, <4>2, SeqEqual
      <4> QED BY <4>3 DEF s
    <3> QED BY <3>1, <3>2, <3>3
  <2> QED BY <1>2, <2>1, <2>2
<1> QED BY <1>1, <1>2

\* What a line of the lists says, and the domains that the first n lines block
\* and except.
Said(ls, i) == parse_line(ls[i].line)

BlocksTo(ls, n) ==
    {Said(ls, i).domain : i \in {j \in 1 .. n : IsBlock(Said(ls, j).kind, ls[j].target)}}

ExceptionsTo(ls, n) ==
    {Said(ls, i).domain :
         i \in {j \in 1 .. n : IsException(Said(ls, j).kind, ls[j].target)}}

LEMMA NoLineRead ==
    ASSUME NEW ls
    PROVE  BlocksTo(ls, 0) = {} /\ ExceptionsTo(ls, 0) = {}
PROOF BY DEF BlocksTo, ExceptionsTo

\* What one line adds.
BlockOf(p, target) == {d \in {p.domain} : IsBlock(p.kind, target)}

ExceptionOf(p, target) == {d \in {p.domain} : IsException(p.kind, target)}

LEMMA OneLineMore ==
    ASSUME NEW ls, NEW n \in Nat
    PROVE  /\ BlocksTo(ls, n + 1) =
                  BlocksTo(ls, n) \cup BlockOf(Said(ls, n + 1), ls[n + 1].target)
           /\ ExceptionsTo(ls, n + 1) =
                  ExceptionsTo(ls, n) \cup ExceptionOf(Said(ls, n + 1), ls[n + 1].target)
PROOF
<1>1. 1 .. n + 1 = (1 .. n) \cup {n + 1} OBVIOUS
<1> QED BY <1>1 DEF BlocksTo, ExceptionsTo, BlockOf, ExceptionOf

ListLines == [target : {"Block", "Allow"}, line : Lines]

\* A name matches the rules of all lines when a line that covers it is listed.
LEMMA MatchesListed ==
    ASSUME lists \in Seq(ListLines), NEW name \in Seq(Chars)
    PROVE  /\ rule_matches(BlocksTo(lists, Len(lists)), normalize_domain(name)) <=>
                  Listed(lists, name, IsBlock)
           /\ rule_matches(ExceptionsTo(lists, Len(lists)), normalize_domain(name)) <=>
                  Listed(lists, name, IsException)
PROOF
<1> DEFINE n == normalize_domain(name)
<1>1. n \in Seq(Chars) BY NormalizedType
<1>2. \A i \in 1 .. Len(lists) :
          /\ lists[i].line \in Lines
          /\ IsBlock(Said(lists, i).kind, lists[i].target)
             \/ IsException(Said(lists, i).kind, lists[i].target) =>
                 (Said(lists, i).domain \in domain_suffixes(n) <=> Covers(Said(lists, i).domain, n))
  <2> SUFFICES ASSUME NEW i \in 1 .. Len(lists)
               PROVE  /\ lists[i].line \in Lines
                      /\ IsBlock(Said(lists, i).kind, lists[i].target)
                         \/ IsException(Said(lists, i).kind, lists[i].target) =>
                             (Said(lists, i).domain \in domain_suffixes(n)
                                  <=> Covers(Said(lists, i).domain, n))
    OBVIOUS
  <2>1. lists[i].line \in Lines
    <3>1. lists[i] \in ListLines BY ElementOfSeq
    <3> QED BY <3>1 DEF ListLines
  <2>2. /\ Said(lists, i).domain \in Seq(Chars)
        /\ Said(lists, i).kind \in {"Block", "Exception"} => Said(lists, i).domain # <<>>
    BY <2>1, ParsedType DEF Said
  <2>3. IsBlock(Said(lists, i).kind, lists[i].target)
        \/ IsException(Said(lists, i).kind, lists[i].target)
            => Said(lists, i).kind \in {"Block", "Exception"}
    BY DEF IsBlock, IsException
  <2> QED BY <1>1, <2>1, <2>2, <2>3, SuffixesCover
<1> HIDE DEF n
<1>3. DOMAIN lists = 1 .. Len(lists) OBVIOUS
<1>4. rule_matches(BlocksTo(lists, Len(lists)), n) <=> Listed(lists, name, IsBlock)
  <2>1. rule_matches(BlocksTo(lists, Len(lists)), n) <=>
            \E i \in 1 .. Len(lists) : /\ IsBlock(Said(lists, i).kind, lists[i].target)
                                       /\ Said(lists, i).domain \in domain_suffixes(n)
    BY Zenon DEF rule_matches, BlocksTo
  <2>2. Listed(lists, name, IsBlock) <=>
            \E i \in 1 .. Len(lists) : /\ IsBlock(Said(lists, i).kind, lists[i].target)
                                       /\ Covers(Said(lists, i).domain, n)
    BY <1>3, Zenon DEF Listed, Said, n
  <2> QED BY <1>2, <2>1, <2>2, Zenon
<1>5. rule_matches(ExceptionsTo(lists, Len(lists)), n) <=> Listed(lists, name, IsException)
  <2>1. rule_matches(ExceptionsTo(lists, Len(lists)), n) <=>
            \E i \in 1 .. Len(lists) : /\ IsException(Said(lists, i).kind, lists[i].target)
                                       /\ Said(lists, i).domain \in domain_suffixes(n)
    BY Zenon DEF rule_matches, ExceptionsTo
  <2>2. Listed(lists, name, IsException) <=>
            \E i \in 1 .. Len(lists) : /\ IsException(Said(lists, i).kind, lists[i].target)
                                       /\ Covers(Said(lists, i).domain, n)
    BY <1>3, Zenon DEF Listed, Said, n
  <2> QED BY <1>2, <2>1, <2>2, Zenon
<1> QED BY <1>4, <1>5 DEF n

-----------------------------------------------------------------------------
(* The inductive invariant.                                                *)

\* The configuration and the lists are those the daemon was started with.
Given == \E i \in Inputs : config = i.config /\ lists = i.lists

\* What a stage may rely on: that the stages before it have passed.
Passed ==
    /\ stage \in Stages
    /\ stage \notin {"config", "exit"} => config # None /\ validate(config) = "Ok"
    /\ stage \notin {"config", "exit", "tls"} => config.cert_path
    /\ stage \in {"config", "tls", "lists"} => pool = <<>>
    /\ stage \in {"doh", "run", "serving", "stopped"} =>
           Len(pool) = Len(config.upstreams)
    /\ up \subseteq {"dot", "doh", "management"}

\* The engine being built holds the rules of the lines read, and the engine in use
\* those of all lines or none.
Rules ==
    /\ line \in 0 .. Len(lists)
    /\ fresh.blocks = BlocksTo(lists, line)
    /\ fresh.exceptions = ExceptionsTo(lists, line)
    /\ fresh.total = line
    /\ engine = NoRules \/ (engine = fresh /\ line = Len(lists))

\* The deadline is looked at when a datagram comes: the recv that waits now began
\* before it.
Timers == elapsed - waited \in 0 .. Deadline - 1

\* What is being resolved is the host of the next upstream, and the addresses found
\* so far are its own.
Asked ==
    step # "idle" =>
        /\ Building /\ ~IsLiteral(Upstream)
        /\ host = Host(Upstream)
        /\ addrs \subseteq AddressesOf[host]
        /\ step = "resolved" => addrs # {}

AllAddresses == UNION {AddressesOf[h] : h \in DOMAIN AddressesOf}

AnyEndpoint == [ip : {Literal} \cup AllAddresses, port : {443, 853} \cup Ports]

\* Upstreams are built in order, and an encrypted one has an endpoint.
PoolBuilt ==
    /\ pool \in Seq(SUBSET AnyEndpoint)
    /\ Len(pool) <= (IF config = None THEN 0 ELSE Len(config.upstreams))
    /\ \A i \in 1 .. Len(pool) :
           config.upstreams[i].protocol = "plain" \/ pool[i] # {}

StartInv == /\ Given /\ Passed /\ Rules
            /\ BootTypeOK /\ Timers /\ Asked
            /\ PoolBuilt /\ EndpointsOfHost

LEMMA GivenTypes ==
    ASSUME Given
    PROVE  config \in {None} \cup Configs /\ lists \in Seq(ListLines)
PROOF BY StartupAssumption DEF Given, ListLines

LEMMA AddressFields ==
    ASSUME NEW a \in Addresses
    PROVE  a.host \in Hosts /\ a.port \in {None} \cup Ports
PROOF BY DEF Addresses

LEMMA EntryFields ==
    ASSUME NEW u \in UpstreamEntries
    PROVE  u.address \in Addresses /\ u.timeout \in Nat
PROOF BY DEF UpstreamEntries

LEMMA ConfigFields ==
    ASSUME NEW c \in Configs
    PROVE  /\ c.cert_path \in BOOLEAN /\ c.key_path \in BOOLEAN
           /\ c.upstreams \in Seq(UpstreamEntries)
           /\ c.edns.client_subnet.ipv4_prefix \in Nat
           /\ c.edns.client_subnet.ipv6_prefix \in Nat
PROOF
<1> DEFINE Subnets == [enabled : BOOLEAN, ipv4_prefix : 0 .. 255,
                       ipv6_prefix : 0 .. 255, exclude_private : BOOLEAN]
           Edns == [enabled : BOOLEAN, preserve_client : BOOLEAN,
                    client_subnet : Subnets]
           e == c.edns
           s == e.client_subnet
<1>1. /\ c.cert_path \in BOOLEAN /\ c.key_path \in BOOLEAN
      /\ c.upstreams \in Seq(UpstreamEntries)
      /\ e \in Edns
  BY DEF Configs
<1> HIDE DEF e, Subnets
<1>2. s \in Subnets BY <1>1
<1> HIDE DEF s
<1>3. s.ipv4_prefix \in Nat /\ s.ipv6_prefix \in Nat BY <1>2 DEF Subnets
<1> QED BY <1>1, <1>3 DEF s, e

\* What is told of the entry that is being built.
LEMMA EntryTypes ==
    ASSUME Given, config # None, NEW i \in 1 .. Len(config.upstreams),
           NEW u, u = config.upstreams[i]
    PROVE  /\ u \in UpstreamEntries
           /\ Host(u) \in DOMAIN AddressesOf
           /\ Port(u) \in {443, 853} \cup Ports
           /\ u.address.port # None => Port(u) = u.address.port
           /\ u.address.port = None /\ u.protocol = "dot" => Port(u) = 853
           /\ u.address.port = None /\ u.protocol = "doh" => Port(u) = 443
PROOF
<1>1. config.upstreams \in Seq(UpstreamEntries)
  BY GivenTypes, ConfigFields
<1>2. u \in UpstreamEntries
  BY <1>1, ElementOfSeq
<1>3. u.address \in Addresses
  BY <1>2, EntryFields
<1>4. u.address.host \in Hosts /\ u.address.port \in {None} \cup Ports
  BY <1>3, AddressFields
<1>5. Host(u) \in DOMAIN AddressesOf
  BY <1>4, StartupAssumption DEF Host
<1>6. /\ Port(u) \in {443, 853} \cup Ports
      /\ u.address.port # None => Port(u) = u.address.port
      /\ u.address.port = None /\ u.protocol = "dot" => Port(u) = 853
      /\ u.address.port = None /\ u.protocol = "doh" => Port(u) = 443
  BY <1>4 DEF Port
<1> QED BY <1>2, <1>5, <1>6

-----------------------------------------------------------------------------
(* Validation.                                                             *)

LEMMA LeastFlaw ==
    ASSUME NEW S \in SUBSET Nat, S # {}
    PROVE  Min(S) \in S
PROOF
<1> DEFINE Less == {p \in Nat \X Nat : p[1] < p[2]}
<1>1. IsWellFoundedOn(Less, Nat)
  BY NatLessThanWellFounded, Zenon DEF OpToRel
<1>2. \A x, y \in S : ~(<<y, x>> \in Less) => x <= y
  OBVIOUS
<1> HIDE DEF Less
<1>3. PICK x \in S : \A y \in S : ~(<<y, x>> \in Less)
  BY <1>1, WFMin
<1>4. \E x1 \in S : \A y \in S : x1 <= y
  BY <1>2, <1>3
<1> QED BY <1>4, Zenon DEF Min

\* validate returns Ok only if it finds none of the flaws.
LEMMA ValidHasNoFlaw ==
    ASSUME NEW c, validate(c) = "Ok"
    PROVE  \A i \in DOMAIN Flaws(c) : ~Flaws(c)[i].found
PROOF
<1> DEFINE found == {i \in DOMAIN Flaws(c) : Flaws(c)[i].found}
<1>1. DOMAIN Flaws(c) = 1 .. 10
  BY DEF Flaws
<1>2. \A i \in 1 .. 10 : Flaws(c)[i].error # "Ok"
  BY DEF Flaws
<1>3. found # {} => Min(found) \in 1 .. 10
  BY <1>1, LeastFlaw
<1>4. found = {}
  BY <1>2, <1>3 DEF validate
<1> QED BY <1>4

\* What that says of the settings that later steps rely on.
LEMMA ValidMeans ==
    ASSUME NEW c, validate(c) = "Ok"
    PROVE  /\ c.upstreams # <<>>
           /\ \A i \in DOMAIN c.upstreams : c.upstreams[i].timeout # 0
           /\ c.cert_path = c.key_path
           /\ c.management # "public"
           /\ c.blocklist.refresh_interval # 0
           /\ ~(c.edns.client_subnet.ipv4_prefix > 32)
           /\ ~(c.edns.client_subnet.ipv6_prefix > 128)
PROOF
<1>1. DOMAIN Flaws(c) = 1 .. 10 BY DEF Flaws
<1>2. /\ ~Flaws(c)[1].found /\ ~Flaws(c)[2].found /\ ~Flaws(c)[3].found
      /\ ~Flaws(c)[5].found /\ ~Flaws(c)[10].found
  BY <1>1, ValidHasNoFlaw
<1>3. Flaws(c)[1].found = (c.upstreams = <<>>) BY DEF Flaws
<1>4. (\E i \in DOMAIN c.upstreams : c.upstreams[i].timeout = 0) => Flaws(c)[2].found
  BY DEF Flaws
<1>5. Flaws(c)[3].found = (c.cert_path # c.key_path) BY DEF Flaws
<1>6. Flaws(c)[5].found = (c.management = "public") BY DEF Flaws
<1>7. (\/ c.blocklist.refresh_interval = 0
       \/ c.edns.client_subnet.ipv4_prefix > 32
       \/ c.edns.client_subnet.ipv6_prefix > 128) => Flaws(c)[10].found
  BY DEF Flaws
<1> QED BY <1>2, <1>3, <1>4, <1>5, <1>6, <1>7

-----------------------------------------------------------------------------
(* Steps.                                                                  *)

\* A step is one of the bootstrap queries, a stage of run_serve, or the building
\* of an upstream.
StageStep == \/ ReadConfig \/ LoadCertificate \/ NoLists \/ PoolReady \/ BuildDoh
             \/ \E s \in {"dot", "doh", "management"} : Listen(s)
             \/ ServerFails \/ Shutdown

BuildStep == BuildDirect \/ BuildSystem \/ BuildResolved

LEMMA Steps ==
    ASSUME [Next]_vars
    PROVE  \/ StageStep \/ ReadLine \/ UseRules \/ BuildStep \/ AskBootstrap
           \/ BootNext /\ UNCHANGED startVars
           \/ UNCHANGED vars
PROOF BY DEF Next, Start, StageStep, BuildStep

\* Reading and rules are left alone by every other step, and the configuration by
\* all of them.
LEMMA StepFrames ==
    ASSUME [Next]_vars
    PROVE  /\ UNCHANGED <<config, lists>>
           /\ ReadLine \/ UseRules \/ UNCHANGED <<fresh, line, engine>>
           /\ BuildStep \/ UNCHANGED pool
           /\ StageStep \/ UseRules \/ BuildStep \/ UNCHANGED <<stage, up>>
           /\ BuildResolved \/ AskBootstrap \/ BootNext \/ UNCHANGED bootVars
PROOF
<1>1. CASE StageStep
  <2> USE DEF Exit, Go
  <2>1. CASE ReadConfig BY <1>1, <2>1 DEF ReadConfig
  <2>2. CASE LoadCertificate BY <1>1, <2>2 DEF LoadCertificate
  <2>3. CASE NoLists BY <1>1, <2>3 DEF NoLists
  <2>4. CASE PoolReady BY <1>1, <2>4 DEF PoolReady
  <2>5. CASE BuildDoh BY <1>1, <2>5 DEF BuildDoh
  <2>6. ASSUME NEW s \in {"dot", "doh", "management"}, Listen(s)
        PROVE  UNCHANGED <<config, lists, fresh, line, engine, pool, bootVars>>
    BY <2>6 DEF Listen
  <2>7. CASE ServerFails BY <1>1, <2>7 DEF ServerFails
  <2>8. CASE Shutdown BY <1>1, <2>8 DEF Shutdown
  <2> QED BY <1>1, <2>1, <2>2, <2>3, <2>4, <2>5, <2>6, <2>7, <2>8 DEF StageStep
<1>2. CASE ReadLine BY <1>2 DEF ReadLine
<1>3. CASE UseRules BY <1>3 DEF UseRules
<1>4. CASE BuildStep
  <2>1. CASE BuildDirect BY <1>4, <2>1 DEF BuildDirect
  <2>2. CASE BuildSystem BY <1>4, <2>2 DEF BuildSystem
  <2>3. CASE BuildResolved BY <1>4, <2>3 DEF BuildResolved
  <2> QED BY <1>4, <2>1, <2>2, <2>3 DEF BuildStep
<1>5. CASE AskBootstrap BY <1>5 DEF AskBootstrap, startVars
<1>6. CASE BootNext /\ UNCHANGED startVars BY <1>6 DEF startVars
<1>7. CASE UNCHANGED vars BY <1>7 DEF vars, startVars
<1> QED BY <1>1, <1>2, <1>3, <1>4, <1>5, <1>6, <1>7, Steps

LEMMA GivenKept ==
    ASSUME Given, [Next]_vars
    PROVE  Given'
PROOF BY StepFrames, Zenon DEF Given

\* Each line read adds its rule.
LEMMA RulesKept ==
    ASSUME Given, Rules, [Next]_vars
    PROVE  Rules'
PROOF
<1> DEFINE l == lists[line + 1]
           p == Said(lists, line + 1)
<1>a. line \in Nat =>
           /\ BlocksTo(lists, line + 1) = BlocksTo(lists, line) \cup BlockOf(p, l.target)
           /\ ExceptionsTo(lists, line + 1) =
                  ExceptionsTo(lists, line) \cup ExceptionOf(p, l.target)
  BY OneLineMore
<1> USE DEF Rules
<1>0. UNCHANGED <<config, lists>> /\ lists \in Seq(ListLines)
  BY StepFrames, GivenTypes
<1>1. CASE ReadLine
  <2>1. /\ line' = line + 1 /\ line + 1 \in 0 .. Len(lists)
        /\ fresh' = load_line(fresh, l.target, l.line)
        /\ engine' = engine /\ line # Len(lists)
    BY <1>0, <1>1 DEF ReadLine
  <2>2. /\ fresh'.blocks = fresh.blocks \cup BlockOf(p, l.target)
        /\ fresh'.exceptions = fresh.exceptions \cup ExceptionOf(p, l.target)
        /\ fresh'.total = fresh.total + 1
    BY <2>1 DEF load_line, Said, BlockOf, ExceptionOf
  <2>3. /\ BlocksTo(lists, line + 1) = BlocksTo(lists, line) \cup BlockOf(p, l.target)
        /\ ExceptionsTo(lists, line + 1) =
               ExceptionsTo(lists, line) \cup ExceptionOf(p, l.target)
    <3>1. line \in Nat OBVIOUS
    <3> QED BY <1>a, <3>1
  <2> HIDE DEF p, l
  <2> QED BY <1>0, <2>1, <2>2, <2>3
<1>2. CASE UseRules
  BY <1>0, <1>2 DEF UseRules
<1>3. CASE UNCHANGED <<fresh, line, engine>>
  BY <1>0, <1>3
<1> QED BY <1>1, <1>2, <1>3, StepFrames

-----------------------------------------------------------------------------
(* The bootstrap queries.                                                  *)

\* The loop goes on after a datagram that is not the answer.
Again == /\ step = "waiting" /\ elapsed < Deadline
         /\ waited' = 0
         /\ UNCHANGED <<step, host, servers, kind, query_id, asked, elapsed, addrs>>

\* A question ends with addresses of the host asked for, whatever was received.
LEMMA BootSteps ==
    ASSUME BootTypeOK, BootNext
    PROVE  \/ \E id \in Ids : Ask(id)
           \/ \E found \in SUBSET AddressesOf[host] :
                  step \in {"asking", "waiting"} /\ Over(found)
           \/ Again
           \/ Wait
PROOF
<1>1. CASE AskFails \/ RecvFails
  BY <1>1 DEF AskFails, RecvFails
<1>2. CASE Reject
  BY <1>2, BootstrapAssumption DEF Reject, Again, BootTypeOK
<1>3. ASSUME NEW q \in Answerable, NEW A \in SUBSET AddressesOf[q.host], Accept(q, A)
      PROVE  \E found \in SUBSET AddressesOf[host] :
                 step \in {"asking", "waiting"} /\ Over(found)
  <2>1. q.host = host /\ step = "waiting" /\ Over({a \in A : a.kind = kind})
    BY <1>3 DEF Accept, Matches
  <2>2. {a \in A : a.kind = kind} \in SUBSET AddressesOf[host]
    BY <2>1
  <2> QED BY <2>1, <2>2, Zenon
<1> QED BY <1>1, <1>2, <1>3, Zenon DEF BootNext, Receive

LEMMA UpstreamTypes ==
    ASSUME Given, Passed, PoolBuilt, Building
    PROVE  /\ config # None
           /\ Len(pool) \in Nat
           /\ Len(pool) + 1 \in 1 .. Len(config.upstreams)
           /\ Host(Upstream) \in DOMAIN AddressesOf
           /\ Port(Upstream) \in {443, 853} \cup Ports
PROOF
<1>1. config # None
  BY DEF Building, Passed
<1>2. config.upstreams \in Seq(UpstreamEntries)
  BY <1>1, GivenTypes, ConfigFields
<1>3. Len(pool) \in Nat /\ Len(pool) + 1 \in 1 .. Len(config.upstreams)
  BY <1>2 DEF Building, PoolBuilt
<1> QED BY <1>1, <1>3, EntryTypes DEF Upstream

LEMMA AddressesIncluded ==
    ASSUME NEW h \in DOMAIN AddressesOf
    PROVE  AddressesOf[h] \subseteq AllAddresses
PROOF BY DEF AllAddresses

LEMMA BootKept ==
    ASSUME StartInv, [Next]_vars
    PROVE  BootTypeOK' /\ Timers'
PROOF
<1> USE BootstrapAssumption DEF BootTypeOK, Timers, StartInv
<1>1. CASE UNCHANGED bootVars
  BY <1>1 DEF bootVars
<1>2. CASE BuildResolved
  BY <1>2 DEF BuildResolved, Take
<1>3. CASE AskBootstrap
  <2>1. Building BY <1>3 DEF AskBootstrap, Named
  <2>2. Host(Upstream) \in DOMAIN AddressesOf BY <2>1, UpstreamTypes
  <2> QED BY <1>3, <2>2 DEF AskBootstrap, Resolve, Kinds
<1>4. CASE BootNext
  <2>1. ASSUME NEW id \in Ids, Ask(id) PROVE BootTypeOK' /\ Timers'
    BY <2>1 DEF Ask
  <2>2. ASSUME NEW found \in SUBSET AddressesOf[host],
               step \in {"asking", "waiting"}, Over(found)
        PROVE  BootTypeOK' /\ Timers'
    <3>1. Building /\ host = Host(Upstream) BY <2>2 DEF Asked
    <3>2. host \in DOMAIN AddressesOf BY <3>1, UpstreamTypes
    <3>3. addrs \cup found \subseteq AllAddresses
      BY <3>2, AddressesIncluded DEF AllAddresses
    <3> QED BY <2>2, <3>3 DEF Over, AllAddresses, Kinds
  <2>3. CASE Again BY <2>3 DEF Again
  <2>4. CASE Wait BY <2>4 DEF Wait
  <2> QED BY <1>4, <2>1, <2>2, <2>3, <2>4, BootSteps, Zenon
<1> QED BY <1>1, <1>2, <1>3, <1>4, StepFrames

\* Nothing else goes on while a host is being resolved.
LEMMA AskedKept ==
    ASSUME StartInv, [Next]_vars
    PROVE  Asked'
PROOF
<1> USE DEF StartInv
<1>0. UNCHANGED <<config, lists>> BY StepFrames
<1>1. CASE step = "idle" /\ ~AskBootstrap
  <2>1. step' = "idle"
    <3>1. CASE UNCHANGED bootVars BY <1>1, <3>1 DEF bootVars
    <3>2. CASE BuildResolved BY <3>2 DEF BuildResolved, Take
    <3>3. CASE BootNext
      BY <1>1, <3>3, BootSteps DEF Ask, Again, Wait
    <3> QED BY <1>1, <3>1, <3>2, <3>3, StepFrames
  <2> QED BY <2>1 DEF Asked
<1>2. CASE AskBootstrap
  <2>1. /\ Building /\ ~IsLiteral(Upstream) /\ UNCHANGED startVars
        /\ host' = Host(Upstream) /\ addrs' = {} /\ step' # "resolved"
    BY <1>2 DEF AskBootstrap, Named, Resolve
  <2>2. Building' /\ Upstream' = Upstream
    BY <2>1 DEF Building, Upstream, startVars
  <2> QED BY <2>1, <2>2 DEF Asked
<1>3. CASE step # "idle" /\ ~BuildResolved
  <2>1. /\ Building /\ ~IsLiteral(Upstream) /\ host = Host(Upstream)
        /\ addrs \subseteq AddressesOf[host]
        /\ step = "resolved" => addrs # {}
    BY <1>3 DEF Asked
  <2>2. stage = "pool" /\ Len(pool) # Len(config.upstreams)
    <3>1. config.upstreams \in Seq(UpstreamEntries)
      BY <2>1, UpstreamTypes, GivenTypes, ConfigFields
    <3> QED BY <2>1, <3>1, UpstreamTypes DEF Building
  <2>3. ~StageStep /\ ~UseRules /\ ~BuildStep
    BY <1>3, <2>2 DEF StageStep, UseRules, BuildStep, BuildDirect, BuildSystem, Named,
       ReadConfig, LoadCertificate, NoLists, PoolReady, BuildDoh, Listen, ServerFails,
       Shutdown
  <2>4. UNCHANGED <<config, stage, pool>>
    BY <1>0, <2>3, StepFrames
  <2>5. Building' /\ Upstream' = Upstream
    BY <2>1, <2>4 DEF Building, Upstream
  <2>6. CASE UNCHANGED bootVars
    BY <2>1, <2>5, <2>6 DEF Asked, bootVars
  <2>7. CASE BootNext
    <3>1. ASSUME NEW id \in Ids, Ask(id) PROVE Asked'
      BY <2>1, <2>5, <3>1 DEF Ask, Asked
    <3>2. ASSUME NEW found \in SUBSET AddressesOf[host], Over(found) PROVE Asked'
      BY <2>1, <2>5, <3>2 DEF Over, Settled, Asked
    <3>3. CASE Again BY <2>1, <2>5, <3>3 DEF Again, Asked
    <3>4. CASE Wait BY <2>1, <2>5, <3>4 DEF Wait, Asked
    <3> QED BY <2>7, <3>1, <3>2, <3>3, <3>4, BootSteps, Zenon
  <2>8. CASE AskBootstrap BY <1>2, <2>8
  <2> QED BY <1>3, <2>6, <2>7, <2>8, StepFrames
<1>4. CASE BuildResolved
  BY <1>4 DEF BuildResolved, Take, Asked
<1> QED BY <1>1, <1>2, <1>3, <1>4

-----------------------------------------------------------------------------
(* The pool.                                                               *)

\* What Upstream::from_entry may be given for an upstream.
Fit(u, ips) == /\ ips \subseteq {Literal} \cup AddressesOf[Host(u)]
               /\ \A a \in ips : a = Literal <=> IsLiteral(u)
               /\ u.protocol = "plain" \/ ips # {}

\* The upstream built next gets endpoints that fit it; the others keep theirs.
LEMMA BuiltSteps ==
    ASSUME StartInv, BuildStep
    PROVE  /\ Building
           /\ stage' \in {stage, "exit"} /\ up' \in {up, {}}
           /\ \/ UNCHANGED pool
              \/ \E ips : Fit(Upstream, ips) /\ Built(Upstream, ips)
PROOF
<1> USE DEF StartInv
<1>1. CASE BuildDirect
  <2>1. Built(Upstream, {}) /\ Upstream.protocol = "plain" =>
            Fit(Upstream, {}) /\ Built(Upstream, {})
    BY DEF Fit
  <2>2. Built(Upstream, {Literal}) /\ IsLiteral(Upstream) =>
            Fit(Upstream, {Literal}) /\ Built(Upstream, {Literal})
    BY DEF Fit
  <2>3. \/ UNCHANGED pool
        \/ Built(Upstream, {}) /\ Upstream.protocol = "plain"
        \/ Built(Upstream, {Literal}) /\ IsLiteral(Upstream)
    BY <1>1 DEF BuildDirect
  <2>4. \/ UNCHANGED pool
        \/ \E ips : Fit(Upstream, ips) /\ Built(Upstream, ips)
    BY <2>1, <2>2, <2>3, Zenon
  <2> QED BY <1>1, <2>4 DEF BuildDirect, Exit, Go
<1>2. CASE BuildSystem
  <2>1. Building /\ ~IsLiteral(Upstream)
    BY <1>2 DEF BuildSystem, Named
  <2>2. Literal \notin AddressesOf[Host(Upstream)]
    BY <2>1, UpstreamTypes, StartupAssumption
  <2>3. ASSUME NEW ips \in SUBSET AddressesOf[Host(Upstream)], ips # {}
        PROVE  Fit(Upstream, ips)
    BY <2>1, <2>2, <2>3 DEF Fit
  <2>4. \/ UNCHANGED pool
        \/ \E ips : Fit(Upstream, ips) /\ Built(Upstream, ips)
    BY <1>2, <2>3, Zenon DEF BuildSystem
  <2>5. stage' \in {stage, "exit"} /\ up' \in {up, {}}
    BY <1>2 DEF BuildSystem, Exit, Go
  <2> QED BY <2>1, <2>4, <2>5
<1>3. CASE BuildResolved
  <2>1. /\ Building /\ ~IsLiteral(Upstream) /\ addrs \subseteq AddressesOf[Host(Upstream)]
        /\ step = "resolved" => addrs # {}
    BY <1>3 DEF BuildResolved, Take, Asked
  <2>2. Literal \notin AddressesOf[Host(Upstream)]
    BY <2>1, UpstreamTypes, StartupAssumption
  <2>3. step = "resolved" => Fit(Upstream, addrs)
    BY <2>1, <2>2 DEF Fit
  <2>4. \/ UNCHANGED pool
        \/ \E ips : Fit(Upstream, ips) /\ Built(Upstream, ips)
    BY <1>3, <2>3, Zenon DEF BuildResolved
  <2>5. stage' \in {stage, "exit"} /\ up' \in {up, {}}
    BY <1>3 DEF BuildResolved, Exit, Go
  <2> QED BY <2>1, <2>4, <2>5
<1> QED BY <1>1, <1>2, <1>3 DEF BuildStep

LEMMA PoolKept ==
    ASSUME StartInv, [Next]_vars
    PROVE  PoolBuilt' /\ EndpointsOfHost'
PROOF
<1> USE DEF StartInv
<1>0. config' = config BY StepFrames
<1>1. CASE UNCHANGED pool
  BY <1>0, <1>1 DEF PoolBuilt, EndpointsOfHost
<1>2. ASSUME Building, NEW ips, Fit(Upstream, ips), Built(Upstream, ips)
      PROVE  PoolBuilt' /\ EndpointsOfHost'
  <2> DEFINE u == Upstream
             n == Len(pool) + 1
             new == Endpoints(u, ips)
  <2>1. /\ config # None /\ n \in 1 .. Len(config.upstreams) /\ Len(pool) \in Nat
        /\ Host(u) \in DOMAIN AddressesOf
        /\ Port(u) \in {443, 853} \cup Ports
    BY <1>2, UpstreamTypes
  <2>2. pool \in Seq(SUBSET AnyEndpoint) BY DEF PoolBuilt
  <2>3. u = config.upstreams[n] BY DEF Upstream
  <2>4. \A e \in new : /\ e \in AnyEndpoint
                       /\ e.ip \in ips /\ e.port = Port(u)
    <3>1. ips \subseteq {Literal} \cup AllAddresses
      BY <1>2, <2>1, AddressesIncluded DEF Fit
    <3> HIDE DEF u
    <3> QED BY <2>1, <3>1 DEF Endpoints, AnyEndpoint
  <2>5. u.protocol = "plain" \/ new # {}
    BY <1>2 DEF Fit, Endpoints
  <2>6. /\ u.address.port # None => Port(u) = u.address.port
        /\ u.address.port = None /\ u.protocol = "dot" => Port(u) = 853
        /\ u.address.port = None /\ u.protocol = "doh" => Port(u) = 443
    BY <2>1, <2>3, EntryTypes
  <2>7. pool' = Append(pool, new) BY <1>2 DEF Built
  <2> HIDE DEF new, u
  <2>8. new \in SUBSET AnyEndpoint BY <2>4
  <2>9. /\ pool' \in Seq(SUBSET AnyEndpoint)
        /\ Len(pool') = n /\ pool'[n] = new
        /\ \A i \in 1 .. n : i # n => i \in 1 .. Len(pool) /\ pool'[i] = pool[i]
    BY <2>1, <2>2, <2>7, <2>8
  <2>10. PoolBuilt'
    BY <1>0, <2>1, <2>3, <2>5, <2>9 DEF PoolBuilt
  <2>11. \A e \in new : /\ e.ip \in {Literal} \cup AddressesOf[Host(u)]
                        /\ e.ip = Literal <=> IsLiteral(u)
                        /\ u.address.port # None => e.port = u.address.port
                        /\ u.address.port = None /\ u.protocol = "dot" => e.port = 853
                        /\ u.address.port = None /\ u.protocol = "doh" => e.port = 443
    BY <1>2, <2>4, <2>6 DEF Fit, u
  <2>12. EndpointsOfHost'
    <3> SUFFICES ASSUME NEW i \in 1 .. n, NEW e \in pool'[i], NEW w, w = config.upstreams[i]
                 PROVE  /\ e.ip \in {Literal} \cup AddressesOf[Host(w)]
                        /\ e.ip = Literal <=> IsLiteral(w)
                        /\ w.address.port # None => e.port = w.address.port
                        /\ w.address.port = None /\ w.protocol = "dot" => e.port = 853
                        /\ w.address.port = None /\ w.protocol = "doh" => e.port = 443
      BY <1>0, <2>9 DEF EndpointsOfHost
    <3>1. CASE i = n BY <2>3, <2>9, <2>11, <3>1
    <3>2. CASE i # n
      BY <2>2, <2>9, <3>2 DEF EndpointsOfHost
    <3> QED BY <3>1, <3>2
  <2> QED BY <2>10, <2>12
<1> QED BY <1>1, <1>2, StepFrames, BuiltSteps

LEMMA PassedKept ==
    ASSUME StartInv, [Next]_vars
    PROVE  Passed'
PROOF
<1> USE DEF StartInv, Passed, Exit, Go, Stages
<1>0. config' = config BY StepFrames
<1>1. CASE BuildStep
  <2>1. stage = "pool" BY <1>1, BuiltSteps DEF Building
  <2> QED BY <1>0, <1>1, <2>1, BuiltSteps
<1>2. CASE ~BuildStep
  <2>0. pool' = pool BY <1>2, StepFrames
  <2>1. CASE ReadConfig
    <3>1. from_toml(config) = "Ok" => config # None /\ validate(config) = "Ok"
      BY DEF from_toml
    <3> QED BY <1>0, <2>0, <2>1, <3>1 DEF ReadConfig
  <2>2. CASE LoadCertificate BY <1>0, <2>0, <2>2 DEF LoadCertificate
  <2>3. CASE NoLists BY <1>0, <2>0, <2>3 DEF NoLists
  <2>4. CASE PoolReady BY <1>0, <2>0, <2>4 DEF PoolReady
  <2>5. CASE BuildDoh BY <1>0, <2>0, <2>5 DEF BuildDoh
  <2>6. ASSUME NEW s \in {"dot", "doh", "management"}, Listen(s) PROVE Passed'
    BY <1>0, <2>0, <2>6 DEF Listen
  <2>7. CASE ServerFails BY <1>0, <2>0, <2>7 DEF ServerFails
  <2>8. CASE Shutdown BY <1>0, <2>0, <2>8 DEF Shutdown
  <2>9. CASE UseRules BY <1>0, <2>0, <2>9 DEF UseRules
  <2>10. CASE UNCHANGED <<stage, up>> BY <1>0, <2>0, <2>10
  <2> QED BY <1>2, <2>1, <2>2, <2>3, <2>4, <2>5, <2>6, <2>7, <2>8, <2>9, <2>10,
             StepFrames DEF StageStep
<1> QED BY <1>1, <1>2

-----------------------------------------------------------------------------
(* The theorems.                                                           *)

LEMMA StartsInvariant == Init => StartInv
PROOF
<1> SUFFICES ASSUME Init PROVE StartInv OBVIOUS
<1> USE BootstrapAssumption DEF Init, BootInit
<1>1. Given BY DEF Given
<1>2. Passed BY DEF Passed, Stages
<1>3. Rules
  <2>1. lists \in Seq(ListLines) BY <1>1, GivenTypes
  <2> QED BY <2>1, NoLineRead DEF Rules, NoRules
<1>4. BootTypeOK /\ Timers /\ Asked
  BY DEF BootTypeOK, Timers, Asked, Kinds
<1>5. PoolBuilt
  <2>1. config # None => Len(config.upstreams) \in Nat
    BY <1>1, GivenTypes, ConfigFields
  <2> QED BY <2>1 DEF PoolBuilt
<1>6. EndpointsOfHost BY DEF EndpointsOfHost
<1> QED BY <1>1, <1>2, <1>3, <1>4, <1>5, <1>6 DEF StartInv

\* What holds in every state of a start, whatever the configuration, the lists
\* and the network.
LEMMA StartInvariance == Spec => []StartInv
PROOF
<1>1. ASSUME StartInv, [Next]_vars PROVE StartInv'
  <2>1. Given' /\ Rules' BY <1>1, GivenKept, RulesKept DEF StartInv
  <2>2. Passed' BY <1>1, PassedKept
  <2>3. BootTypeOK' /\ Timers' BY <1>1, BootKept
  <2>4. Asked' BY <1>1, AskedKept
  <2>5. PoolBuilt' /\ EndpointsOfHost' BY <1>1, PoolKept
  <2> QED BY <2>1, <2>2, <2>3, <2>4, <2>5 DEF StartInv
<1> QED BY <1>1, StartsInvariant, PTL DEF Spec

\* The variables of the start have their types; in particular a bootstrap query is
\* given up before twice its deadline.
THEOREM StartTypeCorrect == Spec => []TypeOK
PROOF
<1>1. StartInv => TypeOK
  <2> SUFFICES ASSUME StartInv PROVE TypeOK OBVIOUS
  <2>1. lists \in Seq(ListLines) BY GivenTypes DEF StartInv
  <2>2. {fresh.total, engine.total} \subseteq 0 .. line
    BY <2>1 DEF StartInv, Rules, NoRules
  <2> QED BY <2>2 DEF StartInv, TypeOK, Passed, Rules, PoolBuilt
<1> QED BY <1>1, StartInvariance, PTL

LEMMA AtMost ==
    ASSUME NEW x \in Nat, NEW n \in Nat, ~(x > n)
    PROVE  x \in 0 .. n
PROOF OBVIOUS

\* A daemon that listens has a configuration none of its later steps chokes on:
\* what Config::validate lets pass, with a certificate, and with an address for
\* every encrypted upstream.
THEOREM ServesOnlySound == Spec => []ServesSound
PROOF
<1>1. StartInv => ServesSound
  <2> SUFFICES ASSUME StartInv, stage \in {"run", "serving"}
               PROVE  /\ config.blocklist.refresh_interval # 0
                      /\ config.edns.client_subnet.ipv4_prefix \in 0 .. 32
                      /\ config.edns.client_subnet.ipv6_prefix \in 0 .. 128
                      /\ config.management # "public"
                      /\ config.cert_path /\ config.key_path
                      /\ Len(pool) = Len(config.upstreams) /\ pool # <<>>
                      /\ \A i \in DOMAIN pool :
                             /\ config.upstreams[i].timeout > 0
                             /\ \/ config.upstreams[i].protocol = "plain"
                                \/ pool[i] # {}
    BY DEF ServesSound
  <2> USE DEF StartInv
  <2>1. /\ config # None /\ validate(config) = "Ok" /\ config.cert_path
        /\ Len(pool) = Len(config.upstreams)
    BY DEF Passed
  <2>2. /\ config.cert_path \in BOOLEAN /\ config.key_path \in BOOLEAN
        /\ config.upstreams \in Seq(UpstreamEntries)
        /\ config.edns.client_subnet.ipv4_prefix \in Nat
        /\ config.edns.client_subnet.ipv6_prefix \in Nat
    BY <2>1, GivenTypes, ConfigFields
  <2>3. /\ config.upstreams # <<>>
        /\ \A i \in DOMAIN config.upstreams : config.upstreams[i].timeout # 0
        /\ config.cert_path = config.key_path
        /\ config.management # "public"
        /\ config.blocklist.refresh_interval # 0
        /\ ~(config.edns.client_subnet.ipv4_prefix > 32)
        /\ ~(config.edns.client_subnet.ipv6_prefix > 128)
    BY <2>1, ValidMeans
  <2>4. /\ config.edns.client_subnet.ipv4_prefix \in 0 .. 32
        /\ config.edns.client_subnet.ipv6_prefix \in 0 .. 128
    <3>1. 32 \in Nat /\ 128 \in Nat OBVIOUS
    <3> QED BY <2>2, <2>3, <3>1, AtMost, Zenon
  <2>5. pool \in Seq(SUBSET AnyEndpoint) BY DEF PoolBuilt
  <2>6. /\ DOMAIN pool = 1 .. Len(pool)
        /\ DOMAIN config.upstreams = 1 .. Len(config.upstreams)
    BY <2>2, <2>5
  <2>7. pool # <<>>
    BY <2>1, <2>2, <2>3, <2>5, EmptySeq
  <2>8. ASSUME NEW i \in DOMAIN pool
         PROVE  /\ config.upstreams[i].timeout > 0
                /\ config.upstreams[i].protocol = "plain" \/ pool[i] # {}
    <3>1. i \in 1 .. Len(config.upstreams) BY <2>1, <2>6
    <3>2. config.upstreams[i] \in UpstreamEntries BY <2>2, <3>1, ElementOfSeq
    <3>3. config.upstreams[i].timeout \in Nat BY <3>2, EntryFields
    <3>4. config.upstreams[i].timeout # 0 BY <2>3, <2>6, <3>1
    <3> QED BY <2>6, <3>3, <3>4 DEF PoolBuilt
  <2> QED BY <2>1, <2>3, <2>4, <2>7, <2>8
<1> QED BY <1>1, StartInvariance, PTL

\* Whatever arrives on the bootstrap sockets, an upstream is given addresses of its
\* own host only, on the port written or that of its protocol.
THEOREM EndpointsCorrect == Spec => []EndpointsOfHost
PROOF
<1>1. StartInv => EndpointsOfHost BY DEF StartInv
<1> QED BY <1>1, StartInvariance, PTL

\* At every moment and for names of any length, an engine in use, which is one made
\* of lists read to their end, blocks what the lists block and do not except.
VerdictsOnAnyName ==
    engine # NoRules =>
        \A name \in Seq(Chars) :
            decide(engine, name) = "Block" <=>
                /\ Listed(lists, name, IsBlock)
                /\ ~Listed(lists, name, IsException)

THEOREM VerdictsCorrectOnAnyName == Spec => []VerdictsOnAnyName
PROOF
<1>1. StartInv => VerdictsOnAnyName
  <2> SUFFICES ASSUME StartInv, engine # NoRules, NEW name \in Seq(Chars)
               PROVE  decide(engine, name) = "Block" <=>
                          /\ Listed(lists, name, IsBlock)
                          /\ ~Listed(lists, name, IsException)
    BY DEF VerdictsOnAnyName
  <2> USE DEF StartInv, Rules
  <2> DEFINE n == normalize_domain(name)
  <2>0. lists \in Seq(ListLines) BY GivenTypes
  <2>1. decide(engine, name) = "Block" <=>
            ~rule_matches(engine.exceptions, n) /\ rule_matches(engine.blocks, n)
    BY DEF decide
  <2>2. /\ engine.blocks = BlocksTo(lists, Len(lists))
        /\ engine.exceptions = ExceptionsTo(lists, Len(lists))
    OBVIOUS
  <2> QED BY <2>0, <2>1, <2>2, MatchesListed
<1> QED BY <1>1, StartInvariance, PTL

\* In particular on the names of bounded length that are enumerated by the run.
THEOREM VerdictsCorrect == Spec => []VerdictsMeetReference
PROOF
<1>1. Names(4) \subseteq Seq(Chars)
  <2>1. ASSUME NEW k \in 0 .. 4, NEW name \in [1 .. k -> Chars]
        PROVE  name \in Seq(Chars)
    BY SeqDef
  <2> QED BY <2>1, Zenon DEF Names
<1>2. VerdictsOnAnyName => VerdictsMeetReference
  BY <1>1 DEF VerdictsOnAnyName, VerdictsMeetReference
<1> QED BY <1>2, VerdictsCorrectOnAnyName, PTL

-----------------------------------------------------------------------------
(* StatsFile: the inductive invariant.                                     *)

\* At most one save is under way, and none outlives the process.
OneSaver == /\ \A s, t \in Savers : pc[s] # "idle" /\ pc[t] # "idle" => s = t
            /\ proc = "down" => \A s \in Savers : pc[s] = "idle"

\* What the names refer to.
NamesHold == /\ tmp # NoFile => tmp # path
             /\ IF path = NoFile THEN saved = 0 ELSE body[path] = saved

\* What a save has done so far, all of it to the temporary file.
Progress ==
    \A s \in Savers :
        /\ pc[s] = "write" => /\ tmp # NoFile /\ fd[s] = tmp
                              /\ body[tmp] = NoValue
        /\ pc[s] = "rename" => tmp # NoFile /\ body[tmp] = snap[s]

\* Snapshots follow the counter, and so do saves, unless the file was not read.
Monotone == /\ ~unread /\ proc # "down" => saved <= count
            /\ \A s \in Savers :
                  pc[s] # "idle" => snap[s] <= count /\ (~unread => saved <= snap[s])

Orderly == OneSaver /\ NamesHold /\ Progress /\ Monotone

StatsInv == StatsTypeOK /\ (~overlap => Orderly)

-----------------------------------------------------------------------------
(* Types.                                                                  *)

LEMMA WrittenTypes ==
    ASSUME NEW u, NEW v \in Values, NEW w \in Overwritten(u, v)
    PROVE  /\ w \in Values \cup {Garbage}
           /\ u = NoValue => w = v
PROOF BY StatsAssumption DEF Overwritten

LEMMA StatsInitTypes == StatsInit => StatsTypeOK
PROOF
<1> SUFFICES ASSUME StatsInit PROVE StatsTypeOK OBVIOUS
<1>1. 0 \in Values BY StatsAssumption DEF Values
<1> QED BY <1>1 DEF StatsInit, StatsTypeOK

LEMMA StatsNextTypes ==
    ASSUME StatsTypeOK, [StatsNext]_statsVars
    PROVE  StatsTypeOK'
PROOF
<1> USE StatsAssumption DEF StatsTypeOK
<1>0. 0 \in Values BY DEF Values
<1>1. CASE Load BY <1>0, <1>1 DEF Load, Parses
<1>2. CASE Count
  <2>1. count + 1 \in Values BY <1>2 DEF Count, Values
  <2> QED BY <1>2, <2>1 DEF Count, disk, history
<1>3. CASE Periodic \/ Signal
  <2>1. PICK s \in Savers : Begin(s) BY <1>3 DEF Periodic, Signal, Savers
  <2>2. pc' \in [Savers -> {"idle", "open", "write", "rename"}]
        /\ snap' \in [Savers -> Values]
    BY <2>1 DEF Begin
  <2>3. overlap' \in BOOLEAN BY <2>1, Zenon DEF Begin
  <2> QED BY <1>3, <2>1, <2>2, <2>3 DEF Periodic, Signal, Begin, disk
<1>4. CASE Return BY <1>0, <1>4 DEF Return, disk, history
<1>5. CASE Crash BY <1>0, <1>5 DEF Crash, disk
<1>6. ASSUME NEW s \in Savers, Open(s) PROVE StatsTypeOK'
  BY <1>6 DEF Open, history
<1>7. ASSUME NEW s \in Savers, Write(s) PROVE StatsTypeOK'
  <2>1. PICK v \in Overwritten(body[fd[s]], snap[s]) : body' = [body EXCEPT ![fd[s]] = v]
    BY <1>7 DEF Write
  <2>2. v \in Values \cup {Garbage} BY <2>1, WrittenTypes
  <2> QED BY <1>7, <2>1, <2>2 DEF Write, history
<1>8. ASSUME NEW s \in Savers, Rename(s) PROVE StatsTypeOK'
  BY <1>0, <1>8 DEF Rename, Finish
<1>9. ASSUME NEW s \in Savers, RenameGone(s) \/ Fail(s) PROVE StatsTypeOK'
  <2>1. Finish(s) /\ UNCHANGED <<proc, count, disk, saved, graceful, overlap, unread>>
    BY <1>9 DEF RenameGone, Fail, history
  <2>2. /\ pc' \in [Savers -> {"idle", "open", "write", "rename"}]
        /\ snap' \in [Savers -> Values]
        /\ fd' \in [Savers -> Files \cup {NoFile}]
    BY <1>0, <2>1 DEF Finish
  <2>3. io_error' \in BOOLEAN BY <1>9 DEF RenameGone, Fail, history
  <2> QED BY <2>1, <2>2, <2>3 DEF disk
<1>10. CASE UNCHANGED statsVars BY <1>10 DEF statsVars
<1> QED BY <1>1, <1>2, <1>3, <1>4, <1>5, <1>6, <1>7, <1>8, <1>9, <1>10 DEF StatsNext

-----------------------------------------------------------------------------
(* The steps, as long as saves do not overlap.                             *)

LEMMA StatsInitOrderly == StatsInit => Orderly
PROOF BY DEF StatsInit, Orderly, OneSaver, NamesHold, Progress, Monotone

\* A start loads what the latest save has written, or leaves it unread.
LEMMA LoadStep ==
    ASSUME StatsTypeOK, Orderly, Load
    PROVE  Orderly'
PROOF
<1> USE DEF Orderly
<1>1. /\ proc = "down" /\ proc' = "running"
      /\ UNCHANGED <<pc, snap, fd, tmp, body, saved>>
  BY DEF Load
<1>2. \A s \in Savers : pc[s] = "idle" BY <1>1 DEF OneSaver
<1>3. path' = path /\ (~unread' => count' = saved)
  <2>1. CASE path = NoFile BY <2>1 DEF Load, NamesHold
  <2>2. CASE path # NoFile
    <3>1. Parses(path) /\ body[path] = saved BY <2>2 DEF NamesHold, Parses, StatsTypeOK
    <3> QED BY <2>2, <3>1 DEF Load
  <2> QED BY <2>1, <2>2
<1>4. saved \in Int BY StatsAssumption DEF StatsTypeOK, Values
<1>5. OneSaver' BY <1>1, <1>2 DEF OneSaver
<1>6. NamesHold' BY <1>1, <1>3 DEF NamesHold
<1>7. Progress' BY <1>1, <1>2 DEF Progress
<1>8. Monotone' BY <1>1, <1>2, <1>3, <1>4 DEF Monotone
<1> QED BY <1>5, <1>6, <1>7, <1>8

LEMMA CountStep ==
    ASSUME StatsTypeOK, Orderly, Count
    PROVE  Orderly'
PROOF
<1> USE DEF Orderly
<1>1. /\ count' = count + 1
      /\ UNCHANGED <<proc, pc, snap, fd, tmp, path, body, saved, unread>>
  BY DEF Count, disk, history
<1>2. count \in Int /\ saved \in Int /\ \A s \in Savers : snap[s] \in Int
  BY StatsAssumption DEF StatsTypeOK, Values
<1>3. OneSaver' /\ NamesHold' /\ Progress' BY <1>1 DEF OneSaver, NamesHold, Progress
<1>4. Monotone' BY <1>1, <1>2 DEF Monotone
<1> QED BY <1>3, <1>4

\* A save begins while no other is under way.
LEMMA BeginStep ==
    ASSUME StatsTypeOK, Orderly, Periodic \/ Signal, ~overlap'
    PROVE  Orderly'
PROOF
<1> USE DEF Orderly
<1>1. PICK s \in Savers : Begin(s) BY DEF Periodic, Signal, Savers
<1>2. proc # "down" /\ proc' # "down" BY DEF Periodic, Signal
<1>3. /\ pc' = [pc EXCEPT ![s] = "open"] /\ snap' = [snap EXCEPT ![s] = count]
      /\ \A other \in Savers : pc[other] = "idle"
      /\ UNCHANGED <<count, fd, tmp, path, body, saved, unread>>
  BY <1>1 DEF Begin, disk
<1>4. /\ \A t \in Savers : pc'[t] = IF t = s THEN "open" ELSE "idle"
      /\ snap'[s] = count
  BY <1>3 DEF StatsTypeOK
<1>5. count \in Int BY StatsAssumption DEF StatsTypeOK, Values
<1>6. OneSaver' BY <1>2, <1>4 DEF OneSaver
<1>7. NamesHold' BY <1>3 DEF NamesHold
<1>8. Progress' BY <1>4 DEF Progress
<1>9. Monotone' BY <1>2, <1>3, <1>4, <1>5 DEF Monotone
<1> QED BY <1>6, <1>7, <1>8, <1>9

\* The temporary file is created or truncated: never the one that was saved.
LEMMA OpenStep ==
    ASSUME StatsTypeOK, Orderly, NEW s \in Savers, Open(s)
    PROVE  Orderly'
PROOF
<1> USE StatsAssumption DEF Orderly
<1>1. PICK f \in Files : /\ IF tmp = NoFile THEN Free(f) ELSE f = tmp
                         /\ fd' = [fd EXCEPT ![s] = f]
                         /\ body' = [body EXCEPT ![f] = NoValue]
                         /\ tmp' = IF tmp = NoFile THEN f ELSE tmp
  BY DEF Open, Target
<1>2. /\ pc[s] = "open" /\ pc' = [pc EXCEPT ![s] = "write"]
      /\ UNCHANGED <<proc, count, snap, path, saved, unread>>
  BY DEF Open, history
<1>3. tmp' = f /\ f # path /\ f # NoFile BY <1>1 DEF Free, NamesHold
<1>4. /\ \A t \in Savers : pc'[t] = IF t = s THEN "write" ELSE "idle"
      /\ \A t \in Savers \ {s} : pc[t] = "idle"
  BY <1>2 DEF OneSaver, StatsTypeOK
<1>5. fd'[s] = f /\ body'[f] = NoValue /\ (path # NoFile => body'[path] = body[path])
  BY <1>1, <1>3 DEF StatsTypeOK
<1>6. OneSaver' BY <1>2, <1>4 DEF OneSaver
<1>7. NamesHold' BY <1>2, <1>3, <1>5 DEF NamesHold
<1>8. Progress' BY <1>3, <1>4, <1>5 DEF Progress
<1>9. Monotone' BY <1>2, <1>4 DEF Monotone
<1> QED BY <1>6, <1>7, <1>8, <1>9

\* The snapshot is written to an empty file, so nothing of an older text stays.
LEMMA WriteStep ==
    ASSUME StatsTypeOK, Orderly, NEW s \in Savers, Write(s)
    PROVE  Orderly'
PROOF
<1> USE StatsAssumption DEF Orderly
<1>1. /\ pc[s] = "write" /\ pc' = [pc EXCEPT ![s] = "rename"]
      /\ UNCHANGED <<proc, count, snap, tmp, path, saved, unread>>
  BY DEF Write, history
<1>2. tmp # NoFile /\ fd[s] = tmp /\ body[tmp] = NoValue /\ tmp \in Files
  BY <1>1 DEF Progress, StatsTypeOK
<1>3. body' = [body EXCEPT ![tmp] = snap[s]]
  <2>1. PICK v \in Overwritten(body[fd[s]], snap[s]) : body' = [body EXCEPT ![fd[s]] = v]
    BY DEF Write
  <2>2. snap[s] \in Values BY DEF StatsTypeOK
  <2>3. v = snap[s] BY <1>2, <2>1, <2>2, WrittenTypes
  <2> QED BY <1>2, <2>1, <2>3
<1>4. /\ \A t \in Savers : pc'[t] = IF t = s THEN "rename" ELSE "idle"
      /\ \A t \in Savers \ {s} : pc[t] = "idle"
  BY <1>1 DEF OneSaver, StatsTypeOK
<1>5. body'[tmp] = snap[s] /\ (path # NoFile => body'[path] = body[path])
  BY <1>2, <1>3 DEF NamesHold, StatsTypeOK
<1>6. OneSaver' BY <1>1, <1>4 DEF OneSaver
<1>7. NamesHold' BY <1>1, <1>5 DEF NamesHold
<1>8. Progress' BY <1>1, <1>2, <1>4, <1>5 DEF Progress
<1>9. Monotone' BY <1>1, <1>4 DEF Monotone
<1> QED BY <1>6, <1>7, <1>8, <1>9

\* The save is over, with the rename or without it.
LEMMA FinishStep ==
    ASSUME StatsTypeOK, Orderly, NEW s \in Savers, Rename(s) \/ RenameGone(s) \/ Fail(s)
    PROVE  Orderly'
PROOF
<1> USE StatsAssumption DEF Orderly
<1>1. /\ pc[s] # "idle" /\ pc' = [pc EXCEPT ![s] = "idle"]
      /\ UNCHANGED <<proc, count, body>>
  BY DEF Rename, RenameGone, Fail, Finish, disk
<1>2. \A t \in Savers : pc'[t] = "idle" BY <1>1 DEF OneSaver, StatsTypeOK
<1>3. OneSaver' /\ Progress' BY <1>2 DEF OneSaver, Progress
<1>4. CASE Rename(s)
  <2>1. /\ pc[s] = "rename" /\ path' = tmp /\ tmp' = NoFile /\ saved' = snap[s]
    BY <1>4 DEF Rename
  <2>2. tmp # NoFile /\ body[tmp] = snap[s] BY <2>1 DEF Progress
  <2>3. NamesHold' BY <1>1, <2>1, <2>2 DEF NamesHold
  <2>4. Monotone' BY <1>1, <1>2, <2>1 DEF Monotone
  <2> QED BY <1>3, <2>3, <2>4
<1>5. CASE RenameGone(s) \/ Fail(s)
  <2>1. UNCHANGED <<tmp, path, saved, unread>> BY <1>5 DEF RenameGone, Fail, disk, history
  <2>2. NamesHold' BY <1>1, <2>1 DEF NamesHold
  <2>3. Monotone' BY <1>1, <1>2, <2>1 DEF Monotone
  <2> QED BY <1>3, <2>2, <2>3
<1> QED BY <1>4, <1>5

\* The process ends, one way or the other; the files stay.
LEMMA DownStep ==
    ASSUME StatsTypeOK, Orderly, Return \/ Crash
    PROVE  Orderly'
PROOF
<1> USE DEF Orderly
<1>1. /\ proc' = "down" /\ UNCHANGED <<tmp, path, body, saved>>
      /\ \A s \in Savers : pc'[s] = "idle"
  BY DEF Return, Crash, disk, history
<1> QED BY <1>1 DEF OneSaver, NamesHold, Progress, Monotone

-----------------------------------------------------------------------------
LEMMA StatsInitInv == StatsInit => StatsInv
PROOF BY StatsInitTypes, StatsInitOrderly DEF StatsInv

LEMMA StatsNextInv ==
    ASSUME StatsInv, [StatsNext]_statsVars
    PROVE  StatsInv'
PROOF
<1>1. StatsTypeOK /\ StatsTypeOK' BY StatsNextTypes DEF StatsInv
<1>2. SUFFICES ASSUME ~overlap' PROVE Orderly' BY <1>1 DEF StatsInv
<1>3. ~overlap
  BY <1>2 DEF StatsNext, statsVars, Load, Count, Periodic, Signal, Begin, Return, Crash, Open,
              Write, Rename, RenameGone, Fail, history
<1>4. Orderly BY <1>3 DEF StatsInv
<1>5. CASE UNCHANGED statsVars
  BY <1>4, <1>5 DEF statsVars, Orderly, OneSaver, NamesHold, Progress, Monotone
<1>6. CASE StatsNext
  BY <1>1, <1>2, <1>4, <1>6, LoadStep, CountStep, BeginStep, OpenStep, WriteStep,
     FinishStep, DownStep DEF StatsNext
<1> QED BY <1>5, <1>6

LEMMA StatsInvariance == StatsSpec => []StatsInv
PROOF BY StatsInitInv, StatsNextInv, PTL DEF StatsSpec

\* Whatever is loaded, saved, lost or overwritten is a counter value, and the
\* names only ever refer to files: load_stats never takes an empty or garbled
\* file for counters.
THEOREM StatsTypeCorrect == StatsSpec => []StatsTypeOK
PROOF
<1>1. StatsInv => StatsTypeOK BY DEF StatsInv
<1> QED BY <1>1, StatsInvariance, PTL

\* save_stats, load_stats and a crash anywhere between their steps: as long as
\* the periodic save and the save at shutdown do not overlap, a counter never
\* falls below its latest save that went well, except in a process that could not
\* read the file at its start and has not saved since.
THEOREM CountersAreKept == StatsSpec => []CountersNeverFallBack
PROOF
<1>1. StatsInv => CountersNeverFallBack
  BY StatsAssumption DEF StatsInv, Orderly, Monotone, CountersNeverFallBack, StatsTypeOK, Values
<1> QED BY <1>1, StatsInvariance, PTL

\* As long as saves do not overlap, the file that the next start would load is
\* complete at every moment, in the middle of a save and after a start that could
\* not read it too: it holds the latest save that went well, and there is no file
\* only before the first one.
THEOREM FileIsTheLatestSave ==
    StatsSpec => [](~overlap => IF path = NoFile THEN saved = 0 ELSE body[path] = saved)
PROOF
<1>1. StatsInv => (~overlap => IF path = NoFile THEN saved = 0 ELSE body[path] = saved)
  BY DEF StatsInv, Orderly, NamesHold
<1> QED BY <1>1, StatsInvariance, PTL

\* What the shutdown saved is in the file or under a newer save.
Survives == graceful # NoValue => path # NoFile /\ graceful <= saved /\ ~unread

LEMMA SurvivesStep ==
    ASSUME StatsInv, Survives, [StatsNext]_statsVars, ~overlap
    PROVE  Survives'
PROOF
<1> USE StatsAssumption DEF Survives
<1>1. StatsTypeOK /\ Orderly BY DEF StatsInv
<1>2. CASE Load \/ Crash BY <1>2 DEF Load, Crash
<1>3. CASE Count \/ Return \/ UNCHANGED statsVars
  BY <1>3 DEF Count, Return, statsVars, disk, history
<1>4. CASE Periodic \/ Signal BY <1>4 DEF Periodic, Signal, Begin, disk
<1>5. ASSUME NEW s \in Savers, Open(s) \/ Write(s) \/ RenameGone(s) \/ Fail(s)
      PROVE  Survives'
  BY <1>5 DEF Open, Write, RenameGone, Fail, disk, history
<1>6. ASSUME NEW s \in Savers, Rename(s) PROVE Survives'
  <2>1. /\ pc[s] = "rename" /\ tmp # NoFile /\ path' = tmp /\ saved' = snap[s]
        /\ graceful' \in {graceful, snap[s]} /\ ~unread'
    BY <1>6 DEF Rename
  <2>2. ~unread => saved <= snap[s] BY <1>1, <2>1 DEF Orderly, Monotone
  <2>3. saved \in Int /\ snap[s] \in Int /\ (graceful # NoValue => graceful \in Int)
    BY <1>1 DEF StatsTypeOK, Values
  <2> QED BY <2>1, <2>2, <2>3
<1> QED BY <1>2, <1>3, <1>4, <1>5, <1>6 DEF StatsNext

\* The file a graceful shutdown leaves, and any that replaces it before the next
\* start, holds at least the counters the shutdown saved: the ticker, which runs
\* until the process ends, can only save newer ones.  This again is for saves that
\* do not overlap; ShutdownSave.cfg has the counterexample for those that do.
THEOREM ShutdownSaveKept ==
    StatsSpec => [](~overlap /\ graceful # NoValue =>
                        path # NoFile /\ body[path] \in Values /\ body[path] >= graceful)
PROOF
<1> DEFINE Kept == ~overlap => Survives
<1>1. StatsInit => Kept BY DEF StatsInit, Survives
<1>2. ASSUME StatsInv, Kept, [StatsNext]_statsVars PROVE Kept'
  <2>1. overlap => overlap'
    BY <1>2 DEF StatsNext, statsVars, Load, Count, Periodic, Signal, Begin, Return, Crash,
                Open, Write, Rename, RenameGone, Fail, history
  <2> QED BY <1>2, <2>1, SurvivesStep
<1>3. StatsInv /\ Kept => (~overlap /\ graceful # NoValue =>
                               path # NoFile /\ body[path] \in Values /\ body[path] >= graceful)
  <2> SUFFICES ASSUME StatsInv, Survives, ~overlap, graceful # NoValue
               PROVE  path # NoFile /\ body[path] \in Values /\ body[path] >= graceful
    OBVIOUS
  <2>1. path # NoFile /\ graceful <= saved /\ body[path] = saved
    BY DEF Survives, StatsInv, Orderly, NamesHold
  <2> QED BY <2>1, StatsAssumption DEF StatsInv, StatsTypeOK, Values
<1> QED BY <1>1, <1>2, <1>3, StatsInvariance, PTL DEF StatsSpec
=============================================================================
