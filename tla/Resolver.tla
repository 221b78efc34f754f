------------------------------ MODULE Resolver ------------------------------
(***************************************************************************)
(* The path of a query through the server: resolve_with_context in         *)
(* src/src/server.rs, run by many connection handlers at once, over the    *)
(* cache (Cache.tla), the coalescing of upstream queries (the abstract     *)
(* SingleFlight.tla, which PendingQueries.tla implements) and the          *)
(* blocklist rules, which a reload swaps at any time.  What goes upstream  *)
(* is the query with the client's subnet (ClientSubnet.tla).               *)
(*                                                                         *)
(* The verdict of the blocklist, the cache lookup, the wait and the cache  *)
(* insert are separate accesses to shared state, so each is a step; the    *)
(* code between two of them touches nothing but counters.  The pending map *)
(* is keyed by the whole query message, the cache by a part of it; there   *)
(* is one cache, but a pending map for DoT and one for DoH, so a request   *)
(* of each server may ask the same question and insert what it hears.      *)
(***************************************************************************)
EXTENDS ClientSubnet, FiniteSets

CONSTANTS Requests,
          DohRequests,       \* those of the DoH server: hyper may drop their future
          Arrivals,          \* queries, each with the address of its client
          EdnsConfigs,       \* settings of the client subnet option
          Questions,         \* queries as they go upstream
          Keys,              \* cache keys
          RuleSets,          \* what the lists may block
          Answers,           \* upstream responses, by the TTLs of their records
          Blocked,           \* the response make_blocked_response builds
          Capacity, MinTtl, MaxTtl, TicksPerSecond,
          MaxTime,           \* bound: length of a behaviour in clock ticks
          MaxEvictions,      \* bound: evictions in a behaviour
          MaxQueries,        \* bound: queries in a behaviour
          MaxReloads,        \* bound: blocklist reloads in a behaviour
          NoLimit, NoEntry, NoReply, NoKey, NoOutcome, TimedOut, UpstreamError,
          NoAnswer

VARIABLES now, entries, cache_entries, cache_evictions, served, learned,
          asking, aloft, ready, reply,
          rules,             \* the domains the blocklist engine blocks
          version,           \* history: reloads so far
          pc,                \* where each request stands
          edns,              \* config.edns
          asked,             \* what each request was asked, and by whom
          verdict,           \* what the blocklist said of it
          ruled_by,          \* history: the version of the rules that said so
          source,            \* history: ruled_by of the insert behind an entry
          out,               \* the response the latest step sends
          total_queries, blocked_queries, cache_hits, cache_misses,
          heard              \* history: what upstream answered, by cache key

cacheVars  == <<now, entries, cache_entries, cache_evictions, served, learned>>
flightVars == <<asking, aloft, ready, reply>>
ruleVars   == <<rules, version>>
localVars  == <<asked, verdict, ruled_by>>
counters   == <<total_queries, blocked_queries, cache_hits, cache_misses>>
vars == <<edns, cacheVars, flightVars, ruleVars, pc, localVars, source, out,
          counters, heard>>

Cache == INSTANCE Cache WITH Messages <- Answers \cup {Blocked}

\* The pending map a request joins, and what such a map is asked.
MapOf(r) == IF r \in DohRequests THEN "doh" ELSE "dot"
Flights == {"dot", "doh"} \X Questions

Pending == INSTANCE SingleFlight
               WITH Keys <- Flights, Droppable <- DohRequests,
                    Outcomes <- Answers \cup {UpstreamError}

\* Mutant: the cache does not tell subnets apart.
CacheKey_NoSubnet(q) == CHOOSE k \in Keys : k.name = q.name

\* CacheKey::from_message.  The name stands for the type, class and flags too.
CacheKey(q) == [name |-> q.name, ecs |-> q.ecs]

ASSUME ResolverAssumption ==
    /\ \A a \in Arrivals : /\ {"name", "ecs"} \subseteq DOMAIN a.query
                           /\ \/ a.ip = NoEcs
                              \/ a.ip.family \in Families /\ a.ip.bits \in Nat
    /\ \A e \in EdnsConfigs, f \in Families : e.prefix[f] \in 0 .. Width[f]
    /\ \A a \in Arrivals, e \in EdnsConfigs :
           query_with_ecs(a.query, a.ip, e) \in Questions
    /\ \A q \in Questions : CacheKey(q) \in Keys
    /\ NoKey \notin Flights
    /\ Blocked \notin Answers
    /\ UpstreamError \notin Answers
    /\ MaxQueries \in Nat /\ MaxReloads \in Nat
    /\ IsFiniteSet(Requests)
    /\ Cache!CacheAssumption

Responses == [asked : Arrivals, verdict : {"allow", "block"},
              ruled_by : 0 .. MaxReloads, code : {"NoError", "ServFail"},
              from_cache : BOOLEAN, message : Answers \cup {Blocked, NoReply}]

TypeOK == /\ Cache!TypeOK
          /\ Pending!TypeOK
          /\ rules \in RuleSets
          /\ edns \in EdnsConfigs
          /\ version \in 0 .. MaxReloads
          /\ pc \in [Requests -> {"idle", "lookup", "missed", "waiting"}]
          /\ asked \in [Requests -> Arrivals \cup {NoKey}]
          /\ verdict \in [Requests -> {"allow", "block"}]
          /\ ruled_by \in [Requests -> 0 .. MaxReloads]
          /\ source \in [Keys -> 0 .. MaxReloads]
          /\ out \in Responses \cup {NoAnswer}
          /\ total_queries \in 0 .. MaxQueries
          /\ {blocked_queries, cache_hits + cache_misses} \subseteq 0 .. total_queries
          /\ heard \in [Keys -> SUBSET Answers]

Init == /\ Cache!Init
        /\ Pending!Init
        /\ edns \in EdnsConfigs
        /\ rules \in RuleSets
        /\ version = 0
        /\ pc = [r \in Requests |-> "idle"]
        /\ asked = [r \in Requests |-> NoKey]
        /\ verdict = [r \in Requests |-> "allow"]
        /\ ruled_by = [r \in Requests |-> 0]
        /\ source = [k \in Keys |-> 0]
        /\ out = NoAnswer
        /\ total_queries = 0
        /\ blocked_queries = 0
        /\ cache_hits = 0
        /\ cache_misses = 0
        /\ heard = [k \in Keys |-> {}]

-----------------------------------------------------------------------------
\* The query that goes upstream, and its cache key.
upstream_query(r) == query_with_ecs(asked[r].query, asked[r].ip, edns)
key(r) == CacheKey(upstream_query(r))

\* The response to r.
Response(r, code, from_cache, m) ==
    [asked |-> asked[r], verdict |-> verdict[r], ruled_by |-> ruled_by[r],
     code |-> code, from_cache |-> from_cache, message |-> m]

\* A step that leaves the cache alone; its latest reply is not looked at again.
CacheIdle == /\ served' = NoReply
             /\ UNCHANGED <<now, entries, cache_entries, cache_evictions, learned>>

\* r is done, and its locals are gone.
Finish(r) == /\ pc' = [pc EXCEPT ![r] = "idle"]
             /\ asked' = [asked EXCEPT ![r] = NoKey]
             /\ verdict' = [verdict EXCEPT ![r] = "allow"]
             /\ ruled_by' = [ruled_by EXCEPT ![r] = 0]

\* record_query
RecordQuery == total_queries < MaxQueries /\ total_queries' = total_queries + 1

\* blocklist.decide: the rules as they are now.
Decide(a) == a.query.name \in rules

\* Mutant: a blocked query is counted by the caller too.
RecordBlocked_Twice(a) ==
    blocked_queries' = blocked_queries + (IF Decide(a) THEN 2 ELSE 0)

\* record_blocked
RecordBlocked(a) ==
    blocked_queries' = blocked_queries + (IF Decide(a) THEN 1 ELSE 0)

\* A query arrives, is counted, and the blocklist decides on it.
Arrive(r, a) ==
    /\ pc[r] = "idle"
    /\ pc' = [pc EXCEPT ![r] = "lookup"]
    /\ asked' = [asked EXCEPT ![r] = a]
    /\ RecordQuery
    /\ verdict' = [verdict EXCEPT ![r] = IF Decide(a) THEN "block" ELSE "allow"]
    /\ RecordBlocked(a)
    /\ ruled_by' = [ruled_by EXCEPT ![r] = version]
    /\ out' = NoAnswer
    /\ CacheIdle
    /\ UNCHANGED <<flightVars, ruleVars, source, cache_hits, cache_misses,
                   heard>>

\* cache.get has the answer: blocked or not, the request is served from it.
Hit(r) ==
    /\ pc[r] = "lookup"
    /\ Cache!GetHit(key(r))
    /\ cache_hits' = cache_hits + 1
    /\ out' = Response(r, "NoError", TRUE, served'.message)
    /\ Finish(r)
    /\ UNCHANGED <<flightVars, ruleVars, source, total_queries, blocked_queries,
                   cache_misses, heard>>

\* cache.get has nothing.
Miss(r) ==
    /\ pc[r] = "lookup"
    /\ Cache!GetAbsent(key(r)) \/ Cache!GetExpired(key(r))
    /\ cache_misses' = cache_misses + 1
    /\ pc' = [pc EXCEPT ![r] = "missed"]
    /\ out' = NoAnswer
    /\ UNCHANGED <<flightVars, ruleVars, localVars, source, total_queries,
                   blocked_queries, cache_hits, heard>>

\* Mutant: the verdict is forgotten after the lookup.
Allowed_Forgotten(r) == TRUE

Allowed(r) == verdict[r] = "allow"

\* An allowed query goes to PendingQueries::query.
Ask(r) == /\ pc[r] = "missed"
          /\ Allowed(r)
          /\ Pending!Ask(r, <<MapOf(r), upstream_query(r)>>)
          /\ pc' = [pc EXCEPT ![r] = "waiting"]
          /\ out' = NoAnswer
          /\ CacheIdle
          /\ UNCHANGED <<ruleVars, localVars, source, counters, heard>>

\* cache.insert, by request r.
Store(r, m) == /\ Cache!Insert(key(r), m)
               /\ source' = IF Cache!Ttls(m) = {} THEN source
                            ELSE [source EXCEPT ![key(r)] = ruled_by[r]]

\* An answer or, for want of one, an SOA record with blocked_ttl.
make_blocked_response == Blocked

\* A blocked query makes its own response, which is cached and sent.
Block(r) == /\ pc[r] = "missed"
            /\ verdict[r] = "block"
            /\ Store(r, make_blocked_response)
            /\ out' = Response(r, "NoError", FALSE, make_blocked_response)
            /\ Finish(r)
            /\ UNCHANGED <<flightVars, ruleVars, counters, heard>>

\* PendingQueries::query returns a response: it is cached and sent.
Answer(r) == /\ pc[r] = "waiting"
             /\ ready[r] # UpstreamError
             /\ Pending!Return(r)
             /\ Store(r, ready[r])
             /\ out' = Response(r, "NoError", FALSE, ready[r])
             /\ Finish(r)
             /\ UNCHANGED <<ruleVars, counters, heard>>

\* Mutant: the wait has no timeout.
Refuse_NoTimeout(r) ==
    /\ pc[r] = "waiting"
    /\ ready[r] = UpstreamError
    /\ Pending!Return(r)
    /\ out' = Response(r, "ServFail", FALSE, NoReply)
    /\ Finish(r)
    /\ CacheIdle
    /\ UNCHANGED <<ruleVars, source, counters, heard>>

\* It returns an error, the upstream's or the pending timeout.
Refuse(r) == /\ pc[r] = "waiting"
             /\ \/ ready[r] = UpstreamError /\ Pending!Return(r)
                \/ Pending!Expire(r)
             /\ out' = Response(r, "ServFail", FALSE, NoReply)
             /\ Finish(r)
             /\ CacheIdle
             /\ UNCHANGED <<ruleVars, source, counters, heard>>

\* The client of a DoH request is gone while the request waits.
Drop(r) == /\ pc[r] = "waiting"
           /\ Pending!GiveUp(r)
           /\ Finish(r)
           /\ out' = NoAnswer
           /\ CacheIdle
           /\ UNCHANGED <<ruleVars, source, counters, heard>>

\* A query without a question: FormErr.
Malformed(r) == /\ pc[r] = "idle"
                /\ RecordQuery
                /\ out' = NoAnswer
                /\ CacheIdle
                /\ UNCHANGED <<flightVars, ruleVars, pc, localVars, source,
                               blocked_queries, cache_hits, cache_misses, heard>>

-----------------------------------------------------------------------------
\* The upstream pool settles a question of a map; what it says is remembered.
Land(f, o) == /\ Pending!Land(f, o)
              /\ heard' = IF o = UpstreamError THEN heard
                          ELSE [heard EXCEPT ![CacheKey(f[2])] = @ \cup {o}]
              /\ out' = NoAnswer
              /\ CacheIdle
              /\ UNCHANGED <<ruleVars, pc, localVars, source, counters>>

\* ReloadableBlocklist::reload swaps the rules.
Reload(S) == /\ version < MaxReloads
             /\ version' = version + 1
             /\ rules' = S
             /\ out' = NoAnswer
             /\ CacheIdle
             /\ UNCHANGED <<flightVars, pc, localVars, source, counters, heard>>

\* The cache_flush command of the management socket.
Flush == /\ Cache!Flush
         /\ out' = NoAnswer
         /\ UNCHANGED <<flightVars, ruleVars, pc, localVars, source, counters,
                        heard>>

Tick == /\ Cache!Tick
        /\ out' = NoAnswer
        /\ UNCHANGED <<flightVars, ruleVars, pc, localVars, source, counters,
                       heard>>

Handle(r) == \/ Hit(r) \/ Miss(r) \/ Block(r)
             \/ Ask(r) \/ Answer(r) \/ Refuse(r)

Step == \/ \E r \in Requests : \/ \E a \in Arrivals : Arrive(r, a)
                               \/ Malformed(r) \/ Handle(r) \/ Drop(r)
        \/ \E f \in Flights, o \in Answers \cup {UpstreamError} : Land(f, o)
        \/ \E S \in RuleSets : Reload(S)
        \/ Flush
        \/ Tick

Next == Step /\ UNCHANGED edns

Spec == Init /\ [][Next]_vars

\* The runtime polls the handlers, and the pending timeout fires in the end.
FairSpec == Spec /\ \A r \in Requests : WF_vars(Handle(r) /\ UNCHANGED edns)

-----------------------------------------------------------------------------
\* A response carries what the upstream said when asked for this name on behalf of
\* this client's own subnet, or of the one the client named, or is the blocked
\* response: shared flights and a shared cache never cross names or subnets, and the
\* upstream learns no bit of an address beyond the prefix.
Attributed ==
    out # NoAnswer /\ out.code = "NoError" /\ out.message # Blocked =>
        \E k \in Keys : /\ out.message \in heard[k]
                        /\ k.name = out.asked.query.name
                        /\ Reveals(out.asked.query, out.asked.ip, edns, k.ecs)

\* A response that contradicts the verdict on its request came from the cache,
\* where a request ruled by an other version of the rules put it.
ContradictionsComeFromOldRules ==
    out # NoAnswer /\ out.code = "NoError"
    /\ (out.verdict = "block") # (out.message = Blocked) =>
        /\ out.from_cache
        /\ source[CacheKey(query_with_ecs(out.asked.query, out.asked.ip, edns))] # out.ruled_by

\* Every query is answered, or its client is gone.
QueriesAnswered == \A r \in Requests : pc[r] # "idle" ~> pc[r] = "idle"
=============================================================================
