------------------------------- MODULE Cache --------------------------------
(***************************************************************************)
(* The TTL cache of src/src/cache.rs.  Every operation runs under one      *)
(* mutex and reads the clock while holding it, so each is one action.      *)
(*                                                                         *)
(* A message is abstracted to the TTLs of the records in its three         *)
(* sections.  Time is counted in ticks, TicksPerSecond of them to the      *)
(* second, because the code compares fine-grained instants and durations   *)
(* but writes whole seconds into the records it serves.                    *)
(***************************************************************************)
EXTENDS Integers, FiniteSets

CONSTANTS Keys,             \* CacheKey: name, type, class, RD, DO, ECS
          Messages,         \* responses that may be inserted
          Capacity,         \* config.capacity
          MinTtl, MaxTtl,   \* config.min_ttl, config.max_ttl in ticks, or NoLimit
          TicksPerSecond,
          MaxTime,          \* bound: length of a behaviour in ticks
          MaxEvictions,     \* bound: evictions in a behaviour
          NoLimit, NoEntry, NoReply

Sections == {"answers", "name_servers", "additionals"}

Limits == Nat \cup {NoLimit}

\* CacheEntry
Entries == [message : Messages, inserted_at : Nat, ttl : Nat]

Lessons == [message : Messages, at : Nat]

Hits == [key : Keys, message : Messages, ttl : Nat]

ASSUME CacheAssumption ==
    /\ Messages \subseteq [Sections -> SUBSET Nat]
    /\ \A m \in Messages, s \in Sections : IsFiniteSet(m[s])
    /\ Capacity \in Nat
    /\ MinTtl \in Limits /\ MaxTtl \in Limits
    /\ TicksPerSecond \in Nat \ {0}
    /\ MaxTime \in Nat /\ MaxEvictions \in Nat
    /\ NoLimit \notin Nat
    /\ NoEntry \notin Entries \cup Lessons
    /\ NoReply \notin Hits
    /\ IsFiniteSet(Keys)

VARIABLES now,              \* Instant::now()
          entries,          \* the map, NoEntry where it has no entry
          cache_entries,    \* gauge of MetricsRecorder
          cache_evictions,  \* counter of MetricsRecorder
          served,           \* what the latest get returned
          learned           \* history: the latest insert of each key

vars == <<now, entries, cache_entries, cache_evictions, served, learned>>

\* The TTLs of all the records of a message, in seconds.
Ttls(m) == UNION {m[s] : s \in Sections}

Lowest(S) == CHOOSE t \in S : \A u \in S : t <= u

\* Mutant: only the answers are looked at.
RecordTtl_AnswersOnly(m) ==
    TicksPerSecond * Lowest(IF m["answers"] = {} THEN Ttls(m) ELSE m["answers"])

\* min_ttl_secs as a duration.
RecordTtl(m) == TicksPerSecond * Lowest(Ttls(m))

\* The configured limits: first up to min_ttl, then down to max_ttl.
Clamp(t) == LET low == IF MinTtl # NoLimit /\ t < MinTtl THEN MinTtl ELSE t
            IN  IF MaxTtl # NoLimit /\ low > MaxTtl THEN MaxTtl ELSE low

Lifetime(m) == Clamp(RecordTtl(m))

Cached == {k \in Keys : entries[k] # NoEntry}

TypeOK == /\ now \in 0 .. MaxTime
          /\ entries \in [Keys -> Entries \cup {NoEntry}]
          /\ cache_entries \in Nat
          /\ cache_evictions \in 0 .. MaxEvictions
          /\ served \in Hits \cup {NoReply}
          /\ learned \in [Keys -> Lessons \cup {NoEntry}]

Init == /\ now = 0
        /\ entries = [k \in Keys |-> NoEntry]
        /\ cache_entries = 0
        /\ cache_evictions = 0
        /\ served = NoReply
        /\ learned = [k \in Keys |-> NoEntry]

-----------------------------------------------------------------------------
\* update_metric, on the map the operation leaves behind.
UpdateMetric == cache_entries' = Cardinality(Cached')

Elapsed(k) == now - entries[k].inserted_at

Expired(k) == Elapsed(k) >= entries[k].ttl

\* Mutant: the remaining seconds are rounded up.
RemainingSecs_RoundedUp(k) ==
    (entries[k].ttl - Elapsed(k) + TicksPerSecond - 1) \div TicksPerSecond

\* Mutant: the age is counted from the start of the clock.
RemainingSecs_AgeOfClock(k) == (entries[k].ttl - now) \div TicksPerSecond

\* The TTL written into every record of a served message.
RemainingSecs(k) == (entries[k].ttl - Elapsed(k)) \div TicksPerSecond

\* Cache::get finds nothing.
GetAbsent(k) == /\ entries[k] = NoEntry
                /\ served' = NoReply
                /\ UNCHANGED <<now, entries, cache_entries, cache_evictions,
                               learned>>

\* Cache::get finds an entry past its TTL and removes it.
GetExpired(k) == /\ entries[k] # NoEntry
                 /\ Expired(k)
                 /\ entries' = [entries EXCEPT ![k] = NoEntry]
                 /\ UpdateMetric
                 /\ served' = NoReply
                 /\ UNCHANGED <<now, cache_evictions, learned>>

\* Cache::get serves the message, every record with the remaining seconds.
GetHit(k) == /\ entries[k] # NoEntry
             /\ ~Expired(k)
             /\ served' = [key |-> k, message |-> entries[k].message,
                           ttl |-> RemainingSecs(k)]
             /\ UNCHANGED <<now, entries, cache_entries, cache_evictions,
                            learned>>

Get(k) == GetAbsent(k) \/ GetExpired(k) \/ GetHit(k)

\* Cache::insert of a message without records does nothing.
InsertUncacheable(k, m) == /\ Ttls(m) = {}
                           /\ served' = NoReply
                           /\ UNCHANGED <<now, entries, cache_entries,
                                          cache_evictions, learned>>

NewEntry(m) == [message |-> m, inserted_at |-> now, ttl |-> Lifetime(m)]

\* The rest of Cache::insert, once `left' is what eviction left of the map.
Put(k, m, left) == /\ entries' = [left EXCEPT ![k] = NewEntry(m)]
                   /\ UpdateMetric
                   /\ learned' = [learned EXCEPT ![k] = [message |-> m, at |-> now]]
                   /\ served' = NoReply
                   /\ UNCHANGED now

\* Mutant: the cache is found full one entry too late.
Full_OffByOne == Cardinality(Cached) > Capacity

Full == Cardinality(Cached) >= Capacity

\* Cache::insert with nothing to evict; a full cache of capacity 0 is empty.
InsertWithRoom(k, m) == /\ Ttls(m) # {}
                        /\ Full => Cached = {}
                        /\ Put(k, m, entries)
                        /\ UNCHANGED cache_evictions

\* Cache::insert into a full cache: the map's first key, which can be any key
\* (k itself included), makes room.
InsertEvicting(k, m) ==
    \E victim \in Cached :
        /\ Ttls(m) # {}
        /\ Full
        /\ cache_evictions < MaxEvictions
        /\ cache_evictions' = cache_evictions + 1
        /\ Put(k, m, [entries EXCEPT ![victim] = NoEntry])

Insert(k, m) == \/ InsertUncacheable(k, m)
                \/ InsertWithRoom(k, m)
                \/ InsertEvicting(k, m)

Flush == /\ entries' = [k \in Keys |-> NoEntry]
         /\ UpdateMetric
         /\ served' = NoReply
         /\ UNCHANGED <<now, cache_evictions, learned>>

\* The clock.
Tick == /\ now < MaxTime
        /\ now' = now + 1
        /\ served' = NoReply
        /\ UNCHANGED <<entries, cache_entries, cache_evictions, learned>>

Next == \/ \E k \in Keys : Get(k)
        \/ \E k \in Keys, m \in Messages : Insert(k, m)
        \/ Flush
        \/ Tick

Spec == Init /\ [][Next]_vars

-----------------------------------------------------------------------------
\* The map never holds more entries than configured, and one even if the
\* configured capacity is 0.
CapacityRespected ==
    Cardinality(Cached) <= (IF Capacity = 0 THEN 1 ELSE Capacity)

\* The gauge in `dotdns cache stats' is the size of the map.
EntriesGaugeExact == cache_entries = Cardinality(Cached)

\* What get serves is the latest message inserted for its key, and a client
\* that keeps it for the TTL it is served with drops it no later than the end
\* of the lifetime the records and the limits give it: caching behind the
\* cache never extends an answer's life.
ServedFresh ==
    served # NoReply =>
        LET l == learned[served.key] IN
        /\ l # NoEntry
        /\ served.message = l.message
        /\ now < l.at + Lifetime(l.message)
        /\ now + TicksPerSecond * served.ttl <= l.at + Lifetime(l.message)

\* Without a min_ttl the cache never keeps an answer longer than the shortest
\* TTL of any of its records, whatever section it is in.
NeverOutlivesARecord ==
    MinTtl = NoLimit =>
        \A k \in Cached, s \in Sections : \A t \in entries[k].message[s] :
            entries[k].ttl <= TicksPerSecond * t
=============================================================================
