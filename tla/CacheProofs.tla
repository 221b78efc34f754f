---------------------------- MODULE CacheProofs -----------------------------
(***************************************************************************)
(* Proofs about Cache, for every capacity, every pair of limits and any    *)
(* responses.  The invariant Faithful says that an entry of the map is the *)
(* latest message inserted for its key, dated and limited as the code does *)
(* it; what get serves inherits that.                                      *)
(***************************************************************************)
EXTENDS Cache, FiniteSetTheorems, WellFoundedInduction, TLAPS

Faithful ==
    \A k \in Keys : entries[k] # NoEntry =>
        /\ learned[k] # NoEntry
        /\ Ttls(learned[k].message) # {}
        /\ entries[k] = [message |-> learned[k].message,
                         inserted_at |-> learned[k].at,
                         ttl |-> Lifetime(learned[k].message)]
        /\ learned[k].at <= now

IndInv == /\ TypeOK
          /\ Faithful
          /\ ServedFresh
          /\ EntriesGaugeExact
          /\ CapacityRespected

-----------------------------------------------------------------------------
(* Facts about the operators.                                              *)

\* Whole seconds, counted in ticks, do not exceed the time they came from.
LEMMA DivBound ==
    ASSUME NEW x \in Nat, NEW n \in Nat \ {0}
    PROVE  x \div n \in Nat /\ n * (x \div n) <= x
PROOF
<1>1. x = n * (x \div n) + (x % n) /\ x % n \in 0 .. (n-1) /\ x \div n \in Int
  OBVIOUS
<1>2. x \div n \in Nat
  OBVIOUS
<1> QED BY <1>1, <1>2

\* Lowest picks the least element of a nonempty set of naturals.
LEMMA LowestIsLeast ==
    ASSUME NEW S \in SUBSET Nat, S # {}
    PROVE  Lowest(S) \in S /\ \A u \in S : Lowest(S) <= u
PROOF
<1> DEFINE Less == {p \in Nat \X Nat : p[1] < p[2]}
<1>1. IsWellFoundedOn(Less, Nat)
  BY NatLessThanWellFounded, Zenon DEF OpToRel
<1>2. \A x, y \in S : ~(<<y, x>> \in Less) => x <= y
  OBVIOUS
<1> HIDE DEF Less
<1>3. PICK x \in S : \A y \in S : ~(<<y, x>> \in Less)
  BY <1>1, WFMin
<1> QED BY <1>2, <1>3 DEF Lowest

\* A response with records has a lifetime, and with no min_ttl it is at most
\* the TTL of each of its records.
LEMMA LifetimeBound ==
    ASSUME NEW m \in Messages, Ttls(m) # {}
    PROVE  /\ Lifetime(m) \in Nat
           /\ MinTtl = NoLimit =>
                \A s \in Sections : \A t \in m[s] :
                    Lifetime(m) <= TicksPerSecond * t
PROOF
<1> USE CacheAssumption
<1>1. Ttls(m) \in SUBSET Nat
  BY DEF Ttls
<1>2. Lowest(Ttls(m)) \in Nat /\ \A u \in Ttls(m) : Lowest(Ttls(m)) <= u
  BY <1>1, LowestIsLeast
<1>3. RecordTtl(m) \in Nat
  BY <1>2 DEF RecordTtl
<1>4. Lifetime(m) \in Nat /\ (MinTtl = NoLimit => Lifetime(m) <= RecordTtl(m))
  BY <1>3 DEF Lifetime, Clamp, Limits
<1>5. ASSUME NEW s \in Sections, NEW t \in m[s]
      PROVE t \in Nat /\ RecordTtl(m) <= TicksPerSecond * t
  <2>1. t \in Ttls(m) BY DEF Ttls
  <2>2. t \in Nat /\ Lowest(Ttls(m)) <= t BY <1>1, <1>2, <2>1
  <2> QED BY <1>2, <2>2 DEF RecordTtl
<1> QED BY <1>3, <1>4, <1>5

LEMMA CachedFinite == IsFiniteSet(Cached) /\ Cardinality(Cached) \in Nat
PROOF
<1>1. Cached \in SUBSET Keys BY DEF Cached
<1> QED BY <1>1, CacheAssumption, FS_Subset, FS_CardinalityType

-----------------------------------------------------------------------------
(* Cache::insert.                                                          *)

\* What Put makes of the map, whatever eviction left.
LEMMA PutKeepsFaithful ==
    ASSUME TypeOK, Faithful, NEW k \in Keys, NEW m \in Messages, Ttls(m) # {},
           NEW left \in [Keys -> Entries \cup {NoEntry}],
           \A j \in Keys : left[j] # NoEntry => left[j] = entries[j],
           Put(k, m, left)
    PROVE  /\ Faithful'
           /\ entries' \in [Keys -> Entries \cup {NoEntry}]
           /\ learned' \in [Keys -> Lessons \cup {NoEntry}]
           /\ Cached' = {j \in Keys : left[j] # NoEntry} \cup {k}
PROOF
<1> USE CacheAssumption DEF TypeOK, Put
<1>1. Lifetime(m) \in Nat BY LifetimeBound
<1>2. NewEntry(m) \in Entries BY <1>1 DEF NewEntry, Entries
<1>3. [message |-> m, at |-> now] \in Lessons BY DEF Lessons
<1>4. entries' \in [Keys -> Entries \cup {NoEntry}] BY <1>2
<1>5. learned' \in [Keys -> Lessons \cup {NoEntry}] BY <1>3
<1>6. Cached' = {j \in Keys : left[j] # NoEntry} \cup {k}
  BY <1>2 DEF Cached
<1>7. Faithful'
  <2> SUFFICES ASSUME NEW j \in Keys, entries'[j] # NoEntry
               PROVE /\ learned'[j] # NoEntry
                     /\ Ttls(learned'[j].message) # {}
                     /\ entries'[j] = [message |-> learned'[j].message,
                                       inserted_at |-> learned'[j].at,
                                       ttl |-> Lifetime(learned'[j].message)]
                     /\ learned'[j].at <= now'
    BY DEF Faithful
  <2>1. CASE j = k
    BY <1>3, <2>1 DEF NewEntry
  <2>2. CASE j # k
    BY <2>2 DEF Faithful
  <2> QED BY <2>1, <2>2
<1> QED BY <1>4, <1>5, <1>6, <1>7

\* Adding an element, and putting one in the place of another.
LEMMA AddCard ==
    ASSUME NEW S, IsFiniteSet(S), NEW x
    PROVE  /\ Cardinality(S) \in Nat /\ Cardinality(S \cup {x}) \in Nat
           /\ Cardinality(S \cup {x}) <= Cardinality(S) + 1
PROOF
<1>1. IsFiniteSet(S \cup {x}) /\ Cardinality(S \cup {x}) =
          IF x \in S THEN Cardinality(S) ELSE Cardinality(S) + 1
  BY FS_AddElement
<1>2. Cardinality(S) \in Nat /\ Cardinality(S \cup {x}) \in Nat
  BY <1>1, FS_CardinalityType
<1> QED BY <1>1, <1>2

LEMMA SwapCard ==
    ASSUME NEW S, IsFiniteSet(S), NEW v \in S, NEW x
    PROVE  /\ Cardinality((S \ {v}) \cup {x}) \in Nat
           /\ Cardinality((S \ {v}) \cup {x}) <= Cardinality(S)
PROOF
<1>1. IsFiniteSet(S \ {v}) /\ Cardinality(S \ {v}) = Cardinality(S) - 1
  BY FS_RemoveElement
<1>2. Cardinality(S) \in Nat /\ Cardinality(S \ {v}) \in Nat
  BY <1>1, FS_CardinalityType
<1>3. Cardinality((S \ {v}) \cup {x}) \in Nat
      /\ Cardinality((S \ {v}) \cup {x}) <= Cardinality(S \ {v}) + 1
  BY <1>1, AddCard
<1> QED BY <1>1, <1>2, <1>3

\* An insert keeps the number of entries within the capacity.
LEMMA InsertKeepsCapacity ==
    ASSUME TypeOK, Faithful, CapacityRespected, NEW k \in Keys, NEW m \in Messages,
           InsertWithRoom(k, m) \/ InsertEvicting(k, m)
    PROVE  CapacityRespected'
PROOF
<1> USE CacheAssumption, CachedFinite
<1>1. CASE InsertWithRoom(k, m)
  <2>1. PICK left : left = entries OBVIOUS
  <2>2. Ttls(m) # {} /\ Put(k, m, left)
    BY <1>1, <2>1 DEF InsertWithRoom, Put
  <2>3. Cached' = {j \in Keys : left[j] # NoEntry} \cup {k}
    BY <2>1, <2>2, PutKeepsFaithful DEF TypeOK
  <2>4. Cached' = Cached \cup {k}
    BY <2>1, <2>3 DEF Cached
  <2>5. Cardinality(Cached') \in Nat
        /\ Cardinality(Cached') <= Cardinality(Cached) + 1
    BY <2>4, AddCard
  <2>6. Cardinality(Cached) < Capacity \/ Cardinality(Cached) = 0
    BY <1>1, FS_EmptySet DEF InsertWithRoom, Full
  <2> QED BY <2>5, <2>6 DEF CapacityRespected
<1>2. CASE InsertEvicting(k, m)
  <2>1. PICK victim \in Cached, left \in [Keys -> Entries \cup {NoEntry}] :
            /\ left = [entries EXCEPT ![victim] = NoEntry]
            /\ Ttls(m) # {} /\ Put(k, m, left)
    BY <1>2 DEF InsertEvicting, Put, TypeOK, Cached
  <2>2. /\ left \in [Keys -> Entries \cup {NoEntry}]
        /\ \A j \in Keys : left[j] # NoEntry => left[j] = entries[j]
        /\ {j \in Keys : left[j] # NoEntry} = Cached \ {victim}
    BY <2>1 DEF TypeOK, Cached
  <2>3. Cached' = {j \in Keys : left[j] # NoEntry} \cup {k}
    <3>1. Ttls(m) # {} /\ Put(k, m, left) BY <2>1
    <3>2. /\ left \in [Keys -> Entries \cup {NoEntry}]
          /\ \A j \in Keys : left[j] # NoEntry => left[j] = entries[j]
      BY <2>2
    <3> QED BY <3>1, <3>2, PutKeepsFaithful, Zenon
  <2>4. Cached' = (Cached \ {victim}) \cup {k}
    BY <2>2, <2>3
  <2>5. Cardinality(Cached') \in Nat
        /\ Cardinality(Cached') <= Cardinality(Cached)
    BY <2>4, SwapCard
  <2> QED BY <2>5 DEF CapacityRespected
<1> QED BY <1>1, <1>2

-----------------------------------------------------------------------------
(* Every step.                                                             *)

\* A hit serves what Faithful says of its entry.
LEMMA HitIsFresh ==
    ASSUME TypeOK, Faithful, NEW k \in Keys, GetHit(k)
    PROVE  ServedFresh' /\ served' \in Hits
PROOF
<1> USE CacheAssumption DEF TypeOK
<1> DEFINE e == entries[k]
           l == learned[k]
           left == e.ttl - (now - e.inserted_at)
<1>1. /\ e \in Entries /\ l # NoEntry /\ l \in Lessons
      /\ e.message = l.message /\ e.inserted_at = l.at
      /\ e.ttl = Lifetime(l.message) /\ l.at <= now
  BY DEF GetHit, Faithful
<1>2. e.ttl \in Nat /\ l.at \in Nat /\ now \in Nat /\ e.message \in Messages
  BY <1>1 DEF Entries, Lessons
<1>3. left \in Nat /\ left > 0
  BY <1>1, <1>2 DEF GetHit, Expired, Elapsed
<1>4. RemainingSecs(k) \in Nat /\ TicksPerSecond * RemainingSecs(k) <= left
  BY <1>3, DivBound DEF RemainingSecs, Elapsed
<1>5. served' = [key |-> k, message |-> e.message, ttl |-> RemainingSecs(k)]
  BY DEF GetHit
<1>6. served' \in Hits
  BY <1>2, <1>4, <1>5 DEF Hits
<1>7. now' = now /\ learned' = learned
  BY DEF GetHit
<1>8. now < l.at + Lifetime(l.message)
  BY <1>1, <1>2, <1>3
<1>9. now + TicksPerSecond * RemainingSecs(k) <= l.at + Lifetime(l.message)
  <2> DEFINE w == TicksPerSecond * RemainingSecs(k)
  <2>1. w \in Nat BY <1>4
  <2>2. w <= left BY <1>4
  <2> HIDE DEF w
  <2>3. now + w <= l.at + Lifetime(l.message) BY <1>1, <1>2, <2>1, <2>2
  <2> QED BY <2>3 DEF w
<1> HIDE DEF TypeOK
<1> QED BY <1>1, <1>5, <1>6, <1>7, <1>8, <1>9 DEF ServedFresh

LEMMA StepKeepsInv == ASSUME IndInv, [Next]_vars PROVE IndInv'
PROOF
<1> USE CacheAssumption DEF IndInv
<1>1. ASSUME NEW k \in Keys, GetAbsent(k) PROVE IndInv'
  BY <1>1 DEF GetAbsent, TypeOK, Faithful, ServedFresh, EntriesGaugeExact,
              CapacityRespected, Cached
<1>2. ASSUME NEW k \in Keys, GetExpired(k) PROVE IndInv'
  <2>1. Cached' = Cached \ {k} BY <1>2 DEF GetExpired, Cached, TypeOK
  <2>2. Cardinality(Cached') \in Nat /\ Cardinality(Cached') <= Cardinality(Cached)
    BY <2>1, CachedFinite, FS_Subset, FS_CardinalityType
  <2>3. CapacityRespected' BY <2>2, CachedFinite DEF CapacityRespected
  <2>4. EntriesGaugeExact' BY <1>2 DEF GetExpired, UpdateMetric, EntriesGaugeExact
  <2>5. Faithful' BY <1>2 DEF GetExpired, Faithful, TypeOK
  <2>6. TypeOK' BY <1>2, <2>2 DEF GetExpired, UpdateMetric, TypeOK
  <2>7. ServedFresh' BY <1>2 DEF GetExpired, ServedFresh
  <2> QED BY <2>3, <2>4, <2>5, <2>6, <2>7
<1>3. ASSUME NEW k \in Keys, GetHit(k) PROVE IndInv'
  <2>1. ServedFresh' /\ served' \in Hits BY <1>3, HitIsFresh
  <2> QED BY <1>3, <2>1 DEF GetHit, TypeOK, Faithful, EntriesGaugeExact,
                            CapacityRespected, Cached
<1>4. ASSUME NEW k \in Keys, NEW m \in Messages, InsertUncacheable(k, m)
      PROVE IndInv'
  BY <1>4 DEF InsertUncacheable, TypeOK, Faithful, ServedFresh, EntriesGaugeExact,
              CapacityRespected, Cached
<1>5. ASSUME NEW k \in Keys, NEW m \in Messages,
             InsertWithRoom(k, m) \/ InsertEvicting(k, m)
      PROVE IndInv'
  <2>1. PICK left \in [Keys -> Entries \cup {NoEntry}] :
            /\ \A j \in Keys : left[j] # NoEntry => left[j] = entries[j]
            /\ Ttls(m) # {} /\ Put(k, m, left)
    <3>1. CASE InsertWithRoom(k, m)
      <4>1. PICK left : left = entries OBVIOUS
      <4> QED BY <3>1, <4>1 DEF InsertWithRoom, Put, TypeOK
    <3>2. CASE InsertEvicting(k, m)
      <4>1. PICK victim \in Cached, left \in [Keys -> Entries \cup {NoEntry}] :
                /\ left = [entries EXCEPT ![victim] = NoEntry]
                /\ Ttls(m) # {} /\ Put(k, m, left)
        BY <3>2 DEF InsertEvicting, Put, TypeOK, Cached
      <4>2. /\ left \in [Keys -> Entries \cup {NoEntry}]
            /\ \A j \in Keys : left[j] # NoEntry => left[j] = entries[j]
        BY <4>1 DEF TypeOK
      <4> QED BY <4>1, <4>2
    <3> QED BY <1>5, <3>1, <3>2
  <2>2. CapacityRespected' BY <1>5, InsertKeepsCapacity
  <2>3. /\ Faithful'
        /\ entries' \in [Keys -> Entries \cup {NoEntry}]
        /\ learned' \in [Keys -> Lessons \cup {NoEntry}]
    BY <2>1, PutKeepsFaithful
  <2>4. Cached' \in SUBSET Keys BY DEF Cached
  <2>5. Cardinality(Cached') \in Nat
    BY <2>4, FS_Subset, FS_CardinalityType
  <2>6. EntriesGaugeExact' BY <2>1 DEF Put, UpdateMetric, EntriesGaugeExact
  <2>7. cache_evictions' \in 0 .. MaxEvictions
    <3>1. \/ cache_evictions' = cache_evictions
          \/ /\ cache_evictions < MaxEvictions
             /\ cache_evictions' = cache_evictions + 1
      <4>1. CASE InsertWithRoom(k, m)
        <5>1. UNCHANGED cache_evictions BY <4>1, Zenon DEF InsertWithRoom
        <5> QED BY <5>1
      <4>2. CASE InsertEvicting(k, m)
        <5>1. PICK victim \in Cached :
                  /\ cache_evictions < MaxEvictions
                  /\ cache_evictions' = cache_evictions + 1
          BY <4>2 DEF InsertEvicting, Put
        <5> QED BY <5>1
      <4> QED BY <1>5, <4>1, <4>2
    <3> QED BY <3>1 DEF TypeOK
  <2>8. ServedFresh' BY <2>1 DEF Put, ServedFresh
  <2>9. TypeOK' BY <2>1, <2>3, <2>5, <2>7 DEF Put, UpdateMetric, TypeOK
  <2> QED BY <2>2, <2>3, <2>6, <2>8, <2>9
<1>6. CASE Flush
  <2>1. Cached' = {} BY <1>6 DEF Flush, Cached
  <2>2. Cardinality(Cached') = 0 BY <2>1, FS_EmptySet
  <2> QED BY <1>6, <2>2 DEF Flush, UpdateMetric, TypeOK, Faithful, ServedFresh,
                            EntriesGaugeExact, CapacityRespected
<1>7. CASE Tick
  BY <1>7 DEF Tick, TypeOK, Faithful, ServedFresh, EntriesGaugeExact,
              CapacityRespected, Cached, Lessons
<1>8. CASE UNCHANGED vars
  BY <1>8 DEF vars, TypeOK, Faithful, ServedFresh, EntriesGaugeExact,
              CapacityRespected, Cached
<1> QED
  BY <1>1, <1>2, <1>3, <1>4, <1>5, <1>6, <1>7, <1>8 DEF Next, Get, Insert

LEMMA InitInv == Init => IndInv
PROOF
<1> SUFFICES ASSUME Init PROVE IndInv OBVIOUS
<1> USE CacheAssumption DEF Init
<1>1. Cached = {} BY DEF Cached
<1>2. Cardinality(Cached) = 0 BY <1>1, FS_EmptySet
<1> QED BY <1>2 DEF IndInv, TypeOK, Faithful, ServedFresh, EntriesGaugeExact,
                    CapacityRespected

LEMMA InvAlways == Spec => []IndInv
BY InitInv, StepKeepsInv, PTL DEF Spec

-----------------------------------------------------------------------------
\* Type correctness of the cache.
THEOREM CacheTypeCorrect == Spec => []TypeOK
PROOF
<1>1. IndInv => TypeOK BY DEF IndInv
<1> QED BY <1>1, InvAlways, PTL

\* The cache serves only the latest answer of a key, within its lifetime, and
\* with a TTL that ends no later than that lifetime.
THEOREM CacheServesFresh == Spec => []ServedFresh
PROOF
<1>1. IndInv => ServedFresh BY DEF IndInv
<1> QED BY <1>1, InvAlways, PTL

\* The map never outgrows its capacity and the gauge is its size.
THEOREM CacheBounded == Spec => [](CapacityRespected /\ EntriesGaugeExact)
PROOF
<1>1. IndInv => CapacityRespected /\ EntriesGaugeExact BY DEF IndInv
<1> QED BY <1>1, InvAlways, PTL

\* With no min_ttl, no entry outlives any of its records.
THEOREM CacheHonoursRecords == Spec => []NeverOutlivesARecord
PROOF
<1>1. ASSUME IndInv PROVE NeverOutlivesARecord
  <2> SUFFICES ASSUME MinTtl = NoLimit, NEW k \in Cached, NEW s \in Sections,
                      NEW t \in entries[k].message[s]
               PROVE entries[k].ttl <= TicksPerSecond * t
    BY DEF NeverOutlivesARecord
  <2>1. /\ learned[k] \in Lessons /\ Ttls(learned[k].message) # {}
        /\ entries[k].message = learned[k].message
        /\ entries[k].ttl = Lifetime(learned[k].message)
    BY <1>1 DEF IndInv, Faithful, TypeOK, Cached
  <2> QED BY <2>1, LifetimeBound DEF Lessons
<1> QED BY <1>1, InvAlways, PTL
=============================================================================
