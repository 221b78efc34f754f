--------------------------- MODULE ResolverProofs ---------------------------
(***************************************************************************)
(* Proofs about Resolver, for any requests, queries, settings of the       *)
(* client subnet option, lists and answers, and a cache of any size.       *)
(*                                                                         *)
(* Every response is what upstream said for the cache key of its own       *)
(* query, because each entry of the cache and each outcome that waits for  *)
(* a request was said for its key.  That this key tells upstream no more   *)
(* of the client than its prefix is a fact about mask_bits, shown here for *)
(* every width.                                                            *)
(*                                                                         *)
(* The verdicts of requests under way and the entries of the cache are     *)
(* opinions on names, each held under a version of the rules.  Two         *)
(* opinions of one version never differ, whatever was reloaded in between; *)
(* so a response that contradicts its verdict is of another version.       *)
(***************************************************************************)
EXTENDS Resolver, FiniteSetTheorems, FunctionTheorems, TLAPS

Messages == Answers \cup {Blocked}

CacheLaws == INSTANCE CacheProofs WITH Messages <- Answers \cup {Blocked}

Types ==
    /\ Pending!TypeOK
    /\ rules \in RuleSets
    /\ edns \in EdnsConfigs
    /\ version \in 0 .. MaxReloads
    /\ pc \in [Requests -> {"idle", "lookup", "missed", "waiting"}]
    /\ asked \in [Requests -> Arrivals \cup {NoKey}]
    /\ verdict \in [Requests -> {"allow", "block"}]
    /\ ruled_by \in [Requests -> 0 .. MaxReloads]
    /\ source \in [Keys -> 0 .. MaxReloads]
    /\ out \in Responses \cup {NoAnswer}
    /\ heard \in [Keys -> SUBSET Answers]

Busy == {r \in Requests : pc[r] # "idle"}

\* What a request asks its pending map.
Flight(r) == <<MapOf(r), upstream_query(r)>>

\* Where a request stands, here and in PendingQueries.
Locals ==
    \A r \in Requests :
        /\ pc[r] # "idle" => asked[r] \in Arrivals
        /\ pc[r] # "waiting" => asking[r] = NoKey
        /\ asking[r] = NoKey => ready[r] = NoOutcome
        /\ pc[r] = "waiting" => asking[r] = Flight(r) /\ verdict[r] = "allow"

\* What is cached was said by upstream, for that key, or made here.
Stored == \A k \in Keys : entries[k] # NoEntry =>
              entries[k].message = Blocked \/ entries[k].message \in heard[k]

\* What is ready for a request was said by upstream, for its key.
Delivered == \A r \in Requests :
                 pc[r] = "waiting" /\ ready[r] \notin {NoOutcome, UpstreamError} =>
                     ready[r] \in heard[key(r)]

Opinion(at, name, says) == [at |-> at, name |-> name, says |-> says]

Verdict(r) == Opinion(ruled_by[r], asked[r].query.name, verdict[r])

Kept(k) == Opinion(source[k], k.name,
                   IF entries[k].message = Blocked THEN "block" ELSE "allow")

\* Who has an opinion on a name, and under which rules.
Opinions == {Verdict(r) : r \in Busy} \cup {Kept(k) : k \in {j \in Keys : entries[j] # NoEntry}}

Ruling(name) == IF name \in rules THEN "block" ELSE "allow"

Consistent ==
    /\ \A x \in Opinions : /\ x.at <= version
                           /\ x.at = version => x.says = Ruling(x.name)
    /\ \A x, y \in Opinions : x.at = y.at /\ x.name = y.name => x.says = y.says

Looking == {r \in Requests : pc[r] = "lookup"}

\* A query is counted before its lookup ends.
Counts == /\ total_queries \in 0 .. MaxQueries
          /\ blocked_queries \in 0 .. total_queries
          /\ cache_hits \in Nat /\ cache_misses \in Nat
          /\ cache_hits + cache_misses + Cardinality(Looking) <= total_queries

\* A response is what upstream said for the key of its own query.
OwnKey == out # NoAnswer /\ out.code = "NoError" /\ out.message # Blocked =>
              out.message \in heard[CacheKey(query_with_ecs(out.asked.query,
                                                            out.asked.ip, edns))]

IndInv == /\ CacheLaws!IndInv
          /\ Types /\ Locals /\ Stored /\ Delivered /\ Consistent /\ Counts
          /\ OwnKey /\ ContradictionsComeFromOldRules

-----------------------------------------------------------------------------
(* Powers of two, from the number of subsets of a set.                     *)

LEMMA Subsets ==
    ASSUME NEW a \in Int, NEW n \in Nat, NEW S, S = a + 1 .. a + n
    PROVE  /\ IsFiniteSet(SUBSET S) /\ Cardinality(SUBSET S) = 2 ^ n
           /\ 2 ^ n \in Nat \ {0}
PROOF
<1>1. IsFiniteSet(S) /\ Cardinality(S) = n
  <2>1. a + 1 \in Int /\ a + n \in Int OBVIOUS
  <2>2. IsFiniteSet(S) /\ Cardinality(S) = IF a + 1 > a + n THEN 0 ELSE a + n - (a + 1) + 1
    BY <2>1, FS_Interval
  <2>3. (IF a + 1 > a + n THEN 0 ELSE a + n - (a + 1) + 1) = n OBVIOUS
  <2> QED BY <2>2, <2>3
<1>2. IsFiniteSet(SUBSET S) /\ Cardinality(SUBSET S) = 2 ^ n BY <1>1, FS_SUBSET
<1>3. {} \in SUBSET S OBVIOUS
<1>4. Cardinality(SUBSET S) # 0 BY <1>2, <1>3, FS_EmptySet
<1>5. Cardinality(SUBSET S) \in Nat BY <1>2, FS_CardinalityType
<1> QED BY <1>2, <1>4, <1>5

LEMMA PowerType ==
    ASSUME NEW n \in Nat
    PROVE  2 ^ n \in Nat \ {0}
PROOF
<1> DEFINE S == 0 + 1 .. 0 + n
<1>1. 0 \in Int /\ S = 0 + 1 .. 0 + n OBVIOUS
<1> HIDE DEF S
<1> QED BY <1>1, Subsets

LEMMA PowerSum ==
    ASSUME NEW a \in Nat, NEW b \in Nat
    PROVE  2 ^ (a + b) = (2 ^ a) * (2 ^ b)
PROOF
<1> DEFINE A == 1 .. a
           B == a + 1 .. a + b
           U == 1 .. a + b
<1>1. U = A \cup B /\ A \cap B = {} OBVIOUS
<1>2. /\ IsFiniteSet(SUBSET A) /\ Cardinality(SUBSET A) = 2 ^ a
      /\ IsFiniteSet(SUBSET B) /\ Cardinality(SUBSET B) = 2 ^ b
      /\ IsFiniteSet(SUBSET U) /\ Cardinality(SUBSET U) = 2 ^ (a + b)
  <2>1. /\ 0 \in Int /\ a \in Int /\ a + b \in Nat
        /\ A = 0 + 1 .. 0 + a /\ U = 0 + 1 .. 0 + (a + b) /\ B = a + 1 .. a + b
    OBVIOUS
  <2> HIDE DEF A, B, U
  <2>2. IsFiniteSet(SUBSET A) /\ Cardinality(SUBSET A) = 2 ^ a BY <2>1, Subsets
  <2>3. IsFiniteSet(SUBSET B) /\ Cardinality(SUBSET B) = 2 ^ b BY <2>1, Subsets
  <2>4. IsFiniteSet(SUBSET U) /\ Cardinality(SUBSET U) = 2 ^ (a + b) BY <2>1, Subsets
  <2> QED BY <2>2, <2>3, <2>4
<1> HIDE DEF A, B, U
<1> DEFINE P == (SUBSET A) \X (SUBSET B)
           f == [T \in SUBSET U |-> <<T \cap A, T \cap B>>]
<1>3. f \in [SUBSET U -> P] OBVIOUS
<1>4. \A S, T \in SUBSET U : f[S] = f[T] => S = T BY <1>1
<1>5. \A x \in P : \E T \in SUBSET U : f[T] = x
  <2> SUFFICES ASSUME NEW x \in P PROVE \E T \in SUBSET U : f[T] = x OBVIOUS
  <2>1. x[1] \in SUBSET A /\ x[2] \in SUBSET B /\ x = <<x[1], x[2]>> OBVIOUS
  <2>2. x[1] \cup x[2] \in SUBSET U BY <1>1, <2>1
  <2>3. (x[1] \cup x[2]) \cap A = x[1] /\ (x[1] \cup x[2]) \cap B = x[2] BY <1>1, <2>1
  <2>4. f[x[1] \cup x[2]] = x BY <2>1, <2>2, <2>3
  <2> QED BY <2>2, <2>4
<1> HIDE DEF P, f
<1>6. f \in Bijection(SUBSET U, P) BY <1>3, <1>4, <1>5, Fun_IsBij, Zenon
<1>7. Cardinality(P) = Cardinality(SUBSET U)
  BY <1>2, <1>6, FS_Bijection DEF ExistsBijection
<1>8. Cardinality(P) = Cardinality(SUBSET A) * Cardinality(SUBSET B)
  BY <1>2, FS_Product DEF P
<1> QED BY <1>2, <1>7, <1>8

-----------------------------------------------------------------------------
(* Masking.                                                                *)

\* The quotient is the number whose multiple is reached and not passed.
LEMMA Quotient ==
    ASSUME NEW x \in Nat, NEW d \in Nat \ {0}
    PROVE  /\ x \div d \in Nat
           /\ (x \div d) * d <= x /\ x < (x \div d) * d + d
           /\ \A q \in Nat : q * d <= x /\ x < q * d + d => x \div d = q
PROOF
<1> DEFINE a == x \div d
<1>1. a \in Nat OBVIOUS
<1>2. x = d * a + (x % d) /\ x % d \in 0 .. d - 1 OBVIOUS
<1>3. d * a = a * d BY <1>1
<1> HIDE DEF a
<1>4. a * d <= x /\ x < a * d + d BY <1>1, <1>2, <1>3
<1>5. ASSUME NEW q \in Nat, q * d <= x, x < q * d + d PROVE a = q
  <2>1. CASE a < q
    <3>1. q - a - 1 \in Nat /\ (q - a - 1) * d \in Nat BY <1>1, <2>1
    <3>2. (q - a - 1) * d = q * d - a * d - d BY <1>1
    <3> QED BY <1>1, <1>4, <1>5, <3>1, <3>2
  <2>2. CASE q < a
    <3>1. a - q - 1 \in Nat /\ (a - q - 1) * d \in Nat BY <1>1, <2>2
    <3>2. (a - q - 1) * d = a * d - q * d - d BY <1>1
    <3> QED BY <1>1, <1>4, <1>5, <3>1, <3>2
  <2> QED BY <1>1, <2>1, <2>2
<1> QED BY <1>1, <1>4, <1>5 DEF a

\* A multiple of m below v, divided by a multiple of m.
LEMMA MaskAbove ==
    ASSUME NEW v \in Nat, NEW m \in Nat \ {0}, NEW k \in Nat \ {0}
    PROVE  ((v \div m) * m) \div (k * m) = v \div (k * m)
PROOF
<1> DEFINE a == v \div m
           d == k * m
           q == v \div d
           x == a * m
<1>1. d \in Nat \ {0} OBVIOUS
<1>2. a \in Nat /\ a * m <= v /\ v < a * m + m BY Quotient
<1> HIDE DEF d
<1>3. q \in Nat /\ q * d <= v /\ v < q * d + d BY <1>1, Quotient
<1> HIDE DEF a, q
<1>4. x \in Nat BY <1>2
<1>5. x < q * d + d
  <2>1. q * d \in Nat BY <1>1, <1>3
  <2> QED BY <1>1, <1>2, <1>3, <1>4, <2>1
<1>6. q * d <= x
  <2> SUFFICES ASSUME x < q * d PROVE FALSE BY <1>1, <1>3, <1>4
  <2> DEFINE b == q * k
  <2>1. b \in Nat BY <1>3
  <2>2. q * d = b * m BY <1>3 DEF d
  <2> HIDE DEF b
  <2>3. a < b
    <3>1. CASE b <= a
      <4>1. a - b \in Nat /\ (a - b) * m \in Nat BY <1>2, <2>1, <3>1
      <4>2. (a - b) * m = a * m - b * m BY <1>2, <2>1
      <4> QED BY <1>2, <2>1, <2>2, <4>1, <4>2
    <3> QED BY <1>2, <2>1, <3>1
  <2>4. b - a - 1 \in Nat /\ (b - a - 1) * m \in Nat BY <1>2, <2>1, <2>3
  <2>5. (b - a - 1) * m = b * m - a * m - m BY <1>2, <2>1
  <2> QED BY <1>2, <1>3, <2>1, <2>2, <2>4, <2>5
<1>7. x \div d = q
  <2> HIDE DEF x
  <2> QED BY <1>1, <1>3, <1>4, <1>5, <1>6, Quotient
<1> QED BY <1>7 DEF a, d, q, x

\* An even multiple of d.
LEMMA MaskBelow ==
    ASSUME NEW a \in Nat, NEW d \in Nat \ {0}, NEW k \in Nat
    PROVE  ((a * ((2 * k) * d)) \div d) % 2 = 0
PROOF
<1> DEFINE b == a * k
           q == 2 * b
           x == a * ((2 * k) * d)
<1>1. b \in Nat /\ q \in Nat OBVIOUS
<1>2. x = q * d OBVIOUS
<1> HIDE DEF x, b
<1>3. x \in Nat /\ q * d <= x /\ x < q * d + d BY <1>1, <1>2
<1>4. x \div d = q BY <1>1, <1>3, Quotient
<1>5. q % 2 = 0 BY <1>1
<1> QED BY <1>4, <1>5 DEF x

\* mask_bits keeps the bits of the prefix and clears the others.
LEMMA MaskedBits ==
    ASSUME NEW v \in Nat, NEW w \in Nat, NEW p \in 0 .. w, NEW i \in 1 .. w
    PROVE  /\ mask_bits(v, p, w) \in Nat
           /\ Bit(mask_bits(v, p, w), i, w) = IF i <= p THEN Bit(v, i, w) ELSE 0
PROOF
<1> DEFINE m == 2 ^ (w - p)
           d == 2 ^ (w - i)
<1>1. w - p \in Nat /\ w - i \in Nat OBVIOUS
<1>2. m \in Nat \ {0} /\ d \in Nat \ {0} BY <1>1, PowerType
<1>3. v \div m \in Nat BY <1>2, Quotient
<1>4. mask_bits(v, p, w) \in Nat
  <2> HIDE DEF m
  <2>1. (v \div m) * m \in Nat BY <1>2, <1>3
  <2> QED BY <2>1 DEF mask_bits, m
<1>5. CASE p = 0
  <2>1. 0 \div d = 0
    <3> HIDE DEF d
    <3>1. 0 * d <= 0 /\ 0 < 0 * d + d /\ 0 \in Nat BY <1>2
    <3> QED BY <1>2, <3>1, Quotient
  <2>2. mask_bits(v, p, w) = 0 /\ ~(i <= p) BY <1>5 DEF mask_bits
  <2>3. Bit(0, i, w) = (0 \div d) % 2 BY DEF Bit
  <2>4. 0 % 2 = 0 OBVIOUS
  <2> HIDE DEF d
  <2>5. Bit(0, i, w) = 0 BY <2>1, <2>3, <2>4
  <2> QED BY <1>4, <2>2, <2>5
<1>6. CASE p # 0 /\ i <= p
  <2> DEFINE k == 2 ^ (p - i)
  <2>1. p - i \in Nat /\ w - i = (p - i) + (w - p) BY <1>6
  <2>2. k \in Nat \ {0} /\ d = k * m BY <1>1, <2>1, PowerType, PowerSum
  <2>3. mask_bits(v, p, w) = (v \div m) * m BY <1>6 DEF mask_bits
  <2> HIDE DEF m, k
  <2>4. ((v \div m) * m) \div (k * m) = v \div (k * m) BY <1>2, <2>2, MaskAbove
  <2> QED BY <1>4, <1>6, <2>2, <2>3, <2>4 DEF Bit
<1>7. CASE p # 0 /\ ~(i <= p)
  <2> DEFINE k == 2 ^ (i - p - 1)
  <2>1. /\ i - p - 1 \in Nat /\ i - p \in Nat /\ w - p = (i - p) + (w - i)
        /\ i - p = 1 + (i - p - 1) /\ 1 \in Nat
    BY <1>7
  <2>2. 2 ^ 1 = 2 OBVIOUS
  <2>3. k \in Nat \ {0} BY <2>1, PowerType
  <2>4. 2 ^ (i - p) = (2 ^ 1) * k BY <2>1, PowerSum
  <2>5. m = (2 ^ (i - p)) * d BY <1>1, <2>1, PowerSum
  <2>6. m = (2 * k) * d BY <2>2, <2>4, <2>5
  <2>7. mask_bits(v, p, w) = (v \div m) * m BY <1>7 DEF mask_bits
  <2> DEFINE a == v \div m
  <2> HIDE DEF a, d, k
  <2>8. a \in Nat BY <1>3 DEF a
  <2>9. ((a * ((2 * k) * d)) \div d) % 2 = 0 BY <1>2, <2>3, <2>8, MaskBelow
  <2>10. mask_bits(v, p, w) = a * ((2 * k) * d) BY <2>6, <2>7 DEF a
  <2> QED BY <1>4, <1>7, <2>9, <2>10 DEF Bit, d
<1> QED BY <1>5, <1>6, <1>7

\* The query that goes upstream asks for the client's name, and reveals no more
\* of the client than it may.
LEMMA UpstreamQueryFacts ==
    ASSUME NEW a \in Arrivals, NEW e \in EdnsConfigs
    PROVE  LET q == query_with_ecs(a.query, a.ip, e) IN
           /\ q \in Questions /\ CacheKey(q) \in Keys
           /\ CacheKey(q).name = a.query.name
           /\ Reveals(a.query, a.ip, e, CacheKey(q).ecs)
PROOF
<1> USE ResolverAssumption, ClientSubnetAssumption
<1> DEFINE q == query_with_ecs(a.query, a.ip, e)
           s == client_subnet(a.ip, e)
<1>1. q \in Questions /\ CacheKey(q) \in Keys OBVIOUS
<1>2. CacheKey(q).name = q.name /\ CacheKey(q).ecs = q.ecs BY DEF CacheKey
<1>3. a.ip = NoEcs \/ (a.ip.family \in Families /\ a.ip.bits \in Nat) OBVIOUS
<1>4. ASSUME a.ip # NoEcs, ~(a.ip \in Private /\ e.exclude_private)
      PROVE  s # NoEcs /\ SubnetOf(s, a.ip, e)
  <2> DEFINE f == a.ip.family
             p == e.prefix[f]
             b == mask_bits(a.ip.bits, p, Width[f])
  <2>1. f \in Families /\ a.ip.bits \in Nat BY <1>3, <1>4
  <2>2. Width[f] \in Nat \ {0} /\ p \in 0 .. Width[f] BY <2>1
  <2>3. s = [family |-> f, prefix |-> p, bits |-> b]
    BY <1>4 DEF client_subnet, is_public_client_ip
  <2>4. \A i \in 1 .. Width[f] :
            /\ b \in Nat
            /\ Bit(b, i, Width[f]) = IF i <= p THEN Bit(a.ip.bits, i, Width[f]) ELSE 0
    BY <2>1, <2>2, MaskedBits
  <2>5. b \in Nat
    <3>1. 1 \in 1 .. Width[f] BY <2>2
    <3> QED BY <2>4, <3>1
  <2> HIDE DEF b, p
  <2>6. s \in Subnets
    <3>1. p \in Nat BY <2>2
    <3> QED BY <2>1, <2>3, <2>5, <3>1 DEF Subnets
  <2>7. SubnetOf(s, a.ip, e)
    <3>1. s.family = f /\ s.prefix = p /\ s.bits = b BY <2>3
    <3> QED BY <2>4, <3>1 DEF SubnetOf, p
  <2> QED BY <2>6, <2>7
<1>5. (a.ip \in Private /\ e.exclude_private) => s = NoEcs
  BY DEF client_subnet, is_public_client_ip
<1> HIDE DEF s
<1>6. CASE ~e.enabled \/ (e.preserve_client /\ a.query.ecs # NoEcs)
           \/ a.ip = NoEcs \/ s = NoEcs
  <2>1. q = a.query BY <1>6 DEF query_with_ecs, s
  <2>2. Reveals(a.query, a.ip, e, a.query.ecs) BY <1>4, <1>6 DEF Reveals
  <2> QED BY <1>1, <1>2, <2>1, <2>2
<1>7. CASE ~(~e.enabled \/ (e.preserve_client /\ a.query.ecs # NoEcs)
             \/ a.ip = NoEcs \/ s = NoEcs)
  <2>1. q = [a.query EXCEPT !.ecs = s] BY <1>7 DEF query_with_ecs, s
  <2>2. {"name", "ecs"} \subseteq DOMAIN a.query OBVIOUS
  <2>3. q.name = a.query.name /\ q.ecs = s BY <2>1, <2>2
  <2>4. Reveals(a.query, a.ip, e, s) BY <1>4, <1>5, <1>7 DEF Reveals
  <2> QED BY <1>1, <1>2, <2>3, <2>4
<1> QED BY <1>6, <1>7

-----------------------------------------------------------------------------
(* The cache inside the resolver.                                          *)

LEMMA CacheConstants == CacheLaws!CacheAssumption
PROOF
<1>1. Cache!CacheAssumption BY ResolverAssumption
<1>2. \A S : Cache!IsFiniteSet(S) <=> CacheLaws!IsFiniteSet(S)
  BY DEF Cache!IsFiniteSet, CacheLaws!IsFiniteSet
<1>3. /\ Cache!Sections = CacheLaws!Sections /\ Cache!Limits = CacheLaws!Limits
      /\ Cache!Entries = CacheLaws!Entries /\ Cache!Lessons = CacheLaws!Lessons
      /\ Cache!Hits = CacheLaws!Hits
  BY DEF Cache!Sections, CacheLaws!Sections, Cache!Limits, CacheLaws!Limits,
         Cache!Entries, CacheLaws!Entries, Cache!Lessons, CacheLaws!Lessons,
         Cache!Hits, CacheLaws!Hits
<1> QED BY <1>1, <1>2, <1>3, Zenon DEF Cache!CacheAssumption, CacheLaws!CacheAssumption

LEMMA SameLifetime ==
    ASSUME NEW m
    PROVE  Cache!Ttls(m) = CacheLaws!Ttls(m) /\ Cache!Lifetime(m) = CacheLaws!Lifetime(m)
PROOF
<1>1. Cache!Ttls(m) = CacheLaws!Ttls(m)
  BY Zenon DEF Cache!Ttls, CacheLaws!Ttls, Cache!Sections, CacheLaws!Sections
<1>2. \A S : Cache!Lowest(S) = CacheLaws!Lowest(S)
  BY Zenon DEF Cache!Lowest, CacheLaws!Lowest
<1>3. Cache!Lifetime(m) = CacheLaws!Lifetime(m)
  BY <1>1, <1>2 DEF Cache!Lifetime, CacheLaws!Lifetime, Cache!Clamp, CacheLaws!Clamp,
                    Cache!RecordTtl, CacheLaws!RecordTtl
<1> QED BY <1>1, <1>3

LEMMA SameSize == /\ \A S : Cache!Cardinality(S) = CacheLaws!Cardinality(S)
                  /\ Cache!Cached = CacheLaws!Cached
BY DEF Cache!Cardinality, CacheLaws!Cardinality, Cache!Cached, CacheLaws!Cached

\* What Resolver calls is what CacheProofs is about.
LEMMA CacheOperators ==
    /\ Cache!Flush <=> CacheLaws!Flush
    /\ Cache!Tick <=> CacheLaws!Tick
    /\ \A k \in Keys : /\ Cache!GetHit(k) <=> CacheLaws!GetHit(k)
                       /\ Cache!GetAbsent(k) <=> CacheLaws!GetAbsent(k)
                       /\ Cache!GetExpired(k) <=> CacheLaws!GetExpired(k)
    /\ \A k \in Keys, m \in Messages : Cache!Insert(k, m) <=> CacheLaws!Insert(k, m)
PROOF
<1>1. Cache!Cached = CacheLaws!Cached BY SameSize
<1>2. Cache!UpdateMetric = CacheLaws!UpdateMetric /\ Cache!Full = CacheLaws!Full
  BY SameSize DEF Cache!UpdateMetric, CacheLaws!UpdateMetric, Cache!Full, CacheLaws!Full,
                  Cache!Cached, CacheLaws!Cached
<1>3. Cache!Flush <=> CacheLaws!Flush BY <1>2, Zenon DEF Cache!Flush, CacheLaws!Flush
<1>4. Cache!Tick <=> CacheLaws!Tick BY Zenon DEF Cache!Tick, CacheLaws!Tick
<1>5. ASSUME NEW k \in Keys
      PROVE  /\ Cache!GetHit(k) <=> CacheLaws!GetHit(k)
             /\ Cache!GetAbsent(k) <=> CacheLaws!GetAbsent(k)
             /\ Cache!GetExpired(k) <=> CacheLaws!GetExpired(k)
  <2>1. /\ Cache!Expired(k) = CacheLaws!Expired(k)
        /\ Cache!RemainingSecs(k) = CacheLaws!RemainingSecs(k)
    BY DEF Cache!Expired, CacheLaws!Expired, Cache!RemainingSecs,
           CacheLaws!RemainingSecs, Cache!Elapsed, CacheLaws!Elapsed
  <2>2. Cache!GetHit(k) <=> CacheLaws!GetHit(k)
    BY <2>1, Zenon DEF Cache!GetHit, CacheLaws!GetHit
  <2>3. Cache!GetAbsent(k) <=> CacheLaws!GetAbsent(k)
    BY Zenon DEF Cache!GetAbsent, CacheLaws!GetAbsent
  <2>4. Cache!GetExpired(k) <=> CacheLaws!GetExpired(k)
    BY <1>2, <2>1, Zenon DEF Cache!GetExpired, CacheLaws!GetExpired
  <2> QED BY <2>2, <2>3, <2>4, Zenon
<1>6. ASSUME NEW k \in Keys, NEW m \in Messages
      PROVE  Cache!Insert(k, m) <=> CacheLaws!Insert(k, m)
  <2>1. Cache!Ttls(m) = CacheLaws!Ttls(m) BY SameLifetime
  <2>2. Cache!NewEntry(m) = CacheLaws!NewEntry(m)
    BY SameLifetime DEF Cache!NewEntry, CacheLaws!NewEntry
  <2>3. \A left : Cache!Put(k, m, left) <=> CacheLaws!Put(k, m, left)
    BY <1>2, <2>2, Zenon DEF Cache!Put, CacheLaws!Put
  <2>4. Cache!InsertUncacheable(k, m) <=> CacheLaws!InsertUncacheable(k, m)
    BY <2>1, Zenon DEF Cache!InsertUncacheable, CacheLaws!InsertUncacheable
  <2>5. Cache!InsertWithRoom(k, m) <=> CacheLaws!InsertWithRoom(k, m)
    BY <1>1, <1>2, <2>1, <2>3, Zenon DEF Cache!InsertWithRoom, CacheLaws!InsertWithRoom
  <2>6. Cache!InsertEvicting(k, m) <=> CacheLaws!InsertEvicting(k, m)
    BY <1>1, <1>2, <2>1, <2>3, Zenon DEF Cache!InsertEvicting, CacheLaws!InsertEvicting
  <2> QED BY <2>4, <2>5, <2>6, Zenon DEF Cache!Insert, CacheLaws!Insert
<1> QED BY <1>3, <1>4, <1>5, <1>6, Zenon

\* A step of the resolver is one of the cache, or leaves its reply unread.
LEMMA CacheSteps ==
    ASSUME CacheLaws!IndInv,
           \/ CacheIdle \/ Cache!Flush \/ Cache!Tick
           \/ \E k \in Keys : Cache!GetHit(k) \/ Cache!GetAbsent(k) \/ Cache!GetExpired(k)
           \/ \E k \in Keys, m \in Messages : Cache!Insert(k, m)
    PROVE  CacheLaws!IndInv'
PROOF
<1>1. CASE CacheIdle
  BY <1>1, CacheConstants
  DEF CacheIdle, CacheLaws!IndInv, CacheLaws!TypeOK, CacheLaws!Faithful, CacheLaws!ServedFresh,
      CacheLaws!EntriesGaugeExact, CacheLaws!CapacityRespected, CacheLaws!Cached
<1>2. CASE Cache!Flush \/ Cache!Tick
  <2>1. [CacheLaws!Next]_CacheLaws!vars BY <1>2, CacheOperators, Zenon DEF CacheLaws!Next
  <2> QED BY <2>1, CacheConstants, CacheLaws!StepKeepsInv
<1>3. ASSUME NEW k \in Keys, Cache!GetHit(k) \/ Cache!GetAbsent(k) \/ Cache!GetExpired(k)
      PROVE  CacheLaws!IndInv'
  <2>1. CacheLaws!Get(k) BY <1>3, CacheOperators, Zenon DEF CacheLaws!Get
  <2>2. [CacheLaws!Next]_CacheLaws!vars BY <2>1, Zenon DEF CacheLaws!Next
  <2> QED BY <2>2, CacheConstants, CacheLaws!StepKeepsInv
<1>4. ASSUME NEW k \in Keys, NEW m \in Messages, Cache!Insert(k, m)
      PROVE  CacheLaws!IndInv'
  <2>1. CacheLaws!Insert(k, m) BY <1>4, CacheOperators, Zenon
  <2>2. [CacheLaws!Next]_CacheLaws!vars BY <2>1, Zenon DEF CacheLaws!Next, Messages
  <2> QED BY <2>2, CacheConstants, CacheLaws!StepKeepsInv
<1> QED BY <1>1, <1>2, <1>3, <1>4, Zenon

\* Nothing but an insert adds to the map.
LEMMA EntriesKept ==
    ASSUME CacheLaws!IndInv, NEW k \in Keys, entries'[k] # NoEntry,
           \/ CacheIdle \/ Cache!Flush \/ Cache!Tick
           \/ \E j \in Keys : Cache!GetHit(j) \/ Cache!GetAbsent(j) \/ Cache!GetExpired(j)
    PROVE  entries'[k] = entries[k]
PROOF
<1>1. entries \in [Keys -> CacheLaws!Entries \cup {NoEntry}]
  BY DEF CacheLaws!IndInv, CacheLaws!TypeOK
<1>2. CASE CacheIdle BY <1>2 DEF CacheIdle
<1>3. CASE Cache!Flush BY <1>3 DEF Cache!Flush
<1>4. CASE Cache!Tick BY <1>4 DEF Cache!Tick
<1>5. ASSUME NEW j \in Keys, Cache!GetHit(j) PROVE entries' = entries
  BY <1>5 DEF Cache!GetHit
<1>6. ASSUME NEW j \in Keys, Cache!GetAbsent(j) PROVE entries' = entries
  BY <1>6 DEF Cache!GetAbsent
<1>7. ASSUME NEW j \in Keys, Cache!GetExpired(j) PROVE entries'[k] = entries[k]
  BY <1>1, <1>7 DEF Cache!GetExpired
<1> QED BY <1>2, <1>3, <1>4, <1>5, <1>6, <1>7, Zenon

\* An insert adds its message, if it has records, under its key and no other.
LEMMA InsertFacts ==
    ASSUME CacheLaws!IndInv, NEW k \in Keys, NEW m \in Messages, Cache!Insert(k, m),
           NEW j \in Keys, entries'[j] # NoEntry
    PROVE  IF j = k /\ Cache!Ttls(m) # {} THEN entries'[j].message = m
                                          ELSE entries'[j] = entries[j]
PROOF
<1>1. entries \in [Keys -> CacheLaws!Entries \cup {NoEntry}]
  BY DEF CacheLaws!IndInv, CacheLaws!TypeOK
<1>2. CASE Cache!InsertUncacheable(k, m) BY <1>2 DEF Cache!InsertUncacheable
<1>3. ASSUME NEW left \in [Keys -> CacheLaws!Entries \cup {NoEntry}], Cache!Put(k, m, left),
             Cache!Ttls(m) # {}, left[j] # NoEntry => left[j] = entries[j]
      PROVE  IF j = k THEN entries'[j].message = m ELSE entries'[j] = entries[j]
  BY <1>3 DEF Cache!Put, Cache!NewEntry
<1>4. CASE Cache!InsertWithRoom(k, m)
  BY <1>1, <1>3, <1>4, Zenon DEF Cache!InsertWithRoom
<1>5. CASE Cache!InsertEvicting(k, m)
  <2>1. PICK victim \in Cache!Cached :
            Cache!Ttls(m) # {} /\ Cache!Put(k, m, [entries EXCEPT ![victim] = NoEntry])
    BY <1>5, Zenon DEF Cache!InsertEvicting
  <2> DEFINE left == [entries EXCEPT ![victim] = NoEntry]
  <2>2. /\ left \in [Keys -> CacheLaws!Entries \cup {NoEntry}]
        /\ left[j] # NoEntry => left[j] = entries[j]
    BY <1>1 DEF Cache!Cached
  <2> HIDE DEF left
  <2> QED BY <1>3, <2>1, <2>2 DEF left
<1> QED BY <1>2, <1>4, <1>5, Zenon DEF Cache!Insert

-----------------------------------------------------------------------------
(* Opinions.                                                               *)

LEMMA OpinionFacts ==
    ASSUME Types
    PROVE  /\ version \in Nat /\ \A x \in Opinions : x.at \in Nat
           /\ \A at, name, says : /\ Opinion(at, name, says).at = at
                                  /\ Opinion(at, name, says).name = name
                                  /\ Opinion(at, name, says).says = says
PROOF
<1> USE ResolverAssumption DEF Types, Opinion
<1>1. \A r \in Requests : Verdict(r).at = ruled_by[r] /\ ruled_by[r] \in Nat BY DEF Verdict
<1>2. \A k \in Keys : Kept(k).at = source[k] /\ source[k] \in Nat BY DEF Kept
<1>3. ASSUME NEW x \in Opinions PROVE x.at \in Nat
  <2>1. \/ \E r \in Requests : x = Verdict(r)
        \/ \E k \in Keys : x = Kept(k)
    BY DEF Opinions, Busy
  <2> QED BY <1>1, <1>2, <2>1, Zenon
<1> QED BY <1>3

\* While the rules stay, a request takes the opinion they give it, and passes its
\* own on to the cache.
LEMMA ConsistentKept ==
    ASSUME Types, Consistent, UNCHANGED ruleVars,
           \A r \in Busy' : \/ Verdict(r)' \in Opinions
                            \/ \E n : Verdict(r)' = Opinion(version, n, Ruling(n)),
           \A k \in Keys : entries'[k] # NoEntry => Kept(k)' \in Opinions
    PROVE  Consistent'
PROOF
<1>1. ASSUME NEW x \in Opinions'
      PROVE  x \in Opinions \/ \E n : x = Opinion(version, n, Ruling(n))
  <2>1. \/ \E r \in Busy' : x = Verdict(r)'
        \/ \E k \in Keys : entries'[k] # NoEntry /\ x = Kept(k)'
    BY DEF Opinions
  <2> QED BY <2>1
<1>2. \A n : Ruling(n)' = Ruling(n) BY DEF ruleVars, Ruling
<1>3. version' = version BY DEF ruleVars
<1>4. ASSUME NEW x \in Opinions'
      PROVE  x.at <= version /\ (x.at = version => x.says = Ruling(x.name))
  <2>1. CASE x \in Opinions BY <2>1 DEF Consistent
  <2>2. ASSUME NEW n, x = Opinion(version, n, Ruling(n))
        PROVE  x.at <= version /\ x.says = Ruling(x.name)
    BY <2>2, OpinionFacts
  <2> QED BY <1>1, <2>1, <2>2
<1>5. ASSUME NEW x \in Opinions', NEW y \in Opinions', x.at = y.at, x.name = y.name
      PROVE  x.says = y.says
  <2>1. CASE x \in Opinions /\ y \in Opinions BY <1>5, <2>1 DEF Consistent
  <2>2. ASSUME NEW n, x = Opinion(version, n, Ruling(n)) PROVE x.says = y.says
    BY <1>4, <1>5, <2>2, OpinionFacts
  <2>3. ASSUME NEW n, y = Opinion(version, n, Ruling(n)) PROVE x.says = y.says
    BY <1>4, <1>5, <2>3, OpinionFacts
  <2> QED BY <1>1, <2>1, <2>2, <2>3
<1> QED BY <1>2, <1>3, <1>4, <1>5 DEF Consistent

\* A reload makes every opinion an old one.
LEMMA ConsistentReloaded ==
    ASSUME Types, Consistent, version' = version + 1, Opinions' \subseteq Opinions
    PROVE  Consistent'
PROOF
<1>1. \A x \in Opinions' : x.at \in Nat /\ x.at <= version /\ version \in Nat
  BY OpinionFacts DEF Consistent
<1>2. \A x, y \in Opinions' : x.at = y.at /\ x.name = y.name => x.says = y.says
  BY DEF Consistent
<1>3. \A x \in Opinions' : x.at <= version' /\ x.at # version' BY <1>1
<1> QED BY <1>2, <1>3 DEF Consistent

-----------------------------------------------------------------------------
(* Every step.                                                             *)

LEMMA RequestFacts ==
    ASSUME Types, Locals, NEW r \in Requests, pc[r] # "idle"
    PROVE  /\ asked[r] \in Arrivals /\ Flight(r) \in Flights
           /\ key(r) \in Keys /\ key(r).name = asked[r].query.name
           /\ key(r) = CacheKey(query_with_ecs(asked[r].query, asked[r].ip, edns))
           /\ Verdict(r) \in Opinions
PROOF
<1>1. asked[r] \in Arrivals /\ edns \in EdnsConfigs BY DEF Types, Locals
<1>2. Verdict(r) \in Opinions BY DEF Opinions, Busy
<1>3. upstream_query(r) \in Questions BY <1>1, UpstreamQueryFacts DEF upstream_query
<1>4. Flight(r) \in Flights BY <1>3 DEF Flight, Flights, MapOf
<1> QED BY <1>1, <1>2, <1>4, UpstreamQueryFacts DEF key, upstream_query

LEMMA LookingFacts == IsFiniteSet(Looking) /\ Cardinality(Looking) \in Nat
PROOF
<1>1. Looking \in SUBSET Requests /\ IsFiniteSet(Requests)
  BY ResolverAssumption DEF Looking
<1> QED BY <1>1, FS_Subset, FS_CardinalityType

\* Entries that stay keep their source and their opinion.
LEMMA CacheKept ==
    ASSUME CacheLaws!IndInv, Stored, UNCHANGED source,
           \A k \in Keys : heard[k] \subseteq heard'[k],
           \/ CacheIdle \/ Cache!Flush \/ Cache!Tick
           \/ \E j \in Keys : Cache!GetHit(j) \/ Cache!GetAbsent(j) \/ Cache!GetExpired(j)
    PROVE  /\ Stored'
           /\ \A k \in Keys : entries'[k] # NoEntry => Kept(k)' \in Opinions
PROOF
<1>1. \A k \in Keys : entries'[k] # NoEntry => entries'[k] = entries[k]
  BY EntriesKept, Zenon
<1>2. ASSUME NEW k \in Keys, entries'[k] # NoEntry PROVE Kept(k)' \in Opinions
  <2>1. Kept(k)' = Kept(k) BY <1>1, <1>2 DEF Kept
  <2> QED BY <1>1, <1>2, <2>1 DEF Opinions
<1>3. Stored' BY <1>1 DEF Stored
<1> QED BY <1>2, <1>3

\* A step that answers nobody.
LEMMA Silent ==
    ASSUME out' = NoAnswer
    PROVE  OwnKey' /\ ContradictionsComeFromOldRules'
BY DEF OwnKey, ContradictionsComeFromOldRules

\* Steps that leave the requests alone.
LEMMA QuietStep ==
    ASSUME IndInv, UNCHANGED edns,
           \/ \E r \in Requests : Malformed(r)
           \/ \E S \in RuleSets : Reload(S)
           \/ Flush \/ Tick
    PROVE  IndInv'
PROOF
<1> USE DEF IndInv
<1>1. /\ CacheIdle \/ Cache!Flush \/ Cache!Tick
      /\ UNCHANGED <<flightVars, pc, localVars, source, heard, cache_hits, cache_misses,
                     blocked_queries>>
      /\ out' = NoAnswer
      /\ \/ UNCHANGED ruleVars
         \/ version' = version + 1 /\ version < MaxReloads /\ rules' \in RuleSets
      /\ \/ UNCHANGED total_queries
         \/ total_queries < MaxQueries /\ total_queries' = total_queries + 1
  BY Zenon DEF Malformed, Reload, Flush, Tick, RecordQuery, counters, ruleVars
<1>2. CacheLaws!IndInv' BY <1>1, CacheSteps
<1>3. Types'
  BY <1>1, ResolverAssumption DEF Types, Pending!TypeOK, flightVars, localVars, ruleVars
<1>4. Locals' BY <1>1 DEF Locals, flightVars, localVars, Flight, MapOf, upstream_query
<1>5. Stored' /\ \A k \in Keys : entries'[k] # NoEntry => Kept(k)' \in Opinions
  BY <1>1, CacheKept
<1>6. Delivered' BY <1>1 DEF Delivered, flightVars, localVars, key, upstream_query
<1>7. Consistent'
  <2>1. \A r \in Busy' : Verdict(r)' \in Opinions
    BY <1>1 DEF Busy, Verdict, Opinions, localVars
  <2>2. Opinions' \subseteq Opinions
    <3>1. \A x \in Opinions' : \/ \E r \in Busy' : x = Verdict(r)'
                               \/ \E k \in Keys : entries'[k] # NoEntry /\ x = Kept(k)'
      BY DEF Opinions
    <3> QED BY <1>5, <2>1, <3>1
  <2>3. CASE UNCHANGED ruleVars BY <1>5, <2>1, <2>3, ConsistentKept
  <2>4. CASE version' = version + 1 BY <2>2, <2>4, ConsistentReloaded
  <2> QED BY <1>1, <2>3, <2>4
<1>8. Counts'
  <2>1. Looking' = Looking BY <1>1 DEF Looking
  <2> QED BY <1>1, <2>1, LookingFacts, ResolverAssumption DEF Counts
<1> QED BY <1>1, <1>2, <1>3, <1>4, <1>5, <1>6, <1>7, <1>8, Silent

\* A query arrives; its verdict is what the rules say now.
LEMMA ArriveStep ==
    ASSUME IndInv, UNCHANGED edns, NEW r \in Requests, NEW a \in Arrivals, Arrive(r, a)
    PROVE  IndInv'
PROOF
<1> USE DEF IndInv
<1>1. CacheLaws!IndInv' BY CacheSteps, Zenon DEF Arrive
<1>2. Types' BY ResolverAssumption DEF Arrive, Types, Pending!TypeOK, flightVars, ruleVars
<1>3. Locals'
  BY DEF Arrive, Locals, Types, Pending!TypeOK, flightVars, ruleVars, Flight, MapOf, upstream_query
<1>4. Stored' /\ \A k \in Keys : entries'[k] # NoEntry => Kept(k)' \in Opinions
  BY CacheKept DEF Arrive
<1>5. Delivered'
  BY DEF Arrive, Delivered, Types, flightVars, key, upstream_query
<1>6. Consistent'
  <2>1. Verdict(r)' = Opinion(version, a.query.name, Ruling(a.query.name))
    BY DEF Arrive, Types, Verdict, Decide, Ruling
  <2>2. ASSUME NEW q \in Busy', q # r PROVE Verdict(q)' \in Opinions
    BY <2>2 DEF Arrive, Types, Verdict, Busy, Opinions
  <2> QED BY <1>4, <2>1, <2>2, ConsistentKept DEF Arrive
<1>7. Counts'
  <2>1. Looking' = Looking \cup {r} /\ r \notin Looking BY DEF Arrive, Types, Looking
  <2>2. Cardinality(Looking') = Cardinality(Looking) + 1
    BY <2>1, LookingFacts, FS_AddElement
  <2> QED BY <2>2, LookingFacts, ResolverAssumption
          DEF Arrive, Counts, RecordQuery, RecordBlocked
<1> QED BY <1>1, <1>2, <1>3, <1>4, <1>5, <1>6, <1>7, Silent DEF Arrive

\* The locals of the other requests, and of r if it goes on, stay.
LEMMA VerdictsKept ==
    ASSUME Types, NEW r \in Requests,
           Finish(r) \/ (UNCHANGED localVars /\ pc[r] # "idle" /\ pc' = [pc EXCEPT ![r] = pc'[r]])
    PROVE  \A q \in Busy' : Verdict(q)' \in Opinions
PROOF
<1> SUFFICES ASSUME NEW q \in Busy' PROVE Verdict(q)' \in Opinions OBVIOUS
<1>1. CASE Finish(r)
  <2>1. q # r /\ q \in Busy BY <1>1 DEF Finish, Types, Busy
  <2>2. Verdict(q)' = Verdict(q) BY <1>1, <2>1 DEF Finish, Types, Verdict, Busy
  <2> QED BY <2>1, <2>2 DEF Opinions
<1>2. CASE UNCHANGED localVars /\ pc[r] # "idle" /\ pc' = [pc EXCEPT ![r] = pc'[r]]
  <2>1. q \in Busy BY <1>2 DEF Types, Busy
  <2>2. Verdict(q)' = Verdict(q) BY <1>2 DEF localVars, Verdict
  <2> QED BY <2>1, <2>2 DEF Opinions
<1> QED BY <1>1, <1>2

\* The cache has nothing for r.
LEMMA MissStep ==
    ASSUME IndInv, UNCHANGED edns, NEW r \in Requests, Miss(r)
    PROVE  IndInv'
PROOF
<1> USE DEF IndInv
<1>1. key(r) \in Keys BY RequestFacts DEF Miss
<1>2. \E k \in Keys : Cache!GetHit(k) \/ Cache!GetAbsent(k) \/ Cache!GetExpired(k)
  BY <1>1, Zenon DEF Miss
<1>3. CacheLaws!IndInv' BY <1>2, CacheSteps, Zenon
<1>4. Types' BY DEF Miss, Types, Pending!TypeOK, flightVars, ruleVars, localVars
<1>5. Locals'
  BY DEF Miss, Locals, Types, flightVars, localVars, Flight, MapOf, upstream_query
<1>6. Stored' /\ \A k \in Keys : entries'[k] # NoEntry => Kept(k)' \in Opinions
  BY <1>2, CacheKept DEF Miss
<1>7. Delivered' BY DEF Miss, Delivered, Types, flightVars, localVars, key, upstream_query
<1>8. Consistent'
  <2>1. UNCHANGED localVars /\ pc[r] # "idle" /\ pc' = [pc EXCEPT ![r] = pc'[r]]
    BY DEF Miss, Types
  <2>2. \A q \in Busy' : Verdict(q)' \in Opinions BY <2>1, VerdictsKept
  <2> QED BY <1>6, <2>2, ConsistentKept DEF Miss
<1>9. Counts'
  <2>1. Looking' = Looking \ {r} /\ r \in Looking BY DEF Miss, Types, Looking
  <2>2. Cardinality(Looking') = Cardinality(Looking) - 1
    BY <2>1, LookingFacts, FS_RemoveElement
  <2> QED BY <2>2, LookingFacts DEF Miss, Counts
<1> QED BY <1>3, <1>4, <1>5, <1>6, <1>7, <1>8, <1>9, Silent DEF Miss

\* An allowed query joins the flight of its question.
LEMMA AskStep ==
    ASSUME IndInv, UNCHANGED edns, NEW r \in Requests, Ask(r)
    PROVE  IndInv'
PROOF
<1> USE DEF IndInv
<1>1. /\ Flight(r) \in Flights /\ Pending!Ask(r, Flight(r))
      /\ \A s \in Requests : Flight(s)' = Flight(s)
  BY RequestFacts DEF Ask, Flight, localVars, upstream_query, MapOf
<1>2. CacheLaws!IndInv' BY CacheSteps, Zenon DEF Ask
<1>3. Types' BY <1>1 DEF Ask, Pending!Ask, Types, Pending!TypeOK, ruleVars, localVars
<1>4. Locals'
  BY <1>1, ResolverAssumption
  DEF Ask, Pending!Ask, Allowed, Locals, Types, Pending!TypeOK, localVars
<1>5. Stored' /\ \A k \in Keys : entries'[k] # NoEntry => Kept(k)' \in Opinions
  BY CacheKept DEF Ask
<1>6. Delivered'
  <2>1. ready[r] = NoOutcome BY DEF Ask, Pending!Ask, Locals
  <2> QED BY <2>1 DEF Ask, Pending!Ask, Delivered, Types, localVars, key, upstream_query
<1>7. Consistent'
  <2>1. UNCHANGED localVars /\ pc[r] # "idle" /\ pc' = [pc EXCEPT ![r] = pc'[r]]
    BY DEF Ask, Types
  <2>2. \A q \in Busy' : Verdict(q)' \in Opinions BY <2>1, VerdictsKept
  <2> QED BY <1>5, <2>2, ConsistentKept DEF Ask
<1>8. Counts'
  <2>1. Looking' = Looking BY DEF Ask, Types, Looking
  <2> QED BY <2>1 DEF Ask, Counts, counters
<1> QED BY <1>2, <1>3, <1>4, <1>5, <1>6, <1>7, <1>8, Silent DEF Ask

\* A flight lands: what it says is for the key of everybody aboard.
LEMMA LandStep ==
    ASSUME IndInv, UNCHANGED edns, NEW f \in Flights, NEW o \in Answers \cup {UpstreamError},
           Land(f, o)
    PROVE  IndInv'
PROOF
<1> USE DEF IndInv
<1>1. CacheKey(f[2]) \in Keys BY ResolverAssumption DEF Flights
<1>2. heard' \in [Keys -> SUBSET Answers] /\ \A k \in Keys : heard[k] \subseteq heard'[k]
  BY <1>1 DEF Land, Types
<1>3. CacheLaws!IndInv' BY CacheSteps, Zenon DEF Land
<1>4. Types' BY <1>2 DEF Land, Pending!Land, Types, Pending!TypeOK, ruleVars, localVars
<1>5. Locals'
  <2>1. f # NoKey BY ResolverAssumption
  <2> QED BY <2>1 DEF Land, Pending!Land, Locals, localVars, Flight, upstream_query, MapOf
<1>6. Stored' /\ \A k \in Keys : entries'[k] # NoEntry => Kept(k)' \in Opinions
  BY <1>2, CacheKept DEF Land
<1>7. Delivered'
  <2> SUFFICES ASSUME NEW r \in Requests, pc'[r] = "waiting",
                      ready'[r] \notin {NoOutcome, UpstreamError}
               PROVE  ready'[r] \in heard'[key(r)']
    BY DEF Delivered
  <2>1. pc[r] = "waiting" /\ key(r)' = key(r) BY DEF Land, localVars, key, upstream_query
  <2>2. key(r) \in Keys BY <2>1, RequestFacts
  <2>3. CASE ready'[r] = ready[r] BY <1>2, <2>1, <2>2, <2>3 DEF Delivered
  <2>4. CASE ready'[r] # ready[r]
    <3>1. asking[r] = f /\ ready'[r] = o BY <2>4 DEF Land, Pending!Land
    <3>2. key(r) = CacheKey(f[2]) BY <2>1, <3>1 DEF Locals, Flight, key
    <3>3. o \in heard'[CacheKey(f[2])] BY <1>1, <3>1 DEF Land, Types
    <3> QED BY <2>1, <3>1, <3>2, <3>3
  <2> QED BY <2>3, <2>4
<1>8. Consistent'
  <2>1. \A r \in Busy' : Verdict(r)' \in Opinions
    BY DEF Land, localVars, Verdict, Busy, Opinions
  <2> QED BY <1>6, <2>1, ConsistentKept DEF Land
<1>9. Counts'
  <2>1. Looking' = Looking BY DEF Land, Looking
  <2> QED BY <2>1 DEF Land, Counts, counters
<1> QED BY <1>3, <1>4, <1>5, <1>6, <1>7, <1>8, <1>9, Silent DEF Land

LEMMA Finished ==
    ASSUME Types, NEW r \in Requests, Finish(r)
    PROVE  /\ pc' \in [Requests -> {"idle", "lookup", "missed", "waiting"}]
           /\ asked' \in [Requests -> Arrivals \cup {NoKey}]
           /\ verdict' \in [Requests -> {"allow", "block"}]
           /\ ruled_by' \in [Requests -> 0 .. MaxReloads]
PROOF
<1>1. 0 \in 0 .. MaxReloads BY ResolverAssumption
<1> QED BY <1>1 DEF Types, Finish

LEMMA ResponseFacts ==
    ASSUME Types, Locals, UNCHANGED edns, NEW r \in Requests, pc[r] # "idle",
           NEW code \in {"NoError", "ServFail"}, NEW hit \in BOOLEAN,
           NEW m \in Messages \cup {NoReply}, out' = Response(r, code, hit, m),
           code = "NoError" => /\ m # Blocked => m \in heard'[key(r)]
                               /\ (verdict[r] = "block") # (m = Blocked) =>
                                      hit /\ source'[key(r)] # ruled_by[r]
    PROVE  out' \in Responses /\ OwnKey' /\ ContradictionsComeFromOldRules'
PROOF
<1>1. asked[r] \in Arrivals /\ verdict[r] \in {"allow", "block"}
      /\ ruled_by[r] \in 0 .. MaxReloads
  BY RequestFacts DEF Types
<1>2. out' \in Responses BY <1>1 DEF Response, Responses, Messages
<1>3. /\ out'.asked = asked[r] /\ out'.verdict = verdict[r] /\ out'.ruled_by = ruled_by[r]
      /\ out'.code = code /\ out'.from_cache = hit /\ out'.message = m
  BY DEF Response
<1>4. key(r) = CacheKey(query_with_ecs(out'.asked.query, out'.asked.ip, edns'))
  BY <1>3, RequestFacts
<1>5. OwnKey' BY <1>3, <1>4 DEF OwnKey
<1>6. ContradictionsComeFromOldRules'
  BY <1>3, <1>4 DEF ContradictionsComeFromOldRules
<1> QED BY <1>2, <1>5, <1>6

\* The cache has an answer for r: it is an opinion on the same name.
LEMMA HitStep ==
    ASSUME IndInv, UNCHANGED edns, NEW r \in Requests, Hit(r)
    PROVE  IndInv'
PROOF
<1> USE DEF IndInv
<1> DEFINE k == key(r)
           m == entries[k].message
<1>1. k \in Keys /\ k.name = asked[r].query.name /\ Verdict(r) \in Opinions
  BY RequestFacts DEF Hit
<1>2. \E j \in Keys : Cache!GetHit(j) \/ Cache!GetAbsent(j) \/ Cache!GetExpired(j)
  BY <1>1, Zenon DEF Hit
<1>3. CacheLaws!IndInv' BY <1>2, CacheSteps, Zenon
<1>4. entries[k] # NoEntry /\ served'.message = m BY DEF Hit, Cache!GetHit
<1>5. m \in Messages
  BY <1>1, <1>4 DEF CacheLaws!IndInv, CacheLaws!TypeOK, CacheLaws!Entries, Messages
<1>6. Kept(k) \in Opinions BY <1>1, <1>4 DEF Opinions
<1>7. source[k] = ruled_by[r] => (verdict[r] = "block" <=> m = Blocked)
  <2>1. source[k] = ruled_by[r] => Kept(k).says = Verdict(r).says
    BY <1>1, <1>6, OpinionFacts DEF Consistent, Kept, Verdict
  <2>2. verdict[r] \in {"allow", "block"} BY DEF Types
  <2> QED BY <2>1, <2>2, OpinionFacts DEF Kept, Verdict
<1>8. out' \in Responses /\ OwnKey' /\ ContradictionsComeFromOldRules'
  <2>1. m # Blocked => m \in heard[k] BY <1>1, <1>4 DEF Stored
  <2>2. pc[r] # "idle" /\ out' = Response(r, "NoError", TRUE, m) BY <1>4 DEF Hit
  <2>3. UNCHANGED <<source, heard>> BY DEF Hit
  <2> HIDE DEF m
  <2> QED BY <1>5, <1>7, <2>1, <2>2, <2>3, ResponseFacts
<1> HIDE DEF k, m
<1>9. Types' BY <1>8, Finished DEF Hit, Types, Pending!TypeOK, flightVars, ruleVars
<1>10. Locals' BY DEF Hit, Finish, Locals, Types, flightVars, Flight, MapOf, upstream_query
<1>11. Stored' /\ \A j \in Keys : entries'[j] # NoEntry => Kept(j)' \in Opinions
  BY <1>2, CacheKept DEF Hit
<1>12. Delivered' BY DEF Hit, Finish, Delivered, Types, flightVars, key, upstream_query
<1>13. Consistent'
  <2>1. \A q \in Busy' : Verdict(q)' \in Opinions BY VerdictsKept DEF Hit
  <2> QED BY <1>11, <2>1, ConsistentKept DEF Hit
<1>14. Counts'
  <2>1. Looking' = Looking \ {r} /\ r \in Looking BY DEF Hit, Finish, Types, Looking
  <2>2. Cardinality(Looking') = Cardinality(Looking) - 1
    BY <2>1, LookingFacts, FS_RemoveElement
  <2> QED BY <2>2, LookingFacts DEF Hit, Counts
<1> QED BY <1>3, <1>8, <1>9, <1>10, <1>11, <1>12, <1>13, <1>14

\* A request leaves PendingQueries, or was never there.
LEMMA Leaving ==
    ASSUME Types, Locals, Delivered, UNCHANGED <<edns, heard>>, NEW r \in Requests, Finish(r),
           \/ \E v \in Answers \cup {UpstreamError, NoOutcome, TimedOut} : Pending!Leave(r, v)
           \/ UNCHANGED flightVars /\ pc[r] # "waiting"
    PROVE  Pending!TypeOK' /\ Locals' /\ Delivered'
PROOF
<1>1. ASSUME NEW q \in Requests, q # r
      PROVE  /\ pc'[q] = pc[q] /\ asked'[q] = asked[q] /\ verdict'[q] = verdict[q]
             /\ asking'[q] = asking[q] /\ ready'[q] = ready[q]
             /\ upstream_query(q)' = upstream_query(q)
  BY <1>1 DEF Types, Pending!TypeOK, Finish, Pending!Leave, flightVars, upstream_query
<1>2. pc'[r] = "idle" BY DEF Types, Finish
<1>3. asking'[r] = NoKey /\ ready'[r] = NoOutcome
  BY DEF Types, Pending!TypeOK, Pending!Leave, flightVars, Locals
<1>4. Pending!TypeOK' BY DEF Types, Pending!TypeOK, Pending!Leave, flightVars
<1>5. Locals' BY <1>1, <1>2, <1>3 DEF Locals, Flight, MapOf
<1>6. Delivered' BY <1>1, <1>2 DEF Delivered, key
<1> QED BY <1>4, <1>5, <1>6

\* A request ends without an answer.
LEMMA LeaveStep ==
    ASSUME IndInv, UNCHANGED edns, NEW r \in Requests, Refuse(r) \/ Drop(r)
    PROVE  IndInv'
PROOF
<1> USE DEF IndInv
<1>1. /\ pc[r] = "waiting" /\ Finish(r) /\ CacheIdle
      /\ UNCHANGED <<ruleVars, source, counters, heard>>
      /\ out' = NoAnswer \/ out' = Response(r, "ServFail", FALSE, NoReply)
  BY Zenon DEF Refuse, Drop
<1>2. \E v \in Answers \cup {UpstreamError, NoOutcome, TimedOut} : Pending!Leave(r, v)
  <2>1. \/ ready[r] = UpstreamError /\ Pending!Leave(r, ready[r])
        \/ Pending!Leave(r, TimedOut) \/ Pending!Leave(r, NoOutcome)
    BY Zenon DEF Refuse, Drop, Pending!Return, Pending!Expire, Pending!GiveUp
  <2> QED BY <2>1
<1>3. CacheLaws!IndInv' BY <1>1, CacheSteps, Zenon
<1>4. Pending!TypeOK' /\ Locals' /\ Delivered' BY <1>1, <1>2, Leaving
<1>5. out' \in Responses \cup {NoAnswer} /\ OwnKey' /\ ContradictionsComeFromOldRules'
  <2>1. CASE out' = NoAnswer BY <2>1, Silent
  <2>2. CASE out' = Response(r, "ServFail", FALSE, NoReply)
    <3>1. out' \in Responses /\ OwnKey' /\ ContradictionsComeFromOldRules'
      BY <1>1, <2>2, ResponseFacts
    <3> QED BY <3>1
  <2> QED BY <1>1, <2>1, <2>2
<1>6. Types' BY <1>1, <1>4, <1>5, Finished DEF Types, ruleVars
<1>7. Stored' /\ \A k \in Keys : entries'[k] # NoEntry => Kept(k)' \in Opinions
  BY <1>1, CacheKept
<1>8. Consistent'
  <2>1. \A q \in Busy' : Verdict(q)' \in Opinions BY <1>1, VerdictsKept
  <2> QED BY <1>1, <1>7, <2>1, ConsistentKept
<1>9. Counts'
  <2>1. Looking' = Looking BY <1>1 DEF Finish, Types, Looking
  <2> QED BY <1>1, <2>1 DEF Counts, counters
<1> QED BY <1>3, <1>4, <1>5, <1>6, <1>7, <1>8, <1>9

\* A request ends with an answer in accord with its verdict, which it caches.
LEMMA StoreStep ==
    ASSUME IndInv, UNCHANGED edns, NEW r \in Requests, Block(r) \/ Answer(r)
    PROVE  IndInv'
PROOF
<1> USE DEF IndInv
<1> DEFINE k == key(r)
<1>1. k \in Keys /\ k.name = asked[r].query.name /\ Verdict(r) \in Opinions /\ pc[r] # "idle"
  BY RequestFacts DEF Block, Answer
<1>2. PICK m \in Messages :
          /\ Store(r, m) /\ out' = Response(r, "NoError", FALSE, m) /\ Finish(r)
          /\ UNCHANGED <<ruleVars, counters, heard>>
          /\ pc[r] # "lookup"
          /\ verdict[r] = "block" <=> m = Blocked
          /\ m # Blocked => m \in heard[k]
          /\ \/ \E v \in Answers \cup {UpstreamError, NoOutcome, TimedOut} : Pending!Leave(r, v)
             \/ UNCHANGED flightVars /\ pc[r] # "waiting"
  <2>1. CASE Block(r)
    <3>1. Blocked \in Messages BY DEF Messages
    <3> QED BY <2>1, <3>1 DEF Block, make_blocked_response
  <2>2. CASE Answer(r)
    <3>1. /\ pc[r] = "waiting" /\ ready[r] \notin {NoOutcome, UpstreamError}
          /\ Pending!Leave(r, ready[r])
      BY <2>2 DEF Answer, Pending!Return
    <3>2. ready[r] \in Answers BY <3>1 DEF Types, Pending!TypeOK
    <3>3. ready[r] \in Messages /\ ready[r] # Blocked
      BY <3>2, ResolverAssumption DEF Messages
    <3>4. verdict[r] # "block" BY <3>1 DEF Locals
    <3>5. ready[r] \in heard[k] BY <3>1 DEF Delivered
    <3> QED BY <2>2, <3>1, <3>2, <3>3, <3>4, <3>5 DEF Answer
  <2> QED BY <2>1, <2>2
<1>3. Cache!Insert(k, m) BY <1>2 DEF Store
<1>4. CacheLaws!IndInv' BY <1>1, <1>3, CacheSteps, Zenon
<1>5. Pending!TypeOK' /\ Locals' /\ Delivered' BY <1>2, Leaving
<1>6. out' \in Responses /\ OwnKey' /\ ContradictionsComeFromOldRules'
  BY <1>1, <1>2, ResponseFacts
<1>7. source' \in [Keys -> 0 .. MaxReloads] BY <1>1, <1>2 DEF Store, Types
<1>8. Types' BY <1>2, <1>5, <1>6, <1>7, Finished DEF Types, ruleVars
<1>9. ASSUME NEW j \in Keys, entries'[j] # NoEntry
      PROVE  /\ entries'[j].message = Blocked \/ entries'[j].message \in heard[j]
             /\ Kept(j)' \in Opinions
  <2>1. CASE j = k /\ Cache!Ttls(m) # {}
    <3>1. entries'[j].message = m BY <1>1, <1>3, <1>9, <2>1, InsertFacts
    <3>2. source'[j] = ruled_by[r] BY <1>1, <1>2, <2>1 DEF Store, Types
    <3>3. verdict[r] \in {"allow", "block"} BY DEF Types
    <3>4. Kept(j)' = Verdict(r) BY <1>1, <1>2, <2>1, <3>1, <3>2, <3>3 DEF Kept, Verdict
    <3> QED BY <1>1, <1>2, <2>1, <3>1, <3>4
  <2>2. CASE ~(j = k /\ Cache!Ttls(m) # {})
    <3>1. entries'[j] = entries[j] BY <1>1, <1>3, <1>9, <2>2, InsertFacts
    <3>2. source'[j] = source[j] BY <1>1, <1>2, <2>2 DEF Store, Types
    <3>3. Kept(j)' = Kept(j) BY <3>1, <3>2 DEF Kept
    <3> QED BY <1>9, <3>1, <3>3 DEF Opinions, Stored
  <2> QED BY <2>1, <2>2
<1>10. Stored' BY <1>2, <1>9 DEF Stored
<1>11. Consistent'
  <2>1. \A q \in Busy' : Verdict(q)' \in Opinions BY <1>2, VerdictsKept
  <2> QED BY <1>2, <1>9, <2>1, ConsistentKept
<1>12. Counts'
  <2>1. Looking' = Looking BY <1>2 DEF Finish, Types, Looking
  <2> QED BY <1>2, <2>1 DEF Counts, counters
<1> QED BY <1>4, <1>5, <1>6, <1>8, <1>10, <1>11, <1>12

LEMMA InitInv == ASSUME Init PROVE IndInv
PROOF
<1> USE DEF Init
<1>1. Cache!Init <=> CacheLaws!Init BY Zenon DEF Cache!Init, CacheLaws!Init
<1>2. CacheLaws!IndInv BY <1>1, CacheConstants, CacheLaws!InitInv
<1>3. Types BY ResolverAssumption DEF Types, Pending!Init, Pending!TypeOK
<1>4. Locals BY DEF Locals, Pending!Init
<1>5. Stored BY DEF Stored, Cache!Init
<1>6. Delivered BY DEF Delivered
<1>7. Opinions = {} BY DEF Opinions, Busy, Cache!Init
<1>8. Consistent BY <1>7 DEF Consistent
<1>9. Counts
  <2>1. Looking = {} BY DEF Looking
  <2>2. Cardinality(Looking) = 0 BY <2>1, FS_EmptySet
  <2> QED BY <2>2, ResolverAssumption DEF Counts
<1>10. OwnKey /\ ContradictionsComeFromOldRules BY DEF OwnKey, ContradictionsComeFromOldRules
<1> QED BY <1>2, <1>3, <1>4, <1>5, <1>6, <1>8, <1>9, <1>10 DEF IndInv

LEMMA StepKeepsInv == ASSUME IndInv, [Next]_vars PROVE IndInv'
PROOF
<1>1. CASE Next
  <2>1. UNCHANGED edns /\ Step BY <1>1 DEF Next
  <2> QED BY <2>1, ArriveStep, QuietStep, HitStep, MissStep, StoreStep, AskStep, LeaveStep,
             LandStep, Zenon DEF Step, Handle
<1>2. CASE UNCHANGED vars
  <2> USE DEF vars, cacheVars, flightVars, ruleVars, localVars, counters
  <2>1. CacheLaws!IndInv'
    <3>1. [CacheLaws!Next]_CacheLaws!vars BY <1>2 DEF CacheLaws!vars
    <3> QED BY <3>1, CacheConstants, CacheLaws!StepKeepsInv DEF IndInv
  <2>2. Opinions' = Opinions BY <1>2 DEF Opinions, Verdict, Kept, Busy
  <2>3. Looking' = Looking BY <1>2 DEF Looking
  <2> QED BY <1>2, <2>1, <2>2, <2>3
          DEF IndInv, Types, Pending!TypeOK, Locals, Stored, Delivered, Consistent, Ruling,
              Counts, OwnKey, ContradictionsComeFromOldRules, upstream_query, key,
              Flight, MapOf
<1> QED BY <1>1, <1>2

LEMMA Invariance == Spec => []IndInv
BY InitInv, StepKeepsInv, PTL DEF Spec

-----------------------------------------------------------------------------
\* Type correctness.  No more queries are counted as hits and misses, or as blocked,
\* than as queries.
THEOREM TypeCorrect == Spec => []TypeOK
PROOF
<1>1. ASSUME IndInv PROVE TypeOK
  <2>1. Cache!TypeOK <=> CacheLaws!TypeOK
    BY Zenon DEF Cache!TypeOK, CacheLaws!TypeOK, Cache!Entries, CacheLaws!Entries,
                 Cache!Lessons, CacheLaws!Lessons, Cache!Hits, CacheLaws!Hits
  <2>2. Cache!TypeOK BY <1>1, <2>1 DEF IndInv, CacheLaws!IndInv
  <2>3. {blocked_queries, cache_hits + cache_misses} \subseteq 0 .. total_queries
    BY <1>1, LookingFacts DEF IndInv, Counts
  <2> QED BY <1>1, <2>2, <2>3 DEF IndInv, Types, Counts, TypeOK
<1> QED BY <1>1, Invariance, PTL

\* However requests share flights and the cache, a response is what upstream said
\* when asked for this name, on behalf of this client's own subnet: no answer crosses
\* to another name or subnet, and upstream is told no bit of an address beyond the
\* configured prefix.
THEOREM ResponsesAreAttributed == Spec => []Attributed
PROOF
<1>1. ASSUME IndInv PROVE Attributed
  <2> SUFFICES ASSUME out # NoAnswer, out.code = "NoError", out.message # Blocked
               PROVE  \E k \in Keys :
                          /\ out.message \in heard[k]
                          /\ k.name = out.asked.query.name
                          /\ Reveals(out.asked.query, out.asked.ip, edns, k.ecs)
    BY DEF Attributed
  <2>1. out.asked \in Arrivals /\ edns \in EdnsConfigs BY <1>1 DEF IndInv, Types, Responses
  <2> DEFINE k == CacheKey(query_with_ecs(out.asked.query, out.asked.ip, edns))
  <2>2. out.message \in heard[k] BY <1>1 DEF IndInv, OwnKey
  <2>3. /\ k \in Keys /\ k.name = out.asked.query.name
        /\ Reveals(out.asked.query, out.asked.ip, edns, k.ecs)
    BY <2>1, UpstreamQueryFacts
  <2> QED BY <2>2, <2>3
<1> QED BY <1>1, Invariance, PTL

\* A response against the verdict on its own request is an entry of the cache, put
\* there under another version of the lists: a reload may leave the cache behind, but
\* requests and entries of one version never disagree, whatever is under way.
THEOREM ContradictionsAreOld == Spec => []ContradictionsComeFromOldRules
PROOF
<1>1. IndInv => ContradictionsComeFromOldRules BY DEF IndInv
<1> QED BY <1>1, Invariance, PTL

\* The cache keeps its promises inside the resolver: many requests at once never
\* overfill it, and what it serves is the latest insert of its key, in its lifetime.
THEOREM CacheKeepsItsPromises == Spec => [](Cache!CapacityRespected /\ Cache!ServedFresh)
PROOF
<1>1. ASSUME IndInv PROVE Cache!CapacityRespected /\ Cache!ServedFresh
  <2>1. Cache!CapacityRespected <=> CacheLaws!CapacityRespected
    BY SameSize DEF Cache!CapacityRespected, CacheLaws!CapacityRespected
  <2>2. Cache!ServedFresh <=> CacheLaws!ServedFresh
    BY SameLifetime, Zenon DEF Cache!ServedFresh, CacheLaws!ServedFresh
  <2> QED BY <1>1, <2>1, <2>2 DEF IndInv, CacheLaws!IndInv
<1> QED BY <1>1, Invariance, PTL
=============================================================================
