--------------------------- MODULE UpstreamProofs ---------------------------
(***************************************************************************)
(* Proofs about UpstreamPool, for any number of upstreams, any set of      *)
(* concurrent queries, either policy, and any threshold and cooldown, and  *)
(* about UpstreamQuery, for any pool, any of its upstreams silent, and any *)
(* timeouts.                                                               *)
(*                                                                         *)
(* The health of an upstream may change between any two loads of           *)
(* attempt_order; that decides which of the two vectors an upstream goes   *)
(* to, never whether it goes to one.  The vectors together always hold     *)
(* the upstreams of a walk around the ring from the first candidate, each  *)
(* of them once, so a walk of N steps has visited all of them.             *)
(*                                                                         *)
(* A query has spent, when it turns to an upstream, at most the sum of the *)
(* budgets of the upstreams before it, and every leg begins with at most   *)
(* what the budget of its upstream has left.                               *)
(***************************************************************************)
EXTENDS UpstreamPool, UpstreamQuery, SequenceTheorems, WellFoundedInduction, TLAPS

Types ==
    /\ now \in 0 .. MaxTime
    /\ consecutive_failures \in [Upstreams -> 0 .. HEALTH_FAILURE_THRESHOLD]
    /\ degraded_until \in [Upstreams -> 0 .. now + HEALTH_COOLDOWN]
    /\ round_robin_next \in Upstreams
    /\ pc \in [Queries -> {"idle", "ordering", "asking", "restoring",
                           "counting", "degrading", "failed"}]
    /\ start \in [Queries -> Upstreams]
    /\ stamp \in [Queries -> 0 .. now]
    /\ healthy \in [Queries -> Seq(Upstreams)]
    /\ degraded \in [Queries -> Seq(Upstreams)]
    /\ attempt \in [Queries -> 1 .. N]

Once(s) == \A i, j \in DOMAIN s : s[i] = s[j] => i = j

\* The upstream at distance k on the ring from u.
Around(u, k) == (u + k) % N

\* The upstreams attempt_order has looked at.
Looked(h, d) == Len(h) + Len(d)

\* h and d are what a walk of Looked(h, d) steps from u leaves in the vectors.
Walk(u, h, d) == /\ Once(h) /\ Once(d)
                 /\ Range(h) \cap Range(d) = {}
                 /\ Range(h) \cup Range(d) = {Around(u, k) : k \in 0 .. Looked(h, d) - 1}

\* An order of attempts that has every upstream, once.
Complete(s) == /\ DOMAIN s = 1 .. N /\ Once(s)
               /\ {s[i] : i \in 1 .. N} = Upstreams

\* How far the walk has come, by where the query stands.
Phase(p, n, a) == /\ p = "idle" => n = 0
                  /\ p = "ordering" => n < N
                  /\ p \notin {"idle", "ordering"} => n = N
                  /\ p = "failed" => a = N

Walks == \A q \in Queries : Walk(start[q], healthy[q], degraded[q])
Phases == \A q \in Queries : Phase(pc[q], Looked(healthy[q], degraded[q]), attempt[q])

IndInv == Types /\ Walks /\ Phases

-----------------------------------------------------------------------------
(* The ring.                                                               *)

LEMMA AroundFacts ==
    ASSUME NEW u \in Upstreams, NEW k \in 0 .. N - 1
    PROVE  Around(u, k) = IF u + k < N THEN u + k ELSE u + k - N
PROOF
<1> USE PoolAssumption
<1>1. u + k \in Nat /\ u + k < 2 * N BY DEF Upstreams
<1>2. CASE u + k < N BY <1>1, <1>2 DEF Around
<1>3. CASE u + k >= N
  <2>1. u + k = (u + k - N) + N /\ u + k - N \in 0 .. N - 1 BY <1>1, <1>3 DEF Upstreams
  <2>2. \A r \in 0 .. N - 1 : (r + N) % N = r OBVIOUS
  <2> QED BY <1>3, <2>1, <2>2 DEF Around
<1> QED BY <1>1, <1>2, <1>3

\* The next turn of the round robin.
LEMMA TurnFacts ==
    ASSUME NEW u \in Upstreams
    PROVE  (u + 1) % N \in Upstreams
PROOF
<1>1. N \in Nat \ {0} BY PoolAssumption
<1>2. u + 1 \in Nat BY <1>1 DEF Upstreams
<1>3. \A x \in Nat, n \in Nat \ {0} : x % n \in 0 .. n - 1 OBVIOUS
<1> QED BY <1>1, <1>2, <1>3 DEF Upstreams

\* The walk reaches an upstream it has not been to, and after N steps every one.
LEMMA RingFacts ==
    ASSUME NEW u \in Upstreams
    PROVE  /\ \A k \in 0 .. N - 1 : Around(u, k) \in Upstreams
           /\ \A j, k \in 0 .. N - 1 : Around(u, j) = Around(u, k) => j = k
           /\ \A v \in Upstreams : \E k \in 0 .. N - 1 : Around(u, k) = v
PROOF
<1> USE PoolAssumption DEF Upstreams
<1>1. \A k \in 0 .. N - 1 : Around(u, k) = IF u + k < N THEN u + k ELSE u + k - N
  BY AroundFacts
<1>2. \A k \in 0 .. N - 1 : Around(u, k) \in Upstreams BY <1>1
<1>3. \A j, k \in 0 .. N - 1 : Around(u, j) = Around(u, k) => j = k BY <1>1
<1>4. ASSUME NEW v \in Upstreams PROVE \E k \in 0 .. N - 1 : Around(u, k) = v
  <2> DEFINE k == IF u <= v THEN v - u ELSE v - u + N
  <2>1. k \in 0 .. N - 1 OBVIOUS
  <2>2. Around(u, k) = v BY <1>1, <2>1
  <2> QED BY <2>1, <2>2
<1> QED BY <1>2, <1>3, <1>4

-----------------------------------------------------------------------------
(* The vectors.                                                            *)

LEMMA AppendFacts ==
    ASSUME NEW s \in Seq(Upstreams), NEW u \in Upstreams
    PROVE  /\ Append(s, u) \in Seq(Upstreams)
           /\ Len(Append(s, u)) = Len(s) + 1 /\ Len(s) \in Nat
           /\ Range(Append(s, u)) = Range(s) \cup {u}
           /\ Once(s) /\ u \notin Range(s) => Once(Append(s, u))
PROOF
<1> DEFINE w == Append(s, u)
           n == Len(s)
<1>1. n \in Nat /\ DOMAIN s = 1 .. n BY LenProperties
<1>2. /\ w \in Seq(Upstreams) /\ Len(w) = n + 1
      /\ \A j \in 1 .. n : w[j] = s[j]
      /\ w[n + 1] = u
  BY AppendProperties
<1>3. DOMAIN w = 1 .. n + 1 BY <1>2, LenProperties
<1> HIDE DEF w, n
<1>4. \A j \in 1 .. n + 1 : j \in 1 .. n \/ j = n + 1 BY <1>1
<1>5. n + 1 \in 1 .. n + 1 /\ \A j \in 1 .. n : j \in 1 .. n + 1 BY <1>1
<1>6. Range(s) = {s[j] : j \in 1 .. n} /\ Range(w) = {w[j] : j \in 1 .. n + 1}
  BY <1>1, <1>3 DEF Range
<1>7. Range(w) = Range(s) \cup {u} BY <1>2, <1>4, <1>5, <1>6
<1>8. ASSUME Once(s), u \notin Range(s) PROVE Once(w)
  BY <1>1, <1>2, <1>3, <1>4, <1>6, <1>8 DEF Once
<1> QED BY <1>1, <1>2, <1>7, <1>8 DEF w, n

LEMMA ConcatFacts ==
    ASSUME NEW h \in Seq(Upstreams), NEW d \in Seq(Upstreams)
    PROVE  /\ h \o d \in Seq(Upstreams) /\ Len(h \o d) = Looked(h, d)
           /\ Looked(h, d) \in Nat /\ DOMAIN (h \o d) = 1 .. Looked(h, d)
           /\ Range(h \o d) = Range(h) \cup Range(d)
           /\ Once(h) /\ Once(d) /\ Range(h) \cap Range(d) = {} => Once(h \o d)
PROOF
<1> DEFINE w == h \o d
           m == Len(h)
           n == Len(d)
<1>1. m \in Nat /\ DOMAIN h = 1 .. m /\ n \in Nat /\ DOMAIN d = 1 .. n BY LenProperties
<1>2. /\ w \in Seq(Upstreams) /\ Len(w) = m + n
      /\ \A j \in 1 .. m + n : w[j] = IF j <= m THEN h[j] ELSE d[j - m]
  BY ConcatProperties
<1>3. DOMAIN w = 1 .. m + n BY <1>2, LenProperties
<1> HIDE DEF w, m, n
<1>4. /\ Range(h) = {h[j] : j \in 1 .. m} /\ Range(d) = {d[j] : j \in 1 .. n}
      /\ Range(w) = {w[j] : j \in 1 .. m + n}
  BY <1>1, <1>3 DEF Range
<1>5. \A j \in 1 .. m + n : (j <= m /\ j \in 1 .. m) \/ (j > m /\ j - m \in 1 .. n)
  BY <1>1
<1>6. /\ \A j \in 1 .. m : j \in 1 .. m + n /\ w[j] = h[j]
      /\ \A j \in 1 .. n : j + m \in 1 .. m + n /\ w[j + m] = d[j]
  <2>1. ASSUME NEW j \in 1 .. m PROVE j \in 1 .. m + n /\ w[j] = h[j]
    <3>1. j \in 1 .. m + n /\ j <= m BY <1>1
    <3> QED BY <1>2, <3>1
  <2>2. ASSUME NEW j \in 1 .. n PROVE j + m \in 1 .. m + n /\ w[j + m] = d[j]
    <3> DEFINE i == j + m
    <3>1. i \in 1 .. m + n /\ ~(i <= m) /\ i - m = j BY <1>1
    <3> HIDE DEF i
    <3>2. w[i] = d[i - m] BY <1>2, <3>1
    <3> QED BY <3>1, <3>2 DEF i
  <2> QED BY <2>1, <2>2
<1>7. Range(w) = Range(h) \cup Range(d)
  <2>1. ASSUME NEW x \in Range(w) PROVE x \in Range(h) \cup Range(d)
    <3>1. PICK j \in 1 .. m + n : x = w[j] BY <1>4
    <3>2. CASE j <= m /\ j \in 1 .. m BY <1>2, <1>4, <3>1, <3>2
    <3>3. CASE j > m /\ j - m \in 1 .. n
      <4>1. ~(j <= m) BY <1>1, <3>3
      <4> QED BY <1>2, <1>4, <3>1, <3>3, <4>1
    <3> QED BY <1>5, <3>2, <3>3
  <2>2. ASSUME NEW x \in Range(h) PROVE x \in Range(w) BY <1>4, <1>6
  <2>3. ASSUME NEW x \in Range(d) PROVE x \in Range(w)
    <3>1. PICK j \in 1 .. n : x = d[j] BY <1>4
    <3> QED BY <1>4, <1>6, <3>1
  <2> QED BY <2>1, <2>2, <2>3
<1>8. ASSUME Once(h), Once(d), Range(h) \cap Range(d) = {} PROVE Once(w)
  <2> SUFFICES ASSUME NEW i \in 1 .. m + n, NEW j \in 1 .. m + n, w[i] = w[j]
               PROVE  i = j
    BY <1>3 DEF Once
  <2>1. CASE i <= m /\ j <= m
    <3>1. i \in 1 .. m /\ j \in 1 .. m BY <1>1, <2>1
    <3> QED BY <1>1, <1>2, <1>8, <2>1, <3>1 DEF Once
  <2>2. CASE i > m /\ j > m
    <3>1. i - m \in 1 .. n /\ j - m \in 1 .. n /\ ~(i <= m) /\ ~(j <= m) BY <1>1, <2>2
    <3>2. i - m = j - m BY <1>1, <1>2, <1>8, <3>1 DEF Once
    <3> QED BY <1>1, <3>2
  <2>3. CASE i <= m /\ j > m
    <3>1. i \in 1 .. m /\ j - m \in 1 .. n /\ ~(j <= m) BY <1>1, <2>3
    <3>2. w[i] \in Range(h) /\ w[j] \in Range(d) BY <1>2, <1>4, <2>3, <3>1
    <3> QED BY <1>8, <3>2
  <2>4. CASE i > m /\ j <= m
    <3>1. j \in 1 .. m /\ i - m \in 1 .. n /\ ~(i <= m) BY <1>1, <2>4
    <3>2. w[j] \in Range(h) /\ w[i] \in Range(d) BY <1>2, <1>4, <2>4, <3>1
    <3> QED BY <1>8, <3>2
  <2> QED BY <1>1, <2>1, <2>2, <2>3, <2>4
<1> QED BY <1>1, <1>2, <1>3, <1>7, <1>8 DEF w, m, n, Looked

\* One turn of the loop: whichever vector the candidate goes to, it is new.
LEMMA WalkOn ==
    ASSUME NEW u \in Upstreams, NEW h \in Seq(Upstreams), NEW d \in Seq(Upstreams),
           Walk(u, h, d), Looked(h, d) < N
    PROVE  LET v == Around(u, Looked(h, d)) IN
           /\ v \in Upstreams
           /\ Walk(u, Append(h, v), d) /\ Looked(Append(h, v), d) = Looked(h, d) + 1
           /\ Walk(u, h, Append(d, v)) /\ Looked(h, Append(d, v)) = Looked(h, d) + 1
PROOF
<1> DEFINE n == Looked(h, d)
           v == Around(u, n)
<1>1. Len(h) \in Nat /\ Len(d) \in Nat /\ n \in Nat BY LenProperties DEF Looked
<1>2. n \in 0 .. N - 1 /\ \A k \in 0 .. n - 1 : k \in 0 .. N - 1 /\ k # n
  BY <1>1, PoolAssumption
<1>3. v \in Upstreams BY <1>2, RingFacts
<1>4. v \notin Range(h) \cup Range(d)
  <2> SUFFICES ASSUME v \in Range(h) \cup Range(d) PROVE FALSE OBVIOUS
  <2>1. PICK k \in 0 .. n - 1 : v = Around(u, k) BY DEF Walk
  <2> QED BY <1>2, <2>1, RingFacts
<1>5. {Around(u, k) : k \in 0 .. n} = {Around(u, k) : k \in 0 .. n - 1} \cup {v}
  <2>1. \A k \in 0 .. n : k \in 0 .. n - 1 \/ k = n BY <1>1
  <2>2. n \in 0 .. n /\ \A k \in 0 .. n - 1 : k \in 0 .. n BY <1>1
  <2> QED BY <2>1, <2>2
<1>6. /\ Looked(Append(h, v), d) = n + 1 /\ Looked(h, Append(d, v)) = n + 1
      /\ Range(Append(h, v)) = Range(h) \cup {v}
      /\ Range(Append(d, v)) = Range(d) \cup {v}
      /\ Once(Append(h, v)) /\ Once(Append(d, v))
  <2>1. /\ Len(Append(h, v)) = Len(h) + 1 /\ Len(Append(d, v)) = Len(d) + 1
        /\ Range(Append(h, v)) = Range(h) \cup {v}
        /\ Range(Append(d, v)) = Range(d) \cup {v}
        /\ Once(Append(h, v)) /\ Once(Append(d, v))
    BY <1>3, <1>4, AppendFacts DEF Walk
  <2> QED BY <1>1, <2>1 DEF Looked
<1> HIDE DEF n, v
<1>7. /\ Range(h) \cap Range(d) = {} /\ Once(h) /\ Once(d)
      /\ Range(h) \cup Range(d) = {Around(u, k) : k \in 0 .. n - 1}
  BY DEF Walk, n
<1>8. Walk(u, Append(h, v), d)
  <2>1. Range(Append(h, v)) \cup Range(d) = {Around(u, k) : k \in 0 .. n}
    BY <1>5, <1>6, <1>7
  <2>2. Looked(Append(h, v), d) - 1 = n BY <1>1, <1>6
  <2> QED BY <1>4, <1>6, <1>7, <2>1, <2>2 DEF Walk
<1>9. Walk(u, h, Append(d, v))
  <2>1. Range(h) \cup Range(Append(d, v)) = {Around(u, k) : k \in 0 .. n}
    BY <1>5, <1>6, <1>7
  <2>2. Looked(h, Append(d, v)) - 1 = n BY <1>1, <1>6
  <2> QED BY <1>4, <1>6, <1>7, <2>1, <2>2 DEF Walk
<1> QED BY <1>3, <1>6, <1>8, <1>9 DEF n, v

\* A finished walk: the order has every upstream, once.
LEMMA WalkDone ==
    ASSUME NEW u \in Upstreams, NEW h \in Seq(Upstreams), NEW d \in Seq(Upstreams),
           Walk(u, h, d), Looked(h, d) = N
    PROVE  Complete(h \o d)
PROOF
<1>1. /\ DOMAIN (h \o d) = 1 .. N /\ Once(h \o d)
      /\ Range(h \o d) = Range(h) \cup Range(d)
  BY ConcatFacts DEF Walk
<1>2. Range(h) \cup Range(d) = Upstreams
  <2>1. Range(h) \cup Range(d) = {Around(u, k) : k \in 0 .. N - 1} BY DEF Walk
  <2> QED BY <2>1, RingFacts
<1>3. Range(h \o d) = {(h \o d)[i] : i \in 1 .. N} BY <1>1 DEF Range
<1> QED BY <1>1, <1>2, <1>3 DEF Complete

LEMMA NoWalk ==
    ASSUME NEW u \in Upstreams
    PROVE  Walk(u, <<>>, <<>>) /\ Looked(<<>>, <<>>) = 0 /\ <<>> \in Seq(Upstreams)
PROOF
<1>1. <<>> \in Seq(Upstreams) /\ Len(<<>>) = 0 /\ DOMAIN <<>> = {} OBVIOUS
<1>2. Range(<<>>) = {} BY <1>1 DEF Range
<1>3. Looked(<<>>, <<>>) = 0 BY <1>1 DEF Looked
<1>4. 0 .. 0 - 1 = {} OBVIOUS
<1>5. Once(<<>>) BY <1>1 DEF Once
<1> QED BY <1>1, <1>2, <1>3, <1>4, <1>5 DEF Walk

-----------------------------------------------------------------------------
(* The steps.                                                              *)

\* Once attempt_order is done, the order has every upstream, once.
LEMMA OrderDone ==
    ASSUME IndInv, NEW q \in Queries, pc[q] \notin {"idle", "ordering"}
    PROVE  Complete(order(q))
PROOF
<1> DEFINE h == healthy[q]
           d == degraded[q]
<1>1. /\ start[q] \in Upstreams /\ h \in Seq(Upstreams) /\ d \in Seq(Upstreams)
      /\ Walk(start[q], h, d) /\ Looked(h, d) = N
  BY DEF IndInv, Types, Walks, Phases, Phase
<1>2. order(q) = h \o d BY DEF order
<1> HIDE DEF h, d
<1>3. Complete(h \o d) BY <1>1, WalkDone
<1> QED BY <1>2, <1>3

\* The upstream a query is busy with is one.
LEMMA CurrentType ==
    ASSUME IndInv, NEW q \in Queries, Busy(q)
    PROVE  Current(q) \in Upstreams
PROOF
<1>1. {order(q)[i] : i \in 1 .. N} = Upstreams BY OrderDone DEF Busy, Complete
<1>2. attempt[q] \in 1 .. N BY DEF IndInv, Types
<1> QED BY <1>1, <1>2 DEF Current

LEMMA InitInv == Init => IndInv
PROOF
<1> SUFFICES ASSUME Init PROVE IndInv OBVIOUS
<1> USE PoolAssumption
<1>1. 0 \in Upstreams BY DEF Upstreams
<1>2. Types BY <1>1, NoWalk DEF Init, Types
<1>3. Walks BY <1>1, NoWalk DEF Init, Walks
<1>4. Phases BY <1>1, NoWalk DEF Init, Phases, Phase
<1> QED BY <1>2, <1>3, <1>4 DEF IndInv

\* A query begins an order, or ends and forgets it.
LEMMA FreshStep ==
    ASSUME IndInv, NEW q \in Queries, Begin(q) \/ Restore(q)
    PROVE  IndInv'
PROOF
<1> USE PoolAssumption DEF IndInv
<1>1. /\ healthy' = [healthy EXCEPT ![q] = <<>>]
      /\ degraded' = [degraded EXCEPT ![q] = <<>>]
      /\ attempt' = [attempt EXCEPT ![q] = 1]
      /\ UNCHANGED now
  BY DEF Begin, Restore
<1>2. /\ pc' = [pc EXCEPT ![q] = pc'[q]] /\ pc'[q] \in {"idle", "ordering"}
      /\ start' = [start EXCEPT ![q] = start'[q]] /\ start'[q] \in Upstreams
  <2>1. CASE Begin(q)
    <3>1. (IF RoundRobin THEN round_robin_next ELSE 0) \in Upstreams
      BY DEF Types, Upstreams
    <3> QED BY <2>1, <3>1 DEF Begin, Go, Types
  <2>2. CASE Restore(q)
    <3>1. 0 \in Upstreams BY DEF Upstreams
    <3> QED BY <2>2, <3>1 DEF Restore, Go, Types
  <2> QED BY <2>1, <2>2
<1>3. /\ stamp' \in [Queries -> 0 .. now]
      /\ round_robin_next' \in Upstreams
      /\ degraded_until' \in [Upstreams -> 0 .. now + HEALTH_COOLDOWN]
      /\ UNCHANGED consecutive_failures
  <2>1. CASE Begin(q)
    <3>1. stamp' \in [Queries -> 0 .. now] BY <2>1 DEF Begin, Types
    <3>2. round_robin_next' \in Upstreams
      <4>1. (round_robin_next + 1) % N \in Upstreams BY TurnFacts DEF Types
      <4> QED BY <2>1, <4>1 DEF Begin, Types
    <3> QED BY <2>1, <3>1, <3>2 DEF Begin, Types, health
  <2>2. CASE Restore(q)
    <3>1. stamp' \in [Queries -> 0 .. now] BY <2>2 DEF Restore, Types
    <3>2. 0 \in 0 .. now + HEALTH_COOLDOWN BY DEF Types
    <3> QED BY <2>2, <3>1, <3>2 DEF Restore, Types
  <2> QED BY <2>1, <2>2
<1>4. Types'
  <2>1. /\ healthy' \in [Queries -> Seq(Upstreams)]
        /\ degraded' \in [Queries -> Seq(Upstreams)]
        /\ attempt' \in [Queries -> 1 .. N]
    BY <1>1, <1>2, NoWalk DEF Types
  <2>2. /\ pc' \in [Queries -> {"idle", "ordering", "asking", "restoring",
                                "counting", "degrading", "failed"}]
        /\ start' \in [Queries -> Upstreams]
    BY <1>2 DEF Types
  <2> QED BY <1>1, <1>3, <2>1, <2>2 DEF Types
<1>5. Walks' BY <1>1, <1>2, NoWalk DEF Walks, Types
<1>6. Phases'
  <2>1. Looked(healthy'[q], degraded'[q]) = 0 BY <1>1, <1>2, NoWalk DEF Types
  <2>2. pc'[q] \in {"idle", "ordering"} BY <1>2
  <2>3. \A p \in Queries \ {q} :
            /\ pc'[p] = pc[p] /\ healthy'[p] = healthy[p] /\ degraded'[p] = degraded[p]
            /\ attempt'[p] = attempt[p]
    BY <1>1, <1>2 DEF Types
  <2> QED BY <2>1, <2>2, <2>3 DEF Phases, Phase
<1> QED BY <1>4, <1>5, <1>6

\* attempt_order looks at one more upstream.
LEMMA LookStep ==
    ASSUME IndInv, NEW q \in Queries, Look(q)
    PROVE  IndInv'
PROOF
<1> USE PoolAssumption DEF IndInv
<1> DEFINE h == healthy[q]
           d == degraded[q]
           n == Looked(h, d)
           v == Around(start[q], n)
<1>1. /\ start[q] \in Upstreams /\ h \in Seq(Upstreams) /\ d \in Seq(Upstreams)
      /\ Walk(start[q], h, d)
  BY DEF Types, Walks
<1>2. pc[q] = "ordering" /\ n < N /\ n \in Nat
  BY <1>1, ConcatFacts DEF Look, Phases, Phase
<1>3. Len(order(q)) = n /\ Candidate(q) = v
  BY <1>1, ConcatFacts DEF order, Candidate, Around
<1>4. /\ v \in Upstreams
      /\ Walk(start[q], Append(h, v), d) /\ Looked(Append(h, v), d) = n + 1
      /\ Walk(start[q], h, Append(d, v)) /\ Looked(h, Append(d, v)) = n + 1
  BY <1>1, <1>2, WalkOn
<1>5. /\ pc' = [pc EXCEPT ![q] = IF n + 1 = N THEN "asking" ELSE "ordering"]
      /\ UNCHANGED <<now, consecutive_failures, degraded_until, round_robin_next, start,
                     stamp, attempt>>
      /\ \/ /\ degraded' = [degraded EXCEPT ![q] = Append(d, v)] /\ UNCHANGED healthy
         \/ /\ healthy' = [healthy EXCEPT ![q] = Append(h, v)] /\ UNCHANGED degraded
  BY <1>3 DEF Look, Go, health, Types
<1>6. Append(h, v) \in Seq(Upstreams) /\ Append(d, v) \in Seq(Upstreams)
  BY <1>1, <1>4, AppendFacts
<1> HIDE DEF v, n
<1>7. /\ healthy' \in [Queries -> Seq(Upstreams)]
      /\ degraded' \in [Queries -> Seq(Upstreams)]
      /\ Walk(start[q], healthy'[q], degraded'[q])
      /\ Looked(healthy'[q], degraded'[q]) = n + 1
      /\ \A p \in Queries \ {q} : healthy'[p] = healthy[p] /\ degraded'[p] = degraded[p]
  BY <1>4, <1>5, <1>6 DEF Types
<1>8. Types' BY <1>5, <1>7 DEF Types
<1>9. Walks' BY <1>5, <1>7 DEF Walks
<1>10. Phases'
  <2>1. pc'[q] = IF n + 1 = N THEN "asking" ELSE "ordering" BY <1>5 DEF Types
  <2>2. \A p \in Queries \ {q} : pc'[p] = pc[p] BY <1>5 DEF Types
  <2>3. Phase(pc'[q], n + 1, attempt[q]) BY <1>2, <2>1 DEF Phase
  <2> QED BY <1>5, <1>7, <2>2, <2>3 DEF Phases
<1> QED BY <1>8, <1>9, <1>10

\* The order of an attempt that goes on is left alone.
LEMMA AttemptKeeps ==
    ASSUME IndInv, NEW q \in Queries, Busy(q), UNCHANGED plan,
           pc' = [pc EXCEPT ![q] = pc'[q]],
           attempt' = [attempt EXCEPT ![q] = attempt'[q]],
           attempt'[q] \in 1 .. N,
           \/ pc'[q] \in {"asking", "restoring", "counting", "degrading"}
           \/ pc'[q] = "failed" /\ attempt'[q] = N
    PROVE  Walks' /\ Phases'
PROOF
<1> USE DEF IndInv
<1>1. Walks' BY DEF plan, Walks
<1>2. Looked(healthy[q], degraded[q]) = N BY DEF Phases, Phase, Busy
<1>3. \A p \in Queries \ {q} : pc'[p] = pc[p] /\ attempt'[p] = attempt[p] BY DEF Types
<1>4. Phases' BY <1>2, <1>3 DEF plan, Phases, Phase
<1> QED BY <1>1, <1>4

\* An upstream fails or succeeds, and its health is recorded.
LEMMA AttemptStep ==
    ASSUME IndInv, NEW q \in Queries, Succeed(q) \/ Fail(q) \/ Count(q) \/ Degrade(q)
    PROVE  IndInv'
PROOF
<1> USE PoolAssumption DEF IndInv
<1>1. Busy(q) /\ UNCHANGED plan BY DEF Busy, Succeed, Fail, Count, Degrade
<1>2. Current(q) \in Upstreams BY <1>1, CurrentType
<1>3. attempt[q] \in 1 .. N BY DEF Types
<1>4. /\ pc' = [pc EXCEPT ![q] = pc'[q]]
      /\ attempt' = [attempt EXCEPT ![q] = attempt'[q]]
      /\ attempt'[q] \in 1 .. N
      /\ \/ pc'[q] \in {"asking", "restoring", "counting", "degrading"}
         \/ pc'[q] = "failed" /\ attempt'[q] = N
  <2>1. ASSUME MoveOn(q)
        PROVE  /\ pc' = [pc EXCEPT ![q] = pc'[q]]
               /\ attempt' = [attempt EXCEPT ![q] = attempt'[q]]
               /\ attempt'[q] \in 1 .. N
               /\ pc'[q] = "asking" \/ (pc'[q] = "failed" /\ attempt'[q] = N)
    BY <1>3, <2>1 DEF MoveOn, Go, Types
  <2>2. CASE Succeed(q) \/ Fail(q) BY <1>3, <2>2 DEF Succeed, Fail, Go, Types
  <2>3. CASE Count(q)
    <3>1. CASE MoveOn(q) BY <2>1, <3>1
    <3>2. CASE Go(q, "degrading") /\ UNCHANGED attempt BY <1>3, <3>2 DEF Go, Types
    <3> QED BY <2>3, <3>1, <3>2 DEF Count
  <2>4. CASE Degrade(q) BY <2>1, <2>4 DEF Degrade
  <2> QED BY <2>2, <2>3, <2>4
<1>5. Walks' /\ Phases' BY <1>1, <1>4, AttemptKeeps
<1>6. consecutive_failures' \in [Upstreams -> 0 .. HEALTH_FAILURE_THRESHOLD]
  <2>1. CASE Succeed(q)
    <3>1. 0 \in 0 .. HEALTH_FAILURE_THRESHOLD OBVIOUS
    <3> QED BY <2>1, <3>1 DEF Succeed, Types
  <2>2. CASE Fail(q) \/ Degrade(q) BY <2>2 DEF Fail, Degrade, health, Types
  <2>3. CASE Count(q)
    <3> DEFINE n == consecutive_failures[Current(q)] + 1
               f == IF n > HEALTH_FAILURE_THRESHOLD THEN HEALTH_FAILURE_THRESHOLD ELSE n
    <3>1. f \in 0 .. HEALTH_FAILURE_THRESHOLD BY <1>2 DEF Types
    <3>2. consecutive_failures' = [consecutive_failures EXCEPT ![Current(q)] = f]
      BY <2>3 DEF Count
    <3> QED BY <3>1, <3>2 DEF Types
  <2> QED BY <2>1, <2>2, <2>3
<1>7. degraded_until' \in [Upstreams -> 0 .. now + HEALTH_COOLDOWN]
  <2>1. CASE Degrade(q)
    <3>1. stamp[q] + HEALTH_COOLDOWN \in 0 .. now + HEALTH_COOLDOWN BY DEF Types
    <3> QED BY <2>1, <3>1 DEF Degrade, NewDeadline, Types
  <2>2. CASE Succeed(q) \/ Fail(q) \/ Count(q)
    BY <2>2 DEF Succeed, Fail, Count, health, Types
  <2> QED BY <2>1, <2>2
<1>8. stamp' \in [Queries -> 0 .. now] /\ UNCHANGED <<now, round_robin_next>>
  <2>1. now \in 0 .. now BY DEF Types
  <2>2. CASE Fail(q) BY <2>1, <2>2 DEF Fail, Types
  <2>3. CASE Succeed(q) \/ Count(q) \/ Degrade(q)
    BY <2>3 DEF Succeed, Count, Degrade, Types
  <2> QED BY <2>2, <2>3
<1>9. attempt' \in [Queries -> 1 .. N] BY <1>4 DEF Types
<1>10. pc' \in [Queries -> {"idle", "ordering", "asking", "restoring", "counting",
                            "degrading", "failed"}]
  BY <1>4 DEF Types
<1>11. Types' BY <1>1, <1>6, <1>7, <1>8, <1>9, <1>10 DEF Types, plan
<1> QED BY <1>5, <1>11

LEMMA TickStep ==
    ASSUME IndInv, Tick
    PROVE  IndInv'
PROOF
<1> USE PoolAssumption DEF IndInv
<1>1. /\ now' = now + 1 /\ now < MaxTime
      /\ UNCHANGED <<consecutive_failures, degraded_until, round_robin_next, pc, start,
                     healthy, degraded, stamp, attempt>>
  BY DEF Tick, health, plan
<1>2. /\ now' \in 0 .. MaxTime
      /\ \A t \in 0 .. now : t \in 0 .. now'
      /\ \A t \in 0 .. now + HEALTH_COOLDOWN : t \in 0 .. now' + HEALTH_COOLDOWN
  BY <1>1 DEF Types
<1>3. Types' BY <1>1, <1>2 DEF Types
<1>4. Walks' /\ Phases' BY <1>1 DEF Walks, Phases
<1> QED BY <1>3, <1>4

LEMMA NextInv ==
    ASSUME IndInv, [Next]_vars
    PROVE  IndInv'
PROOF
<1>1. CASE UNCHANGED vars BY <1>1 DEF IndInv, vars, Types, Walks, Phases
<1>2. CASE Next
  BY <1>2, FreshStep, LookStep, AttemptStep, TickStep DEF Next, Work
<1> QED BY <1>1, <1>2

LEMMA Invariance == Spec => []IndInv
PROOF BY InitInv, NextInv, PTL DEF Spec

-----------------------------------------------------------------------------
(* The theorems.                                                           *)

\* The order of attempts has at most every upstream, the position in it stays
\* inside it, and no deadline lies further ahead than one cooldown, however the
\* swaps of concurrent record_failure calls interleave.
THEOREM TypeCorrect == Spec => []TypeOK
PROOF
<1>1. ASSUME IndInv PROVE TypeOK
  <2> USE <1>1 DEF IndInv
  <2>1. ASSUME NEW q \in Queries
        PROVE  Range(order(q)) \subseteq Upstreams /\ Len(order(q)) <= N
    <3>1. healthy[q] \in Seq(Upstreams) /\ degraded[q] \in Seq(Upstreams) BY DEF Types
    <3>2. /\ order(q) \in Seq(Upstreams)
          /\ Len(order(q)) = Looked(healthy[q], degraded[q])
      BY <3>1, ConcatFacts DEF order
    <3>3. Range(order(q)) \subseteq Upstreams BY <3>2 DEF Range
    <3>4. Len(order(q)) <= N BY <3>2, PoolAssumption DEF Phases, Phase
    <3> QED BY <3>3, <3>4
  <2>2. \A t \in 0 .. now : t \in 0 .. MaxTime BY PoolAssumption DEF Types
  <2> QED BY <2>1, <2>2 DEF TypeOK, Types
<1> QED BY <1>1, Invariance, PTL

\* UpstreamPool::query returns an error only after every upstream has failed
\* it, and tries none of them twice, whatever other queries do to the health of
\* the upstreams while attempt_order reads it.
THEOREM FallbackIsComplete == Spec => []FallbackComplete
PROOF
<1>1. ASSUME IndInv PROVE FallbackComplete
  <2> SUFFICES ASSUME NEW q \in Queries
               PROVE  /\ pc[q] = "failed" => Tried(q) = Upstreams
                      /\ Busy(q) => Current(q) \notin Tried(q)
    BY DEF FallbackComplete
  <2> USE <1>1, PoolAssumption DEF IndInv
  <2>1. /\ start[q] \in Upstreams /\ attempt[q] \in 1 .. N
        /\ healthy[q] \in Seq(Upstreams) /\ degraded[q] \in Seq(Upstreams)
        /\ Walk(start[q], healthy[q], degraded[q])
    BY DEF Types, Walks
  <2>2. ASSUME pc[q] = "failed" \/ Busy(q)
        PROVE  /\ DOMAIN order(q) = 1 .. N /\ Once(order(q))
               /\ {order(q)[i] : i \in 1 .. N} = Upstreams
    BY <2>2, OrderDone DEF Busy, Complete
  <2>3. ASSUME pc[q] = "failed" PROVE Tried(q) = Upstreams
    <3>1. attempt[q] = N BY <2>3 DEF Phases, Phase
    <3> QED BY <2>2, <2>3, <3>1 DEF Tried
  <2>4. ASSUME Busy(q), Current(q) \in Tried(q) PROVE FALSE
    <3>1. pc[q] # "failed" BY <2>4 DEF Busy
    <3>2. PICK i \in 1 .. attempt[q] - 1 : order(q)[attempt[q]] = order(q)[i]
      BY <2>4, <3>1 DEF Tried, Current
    <3>3. i \in 1 .. N /\ i # attempt[q] BY <2>1
    <3> QED BY <2>1, <2>2, <2>4, <3>2, <3>3 DEF Once
  <2> QED BY <2>3, <2>4
<1> QED BY <1>1, Invariance, PTL

-----------------------------------------------------------------------------
(* A query in time: the sums that its budgets are made of.                 *)

LEMMA LeastNat ==
    ASSUME NEW S \in SUBSET Nat, S # {}
    PROVE  \E x \in S : \A y \in S : x <= y
PROOF
<1> DEFINE Less == {p \in Nat \X Nat : p[1] < p[2]}
<1>1. IsWellFoundedOn(Less, Nat)
  BY NatLessThanWellFounded, Zenon DEF OpToRel
<1>2. \A x, y \in S : ~(<<y, x>> \in Less) => x <= y
  OBVIOUS
<1> HIDE DEF Less
<1>3. PICK x \in S : \A y \in S : ~(<<y, x>> \in Less)
  BY <1>1, WFMin
<1> QED BY <1>2, <1>3

\* f holds the sums of the first numbers of s, up to n of them.
SumsTo(s, n, f) == /\ f \in [0 .. n -> Nat]
                   /\ f[0] = 0
                   /\ \A k \in 1 .. n : f[k] = f[k - 1] + s[k]

\* The sums exist: a least length for which they did not would follow one for
\* which they do.
LEMMA SumsExist ==
    ASSUME NEW s \in Seq(Nat)
    PROVE  \E f : SumsTo(s, Len(s), f)
PROOF
<1> DEFINE Bad == {n \in 0 .. Len(s) : ~\E f : SumsTo(s, n, f)}
<1>1. SUFFICES ASSUME Bad # {} PROVE FALSE
  <2>1. Len(s) \in 0 .. Len(s) OBVIOUS
  <2> QED BY <2>1, Zenon
<1>2. PICK n \in Bad : \A m \in Bad : n <= m
  <2>1. Bad \in SUBSET Nat OBVIOUS
  <2> QED BY <1>1, <2>1, LeastNat
<1>3. n \in 0 .. Len(s) /\ ~\E f : SumsTo(s, n, f)
  BY <1>2
<1>4. n # 0
  <2>1. SumsTo(s, 0, [k \in 0 .. 0 |-> 0]) BY DEF SumsTo
  <2> QED BY <1>3, <2>1
<1>5. n - 1 \in 0 .. Len(s) /\ n - 1 \notin Bad
  BY <1>2, <1>3, <1>4
<1>6. PICK f : SumsTo(s, n - 1, f)
  BY <1>5
<1> DEFINE g == [k \in 0 .. n |-> IF k = n THEN f[n - 1] + s[n] ELSE f[k]]
<1> HIDE DEF Bad
<1>7. s[n] \in Nat /\ n \in Nat \ {0}
  BY <1>3, <1>4
<1>8. g \in [0 .. n -> Nat]
  BY <1>6, <1>7 DEF SumsTo
<1>9. g[0] = 0 /\ \A k \in 1 .. n : g[k] = g[k - 1] + s[k]
  <2>1. g[n] = f[n - 1] + s[n] /\ \A k \in 0 .. n - 1 : g[k] = f[k] BY <1>7
  <2>2. f[0] = 0 /\ \A k \in 1 .. n - 1 : f[k] = f[k - 1] + s[k]
    BY <1>6 DEF SumsTo
  <2> HIDE DEF g
  <2>3. n - 1 \in 0 .. n - 1 /\ 0 \in 0 .. n - 1 BY <1>7
  <2>4. ASSUME NEW k \in 1 .. n, k # n PROVE g[k] = g[k - 1] + s[k]
    <3>1. k \in 1 .. n - 1 /\ k \in 0 .. n - 1 /\ k - 1 \in 0 .. n - 1 BY <1>7, <2>4
    <3> QED BY <2>1, <2>2, <3>1
  <2> QED BY <2>1, <2>2, <2>3, <2>4
<1> QED BY <1>3, <1>8, <1>9 DEF SumsTo

LEMMA SumsAreSums ==
    ASSUME NEW s \in Seq(Nat)
    PROVE  SumsTo(s, Len(s), Sums(s))
PROOF
<1> DEFINE Step(f) == [n \in 0 .. Len(s) |-> IF n = 0 THEN 0 ELSE f[n - 1] + s[n]]
           g == CHOOSE f : f = Step(f)
<1>1. PICK f : SumsTo(s, Len(s), f) BY SumsExist
<1>2. f = Step(f) BY <1>1 DEF SumsTo
<1> HIDE DEF Step
<1>3. g = Step(g) BY <1>2
<1>4. Sums(s) = g BY Zenon DEF Sums, Step
<1> HIDE DEF g
<1>5. /\ g = [n \in 0 .. Len(s) |-> g[n]]
      /\ g[0] = 0 /\ \A n \in 1 .. Len(s) : g[n] = g[n - 1] + s[n]
  BY <1>3 DEF Step
<1> DEFINE Bad == {n \in 0 .. Len(s) : g[n] # f[n]}
<1>6. Bad = {}
  <2>1. SUFFICES ASSUME Bad # {} PROVE FALSE OBVIOUS
  <2>2. PICK n \in Bad : \A m \in Bad : n <= m
    <3>1. Bad \in SUBSET Nat OBVIOUS
    <3> QED BY <2>1, <3>1, LeastNat
  <2>3. n \in 1 .. Len(s) /\ g[n] # f[n]
    BY <1>1, <1>5, <2>2 DEF SumsTo
  <2>4. n - 1 \in 0 .. Len(s) /\ n - 1 \notin Bad
    BY <2>2, <2>3
  <2> QED BY <1>1, <1>5, <2>3, <2>4 DEF SumsTo
<1>7. g \in [0 .. Len(s) -> Nat]
  BY <1>1, <1>5, <1>6 DEF SumsTo
<1> QED BY <1>4, <1>5, <1>7 DEF SumsTo

LEMMA SumFacts ==
    ASSUME NEW s \in Seq(Nat)
    PROVE  /\ \A n \in 0 .. Len(s) : Sums(s)[n] \in Nat
           /\ Sums(s)[0] = 0
           /\ \A n \in 1 .. Len(s) : Sums(s)[n] = Sums(s)[n - 1] + s[n]
PROOF BY SumsAreSums DEF SumsTo

\* More numbers make no smaller a sum.
LEMMA SumsGrow ==
    ASSUME NEW s \in Seq(Nat), NEW m \in 0 .. Len(s)
    PROVE  \A n \in m .. Len(s) : Sums(s)[m] <= Sums(s)[n]
PROOF
<1> DEFINE Bad == {n \in m .. Len(s) : ~(Sums(s)[m] <= Sums(s)[n])}
<1>1. SUFFICES ASSUME Bad # {} PROVE FALSE OBVIOUS
<1>2. PICK n \in Bad : \A k \in Bad : n <= k
  <2>1. Bad \in SUBSET Nat OBVIOUS
  <2> QED BY <1>1, <2>1, LeastNat
<1>3. n \in m .. Len(s) /\ ~(Sums(s)[m] <= Sums(s)[n]) BY <1>2
<1>4. n # m BY <1>3, SumFacts
<1>5. n - 1 \in m .. Len(s) /\ n - 1 \notin Bad BY <1>2, <1>3, <1>4
<1>6. Sums(s)[n] = Sums(s)[n - 1] + s[n] /\ s[n] \in Nat
  BY <1>3, <1>4, SumFacts
<1>7. /\ Sums(s)[m] \in Nat /\ Sums(s)[n - 1] \in Nat
      /\ Sums(s)[m] <= Sums(s)[n - 1]
  BY <1>5, SumFacts
<1> QED BY <1>3, <1>6, <1>7

-----------------------------------------------------------------------------
(* The legs of an attempt.                                                 *)

LEMMA EntryFacts ==
    ASSUME NEW i \in DOMAIN Pool, NEW u, u = Pool[i]
    PROVE  /\ u \in PoolEntries
           /\ u.timeout \in Nat /\ u.endpoints \in Nat \ {0}
PROOF
<1>1. DOMAIN Pool = 1 .. Len(Pool) BY QueryAssumption
<1>2. u \in PoolEntries BY <1>1, QueryAssumption, ElementOfSeq
<1> QED BY <1>2 DEF PoolEntries

LEMMA LegFacts ==
    ASSUME NEW u \in PoolEntries
    PROVE  /\ Legs(u) \in Seq(Nat)
           /\ Len(Legs(u)) >= 1
           /\ DOMAIN Legs(u) = 1 .. Len(Legs(u))
           /\ u.protocol = "plain" => Len(Legs(u)) = 2
PROOF
<1>1. u.timeout \in Nat /\ u.endpoints \in Nat \ {0}
  BY DEF PoolEntries
<1>2. UdpTimeout(u.timeout) \in Nat
  BY <1>1, QueryAssumption DEF UdpTimeout
<1>3. CASE u.protocol = "plain"
  BY <1>1, <1>2, <1>3 DEF Legs
<1>4. CASE u.protocol # "plain"
  <2>1. Legs(u) = [e \in 1 .. u.endpoints |-> u.timeout] BY <1>4 DEF Legs
  <2>2. Legs(u) \in Seq(Nat) /\ Len(Legs(u)) = u.endpoints BY <1>1, <2>1
  <2> QED BY <1>1, <1>4, <2>2
<1> QED BY <1>3, <1>4

\* All legs together; of a single leg, its timeout.
LEMMA BudgetFacts ==
    ASSUME NEW u \in PoolEntries
    PROVE  Budget(u) \in Nat /\ (Len(Legs(u)) = 1 => Budget(u) = u.timeout)
PROOF
<1> DEFINE s == Legs(u)
<1>1. s \in Seq(Nat) /\ Len(s) >= 1 BY LegFacts
<1>2. Budget(u) = Sums(s)[Len(s)] /\ Budget(u) \in Nat
  BY <1>1, SumFacts DEF Budget
<1>3. ASSUME Len(s) = 1 PROVE Budget(u) = u.timeout
  <2>1. u.protocol # "plain"
    <3>1. u.protocol = "plain" => Len(s) = 2 BY LegFacts
    <3> HIDE DEF s
    <3> QED BY <1>3, <3>1
  <2>2. s = [e \in 1 .. u.endpoints |-> u.timeout] /\ u.endpoints \in Nat \ {0}
    BY <2>1 DEF Legs, PoolEntries
  <2>3. s[1] = u.timeout BY <2>2
  <2>4. Sums(s)[0] = 0 /\ Sums(s)[1] = Sums(s)[1 - 1] + s[1]
    <3>1. 1 \in 1 .. Len(s) BY <1>3
    <3> HIDE DEF s
    <3> QED BY <1>1, <3>1, SumFacts
  <2>5. u.timeout \in Nat BY DEF PoolEntries
  <2> HIDE DEF s
  <2> QED BY <1>2, <1>3, <2>3, <2>4, <2>5
<1> QED BY <1>2, <1>3

LEMMA BudgetsType ==
    /\ Budgets \in Seq(Nat) /\ Len(Budgets) = Len(Pool)
    /\ \A i \in 1 .. Len(Pool) : Budgets[i] = Budget(Pool[i])
PROOF
<1>1. Pool \in Seq(PoolEntries) BY QueryAssumption
<1>2. \A i \in 1 .. Len(Pool) : Budget(Pool[i]) \in Nat
  BY <1>1, BudgetFacts, ElementOfSeq
<1>3. DOMAIN Pool = 1 .. Len(Pool) /\ Len(Pool) \in Nat BY <1>1
<1>4. Budgets = [i \in 1 .. Len(Pool) |-> Budget(Pool[i])] BY <1>3 DEF Budgets
<1>5. Budgets \in [1 .. Len(Pool) -> Nat] BY <1>2, <1>4
<1> QED BY <1>3, <1>4, <1>5

-----------------------------------------------------------------------------
(* The inductive invariant.                                                *)

\* The attempt has used no more than the timeouts of its legs so far, and those
\* before it no more than theirs.
Clocks == /\ began <= clock
          /\ (clock - began) + left <= Sums(Legs(Pool[up]))[leg]
          /\ began <= Sums(Budgets)[up - 1]

\* Every upstream before this one has failed, once.
Counted == /\ task # "failed" => upstream_failures = up - 1
           /\ task = "failed" => upstream_failures = Len(Pool)
           /\ upstream_timeouts <= upstream_failures

Waits == /\ waiter = "servfail" => \/ upstream_failures = Len(Pool)
                                   \/ clock >= PENDING_FOLLOWER_TIMEOUT
         /\ waiter = "waiting" => clock <= PENDING_FOLLOWER_TIMEOUT

QueryInv == QueryTypeOK /\ Clocks /\ Counted /\ Waits

LEMMA PoolFacts ==
    /\ Len(Pool) \in Nat \ {0} /\ DOMAIN Pool = 1 .. Len(Pool)
    /\ \A i \in 1 .. Len(Pool) : Pool[i] \in PoolEntries
PROOF
<1>1. Pool \in Seq(PoolEntries) /\ Pool # <<>> BY QueryAssumption
<1>2. \A i \in 1 .. Len(Pool) : Pool[i] \in PoolEntries BY <1>1, ElementOfSeq
<1> QED BY <1>1, <1>2, EmptySeq

\* The first leg of the attempt on upstream i.
LEMMA FirstLeg ==
    ASSUME NEW i \in 1 .. Len(Pool)
    PROVE  /\ 1 \in DOMAIN Legs(Pool[i])
           /\ Legs(Pool[i])[1] \in Nat
           /\ Legs(Pool[i])[1] <= Sums(Legs(Pool[i]))[1]
PROOF
<1> DEFINE s == Legs(Pool[i])
<1>1. s \in Seq(Nat) /\ Len(s) >= 1 /\ DOMAIN s = 1 .. Len(s)
  BY PoolFacts, LegFacts
<1> HIDE DEF s
<1>2. 1 \in 1 .. Len(s) /\ s[1] \in Nat BY <1>1
<1>3. Sums(s)[1] = Sums(s)[1 - 1] + s[1] /\ Sums(s)[0] = 0
  BY <1>1, <1>2, SumFacts
<1> QED BY <1>1, <1>2, <1>3 DEF s

\* The attempt ends within its budget, and with those before it within theirs.
LEMMA AttemptWithinBudget ==
    ASSUME QueryTypeOK, Clocks
    PROVE  /\ clock - began <= Budget(Pool[up])
           /\ clock <= Sums(Budgets)[up]
           /\ Sums(Budgets)[up] <= PoolBudget
PROOF
<1> DEFINE s == Legs(Pool[up])
<1> USE DEF QueryTypeOK, Clocks
<1>1. up \in 1 .. Len(Pool) /\ Pool[up] \in PoolEntries BY PoolFacts
<1>2. s \in Seq(Nat) /\ DOMAIN s = 1 .. Len(s) BY <1>1, LegFacts
<1>3. leg \in 0 .. Len(s) /\ Len(s) \in leg .. Len(s) /\ Len(s) \in 0 .. Len(s)
  BY <1>2
<1>4. Budget(Pool[up]) = Sums(s)[Len(s)] BY DEF Budget
<1> HIDE DEF s
<1>5. /\ Sums(s)[leg] \in Nat /\ Sums(s)[Len(s)] \in Nat
      /\ Sums(s)[leg] <= Sums(s)[Len(s)]
  BY <1>2, <1>3, SumFacts, SumsGrow
<1>6. (clock - began) + left <= Sums(s)[leg] BY DEF s
<1>7. clock - began <= Budget(Pool[up])
  BY <1>4, <1>5, <1>6
<1>8. /\ Budgets \in Seq(Nat) /\ Len(Budgets) = Len(Pool)
      /\ Budgets[up] = Budget(Pool[up])
  BY <1>1, BudgetsType
<1>9. /\ up - 1 \in 0 .. Len(Budgets) /\ up \in 1 .. Len(Budgets)
      /\ up \in 0 .. Len(Budgets) /\ Len(Budgets) \in up .. Len(Budgets)
  BY <1>1, <1>8, PoolFacts
<1>10. /\ Sums(Budgets)[up] = Sums(Budgets)[up - 1] + Budgets[up]
       /\ Sums(Budgets)[up - 1] \in Nat
       /\ Sums(Budgets)[up] <= Sums(Budgets)[Len(Budgets)]
  <2>1. Sums(Budgets)[up] <= Sums(Budgets)[Len(Budgets)] BY <1>8, <1>9, SumsGrow
  <2> QED BY <1>8, <1>9, <2>1, SumFacts
<1>11. Budget(Pool[up]) \in Nat BY <1>4, <1>5
<1>12. clock <= Sums(Budgets)[up]
  BY <1>7, <1>8, <1>10, <1>11
<1> QED BY <1>7, <1>10, <1>12 DEF PoolBudget

-----------------------------------------------------------------------------
(* The steps.                                                              *)

LEMMA QueryStarts == QueryInit => QueryInv
PROOF
<1> SUFFICES ASSUME QueryInit PROVE QueryInv OBVIOUS
<1> USE QueryAssumption DEF QueryInit
<1>1. 1 \in 1 .. Len(Pool) BY PoolFacts
<1>2. Sums(Budgets)[0] = 0 BY BudgetsType, SumFacts
<1>3. QueryTypeOK BY <1>1, PoolFacts, FirstLeg DEF QueryTypeOK
<1>4. Clocks BY <1>1, <1>2, FirstLeg DEF Clocks
<1>5. Counted /\ Waits BY DEF Counted, Waits
<1> QED BY <1>3, <1>4, <1>5 DEF QueryInv

LEMMA NextLegKeeps ==
    ASSUME QueryInv, leg < Len(Legs(Pool[up])), NextLeg
    PROVE  QueryInv'
PROOF
<1> DEFINE s == Legs(Pool[up])
<1> USE DEF QueryInv
<1>1. up \in 1 .. Len(Pool) /\ Pool[up] \in PoolEntries BY PoolFacts DEF QueryTypeOK
<1>2. s \in Seq(Nat) /\ DOMAIN s = 1 .. Len(s) BY <1>1, LegFacts
<1>3. /\ leg' = leg + 1 /\ left' = s[leg + 1]
      /\ UNCHANGED <<clock, up, began, task, waiter, upstream_failures,
                     upstream_timeouts>>
  BY DEF NextLeg
<1>4. leg \in 1 .. Len(s) /\ leg < Len(s) /\ (clock - began) + left <= Sums(s)[leg]
  BY <1>2 DEF QueryTypeOK, Clocks
<1>5. s' = s BY <1>3
<1> HIDE DEF s
<1>6. leg + 1 \in 1 .. Len(s) /\ s[leg + 1] \in Nat BY <1>2, <1>4
<1>7. Sums(s)[leg + 1] = Sums(s)[leg] + s[leg + 1] /\ Sums(s)[leg] \in Nat
  <2>1. (leg + 1) - 1 = leg /\ leg \in 0 .. Len(s) BY <1>2, <1>4
  <2> QED BY <1>2, <1>6, <2>1, SumFacts
<1>8. QueryTypeOK'
  BY <1>2, <1>3, <1>5, <1>6 DEF QueryTypeOK, s
<1>9. Clocks'
  <2>1. clock \in Nat /\ began \in Nat /\ left \in Nat BY DEF QueryTypeOK
  <2>2. (clock - began) + s[leg + 1] <= Sums(s)[leg + 1]
    BY <1>4, <1>6, <1>7, <2>1
  <2> QED BY <1>3, <1>5, <2>2 DEF Clocks, s
<1>10. Counted' /\ Waits' BY <1>3 DEF Counted, Waits
<1> QED BY <1>8, <1>9, <1>10

LEMMA FailOverKeeps ==
    ASSUME QueryInv, Asking, NEW e, FailOver(e)
    PROVE  QueryInv'
PROOF
<1> USE QueryAssumption DEF QueryInv
<1>1. up \in 1 .. Len(Pool) /\ Len(Pool) \in Nat BY PoolFacts DEF QueryTypeOK
<1>2. clock <= Sums(Budgets)[up] BY AttemptWithinBudget
<1>3. /\ upstream_failures = up - 1 /\ upstream_failures' = up
      /\ UNCHANGED <<clock, waiter>>
  BY <1>1 DEF FailOver, Counted, Asking
<1>4. /\ upstream_timeouts' \in Nat /\ upstream_timeouts' <= up
  BY <1>1, <1>3 DEF FailOver, Counted, QueryTypeOK
<1>5. Waits'
  BY <1>1, <1>3 DEF Waits
<1>6. CASE up < Len(Pool)
  <2>1. /\ up' = up + 1 /\ leg' = 1 /\ left' = Legs(Pool[up + 1])[1]
        /\ began' = clock /\ task' = task
    BY <1>6 DEF FailOver
  <2>2. up + 1 \in 1 .. Len(Pool) BY <1>1, <1>6
  <2>3. QueryTypeOK'
    BY <1>1, <1>3, <1>4, <2>1, <2>2, FirstLeg, PoolFacts DEF QueryTypeOK
  <2>4. Clocks'
    <3>1. up' - 1 = up /\ clock - clock = 0 BY <1>1, <2>1 DEF QueryTypeOK
    <3> QED BY <1>2, <1>3, <2>1, <2>2, <3>1, FirstLeg DEF Clocks, QueryTypeOK
  <2>5. Counted'
    BY <1>1, <1>3, <1>4, <2>1 DEF Counted, Asking
  <2> QED BY <1>5, <2>3, <2>4, <2>5
<1>7. CASE ~(up < Len(Pool))
  <2>1. task' = "failed" /\ UNCHANGED <<up, leg, left, began>>
    BY <1>7 DEF FailOver
  <2>2. up = Len(Pool) BY <1>1, <1>7
  <2>3. QueryTypeOK' BY <1>1, <1>3, <1>4, <2>1 DEF QueryTypeOK
  <2>4. Clocks' BY <1>3, <2>1 DEF Clocks
  <2>5. Counted' BY <1>3, <1>4, <2>1, <2>2 DEF Counted
  <2> QED BY <1>5, <2>3, <2>4, <2>5
<1> QED BY <1>6, <1>7

LEMMA QueryStep ==
    ASSUME QueryInv, [QueryNext]_queryVars
    PROVE  QueryInv'
PROOF
<1> USE QueryAssumption
<1>0. up \in 1 .. Len(Pool) /\ Pool[up] \in PoolEntries
  BY PoolFacts DEF QueryInv, QueryTypeOK
<1>1. ASSUME NEW e, Asking, LegOver(e) PROVE QueryInv'
  BY <1>1, NextLegKeeps, FailOverKeeps DEF LegOver
<1>2. CASE LegAnswers
  BY <1>2 DEF LegAnswers, Asking, QueryInv, QueryTypeOK, Clocks, Counted, Waits
<1>3. CASE UdpTruncated
  <2>1. Len(Legs(Pool[up])) = 2 /\ leg = 1 /\ NextLeg
    BY <1>0, <1>3, LegFacts DEF UdpTruncated
  <2> QED BY <2>1, NextLegKeeps
<1>4. CASE LegFails BY <1>1, <1>4 DEF LegFails
<1>5. CASE LegExpires BY <1>1, <1>5 DEF LegExpires
<1>6. CASE Answer
  BY <1>6 DEF Answer, QueryInv, QueryTypeOK, Clocks, Counted, Waits
<1>7. CASE GiveUp
  BY <1>7 DEF GiveUp, WaitOver, QueryInv, QueryTypeOK, Clocks, Counted, Waits
<1>8. CASE SecondPasses
  BY <1>8 DEF SecondPasses, TimersFired, WaitOver, QueryInv, QueryTypeOK, Clocks, Counted,
              Waits
<1>9. CASE Done \/ UNCHANGED queryVars
  BY <1>9 DEF Done, queryVars, QueryInv, QueryTypeOK, Clocks, Counted, Waits
<1> QED BY <1>2, <1>3, <1>4, <1>5, <1>6, <1>7, <1>8, <1>9 DEF QueryNext

-----------------------------------------------------------------------------
LEMMA QueryInvariance == QuerySpec => []QueryInv
PROOF BY QueryStarts, QueryStep, PTL DEF QuerySpec

\* The query is always at a leg of an upstream of the pool, and counts no upstream
\* twice.
THEOREM QueryTypeCorrect == QuerySpec => []QueryTypeOK
PROOF
<1>1. QueryInv => QueryTypeOK BY DEF QueryInv
<1> QED BY <1>1, QueryInvariance, PTL

\* For any pool, with any timeouts and any number of endpoints: the query takes no
\* longer than all legs of all attempts, a single one no longer than its timeout, and a
\* request is refused only when all have failed it or it has waited for the whole
\* pending timeout, and never waits longer.
THEOREM QueryTimeBounded == QuerySpec => []TimeBounded
PROOF
<1>1. QueryInv => TimeBounded
  <2> SUFFICES ASSUME QueryInv PROVE TimeBounded OBVIOUS
  <2> USE DEF QueryInv
  <2>1. Pool[up] \in PoolEntries BY PoolFacts DEF QueryTypeOK
  <2>2. Len(Legs(Pool[up])) = 1 => Budget(Pool[up]) = Pool[up].timeout
    BY <2>1, BudgetFacts
  <2>3. /\ clock - began <= Budget(Pool[up])
        /\ clock <= Sums(Budgets)[up] /\ Sums(Budgets)[up] <= PoolBudget
    BY AttemptWithinBudget
  <2>4. Sums(Budgets)[up] \in Nat /\ PoolBudget \in Nat
    <3>1. up \in 0 .. Len(Budgets) /\ Len(Budgets) \in 0 .. Len(Budgets)
      BY PoolFacts, BudgetsType DEF QueryTypeOK
    <3> QED BY <3>1, BudgetsType, SumFacts DEF PoolBudget
  <2> QED BY <2>2, <2>3, <2>4 DEF TimeBounded, Waits, QueryTypeOK
<1> QED BY <1>1, QueryInvariance, PTL

-----------------------------------------------------------------------------
(* Which upstreams are fallbacks.                                          *)

\* An upstream that answers comes before the attempts on those before it can use
\* up the pending timeout.
InTime == \E i \in Alive : Sums(Budgets)[i - 1] < PENDING_FOLLOWER_TIMEOUT

\* The pool is never past an upstream that answers, and spends no time on it.
Reached == /\ \A i \in Alive : up <= i /\ task # "failed"
           /\ up \in Alive => clock = began
           /\ InTime => waiter # "servfail"

LEMMA ClockBeforeAlive ==
    ASSUME QueryInv, Reached, NEW i \in Alive
    PROVE  clock <= Sums(Budgets)[i - 1]
PROOF
<1> USE DEF QueryInv
<1>1. /\ i \in 1 .. Len(Pool) /\ up \in 1 .. Len(Pool) /\ Len(Pool) \in Nat
      /\ up <= i
  BY PoolFacts, QueryAssumption DEF QueryTypeOK, Reached
<1>2. Budgets \in Seq(Nat) /\ Len(Budgets) = Len(Pool) BY BudgetsType
<1>3. CASE up = i BY <1>3 DEF Reached, Clocks
<1>4. CASE up # i
  <2>1. /\ i - 1 \in 0 .. Len(Budgets) /\ up \in 0 .. Len(Budgets)
        /\ i - 1 \in up .. Len(Budgets)
    BY <1>1, <1>2, <1>4
  <2>2. /\ Sums(Budgets)[up] \in Nat /\ Sums(Budgets)[i - 1] \in Nat
        /\ Sums(Budgets)[up] <= Sums(Budgets)[i - 1]
    BY <1>2, <2>1, SumFacts, SumsGrow
  <2>3. clock <= Sums(Budgets)[up] BY AttemptWithinBudget
  <2> QED BY <2>2, <2>3 DEF QueryTypeOK
<1> QED BY <1>3, <1>4

LEMMA ReachedStarts == QueryInit => Reached
PROOF
<1> SUFFICES ASSUME QueryInit PROVE Reached OBVIOUS
<1>1. \A i \in Alive : i \in 1 .. Len(Pool) BY PoolFacts, QueryAssumption
<1> QED BY <1>1, PoolFacts DEF QueryInit, Reached

LEMMA ReachedStep ==
    ASSUME QueryInv, Reached, [QueryNext]_queryVars
    PROVE  Reached'
PROOF
<1>1. InTime' = InTime BY DEF InTime
<1>2. /\ up \in 1 .. Len(Pool) /\ Len(Pool) \in Nat
      /\ \A i \in Alive : i \in 1 .. Len(Pool)
  BY PoolFacts, QueryAssumption DEF QueryInv, QueryTypeOK
<1>3. ASSUME NEW e, Asking, up \notin Alive, LegOver(e) PROVE Reached'
  <2>1. CASE NextLeg BY <1>1, <2>1 DEF NextLeg, Reached
  <2>2. CASE FailOver(e) /\ up < Len(Pool)
    <3>1. up' = up + 1 /\ began' = clock /\ UNCHANGED <<clock, task, waiter>>
      BY <2>2 DEF FailOver
    <3>2. \A i \in Alive : up + 1 <= i BY <1>2, <1>3 DEF Reached
    <3> QED BY <1>1, <3>1, <3>2 DEF Reached
  <2>3. CASE FailOver(e) /\ ~(up < Len(Pool))
    <3>1. UNCHANGED <<up, clock, began, waiter>> BY <2>3 DEF FailOver
    <3>2. Alive = {} BY <1>2, <1>3, <2>3 DEF Reached
    <3> QED BY <1>1, <3>1, <3>2 DEF Reached
  <2> QED BY <1>3, <2>1, <2>2, <2>3 DEF LegOver
<1>4. CASE LegAnswers BY <1>1, <1>4 DEF LegAnswers, Reached
<1>5. CASE UdpTruncated BY <1>1, <1>5 DEF UdpTruncated, NextLeg, Reached
<1>6. CASE LegFails BY <1>3, <1>6 DEF LegFails
<1>7. CASE LegExpires BY <1>3, <1>7 DEF LegExpires
<1>8. CASE Answer
  <2>1. InTime => task # "failed" BY DEF InTime, Reached
  <2>2. InTime => waiter' # "servfail"
    BY <1>8, <2>1 DEF Answer, QueryInv, QueryTypeOK
  <2> QED BY <1>1, <1>8, <2>2 DEF Answer, Reached
<1>9. CASE GiveUp
  <2>1. ~InTime
    <3> SUFFICES ASSUME NEW i \in Alive,
                        Sums(Budgets)[i - 1] < PENDING_FOLLOWER_TIMEOUT
                 PROVE  FALSE
      BY DEF InTime
    <3>1. clock <= Sums(Budgets)[i - 1] BY ClockBeforeAlive
    <3>2. Sums(Budgets)[i - 1] \in Nat
      <4>1. i - 1 \in 0 .. Len(Budgets) BY <1>2, BudgetsType
      <4> QED BY <4>1, BudgetsType, SumFacts
    <3> QED BY <1>9, <3>1, <3>2, QueryAssumption
            DEF GiveUp, WaitOver, QueryInv, QueryTypeOK
  <2> QED BY <1>1, <1>9, <2>1 DEF GiveUp, Reached
<1>10. CASE SecondPasses BY <1>1, <1>10 DEF SecondPasses, Reached
<1>11. CASE Done \/ UNCHANGED queryVars
  BY <1>1, <1>11 DEF Done, queryVars, Reached
<1> QED BY <1>4, <1>5, <1>6, <1>7, <1>8, <1>9, <1>10, <1>11 DEF QueryNext

\* README: "later entries act as fallback resolvers".  They do as far as the pending
\* timeout reaches: no request is refused if some upstream answers and the attempts
\* on those before it fit in the timeout.  Where they do not fit, FallbackBudget.cfg
\* has the counterexample.
THEOREM FallbackInTime == QuerySpec => [](InTime => FallbackReached)
PROOF
<1>1. Reached => (InTime => FallbackReached) BY DEF Reached, FallbackReached
<1> QED BY <1>1, QueryInvariance, ReachedStarts, ReachedStep, PTL DEF QuerySpec
=============================================================================
