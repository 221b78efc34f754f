-------------------------- MODULE DotUpstreamProofs -------------------------
(***************************************************************************)
(* Proofs about DotUpstream, for any callers, streams, number of endpoints *)
(* and sizes of the idle pool.  An answer is told apart by its place in    *)
(* the stream only, so that a query reads its own answer is an argument    *)
(* about streams: each has one owner, and one that lies in the pool, or    *)
(* that is about to be written to, owes nothing.  That stale streams cost  *)
(* nothing is an argument about the ways an endpoint is left.              *)
(***************************************************************************)
EXTENDS DotUpstream, SequenceTheorems, WellFoundedInduction, TLAPS

IdleEntries == [stream : Streams, since : 0 .. MaxTime]

Types == /\ now \in 0 .. MaxTime
         /\ idle \in [Endpoints -> Seq(IdleEntries)]
         /\ \A e \in Endpoints : Len(idle[e]) <= DOT_MAX_IDLE_PER_ENDPOINT
         /\ pc \in [Queries -> {"idle", "checkout", "connect", "write", "read",
                                "checkin"}]
         /\ parity \in [Queries -> {0, 1}]
         /\ endpoint \in [Queries -> Endpoints]
         /\ held \in [Queries -> Streams \cup {NoStream}]
         /\ pooled \in [Queries -> BOOLEAN]
         /\ got \in [Queries -> Tokens \cup {<<>>}]
         /\ peer \in [Streams -> Endpoints]
         /\ owed \in [Streams -> Seq(Tokens)]
         /\ closed \subseteq Streams

\* A stream is held by one caller, at one place of its exchange, and it leads
\* to the endpoint the caller is trying.
Holding ==
    /\ \A q \in Queries :
           pc[q] \in {"write", "read", "checkin"} <=> held[q] # NoStream
    /\ \A q \in Queries : held[q] # NoStream => peer[held[q]] = endpoint[q]
    /\ \A p, q \in Queries : held[p] = held[q] /\ held[p] # NoStream => p = q

\* A stream of the pool is held by nobody, lies in one place, owes no answer
\* and leads to the endpoint whose pool it is in.
Pooling ==
    \A e \in Endpoints : \A i \in DOMAIN idle[e] :
        /\ \A q \in Queries : held[q] # idle[e][i].stream
        /\ \A f \in Endpoints : \A j \in DOMAIN idle[f] :
               idle[e][i].stream = idle[f][j].stream => e = f /\ i = j
        /\ owed[idle[e][i].stream] = <<>>
        /\ peer[idle[e][i].stream] = e

\* What the server owes on a stream in use is what its caller waits for.
Exchanging ==
    \A q \in Queries :
        /\ pc[q] = "write" => owed[held[q]] = <<>>
        /\ pc[q] = "read" => owed[held[q]] = <<Token(q)>>
        /\ pc[q] = "checkin" => owed[held[q]] = <<>> /\ got[q] = Token(q)

IndInv == Types /\ Holding /\ Pooling /\ Exchanging

Timers == /\ expires \in [Queries -> 0 .. MaxTime + EndpointTimeout]
          /\ failed \subseteq Queries
          /\ spent \in [Queries -> SUBSET Endpoints]

\* Who holds no stream holds none of the pool.
Unpooled == \A q \in Queries : held[q] = NoStream => ~pooled[q]

\* Endpoints are left one by one, and none before it is spent.
Trying == Timers /\ Unpooled /\ StaleCostsNoEndpoint

\* A stream is only ever used for the endpoint it was connected to.
ConnectedWhereAsked ==
    /\ \A q \in Queries : held[q] # NoStream => peer[held[q]] = endpoint[q]
    /\ \A e \in Endpoints : \A s \in IdleStreams(e) : peer[s] = e

USE DotAssumption

\* A nonempty set of places of a sequence has a highest one.
LEMMA HighestExists ==
    ASSUME NEW n \in Nat, NEW S \in SUBSET (1 .. n), S # {}
    PROVE  \E i \in S : \A j \in S : j <= i
PROOF
<1> DEFINE Less == {p \in Nat \X Nat : p[1] < p[2]}
           T == {n - i : i \in S}
<1>1. IsWellFoundedOn(Less, Nat)
  BY NatLessThanWellFounded, Zenon DEF OpToRel
<1>2. T \in SUBSET Nat /\ T # {}
  <2>1. \A i \in S : n - i \in Nat OBVIOUS
  <2>2. T # {} OBVIOUS
  <2> QED BY <2>1, <2>2
<1>3. \A x, y \in T : ~(<<y, x>> \in Less) => x <= y BY <1>2
<1> HIDE DEF Less, T
<1>4. PICK x \in T : \A y \in T : ~(<<y, x>> \in Less)
  BY <1>1, <1>2, WFMin
<1>5. PICK i \in S : x = n - i BY DEF T
<1>6. \A j \in S : n - i <= n - j BY <1>3, <1>4, <1>5 DEF T
<1> QED BY <1>6

\* What lies in the pool is a stream.
LEMMA IdleTypes ==
    ASSUME Types, NEW e \in Endpoints, NEW i \in DOMAIN idle[e]
    PROVE  idle[e][i] \in IdleEntries /\ idle[e][i].stream \in Streams
PROOF
<1>1. idle[e] \in Seq(IdleEntries) BY DEF Types
<1>2. idle[e][i] \in IdleEntries BY <1>1
<1> QED BY <1>2 DEF IdleEntries

-----------------------------------------------------------------------------
(* The pool of idle streams.                                               *)

\* checkout keeps a first part of the pool of one endpoint.
LEMMA PoolShrinks ==
    ASSUME Types, NEW e \in Endpoints, NEW n \in 0 .. Len(idle[e]),
           idle' = [idle EXCEPT ![e] = SubSeq(idle[e], 1, n)]
    PROVE  /\ idle' \in [Endpoints -> Seq(IdleEntries)]
           /\ \A f \in Endpoints :
                  /\ Len(idle'[f]) <= Len(idle[f])
                  /\ DOMAIN idle'[f] \subseteq DOMAIN idle[f]
                  /\ \A i \in DOMAIN idle'[f] : idle'[f][i] = idle[f][i]
           /\ DOMAIN idle'[e] = 1 .. n
PROOF
<1> DEFINE s == SubSeq(idle[e], 1, n)
<1>1. idle[e] \in Seq(IdleEntries) BY DEF Types
<1>2. Len(idle[e]) \in Nat /\ DOMAIN idle[e] = 1 .. Len(idle[e])
  BY <1>1, LenProperties
<1>3. /\ s \in Seq(IdleEntries) /\ Len(s) = n
      /\ \A i \in 1 .. n : s[i] = idle[e][i]
  BY <1>1, <1>2
<1>4. DOMAIN s = 1 .. n BY <1>3, LenProperties
<1>5. \A f \in Endpoints : idle'[f] = IF f = e THEN s ELSE idle[f]
  BY DEF Types
<1> HIDE DEF s
<1>6. idle' \in [Endpoints -> Seq(IdleEntries)]
  BY <1>3 DEF Types, s
<1>7. ASSUME NEW f \in Endpoints
      PROVE  /\ Len(idle'[f]) <= Len(idle[f])
             /\ DOMAIN idle'[f] \subseteq DOMAIN idle[f]
             /\ \A i \in DOMAIN idle'[f] : idle'[f][i] = idle[f][i]
  <2>1. CASE f = e BY <2>1, <1>2, <1>3, <1>4, <1>5
  <2>2. CASE f # e
    <3>1. Len(idle[f]) \in Nat BY LenProperties DEF Types
    <3> QED BY <2>2, <3>1, <1>5
  <2> QED BY <2>1, <2>2
<1> QED BY <1>4, <1>5, <1>6, <1>7

\* checkin adds one stream at the end of the pool of one endpoint.
LEMMA PoolGrows ==
    ASSUME Types, NEW e \in Endpoints, NEW x \in IdleEntries,
           idle' = [idle EXCEPT ![e] = Append(@, x)]
    PROVE  /\ idle' \in [Endpoints -> Seq(IdleEntries)]
           /\ Len(idle'[e]) = Len(idle[e]) + 1
           /\ \A f \in Endpoints \ {e} : idle'[f] = idle[f]
           /\ \A i \in DOMAIN idle'[e] :
                  IF i = Len(idle[e]) + 1
                  THEN idle'[e][i] = x
                  ELSE i \in DOMAIN idle[e] /\ idle'[e][i] = idle[e][i]
PROOF
<1>1. idle[e] \in Seq(IdleEntries) BY DEF Types
<1>2. Len(idle[e]) \in Nat /\ DOMAIN idle[e] = 1 .. Len(idle[e])
  BY <1>1, LenProperties
<1>3. idle'[e] = Append(idle[e], x) BY DEF Types
<1>4. /\ idle'[e] \in Seq(IdleEntries)
      /\ Len(idle'[e]) = Len(idle[e]) + 1
      /\ \A i \in 1 .. Len(idle[e]) : idle'[e][i] = idle[e][i]
      /\ idle'[e][Len(idle[e]) + 1] = x
  BY <1>1, <1>3, AppendProperties
<1>5. DOMAIN idle'[e] = 1 .. Len(idle[e]) + 1 BY <1>4, LenProperties
<1>6. idle' \in [Endpoints -> Seq(IdleEntries)]
      /\ \A f \in Endpoints \ {e} : idle'[f] = idle[f]
  BY <1>3, <1>4 DEF Types
<1> QED BY <1>2, <1>4, <1>5, <1>6

-----------------------------------------------------------------------------
(* The caller's own steps.                                                 *)

\* A caller gives up its stream, or has none, and goes where it holds none:
\* nothing else of the invariant is touched.
LEMMA Released ==
    ASSUME IndInv, NEW q \in Queries, LetGo(q),
           NEW where \in {"idle", "checkout", "connect"}, Go(q, where),
           endpoint' \in [Queries -> Endpoints],
           \A p \in Queries \ {q} : endpoint'[p] = endpoint[p],
           UNCHANGED <<now, idle, parity, network>>
    PROVE  IndInv'
PROOF
<1> USE DEF IndInv, LetGo, Go, network
<1>1. Types' BY DEF Types
<1>2. Holding' BY DEF Types, Holding
<1>3. Pooling'
  <2>1. \A s \in Streams : \A p \in Queries : held[p] # s => held'[p] # s
    BY DEF Types
  <2>2. \A e \in Endpoints : \A i \in DOMAIN idle[e] : idle[e][i].stream \in Streams
    BY IdleTypes
  <2> QED BY <2>1, <2>2 DEF Pooling
<1>4. Exchanging' BY DEF Types, Holding, Exchanging, Token
<1> QED BY <1>1, <1>2, <1>3, <1>4

LEMMA BeginStep ==
    ASSUME IndInv, NEW q \in Queries, Begin(q)
    PROVE  IndInv'
PROOF
<1> USE DEF IndInv, Begin, Try, Go, pool, network
<1>1. 1 \in Endpoints BY DEF Endpoints
<1>2. Types'
  <2>1. \A b \in {0, 1} : 1 - b \in {0, 1} OBVIOUS
  <2>2. parity' \in [Queries -> {0, 1}] BY <2>1 DEF Types
  <2> QED BY <1>1, <2>2 DEF Types
<1>3. Holding' BY DEF Types, Holding
<1>4. Pooling' BY DEF Types, Pooling
<1>5. Exchanging' BY DEF Types, Holding, Exchanging, Token
<1> QED BY <1>2, <1>3, <1>4, <1>5

LEMMA CheckoutStep ==
    ASSUME IndInv, NEW q \in Queries, Checkout(q)
    PROVE  IndInv'
PROOF
<1> USE DEF IndInv
<1> DEFINE e == endpoint[q]
<1>0. e \in Endpoints /\ idle[e] \in Seq(IdleEntries) BY DEF Types
<1>1. Len(idle[e]) \in Nat /\ DOMAIN idle[e] = 1 .. Len(idle[e])
  BY <1>0, LenProperties
<1>2. \A f \in Endpoints : \A i \in DOMAIN idle[f] : idle[f][i].stream \in Streams
  BY IdleTypes
<1>3. \A f \in Endpoints : Len(idle[f]) \in Nat
  BY LenProperties DEF Types
<1>4. CASE Young(e) = {}
  <2>1. /\ idle' = [idle EXCEPT ![e] = <<>>] /\ Go(q, "connect")
        /\ UNCHANGED <<now, parity, endpoint, held, pooled, got, network>>
        /\ pc[q] = "checkout"
    BY <1>4 DEF Checkout, attempt
  <2>2. SubSeq(idle[e], 1, 0) = <<>> BY <1>0
  <2>3. 0 \in 0 .. Len(idle[e]) BY <1>1
  <2>4. /\ idle' \in [Endpoints -> Seq(IdleEntries)]
        /\ \A f \in Endpoints :
               /\ Len(idle'[f]) <= Len(idle[f])
               /\ DOMAIN idle'[f] \subseteq DOMAIN idle[f]
               /\ \A i \in DOMAIN idle'[f] : idle'[f][i] = idle[f][i]
    BY <1>0, <2>1, <2>2, <2>3, PoolShrinks, Zenon
  <2>5. \A f \in Endpoints : Len(idle'[f]) \in Nat
    BY <2>4, LenProperties
  <2>6. Types' BY <1>3, <2>1, <2>4, <2>5 DEF Types, Go, network
  <2>7. Holding' BY <2>1 DEF Types, Holding, Go, network
  <2>8. Pooling' BY <2>1, <2>4 DEF Pooling, network
  <2>9. Exchanging' BY <2>1 DEF Types, Exchanging, Token, Go, network
  <2> QED BY <2>6, <2>7, <2>8, <2>9
<1>5. CASE Young(e) # {}
  <2> DEFINE top == CHOOSE i \in Young(e) : \A j \in Young(e) : j <= i
  <2>1. /\ idle' = [idle EXCEPT ![e] = Older(e, top)]
        /\ held' = [held EXCEPT ![q] = idle[e][top].stream]
        /\ pooled' = [pooled EXCEPT ![q] = TRUE]
        /\ Go(q, "write")
        /\ UNCHANGED <<now, parity, endpoint, got, network>>
        /\ pc[q] = "checkout"
    BY <1>5, Zenon DEF Checkout, attempt
  <2>2. top \in DOMAIN idle[e]
    <3>1. Young(e) \in SUBSET (1 .. Len(idle[e])) BY <1>1 DEF Young
    <3>2. \E i \in Young(e) : \A j \in Young(e) : j <= i
      BY <1>1, <1>5, <3>1, HighestExists
    <3>3. top \in Young(e) BY <3>2, Zenon
    <3> QED BY <3>3 DEF Young
  <2> HIDE DEF top
  <2>3. top - 1 \in 0 .. Len(idle[e]) /\ top \in Nat BY <1>1, <2>2
  <2>4. idle' = [idle EXCEPT ![e] = SubSeq(idle[e], 1, top - 1)]
    BY <2>1 DEF Older
  <2>5. /\ idle' \in [Endpoints -> Seq(IdleEntries)]
        /\ \A f \in Endpoints :
               /\ Len(idle'[f]) <= Len(idle[f])
               /\ DOMAIN idle'[f] \subseteq DOMAIN idle[f]
               /\ \A i \in DOMAIN idle'[f] : idle'[f][i] = idle[f][i]
        /\ DOMAIN idle'[e] = 1 .. (top - 1)
    BY <1>0, <2>3, <2>4, PoolShrinks, Zenon
  <2>6. \A f \in Endpoints : Len(idle'[f]) \in Nat
    BY <2>5, LenProperties
  <2> DEFINE s == idle[e][top].stream
  <2>7. /\ s \in Streams /\ owed[s] = <<>> /\ peer[s] = e
        /\ \A p \in Queries : held[p] # s
    BY <1>0, <1>2, <2>2 DEF Pooling
  <2>8. \A f \in Endpoints : \A i \in DOMAIN idle'[f] : idle'[f][i].stream # s
    <3> SUFFICES ASSUME NEW f \in Endpoints, NEW i \in DOMAIN idle'[f],
                        idle'[f][i].stream = s
                 PROVE FALSE
      OBVIOUS
    <3>1. i \in DOMAIN idle[f] /\ idle[f][i].stream = s BY <2>5
    <3>2. f = e /\ i = top BY <1>0, <2>2, <3>1 DEF Pooling
    <3> QED BY <2>3, <2>5, <3>2
  <2>9. held'[q] = s /\ \A p \in Queries \ {q} : held'[p] = held[p]
    BY <2>1 DEF Types
  <2>10. held' \in [Queries -> Streams \cup {NoStream}]
    BY <2>1, <2>7 DEF Types
  <2> HIDE DEF s
  <2>11. pc'[q] = "write" /\ \A p \in Queries \ {q} : pc'[p] = pc[p]
    BY <2>1 DEF Types, Go
  <2>12. Types'
    BY <1>3, <2>1, <2>5, <2>6, <2>10 DEF Types, Go, network
  <2>13. Holding'
    BY <2>1, <2>7, <2>9, <2>11 DEF Holding, network
  <2>14. Pooling'
    <3> SUFFICES ASSUME NEW f \in Endpoints, NEW i \in DOMAIN idle'[f]
                 PROVE /\ \A p \in Queries : held'[p] # idle'[f][i].stream
                       /\ \A g \in Endpoints : \A j \in DOMAIN idle'[g] :
                              idle'[f][i].stream = idle'[g][j].stream => f = g /\ i = j
                       /\ owed'[idle'[f][i].stream] = <<>>
                       /\ peer'[idle'[f][i].stream] = f
      BY DEF Pooling
    <3> QED BY <2>1, <2>5, <2>8, <2>9 DEF Pooling, network
  <2>15. Exchanging'
    BY <2>1, <2>7, <2>9, <2>11 DEF Exchanging, Token, network
  <2> QED BY <2>12, <2>13, <2>14, <2>15
<1> QED BY <1>4, <1>5

LEMMA ConnectStep ==
    ASSUME IndInv, NEW q \in Queries, NEW s \in Streams, Connect(q, s)
    PROVE  IndInv'
PROOF
<1> USE DEF IndInv
<1>1. /\ held' = [held EXCEPT ![q] = s]
      /\ peer' = [peer EXCEPT ![s] = endpoint[q]]
      /\ owed' = [owed EXCEPT ![s] = <<>>]
      /\ pc[q] = "connect" /\ pc' = [pc EXCEPT ![q] = "write"]
      /\ UNCHANGED <<now, idle, parity, endpoint, got>>
      /\ \A p \in Queries : held[p] # s
      /\ \A e \in Endpoints : \A i \in DOMAIN idle[e] : idle[e][i].stream # s
  BY DEF Connect, Go, pool, attempt, Unused, IdleStreams
<1>2. Types' BY <1>1 DEF Types, Connect
<1>3. Holding' BY <1>1 DEF Types, Holding
<1>4. Pooling'
  <2>1. \A e \in Endpoints : \A i \in DOMAIN idle[e] : idle[e][i].stream \in Streams
    BY IdleTypes
  <2>2. \A r \in Streams : r # s => owed'[r] = owed[r] /\ peer'[r] = peer[r]
    BY <1>1 DEF Types
  <2>3. \A p \in Queries : held'[p] = IF p = q THEN s ELSE held[p]
    BY <1>1 DEF Types
  <2> QED BY <1>1, <2>1, <2>2, <2>3 DEF Pooling
<1>5. Exchanging' BY <1>1 DEF Types, Holding, Exchanging, Token
<1> QED BY <1>2, <1>3, <1>4, <1>5

\* Write puts a query on a stream that owed nothing.
LEMMA WriteStep ==
    ASSUME IndInv, NEW q \in Queries, Write(q)
    PROVE  IndInv'
PROOF
<1> USE DEF IndInv
<1> DEFINE s == held[q]
<1>1. /\ pc[q] = "write" /\ pc' = [pc EXCEPT ![q] = "read"]
      /\ owed' = [owed EXCEPT ![s] = Append(@, Token(q))]
      /\ UNCHANGED <<now, idle, parity, endpoint, held, pooled, got, peer, closed>>
  BY DEF Write, Go, pool, attempt
<1>2. s \in Streams /\ owed[s] = <<>>
  BY <1>1 DEF Types, Holding, Exchanging
<1>3. Token(q) \in Tokens BY DEF Types, Token, Tokens
<1>4. Append(owed[s], Token(q)) = <<Token(q)>> BY <1>2, <1>3
<1>5. owed'[s] = <<Token(q)>> /\ \A r \in Streams \ {s} : owed'[r] = owed[r]
  BY <1>1, <1>2, <1>4 DEF Types
<1>6. owed' \in [Streams -> Seq(Tokens)]
  <2>1. <<Token(q)>> \in Seq(Tokens) BY <1>3
  <2> QED BY <1>1, <1>2, <1>4, <2>1 DEF Types
<1>7. pc'[q] = "read" /\ \A p \in Queries \ {q} : pc'[p] = pc[p]
  BY <1>1 DEF Types
<1>8. \A p \in Queries \ {q} : held[p] # s /\ held[p] \in Streams \cup {NoStream}
  BY <1>2 DEF Types, Holding
<1> HIDE DEF s
<1>9. Types' BY <1>1, <1>6 DEF Types
<1>10. Holding' BY <1>1, <1>7 DEF Types, Holding
<1>11. Pooling'
  <2>1. \A e \in Endpoints : \A i \in DOMAIN idle[e] : idle[e][i].stream \in Streams \ {s}
    BY IdleTypes DEF Pooling, s
  <2> QED BY <1>1, <1>5, <2>1 DEF Pooling
<1>12. Exchanging'
  <2>1. ASSUME NEW p \in Queries \ {q}
        PROVE  /\ pc'[p] = "write" => owed'[held[p]] = <<>>
               /\ pc'[p] = "read" => owed'[held[p]] = <<Token(p)>>
               /\ pc'[p] = "checkin" => owed'[held[p]] = <<>> /\ got[p] = Token(p)
    BY <1>5, <1>7, <1>8 DEF Holding, Exchanging
  <2>2. \A p \in Queries : Token(p)' = Token(p) BY <1>1 DEF Token
  <2> QED BY <1>1, <1>5, <1>7, <2>1, <2>2 DEF Exchanging, s
<1> QED BY <1>9, <1>10, <1>11, <1>12

\* Read takes the one answer the stream owes, which is the caller's own.
LEMMA ReadStep ==
    ASSUME IndInv, NEW q \in Queries, Read(q)
    PROVE  IndInv'
PROOF
<1> USE DEF IndInv
<1> DEFINE s == held[q]
<1>1. /\ pc[q] = "read" /\ pc' = [pc EXCEPT ![q] = "checkin"]
      /\ got' = [got EXCEPT ![q] = Head(owed[s])]
      /\ owed' = [owed EXCEPT ![s] = Tail(@)]
      /\ UNCHANGED <<now, idle, parity, endpoint, held, pooled, peer, closed>>
  BY DEF Read, Go, pool, attempt
<1>2. s \in Streams /\ owed[s] = <<Token(q)>>
  BY <1>1 DEF Types, Holding, Exchanging
<1>3. Token(q) \in Tokens BY DEF Types, Token, Tokens
<1>4. Head(owed[s]) = Token(q) /\ Tail(owed[s]) = <<>> BY <1>2
<1>5. owed'[s] = <<>> /\ \A r \in Streams \ {s} : owed'[r] = owed[r]
  BY <1>1, <1>2, <1>4 DEF Types
<1>6. owed' \in [Streams -> Seq(Tokens)]
  BY <1>1, <1>2, <1>4 DEF Types
<1>7. pc'[q] = "checkin" /\ \A p \in Queries \ {q} : pc'[p] = pc[p]
  BY <1>1 DEF Types
<1>8. got'[q] = Token(q) /\ \A p \in Queries \ {q} : got'[p] = got[p]
  BY <1>1, <1>4 DEF Types
<1>9. got' \in [Queries -> Tokens \cup {<<>>}]
  BY <1>1, <1>3, <1>4 DEF Types
<1>10. \A p \in Queries \ {q} : held[p] # s /\ held[p] \in Streams \cup {NoStream}
  BY <1>2 DEF Types, Holding
<1> HIDE DEF s
<1>11. Types' BY <1>1, <1>6, <1>9 DEF Types
<1>12. Holding' BY <1>1, <1>7 DEF Types, Holding
<1>13. Pooling'
  <2>1. \A e \in Endpoints : \A i \in DOMAIN idle[e] : idle[e][i].stream \in Streams \ {s}
    BY IdleTypes DEF Pooling, s
  <2> QED BY <1>1, <1>5, <2>1 DEF Pooling
<1>14. Exchanging'
  <2>1. ASSUME NEW p \in Queries \ {q}
        PROVE  /\ pc'[p] = "write" => owed'[held[p]] = <<>>
               /\ pc'[p] = "read" => owed'[held[p]] = <<Token(p)>>
               /\ pc'[p] = "checkin" => owed'[held[p]] = <<>> /\ got'[p] = Token(p)
    BY <1>5, <1>7, <1>8, <1>10 DEF Holding, Exchanging
  <2>2. \A p \in Queries : Token(p)' = Token(p) BY <1>1 DEF Token
  <2> QED BY <1>1, <1>5, <1>7, <1>8, <2>1, <2>2 DEF Exchanging, s
<1> QED BY <1>11, <1>12, <1>13, <1>14

\* Checkin makes the pool the owner of the stream, which owes nothing any more.
LEMMA CheckinStep ==
    ASSUME IndInv, NEW q \in Queries, Checkin(q)
    PROVE  IndInv'
PROOF
<1> USE DEF IndInv
<1> DEFINE s == held[q]
           e == endpoint[q]
           x == [stream |-> s, since |-> now]
<1>1. /\ pc[q] = "checkin" /\ Go(q, "idle") /\ LetGo(q)
      /\ UNCHANGED <<now, parity, endpoint, network>>
      /\ idle' = IF Room(e) THEN [idle EXCEPT ![e] = Append(@, x)] ELSE idle
  BY DEF Checkin, Done
<1>2. /\ s \in Streams /\ owed[s] = <<>> /\ peer[s] = e /\ e \in Endpoints
      /\ x \in IdleEntries
  BY <1>1 DEF Types, Holding, Exchanging, IdleEntries
<1>3. CASE ~Room(e)
  <2>1. UNCHANGED idle BY <1>1, <1>3
  <2>2. endpoint' \in [Queries -> Endpoints] /\ \A p \in Queries : endpoint'[p] = endpoint[p]
    BY <1>1 DEF Types
  <2> QED BY <1>1, <2>1, <2>2, Released
<1>4. CASE Room(e)
  <2>1. idle' = [idle EXCEPT ![e] = Append(@, x)] BY <1>1, <1>4
  <2>2. /\ idle' \in [Endpoints -> Seq(IdleEntries)]
        /\ Len(idle'[e]) = Len(idle[e]) + 1
        /\ \A f \in Endpoints \ {e} : idle'[f] = idle[f]
        /\ \A i \in DOMAIN idle'[e] :
               IF i = Len(idle[e]) + 1
               THEN idle'[e][i] = x
               ELSE i \in DOMAIN idle[e] /\ idle'[e][i] = idle[e][i]
    <3>1. e \in Endpoints /\ x \in IdleEntries BY <1>2
    <3> HIDE DEF e, x
    <3> QED BY <2>1, <3>1, PoolGrows
  <2>3. x.stream = s OBVIOUS
  <2>4. Len(idle[e]) \in Nat BY <1>2, LenProperties DEF Types
  <2>5. held'[q] = NoStream /\ \A p \in Queries \ {q} : held'[p] = held[p]
    BY <1>1 DEF Types, LetGo
  <2>6. \A p \in Queries \ {q} : held[p] # s
    BY <1>2 DEF Types, Holding
  <2>7. \A f \in Endpoints : \A i \in DOMAIN idle[f] : idle[f][i].stream \in Streams \ {s}
    BY IdleTypes DEF Pooling
  <2> HIDE DEF s, x, e
  <2>8. Types'
    <3>1. ASSUME NEW f \in Endpoints
          PROVE  Len(idle'[f]) <= DOT_MAX_IDLE_PER_ENDPOINT
      <4>1. CASE f = e BY <1>4, <2>2, <2>4, <4>1 DEF Room
      <4>2. CASE f # e
        <5>1. idle'[f] = idle[f] BY <2>2, <4>2
        <5> QED BY <5>1 DEF Types
      <4> QED BY <4>1, <4>2
    <3> QED BY <1>1, <2>2, <3>1 DEF Types, Go, LetGo, network
  <2>9. Holding' BY <1>1 DEF Types, Holding, Go, LetGo, network
  <2>10. Pooling'
    <3> DEFINE New(f, i) == f = e /\ i = Len(idle[e]) + 1
    <3>1. ASSUME NEW f \in Endpoints, NEW i \in DOMAIN idle'[f]
          PROVE  IF New(f, i) THEN idle'[f][i].stream = s
                 ELSE i \in DOMAIN idle[f] /\ idle'[f][i] = idle[f][i]
      BY <2>2, <2>3
    <3> SUFFICES ASSUME NEW f \in Endpoints, NEW i \in DOMAIN idle'[f]
                 PROVE /\ \A p \in Queries : held'[p] # idle'[f][i].stream
                       /\ \A g \in Endpoints : \A j \in DOMAIN idle'[g] :
                              idle'[f][i].stream = idle'[g][j].stream => f = g /\ i = j
                       /\ owed[idle'[f][i].stream] = <<>>
                       /\ peer[idle'[f][i].stream] = f
      BY <1>1 DEF Pooling, network
    <3>2. CASE New(f, i)
      <4>1. idle'[f][i].stream = s BY <3>1, <3>2
      <4>2. \A p \in Queries : held'[p] # s
        BY <1>2, <2>5, <2>6
      <4>3. \A g \in Endpoints : \A j \in DOMAIN idle'[g] :
                idle'[g][j].stream = s => New(g, j)
        BY <2>7, <3>1
      <4> QED BY <1>2, <3>2, <4>1, <4>2, <4>3
    <3>3. CASE ~New(f, i)
      <4>1. i \in DOMAIN idle[f] /\ idle'[f][i] = idle[f][i] BY <3>1, <3>3
      <4>2. idle[f][i].stream \in Streams \ {s} BY <2>7, <4>1
      <4>3. \A p \in Queries : held'[p] # idle[f][i].stream
        BY <2>5, <4>1, <4>2 DEF Pooling
      <4>4. \A g \in Endpoints : \A j \in DOMAIN idle'[g] :
                idle[f][i].stream = idle'[g][j].stream => f = g /\ i = j
        BY <3>1, <4>1, <4>2 DEF Pooling
      <4> QED BY <4>1, <4>3, <4>4 DEF Pooling
    <3> QED BY <3>2, <3>3
  <2>11. Exchanging' BY <1>1 DEF Types, Exchanging, Holding, Token, Go, LetGo, network
  <2> QED BY <2>8, <2>9, <2>10, <2>11
<1> QED BY <1>3, <1>4

\* Whichever way an attempt fails, its stream is dropped.
LEMMA FailureStep ==
    ASSUME IndInv, NEW q \in Queries,
           ConnectFails(q) \/ ExchangeFails(q) \/ Timeout(q)
    PROVE  IndInv'
PROOF
<1> USE DEF IndInv
<1>1. UNCHANGED <<now, idle, parity, network>>
  BY DEF ConnectFails, ExchangeFails, Timeout, pool
<1>2. \A p \in Queries : endpoint[p] \in 1 .. E BY DEF Types, Endpoints
<1>3. /\ endpoint' \in [Queries -> Endpoints]
      /\ \A p \in Queries \ {q} : endpoint'[p] = endpoint[p]
      /\ \E where \in {"idle", "checkout", "connect"} : Go(q, where)
  <2>1. CASE NextEndpoint(q)
    <3>1. CASE endpoint[q] < E
      <4>1. endpoint[q] + 1 \in Endpoints BY <1>2, <3>1 DEF Endpoints
      <4>2. endpoint' = [endpoint EXCEPT ![q] = endpoint[q] + 1] /\ Go(q, "checkout")
        BY <1>2, <2>1, <3>1 DEF NextEndpoint, Try
      <4> QED BY <4>1, <4>2 DEF Types
    <3>2. CASE ~(endpoint[q] < E)
      BY <1>2, <2>1, <3>2 DEF Types, NextEndpoint, Done
    <3> QED BY <3>1, <3>2
  <2>2. CASE Go(q, "connect") /\ UNCHANGED endpoint
    BY <2>2 DEF Types
  <2> QED BY <2>1, <2>2 DEF ConnectFails, ExchangeFails, Timeout
<1>4. CASE LetGo(q)
  BY <1>1, <1>3, <1>4, Released
<1>5. CASE ConnectFails(q)
  <2>1. PICK where \in {"idle", "checkout", "connect"} : Go(q, where) BY <1>3
  <2>2. /\ UNCHANGED <<held, pooled, got>> /\ pc[q] = "connect" BY <1>5 DEF ConnectFails
  <2>3. Types' BY <1>1, <1>3, <2>1, <2>2 DEF Types, Go, network
  <2>4. Holding' BY <1>1, <1>3, <2>1, <2>2 DEF Types, Holding, Go, network
  <2>5. Pooling' BY <1>1, <2>2 DEF Pooling, network
  <2>6. Exchanging' BY <1>1, <2>1, <2>2 DEF Types, Exchanging, Token, Go, network
  <2> QED BY <2>3, <2>4, <2>5, <2>6
<1> QED BY <1>4, <1>5 DEF ExchangeFails, Timeout

-----------------------------------------------------------------------------
(* The results.                                                            *)

LEMMA InitInv == Init => IndInv
PROOF
<1> SUFFICES ASSUME Init PROVE IndInv OBVIOUS
<1>1. 1 \in Endpoints BY DEF Endpoints
<1>2. idle \in [Endpoints -> Seq(IdleEntries)] /\ owed \in [Streams -> Seq(Tokens)]
  BY DEF Init
<1>3. \A e \in Endpoints : idle[e] = <<>> /\ Len(idle[e]) = 0 /\ DOMAIN idle[e] = {}
  BY DEF Init
<1>4. Types BY <1>1, <1>2, <1>3 DEF Init, Types
<1>5. Holding BY DEF Init, Holding
<1>6. Pooling BY <1>3 DEF Pooling
<1>7. Exchanging BY DEF Init, Exchanging
<1> QED BY <1>4, <1>5, <1>6, <1>7 DEF IndInv

LEMMA NextInv == IndInv /\ [Next]_vars => IndInv'
PROOF
<1> SUFFICES ASSUME IndInv, [Next]_vars PROVE IndInv' OBVIOUS
<1>1. ASSUME NEW q \in Queries, Begin(q) PROVE IndInv' BY <1>1, BeginStep
<1>2. ASSUME NEW q \in Queries, Checkout(q) PROVE IndInv' BY <1>2, CheckoutStep
<1>3. ASSUME NEW q \in Queries, NEW s \in Streams, Connect(q, s) PROVE IndInv'
  BY <1>3, ConnectStep
<1>4. ASSUME NEW q \in Queries, Write(q) PROVE IndInv' BY <1>4, WriteStep
<1>5. ASSUME NEW q \in Queries, Read(q) PROVE IndInv' BY <1>5, ReadStep
<1>6. ASSUME NEW q \in Queries, Checkin(q) PROVE IndInv' BY <1>6, CheckinStep
<1>7. ASSUME NEW q \in Queries,
             ConnectFails(q) \/ ExchangeFails(q) \/ Timeout(q)
      PROVE IndInv'
  BY <1>7, FailureStep
<1>8. ASSUME NEW s \in Streams, ServerCloses(s) PROVE IndInv'
  <2> USE <1>8 DEF IndInv, ServerCloses, pool, attempt
  <2>1. Types' BY DEF Types
  <2>2. Holding' BY DEF Holding
  <2>3. Pooling' BY DEF Pooling
  <2>4. Exchanging' BY DEF Exchanging, Token
  <2> QED BY <2>1, <2>2, <2>3, <2>4
<1>9. CASE Tick
  <2> USE <1>9 DEF IndInv, Tick, network, attempt
  <2>1. Types' BY DEF Types
  <2>2. Holding' BY DEF Holding
  <2>3. Pooling' BY DEF Pooling
  <2>4. Exchanging' BY DEF Exchanging, Token
  <2> QED BY <2>1, <2>2, <2>3, <2>4
<1>10. CASE UNCHANGED vars
  <2> USE <1>10 DEF IndInv, vars
  <2>1. Types' BY DEF Types
  <2>2. Holding' BY DEF Holding
  <2>3. Pooling' BY DEF Pooling
  <2>4. Exchanging' BY DEF Exchanging, Token
  <2> QED BY <2>1, <2>2, <2>3, <2>4
<1> QED
  BY <1>1, <1>2, <1>3, <1>4, <1>5, <1>6, <1>7, <1>8, <1>9, <1>10 DEF Next

\* Leaving an endpoint: it is spent, and the query goes on, or has spent them all.
LEMMA LeaveEndpoint ==
    ASSUME IndInv, Trying, NEW q \in Queries, NextEndpoint(q), Spend(q),
           ~pooled[q] \/ Late(q), UNCHANGED now
    PROVE  Timers' /\ StaleCostsNoEndpoint'
PROOF
<1>1. /\ endpoint \in [Queries -> 1 .. E] /\ spent \in [Queries -> SUBSET (1 .. E)]
      /\ failed \subseteq Queries /\ E \in Nat \ {0} /\ endpoint[q] \in 1 .. E
  BY DEF IndInv, Types, Trying, Timers, Endpoints
<1>2. spent' = [spent EXCEPT ![q] = @ \cup {endpoint[q]}]
  BY DEF Spend
<1>3. \A p \in Queries : spent'[p] = IF p = q THEN spent[q] \cup {endpoint[q]} ELSE spent[p]
  BY <1>1, <1>2
<1>4. \A p \in Queries : /\ \A e \in 1 .. E : e < endpoint[p] => e \in spent[p]
                         /\ p \in failed => spent[p] = 1 .. E
  BY DEF Trying, StaleCostsNoEndpoint, Endpoints
<1>5. spent' \in [Queries -> SUBSET (1 .. E)] BY <1>1, <1>2
<1>6. CASE endpoint[q] < E /\ Try(q, endpoint[q] + 1) /\ UNCHANGED failed
  <2>1. \A p \in Queries : endpoint'[p] = IF p = q THEN endpoint[q] + 1 ELSE endpoint[p]
    BY <1>1, <1>6 DEF Try
  <2>2. StaleCostsNoEndpoint'
    <3>1. ASSUME NEW p \in Queries, NEW e \in 1 .. E, e < endpoint'[p] PROVE e \in spent'[p]
      <4>1. CASE p = q
        <5>1. e < endpoint[q] \/ e = endpoint[q] BY <1>1, <2>1, <3>1, <4>1
        <5> QED BY <1>3, <1>4, <4>1, <5>1
      <4>2. CASE p # q BY <1>3, <1>4, <2>1, <3>1, <4>2
      <4> QED BY <4>1, <4>2
    <3>2. ASSUME NEW p \in Queries, p \in failed PROVE spent'[p] = 1 .. E
      <4>1. spent[p] = 1 .. E BY <1>4, <3>2
      <4>2. endpoint[q] \in 1 .. E BY <1>1
      <4> QED BY <1>3, <4>1, <4>2
    <3> QED BY <1>6, <3>1, <3>2 DEF StaleCostsNoEndpoint, Endpoints
  <2>3. expires' \in [Queries -> 0 .. MaxTime + EndpointTimeout]
    BY <1>6 DEF Try, IndInv, Types, Trying, Timers
  <2> QED BY <1>1, <1>5, <1>6, <2>2, <2>3 DEF Timers, Endpoints
<1>7. CASE endpoint[q] = E /\ Done(q) /\ failed' = failed \cup {q}
  <2>1. spent'[q] = 1 .. E
    <3>1. \A e \in 1 .. E : e < E \/ e = E OBVIOUS
    <3> QED BY <1>1, <1>3, <1>4, <1>7, <3>1
  <2>2. StaleCostsNoEndpoint'
    BY <1>1, <1>3, <1>4, <1>7, <2>1 DEF Done, StaleCostsNoEndpoint, Endpoints
  <2>3. expires' \in [Queries -> 0 .. MaxTime + EndpointTimeout]
    BY <1>7 DEF Done, IndInv, Types, Trying, Timers
  <2> QED BY <1>1, <1>5, <1>7, <2>2, <2>3 DEF Timers, Endpoints
<1> QED BY <1>6, <1>7 DEF NextEndpoint

\* No step leaves an endpoint that has not been spent.
LEMMA TryingStep ==
    ASSUME IndInv, Trying, [Next]_vars PROVE Trying'
PROOF
<1>1. /\ pooled \in [Queries -> BOOLEAN] /\ held \in [Queries -> Streams \cup {NoStream}]
      /\ endpoint \in [Queries -> Endpoints] /\ now \in 0 .. MaxTime
      /\ expires \in [Queries -> 0 .. MaxTime + EndpointTimeout]
      /\ failed \subseteq Queries /\ spent \in [Queries -> SUBSET Endpoints]
      /\ pc \in [Queries -> {"idle", "checkout", "connect", "write", "read", "checkin"}]
  BY DEF IndInv, Types, Trying, Timers
<1>2. Unpooled /\ Timers /\ StaleCostsNoEndpoint BY DEF Trying
<1>3. ASSUME UNCHANGED <<endpoint, expires, failed, spent>>
      PROVE  Timers' /\ StaleCostsNoEndpoint'
  BY <1>2, <1>3 DEF Timers, StaleCostsNoEndpoint
<1>4. ASSUME NEW q \in Queries, LetGo(q) PROVE Unpooled'
  BY <1>1, <1>2, <1>4 DEF LetGo, Unpooled
<1>5. ASSUME UNCHANGED <<held, pooled>> PROVE Unpooled'
  BY <1>2, <1>5 DEF Unpooled
<1>6. ASSUME NEW q \in Queries, Begin(q) PROVE Trying'
  <2>1. Unpooled' BY <1>5, <1>6 DEF Begin
  <2>2. Timers' BY <1>1, <1>6 DEF Begin, Try, Timers, Endpoints
  <2>3. /\ \A p \in Queries : endpoint'[p] = IF p = q THEN 1 ELSE endpoint[p]
        /\ \A p \in Queries : spent'[p] = IF p = q THEN {} ELSE spent[p]
        /\ failed' = failed \ {q}
    BY <1>1, <1>6 DEF Begin, Try
  <2>4. \A e \in Endpoints : ~(e < 1) BY DEF Endpoints
  <2>5. StaleCostsNoEndpoint' BY <1>2, <2>3, <2>4 DEF StaleCostsNoEndpoint
  <2> QED BY <2>1, <2>2, <2>5 DEF Trying
<1>7. ASSUME NEW q \in Queries, Checkout(q) PROVE Trying'
  <2>1. Timers' /\ StaleCostsNoEndpoint' BY <1>3, <1>7 DEF Checkout, attempt
  <2>2. CASE UNCHANGED <<held, pooled>> BY <1>5, <2>1, <2>2 DEF Trying
  <2>3. CASE \E s : held' = [held EXCEPT ![q] = s] /\ s # NoStream
             /\ pooled' = [pooled EXCEPT ![q] = TRUE]
    <3>1. Unpooled' BY <1>1, <1>2, <2>3 DEF Unpooled
    <3> QED BY <2>1, <3>1 DEF Trying
  <2>4. CASE Young(endpoint[q]) = {} BY <1>7, <2>2, <2>4 DEF Checkout
  <2>5. CASE Young(endpoint[q]) # {}
    <3> DEFINE e == endpoint[q]
               top == CHOOSE i \in Young(e) : \A j \in Young(e) : j <= i
    <3>1. /\ held' = [held EXCEPT ![q] = idle[e][top].stream]
          /\ pooled' = [pooled EXCEPT ![q] = TRUE]
      BY <1>7, <2>5, Zenon DEF Checkout
    <3>2. e \in Endpoints /\ top \in DOMAIN idle[e]
      <4>1. e \in Endpoints /\ idle[e] \in Seq(IdleEntries) BY <1>1 DEF IndInv, Types
      <4>2. Len(idle[e]) \in Nat /\ DOMAIN idle[e] = 1 .. Len(idle[e])
        BY <4>1, LenProperties
      <4>3. Young(e) \in SUBSET (1 .. Len(idle[e])) BY <4>2 DEF Young
      <4>4. \E i \in Young(e) : \A j \in Young(e) : j <= i
        BY <2>5, <4>2, <4>3, HighestExists
      <4>5. top \in Young(e) BY <4>4, Zenon
      <4> QED BY <4>1, <4>5 DEF Young
    <3> HIDE DEF e, top
    <3>3. idle[e][top].stream \in Streams BY <3>2, IdleTypes DEF IndInv
    <3> QED BY <2>3, <3>1, <3>3
  <2> QED BY <2>4, <2>5
<1>8. ASSUME NEW q \in Queries, NEW s \in Streams, Connect(q, s) PROVE Trying'
  <2>1. Timers' /\ StaleCostsNoEndpoint' BY <1>3, <1>8 DEF Connect, attempt
  <2>2. Unpooled' BY <1>1, <1>2, <1>8 DEF Connect, Unpooled
  <2> QED BY <2>1, <2>2 DEF Trying
<1>9. ASSUME NEW q \in Queries, Write(q) \/ Read(q) PROVE Trying'
  BY <1>3, <1>5, <1>9 DEF Write, Read, attempt, Trying
<1>10. ASSUME NEW q \in Queries, Checkin(q) PROVE Trying'
  <2>1. Unpooled' BY <1>4, <1>10 DEF Checkin
  <2>2. Timers' BY <1>1, <1>10 DEF Checkin, Done, Timers
  <2>3. StaleCostsNoEndpoint' BY <1>2, <1>10 DEF Checkin, Done, StaleCostsNoEndpoint
  <2> QED BY <2>1, <2>2, <2>3 DEF Trying
<1>11. ASSUME NEW q \in Queries, ConnectFails(q) PROVE Trying'
  <2>1. ~pooled[q] BY <1>2, <1>11 DEF ConnectFails, IndInv, Holding, Unpooled
  <2>2. Timers' /\ StaleCostsNoEndpoint'
    BY <1>11, <2>1, LeaveEndpoint DEF ConnectFails, pool
  <2>3. Unpooled' BY <1>5, <1>11 DEF ConnectFails
  <2> QED BY <2>2, <2>3 DEF Trying
<1>12. ASSUME NEW q \in Queries, ExchangeFails(q) PROVE Trying'
  <2>1. Unpooled' BY <1>4, <1>12 DEF ExchangeFails
  <2>2. CASE pooled[q]
    <3>1. UNCHANGED <<endpoint, expires, failed, spent>> BY <1>12, <2>2 DEF ExchangeFails
    <3> QED BY <1>3, <2>1, <3>1 DEF Trying
  <2>3. CASE ~pooled[q]
    <3>1. NextEndpoint(q) /\ Spend(q) /\ UNCHANGED now BY <1>12, <2>3 DEF ExchangeFails, pool
    <3> QED BY <2>1, <2>3, <3>1, LeaveEndpoint DEF Trying
  <2> QED BY <2>2, <2>3
<1>13. ASSUME NEW q \in Queries, Timeout(q) PROVE Trying'
  <2>1. Unpooled' BY <1>4, <1>13 DEF Timeout
  <2>2. Timers' /\ StaleCostsNoEndpoint' BY <1>13, LeaveEndpoint DEF Timeout, pool
  <2> QED BY <2>1, <2>2 DEF Trying
<1>14. ASSUME NEW s \in Streams, ServerCloses(s) PROVE Trying'
  BY <1>3, <1>5, <1>14 DEF ServerCloses, attempt, Trying
<1>15. CASE Tick BY <1>3, <1>5, <1>15 DEF Tick, attempt, Trying
<1>16. CASE UNCHANGED vars BY <1>3, <1>5, <1>16 DEF vars, Trying
<1> QED
  BY <1>6, <1>7, <1>8, <1>9, <1>10, <1>11, <1>12, <1>13, <1>14, <1>15, <1>16 DEF Next

\* The invariants a run checks follow from the inductive one.
LEMMA InvImplies ==
    IndInv /\ Trying => TypeOK /\ OwnAnswer /\ StaleCostsNoEndpoint /\ ConnectedWhereAsked
PROOF
<1> SUFFICES ASSUME IndInv, Trying
             PROVE TypeOK /\ OwnAnswer /\ StaleCostsNoEndpoint /\ ConnectedWhereAsked
  OBVIOUS
<1>1. TypeOK
  <2>1. \A e \in Endpoints : Range(idle[e]) \subseteq IdleEntries
    BY IdleTypes DEF Range, IndInv
  <2>2. \A s \in Streams : owed[s] \in Seq(Tokens) BY DEF IndInv, Types
  <2>3. \A s \in Streams : Range(owed[s]) \subseteq Tokens
    BY <2>2 DEF Range
  <2> QED BY <2>1, <2>3 DEF TypeOK, Types, IndInv, IdleEntries, Trying, Timers
<1>2. OwnAnswer BY DEF OwnAnswer, IndInv, Exchanging
<1>3. StaleCostsNoEndpoint BY DEF Trying
<1>4. ConnectedWhereAsked
  BY DEF ConnectedWhereAsked, IndInv, Holding, Pooling, IdleStreams
<1> QED BY <1>1, <1>2, <1>3, <1>4

LEMMA Invariance == Spec => [](IndInv /\ Trying)
PROOF
<1>1. Init => Trying
  <2> SUFFICES ASSUME Init PROVE Trying OBVIOUS
  <2>1. \A e \in Endpoints : ~(e < 1) BY DEF Endpoints
  <2>2. Timers BY DEF Init, Timers
  <2> QED BY <2>1, <2>2 DEF Init, Trying, Unpooled, StaleCostsNoEndpoint
<1> QED BY <1>1, InitInv, NextInv, TryingStep, PTL DEF Spec

\* The pool of an endpoint never has more than DOT_MAX_IDLE_PER_ENDPOINT streams,
\* and every variable of query, checkout and checkin has its type.
THEOREM TypeCorrect == Spec => []TypeOK
PROOF BY Invariance, InvImplies, PTL

\* The keep-alive pool never makes a query worse off: one that leaves an endpoint, or
\* fails, has given each endpoint it left a connection of its own or its whole timeout,
\* however many idle streams the servers have closed.
THEOREM StaleStreamsAreRetried == Spec => []StaleCostsNoEndpoint
PROOF BY Invariance, InvImplies, PTL

\* What query returns is the answer to what it wrote, although exchange looks at
\* no id: a stream dropped in mid-exchange, by a timeout or an error, never comes
\* back, so no answer is ever left on one that is used again.
THEOREM AnswersAreOwn == Spec => []OwnAnswer
PROOF BY Invariance, InvImplies, PTL

\* A stream that is used again leads to the endpoint it is used for: checkin
\* files it under the endpoint that connect was called for.
THEOREM StreamsLeadWhereAsked == Spec => []ConnectedWhereAsked
PROOF BY Invariance, InvImplies, PTL
=============================================================================
