-------------------------- MODULE ConnectionsProofs -------------------------
(***************************************************************************)
(* Proofs about Connections, for any accept loops, connections, addresses, *)
(* permits and capacity of the registry, and counters of any width that    *)
(* the connections fit in.  The counts are exact because each is moved     *)
(* with the stage of its connection; what makes that inductive is that an  *)
(* address nobody has ever evicted has no connection before it is          *)
(* registered, and that nobody registers, and so evicts, while a count is  *)
(* between its load and its fetch_sub.                                     *)
(***************************************************************************)
EXTENDS Connections, FiniteSetTheorems, SequenceTheorems, TLAPS

Room == IF client_capacity = 0 THEN 1 ELSE client_capacity

Types ==
    /\ holding \in [Listeners -> Conns \cup {NoConn}]
    /\ pc \in [Conns -> {"away", "accepted", "admitted", "handshake", "serving",
                         "closing", "discounting", "leaving", "unlisting", "done"}]
    /\ permits \in Nat
    /\ active_connections \in 0 .. Modulus - 1
    /\ clients \in [Ips -> (0 .. Modulus - 1) \cup {NoStats}]
    /\ writers \subseteq {c \in Conns : pc[c] \in {"admitted", "serving", "leaving"}}
    /\ evicted \subseteq Ips

\* The order of activity has every registered address once.
Ordered == /\ activity \in Seq(Ips)
           /\ Range(activity) = Registered
           /\ \A i, j \in DOMAIN activity : activity[i] = activity[j] => i = j
           /\ Cardinality(Registered) <= Room

GaugeExact == active_connections = Cardinality(Counted)

\* The registry's counts, and what holds of an address that has none yet.
Books ==
    \A ip \in Ips :
        /\ ip \in Registered \ evicted => clients[ip] = Cardinality(Listed(ip))
        /\ ip \notin Registered \cup evicted => Listed(ip) = {}

\* A count that is being lowered is still there.
Locked == \A c \in Conns : pc[c] = "unlisting" => IpOf[c] \in Registered

IndInv == Types /\ Ordered /\ PermitsConserved /\ GaugeExact /\ Books /\ Locked

-----------------------------------------------------------------------------
(* Counting.                                                               *)

LEMMA ModFacts ==
    ASSUME NEW M \in Nat \ {0}, NEW x \in Int
    PROVE  x % M \in 0 .. M - 1 /\ (x \in 0 .. M - 1 => x % M = x)
PROOF
<1>1. x % M \in 0 .. M - 1 OBVIOUS
<1>2. ASSUME x \in 0 .. M - 1 PROVE x % M = x
  BY <1>2
<1> QED BY <1>1, <1>2

\* A subset of the connections, with one more or one less.
LEMMA CountConns ==
    ASSUME NEW S \in SUBSET Conns, NEW c \in Conns
    PROVE  /\ Cardinality(S) \in Nat
           /\ Cardinality(S) <= Cardinality(Conns) /\ Cardinality(Conns) \in Nat
           /\ c \in S => /\ Cardinality(S) > 0
                         /\ Cardinality(S \ {c}) = Cardinality(S) - 1
           /\ c \notin S => /\ Cardinality(S \cup {c}) = Cardinality(S) + 1
                            /\ Cardinality(S) < Cardinality(Conns)
PROOF
<1>1. IsFiniteSet(Conns) BY ConnectionsAssumption
<1>2. IsFiniteSet(S) /\ Cardinality(S) <= Cardinality(Conns)
      /\ (Cardinality(S) = Cardinality(Conns) => S = Conns)
  BY <1>1, FS_Subset
<1>3. Cardinality(S) \in Nat /\ Cardinality(Conns) \in Nat
  BY <1>1, <1>2, FS_CardinalityType
<1>4. ASSUME c \in S
      PROVE  Cardinality(S) > 0 /\ Cardinality(S \ {c}) = Cardinality(S) - 1
  <2>1. IsFiniteSet(S \ {c}) /\ Cardinality(S \ {c}) = Cardinality(S) - 1
    BY <1>2, <1>4, FS_RemoveElement
  <2>2. Cardinality(S \ {c}) \in Nat BY <2>1, FS_CardinalityType
  <2> QED BY <1>3, <2>1, <2>2
<1>5. ASSUME c \notin S
      PROVE  /\ Cardinality(S \cup {c}) = Cardinality(S) + 1
             /\ Cardinality(S) < Cardinality(Conns)
  <2>1. Cardinality(S \cup {c}) = Cardinality(S) + 1
    BY <1>2, <1>5, FS_AddElement
  <2>2. Cardinality(S) # Cardinality(Conns) BY <1>2, <1>5
  <2> QED BY <1>2, <1>3, <2>1, <2>2
<1> QED BY <1>2, <1>3, <1>4, <1>5

\* The same for the registered addresses.
LEMMA CountRegistered ==
    ASSUME NEW S \in SUBSET Ips, NEW ip \in Ips
    PROVE  /\ Cardinality(S) \in Nat
           /\ S = {} => Cardinality(S) = 0
           /\ ip \in S => Cardinality(S \ {ip}) = Cardinality(S) - 1
           /\ ip \notin S => Cardinality(S \cup {ip}) = Cardinality(S) + 1
PROOF
<1>1. IsFiniteSet(Ips) BY ConnectionsAssumption
<1>2. IsFiniteSet(S) BY <1>1, FS_Subset
<1> QED BY <1>2, FS_CardinalityType, FS_EmptySet, FS_AddElement, FS_RemoveElement

LEMMA StageSet ==
    Range(Stages) = {"away", "accepted", "admitted", "handshake", "serving",
                     "closing", "discounting", "leaving", "unlisting", "done"}
PROOF
<1>1. DOMAIN Stages = 1 .. 10 BY DEF Stages
<1>2. \A i \in 1 .. 10 : i = 1 \/ i = 2 \/ i = 3 \/ i = 4 \/ i = 5 \/ i = 6 \/ i = 7
                         \/ i = 8 \/ i = 9 \/ i = 10
  OBVIOUS
<1>3. \A i \in 1 .. 10 :
          Stages[i] \in {"away", "accepted", "admitted", "handshake", "serving",
                         "closing", "discounting", "leaving", "unlisting", "done"}
  BY <1>2 DEF Stages
<1>4. /\ Stages[1] = "away" /\ Stages[2] = "accepted" /\ Stages[3] = "admitted"
      /\ Stages[4] = "handshake" /\ Stages[5] = "serving" /\ Stages[6] = "closing"
      /\ Stages[7] = "discounting" /\ Stages[8] = "leaving" /\ Stages[9] = "unlisting"
      /\ Stages[10] = "done"
  BY DEF Stages
<1>5. 1 \in 1 .. 10 /\ 2 \in 1 .. 10 /\ 3 \in 1 .. 10 /\ 4 \in 1 .. 10 /\ 5 \in 1 .. 10
      /\ 6 \in 1 .. 10 /\ 7 \in 1 .. 10 /\ 8 \in 1 .. 10 /\ 9 \in 1 .. 10 /\ 10 \in 1 .. 10
  OBVIOUS
<1> HIDE DEF Stages
<1> QED BY <1>1, <1>3, <1>4, <1>5 DEF Range

-----------------------------------------------------------------------------
(* The registry.                                                           *)

\* touch_activity moves an address to the end and loses none.
LEMMA TouchKeepsOrder ==
    ASSUME Ordered, NEW ip \in Ips, touch(ip), Registered' = Registered
    PROVE  Ordered'
PROOF
<1> DEFINE s == activity
           n == Len(activity)
<1>1. s \in Seq(Ips) /\ n \in Nat /\ DOMAIN s = 1 .. n BY LenProperties DEF Ordered
<1>2. PICK i \in 1 .. n : s[i] = ip /\ activity' = Append(RemoveAt(s, i), ip)
  BY <1>1 DEF touch
<1> DEFINE u == SubSeq(s, 1, i - 1)
           v == SubSeq(s, i + 1, n)
           t == Append(u \o v, ip)
           from(j) == IF j < i THEN j ELSE IF j < n THEN j + 1 ELSE i
<1>3. activity' = t BY <1>2 DEF RemoveAt
<1> HIDE DEF s, n
<1>4. /\ u \in Seq(Ips) /\ Len(u) = i - 1 /\ \A j \in 1 .. i - 1 : u[j] = s[j]
  BY <1>1 DEF n
<1>5. /\ v \in Seq(Ips) /\ Len(v) = n - i /\ \A j \in 1 .. n - i : v[j] = s[i + j]
  BY <1>1 DEF n
<1> HIDE DEF u, v
<1>6. /\ u \o v \in Seq(Ips) /\ Len(u \o v) = n - 1
      /\ \A j \in 1 .. n - 1 : (u \o v)[j] = IF j < i THEN s[j] ELSE s[j + 1]
  <2>1. /\ u \o v \in Seq(Ips) /\ Len(u \o v) = Len(u) + Len(v)
        /\ \A j \in 1 .. Len(u) + Len(v) :
               (u \o v)[j] = IF j <= Len(u) THEN u[j] ELSE v[j - Len(u)]
    BY <1>4, <1>5, ConcatProperties
  <2>2. Len(u \o v) = n - 1 /\ Len(u) + Len(v) = n - 1 BY <1>1, <1>4, <1>5, <2>1
  <2>3. ASSUME NEW j \in 1 .. n - 1
        PROVE  (u \o v)[j] = IF j < i THEN s[j] ELSE s[j + 1]
    <3> DEFINE w == u \o v
    <3>1. w[j] = IF j <= i - 1 THEN u[j] ELSE v[j - (i - 1)]
      BY <1>4, <2>1, <2>2
    <3> HIDE DEF w
    <3>2. CASE j < i
      <4>1. j <= i - 1 /\ j \in 1 .. i - 1 BY <1>1, <3>2
      <4> QED BY <1>4, <3>1, <3>2, <4>1 DEF w
    <3>3. CASE ~(j < i)
      <4>1. /\ j - (i - 1) \in 1 .. n - i /\ i + (j - (i - 1)) = j + 1
            /\ ~(j <= i - 1)
        BY <1>1, <3>3
      <4>2. w[j] = v[j - (i - 1)] BY <3>1, <4>1
      <4> QED BY <1>5, <3>3, <4>1, <4>2 DEF w
    <3> QED BY <3>2, <3>3
  <2> QED BY <2>1, <2>2, <2>3
<1>7. /\ t \in Seq(Ips) /\ Len(t) = n /\ DOMAIN t = 1 .. n
      /\ \A j \in 1 .. n : t[j] = s[from(j)] /\ from(j) \in 1 .. n
  <2> DEFINE w == u \o v
  <2> HIDE DEF w
  <2>1. w \in Seq(Ips) /\ Len(w) = n - 1 BY <1>6 DEF w
  <2>2. /\ Append(w, ip) \in Seq(Ips) /\ Len(Append(w, ip)) = n
        /\ \A j \in 1 .. n - 1 : Append(w, ip)[j] = w[j]
        /\ Append(w, ip)[n] = ip
    BY <1>1, <2>1
  <2>3. t = Append(w, ip) BY DEF w
  <2> HIDE DEF t
  <2>4. DOMAIN t = 1 .. n BY <2>2, <2>3, LenProperties
  <2>5. ASSUME NEW j \in 1 .. n PROVE t[j] = s[from(j)] /\ from(j) \in 1 .. n
    <3>1. CASE j < n
      <4>1. t[j] = w[j] /\ j \in 1 .. n - 1 BY <1>1, <2>2, <2>3, <3>1
      <4> QED BY <1>1, <1>6, <3>1, <4>1 DEF w
    <3>2. CASE ~(j < n)
      <4>1. j = n /\ from(j) = i BY <1>1, <3>2
      <4> QED BY <1>2, <2>2, <2>3, <4>1
    <3> QED BY <3>1, <3>2
  <2> QED BY <2>2, <2>3, <2>4, <2>5
<1> HIDE DEF t
<1>8. \A j, k \in 1 .. n : from(j) = from(k) => j = k BY <1>1
<1>9. \A k \in 1 .. n : \E j \in 1 .. n : from(j) = k
  <2> SUFFICES ASSUME NEW k \in 1 .. n PROVE \E j \in 1 .. n : from(j) = k OBVIOUS
  <2>1. CASE k < i
    <3>1. k \in 1 .. n /\ from(k) = k BY <1>1, <2>1
    <3> QED BY <3>1
  <2>2. CASE k = i
    <3>1. n \in 1 .. n /\ from(n) = k BY <1>1, <2>2
    <3> QED BY <3>1
  <2>3. CASE k > i
    <3>1. k - 1 \in 1 .. n /\ from(k - 1) = k BY <1>1, <2>3
    <3> QED BY <3>1
  <2> QED BY <1>1, <2>1, <2>2, <2>3
<1> HIDE DEF from
<1>10. \A j, k \in 1 .. n : s[j] = s[k] => j = k BY <1>1 DEF Ordered, s
<1>11. \A j, k \in DOMAIN t : t[j] = t[k] => j = k BY <1>7, <1>8, <1>10
<1>12. Range(t) = Range(s)
  <2>1. Range(t) = {t[j] : j \in 1 .. n} BY <1>7 DEF Range
  <2>2. Range(s) = {s[j] : j \in 1 .. n} BY <1>1 DEF Range
  <2>3. ASSUME NEW x \in Range(t) PROVE x \in Range(s)
    <3>1. PICK j \in 1 .. n : x = t[j] BY <2>1
    <3> QED BY <1>7, <2>2, <3>1
  <2>4. ASSUME NEW x \in Range(s) PROVE x \in Range(t)
    <3>1. PICK k \in 1 .. n : x = s[k] BY <2>2
    <3>2. PICK j \in 1 .. n : from(j) = k BY <1>9
    <3> QED BY <1>7, <2>1, <3>1, <3>2
  <2> QED BY <2>3, <2>4
<1> QED BY <1>3, <1>7, <1>11, <1>12 DEF Ordered, s

\* Registering an address: the one that has been inactive for longest makes room.
LEMMA RegisterKeepsOrder ==
    ASSUME Types, Ordered, NEW c \in Conns, NEW n \in 0 .. Modulus - 1, Register(c, n)
    PROVE  /\ Ordered'
           /\ clients' \in [Ips -> (0 .. Modulus - 1) \cup {NoStats}]
           /\ evicted' \subseteq Ips /\ evicted \subseteq evicted'
           /\ clients'[IpOf[c]] = n /\ IpOf[c] \in Registered'
           /\ \A ip \in Ips \ {IpOf[c]} :
                  /\ ip \in Registered' => ip \in Registered /\ clients'[ip] = clients[ip]
                  /\ ip \in Registered \ Registered' => ip \in evicted'
PROOF
<1> USE ConnectionsAssumption
<1> DEFINE ip0 == IpOf[c]
           s == activity
           gone == IF Full THEN {Head(activity)} ELSE {}
           t == IF Full THEN Tail(activity) ELSE activity
<1>1. /\ clients[ip0] = NoStats
      /\ clients' = [i \in Ips |-> IF i = ip0 THEN n
                                   ELSE IF i \in gone THEN NoStats ELSE clients[i]]
      /\ activity' = Append(t, ip0)
      /\ evicted' = evicted \cup gone
  BY DEF Register
<1>2. ip0 \in Ips /\ ip0 \notin Registered BY <1>1 DEF Registered
<1>3. s \in Seq(Ips) /\ Range(s) = Registered BY DEF Ordered
<1>4. /\ Len(s) \in Nat /\ DOMAIN s = 1 .. Len(s)
      /\ \A j \in 1 .. Len(s) : s[j] \in Registered
  BY <1>3 DEF Range
<1>5. Full => Len(s) > 0 /\ Head(s) = s[1] /\ Head(s) \in Registered
  <2> SUFFICES ASSUME Full PROVE Len(s) > 0 /\ Head(s) = s[1] /\ Head(s) \in Registered
    OBVIOUS
  <2>1. \E j \in DOMAIN s : TRUE BY <1>3 DEF Full, Range
  <2>2. Len(s) > 0 BY <1>4, <2>1
  <2>3. Head(s) = s[1] BY <1>3, <2>2
  <2> QED BY <1>4, <2>2, <2>3
<1>6. gone \subseteq Registered /\ Registered \subseteq Ips BY <1>5 DEF Registered
<1>7. n # NoStats OBVIOUS
<1>8. Registered' = (Registered \ gone) \cup {ip0}
  BY <1>1, <1>2, <1>6, <1>7 DEF Registered
<1>9. /\ t \in Seq(Ips) /\ Range(t) = Registered \ gone
      /\ \A i, j \in DOMAIN t : t[i] = t[j] => i = j
  <2>1. CASE ~Full BY <1>3, <2>1 DEF Ordered
  <2>2. CASE Full
    <3>1. t = Tail(s) /\ gone = {s[1]} BY <1>5, <2>2
    <3>2. Tail(s) \in Seq(Ips) /\ Len(Tail(s)) = Len(s) - 1
      BY <1>3, <1>4, <1>5, <2>2
    <3>3. DOMAIN Tail(s) = 1 .. Len(s) - 1 BY <1>4, <1>5, <2>2, <3>2, LenProperties
    <3>4. \A j \in 1 .. Len(s) - 1 : Tail(s)[j] = s[j + 1] /\ j + 1 \in 1 .. Len(s)
      BY <1>3, <1>4, <1>5, <2>2
    <3>5. \A i, j \in DOMAIN s : s[i] = s[j] => i = j BY DEF Ordered
    <3>6. Range(Tail(s)) = {Tail(s)[j] : j \in 1 .. Len(s) - 1}
          /\ Registered = {s[j] : j \in 1 .. Len(s)}
      BY <1>3, <1>4, <3>3 DEF Range
    <3> HIDE DEF s, t, gone
    <3>7. Range(Tail(s)) \subseteq Registered \ {s[1]}
      <4> SUFFICES ASSUME NEW x \in Range(Tail(s)) PROVE x \in Registered /\ x # s[1]
        OBVIOUS
      <4>1. PICK j \in 1 .. Len(s) - 1 : x = Tail(s)[j] BY <3>6
      <4>2. x = s[j + 1] /\ j + 1 \in 1 .. Len(s) /\ j + 1 # 1 /\ 1 \in 1 .. Len(s)
        BY <1>4, <3>4, <4>1
      <4> QED BY <1>4, <3>5, <4>2
    <3>8. ASSUME NEW x \in Registered \ {s[1]} PROVE x \in Range(Tail(s))
      <4>1. PICK j \in 1 .. Len(s) : x = s[j] BY <3>6
      <4>2. j - 1 \in 1 .. Len(s) - 1 /\ j - 1 + 1 = j BY <1>4, <4>1
      <4> QED BY <3>4, <3>6, <4>1, <4>2
    <3>9. \A i, j \in DOMAIN Tail(s) : Tail(s)[i] = Tail(s)[j] => i = j
      BY <1>4, <3>3, <3>4, <3>5
    <3> QED BY <3>1, <3>2, <3>7, <3>8, <3>9
  <2> QED BY <2>1, <2>2
<1>10. /\ activity' \in Seq(Ips) /\ Range(activity') = Registered'
       /\ \A i, j \in DOMAIN activity' : activity'[i] = activity'[j] => i = j
  <2> HIDE DEF t, gone, ip0
  <2> DEFINE w == Append(t, ip0)
  <2>1. Len(t) \in Nat /\ DOMAIN t = 1 .. Len(t) BY <1>9, LenProperties
  <2>2. /\ w \in Seq(Ips) /\ Len(w) = Len(t) + 1
        /\ \A j \in 1 .. Len(t) : w[j] = t[j]
        /\ w[Len(t) + 1] = ip0
    BY <1>2, <1>9, AppendProperties
  <2>3. DOMAIN w = 1 .. Len(t) + 1 BY <2>2, LenProperties
  <2> HIDE DEF w
  <2>4. Range(t) = {t[j] : j \in 1 .. Len(t)} /\ ip0 \notin Range(t)
    BY <1>2, <1>9, <2>1 DEF Range
  <2>5. Range(w) = Range(t) \cup {ip0}
    <3>1. \A j \in 1 .. Len(t) + 1 : j \in 1 .. Len(t) \/ j = Len(t) + 1 BY <2>1
    <3>2. Len(t) + 1 \in 1 .. Len(t) + 1 /\ \A j \in 1 .. Len(t) : j \in 1 .. Len(t) + 1
      BY <2>1
    <3>3. Range(w) = {w[j] : j \in 1 .. Len(t) + 1} BY <2>3 DEF Range
    <3> QED BY <2>2, <2>4, <3>1, <3>2, <3>3
  <2>6. \A i, j \in DOMAIN w : w[i] = w[j] => i = j
    BY <1>9, <2>1, <2>2, <2>3, <2>4
  <2> QED BY <1>1, <1>8, <1>9, <2>2, <2>5, <2>6 DEF w
<1>11. Cardinality(Registered') <= Room
  <2>1. CASE Full
    <3>1. gone = {Head(s)} /\ Head(s) \in Registered BY <1>5, <2>1
    <3>2. Registered \ gone \in SUBSET Ips /\ Head(s) \in Ips BY <1>6, <3>1
    <3>3. Cardinality(Registered \ gone) = Cardinality(Registered) - 1
      BY <1>6, <3>1, <3>2, CountRegistered
    <3>4. Cardinality(Registered') = Cardinality(Registered \ gone) + 1
      BY <1>2, <1>8, <3>2, CountRegistered
    <3>5. Cardinality(Registered) \in Nat BY <1>2, <1>6, CountRegistered
    <3> QED BY <3>3, <3>4, <3>5 DEF Ordered
  <2>2. CASE ~Full
    <3>1. Registered' = Registered \cup {ip0} BY <1>8, <2>2
    <3>2. Cardinality(Registered') = Cardinality(Registered) + 1
          /\ Cardinality(Registered) \in Nat
          /\ (Registered = {} => Cardinality(Registered) = 0)
      BY <1>2, <1>6, <3>1, CountRegistered
    <3> QED BY <2>2, <3>2 DEF Full, Room
  <2> QED BY <2>1, <2>2
<1>12. clients' \in [Ips -> (0 .. Modulus - 1) \cup {NoStats}]
  BY <1>1 DEF Types
<1>13. clients'[ip0] = n /\ ip0 \in Registered' BY <1>1, <1>2, <1>8
<1>14. evicted' \subseteq Ips /\ evicted \subseteq evicted' BY <1>1, <1>6 DEF Types
<1>15. \A ip \in Ips \ {ip0} :
          /\ ip \in Registered' => ip \in Registered /\ clients'[ip] = clients[ip]
          /\ ip \in Registered \ Registered' => ip \in evicted'
  BY <1>1, <1>8
<1>16. Ordered' BY <1>10, <1>11 DEF Ordered, Room
<1> QED BY <1>12, <1>13, <1>14, <1>15, <1>16

\* A client that is found keeps its place in the registry, with a count of n.
LEMMA UpdateKeeps ==
    ASSUME Types, Ordered, NEW c \in Conns, NEW n \in 0 .. Modulus - 1, Update(c, n)
    PROVE  /\ Ordered' /\ Registered' = Registered /\ evicted' = evicted
           /\ IpOf[c] \in Registered
           /\ clients' \in [Ips -> (0 .. Modulus - 1) \cup {NoStats}]
           /\ clients'[IpOf[c]] = n
           /\ \A ip \in Ips \ {IpOf[c]} : clients'[ip] = clients[ip]
PROOF
<1> USE ConnectionsAssumption
<1>1. /\ clients[IpOf[c]] # NoStats /\ touch(IpOf[c]) /\ evicted' = evicted
      /\ clients' = [clients EXCEPT ![IpOf[c]] = n] /\ IpOf[c] \in Ips
  BY DEF Update
<1>2. /\ clients' \in [Ips -> (0 .. Modulus - 1) \cup {NoStats}]
      /\ clients'[IpOf[c]] = n
      /\ \A ip \in Ips \ {IpOf[c]} : clients'[ip] = clients[ip]
  BY <1>1 DEF Types
<1>3. n # NoStats OBVIOUS
<1>4. Registered' = Registered /\ IpOf[c] \in Registered
  BY <1>1, <1>2, <1>3 DEF Registered
<1>5. Ordered' BY <1>1, <1>4, TouchKeepsOrder
<1> QED BY <1>1, <1>2, <1>4, <1>5

\* The books after a registration: a client that is registered anew, with a
\* connection that was counted before, has been evicted before.
LEMMA RegisterKeepsBooks ==
    ASSUME Types, Ordered, Books, NEW c \in Conns, NEW n \in {0, 1}, Register(c, n),
           \A ip \in Ips \ {IpOf[c]} : Listed(ip)' = Listed(ip),
           n = 1 => Listed(IpOf[c])' = Listed(IpOf[c]) \cup {c},
           n = 0 => c \in Listed(IpOf[c])
    PROVE  Books'
PROOF
<1>1. n \in 0 .. Modulus - 1
  <2>1. {} \in SUBSET Conns OBVIOUS
  <2>2. Cardinality({}) < Cardinality(Conns) /\ Cardinality(Conns) \in Nat
        /\ Cardinality({}) \in Nat
    BY <2>1, CountConns
  <2> QED BY <2>2, ConnectionsAssumption
<1>2. /\ evicted \subseteq evicted'
      /\ clients'[IpOf[c]] = n /\ IpOf[c] \in Registered'
      /\ \A ip \in Ips \ {IpOf[c]} :
             /\ ip \in Registered' => ip \in Registered /\ clients'[ip] = clients[ip]
             /\ ip \in Registered \ Registered' => ip \in evicted'
  BY <1>1, RegisterKeepsOrder
<1>3. IpOf[c] \in Ips /\ IpOf[c] \notin Registered
  BY ConnectionsAssumption DEF Register, Registered
<1>4. ASSUME NEW ip \in Ips \ {IpOf[c]}
      PROVE  /\ ip \in Registered' \ evicted' => clients'[ip] = Cardinality(Listed(ip)')
             /\ ip \notin Registered' \cup evicted' => Listed(ip)' = {}
  BY <1>2 DEF Books
<1>5. ASSUME IpOf[c] \notin evicted' PROVE clients'[IpOf[c]] = Cardinality(Listed(IpOf[c])')
  <2>1. Listed(IpOf[c]) = {} BY <1>2, <1>3, <1>5 DEF Books
  <2>2. n = 1 /\ Listed(IpOf[c])' = {c} BY <2>1
  <2> QED BY <1>2, <2>2, FS_Singleton
<1> QED BY <1>2, <1>3, <1>4, <1>5 DEF Books

\* The books after a client that was found has got a new count.
LEMMA UpdateKeepsBooks ==
    ASSUME Types, Ordered, Books, NEW c \in Conns, NEW n \in 0 .. Modulus - 1,
           Update(c, n),
           \A ip \in Ips \ {IpOf[c]} : Listed(ip)' = Listed(ip),
           IpOf[c] \notin evicted => n = Cardinality(Listed(IpOf[c])')
    PROVE  Books'
PROOF
<1>1. /\ Registered' = Registered /\ evicted' = evicted
      /\ IpOf[c] \in Registered /\ clients'[IpOf[c]] = n
      /\ \A ip \in Ips \ {IpOf[c]} : clients'[ip] = clients[ip]
  BY UpdateKeeps
<1> QED BY <1>1 DEF Books

\* The count of a client that was found and never evicted.
LEMMA FoundCount ==
    ASSUME Types, Books, NEW c \in Conns, clients[IpOf[c]] # NoStats
    PROVE  /\ clients[IpOf[c]] \in 0 .. Modulus - 1
           /\ IpOf[c] \notin evicted => clients[IpOf[c]] = Cardinality(Listed(IpOf[c]))
PROOF
<1>1. IpOf[c] \in Ips BY ConnectionsAssumption
<1> QED BY <1>1 DEF Types, Books, Registered

LEMMA ModulusFits == Modulus \in Nat \ {0} /\ {0, 1} \subseteq 0 .. Modulus
PROOF
<1>1. Cardinality(Conns) \in Nat BY ConnectionsAssumption, FS_CardinalityType
<1> QED BY <1>1, ConnectionsAssumption

-----------------------------------------------------------------------------
(* The steps.                                                              *)

\* The registry is left alone.
LEMMA RegistryKept ==
    ASSUME Ordered, UNCHANGED registry
    PROVE  Ordered' /\ Registered' = Registered
PROOF BY DEF Ordered, Registered, registry

\* The loop accepts a connection, or admits it with a permit.
LEMMA AcceptStep ==
    ASSUME IndInv, NEW l \in Listeners, NEW c \in Conns,
           Accept(l, c) \/ (c = holding[l] /\ Admit(l))
    PROVE  IndInv'
PROOF
<1> USE ConnectionsAssumption DEF IndInv
<1>1. UNCHANGED registry BY DEF Accept, Admit
<1>2. Ordered' /\ Registered' = Registered BY <1>1, RegistryKept
<1>3. CASE Accept(l, c)
  <2>1. /\ pc[c] = "away" /\ pc'[c] = "accepted"
        /\ \A d \in Conns \ {c} : pc'[d] = pc[d]
        /\ UNCHANGED <<permits, active_connections>>
    BY <1>3 DEF Accept, Go, Types
  <2>2. InService' = InService /\ Counted' = Counted /\ \A ip : Listed(ip)' = Listed(ip)
    BY <2>1 DEF InService, Counted, Listed
  <2>3. Types' BY <1>1, <1>3, <2>1 DEF Accept, Go, Types, registry
  <2>4. PermitsConserved' /\ GaugeExact' BY <2>1, <2>2 DEF PermitsConserved, GaugeExact
  <2>5. Books' BY <1>1, <1>2, <2>2 DEF Books, registry
  <2>6. Locked' BY <1>2, <2>1 DEF Locked
  <2> QED BY <1>2, <2>3, <2>4, <2>5, <2>6
<1>4. CASE c = holding[l] /\ Admit(l)
  <2>1. /\ pc[c] = "accepted" /\ pc'[c] = "admitted"
        /\ \A d \in Conns \ {c} : pc'[d] = pc[d]
        /\ permits > 0 /\ permits' = permits - 1
        /\ active_connections' = (active_connections + 1) % Modulus
        /\ UNCHANGED holding
    BY <1>4 DEF Admit, PermitFree, Go, Types
  <2>2. /\ InService' = InService \cup {c} /\ c \notin InService
        /\ Counted' = Counted \cup {c} /\ c \notin Counted
        /\ \A ip : Listed(ip)' = Listed(ip)
    BY <2>1 DEF InService, Counted, Listed
  <2>3. /\ Cardinality(InService') = Cardinality(InService) + 1
        /\ Cardinality(InService) \in Nat
    BY <2>2, CountConns DEF InService
  <2>4. /\ Cardinality(Counted') = Cardinality(Counted) + 1
        /\ Cardinality(Counted) \in Nat
        /\ Cardinality(Counted) < Cardinality(Conns) /\ Cardinality(Conns) \in Nat
    BY <2>2, CountConns DEF Counted
  <2>5. active_connections' = Cardinality(Counted')
    <3>1. active_connections + 1 \in 0 .. Modulus - 1 BY <2>4 DEF GaugeExact
    <3>2. Modulus \in Nat \ {0} BY <2>4
    <3>3. (active_connections + 1) % Modulus = active_connections + 1
      BY <3>1, <3>2, ModFacts
    <3> QED BY <2>1, <2>4, <3>3 DEF GaugeExact
  <2>6. active_connections' \in 0 .. Modulus - 1 BY <2>4, <2>5
  <2>7. Types'
    <3>1. permits' \in Nat BY <2>1 DEF Types
    <3> QED BY <1>1, <1>4, <2>1, <2>6, <3>1 DEF Admit, Go, Types, registry
  <2>8. PermitsConserved' BY <2>1, <2>3 DEF PermitsConserved, Types
  <2>9. GaugeExact' BY <2>5 DEF GaugeExact
  <2>10. Books' BY <1>1, <1>2, <2>2 DEF Books, registry
  <2>11. Locked' BY <1>2, <2>1 DEF Locked
  <2> QED BY <1>2, <2>7, <2>8, <2>9, <2>10, <2>11
<1> QED BY <1>3, <1>4

\* A connection goes on without its client being told.
LEMMA QuietStep ==
    ASSUME IndInv, NEW c \in Conns,
           Queue(c) \/ Handshake(c) \/ End(c) \/ CloseLoad(c)
    PROVE  IndInv'
PROOF
<1> USE ConnectionsAssumption DEF IndInv
<1>1. /\ UNCHANGED <<holding, permits, active_connections, clients, activity, evicted>>
  BY DEF Queue, Handshake, End, CloseLoad, registry
<1>2. Ordered' /\ Registered' = Registered BY <1>1 DEF Ordered, Registered
<1>3. \/ UNCHANGED pc
      \/ /\ pc[c] \in {"handshake", "serving", "closing"}
         /\ pc'[c] \in {"serving", "closing", "discounting"}
         /\ pc' = [pc EXCEPT ![c] = pc'[c]]
         /\ writers' = writers /\ c \notin writers
  <2>1. CASE Queue(c) BY <2>1 DEF Queue
  <2>2. CASE Handshake(c) BY <2>2 DEF Handshake, Go, Types, registry
  <2>3. CASE End(c) BY <2>3 DEF End, Go, Types, registry
  <2>4. CASE CloseLoad(c)
    <3>1. c \in Counted BY <2>4 DEF CloseLoad, Counted
    <3>2. active_connections > 0
      BY <3>1, CountConns DEF GaugeExact, Counted
    <3> QED BY <2>4, <3>2 DEF CloseLoad, Go, Types, registry
  <2> QED BY <2>1, <2>2, <2>3, <2>4
<1>4. InService' = InService /\ Counted' = Counted /\ \A ip : Listed(ip)' = Listed(ip)
  BY <1>3 DEF InService, Counted, Listed, Types
<1>5. Types'
  <2>1. writers' \subseteq {d \in Conns : pc'[d] \in {"admitted", "serving", "leaving"}}
    <3>1. CASE UNCHANGED pc
      <4>1. writers' \subseteq writers \cup {c}
        BY <3>1 DEF Queue, Handshake, End, CloseLoad, registry
      <4>2. writers' # writers => pc[c] \in {"admitted", "serving", "leaving"}
        BY DEF Queue, Handshake, End, CloseLoad, registry
      <4> QED BY <3>1, <4>1, <4>2 DEF Types
    <3>2. CASE ~UNCHANGED pc BY <1>3, <3>2 DEF Types
    <3> QED BY <3>1, <3>2
  <2> QED BY <1>1, <1>3, <2>1 DEF Types
<1>6. PermitsConserved' /\ GaugeExact' BY <1>1, <1>4 DEF PermitsConserved, GaugeExact
<1>7. Books' BY <1>1, <1>2, <1>4 DEF Books
<1>8. Locked' BY <1>2, <1>3 DEF Locked, Types
<1> QED BY <1>2, <1>5, <1>6, <1>7, <1>8

\* The client is told of its connection: whether it is found or registered, its
\* count has room, and an address that is registered for the first time had none.
LEMMA SpawnStep ==
    ASSUME IndInv, NEW l \in Listeners, NEW c \in Conns, c = holding[l], Spawn(l)
    PROVE  IndInv'
PROOF
<1> USE ConnectionsAssumption DEF IndInv
<1> DEFINE ip0 == IpOf[c]
<1>1. ip0 \in Ips OBVIOUS
<1>2. /\ pc[c] = "admitted" /\ pc' = [pc EXCEPT ![c] = "handshake"]
      /\ holding' = [holding EXCEPT ![l] = NoConn]
      /\ UNCHANGED <<permits, active_connections>>
      /\ Opened(c)
  BY DEF Spawn, Go
<1>3. /\ InService' = InService /\ Counted' = Counted
      /\ c \notin Listed(ip0) /\ Listed(ip0)' = Listed(ip0) \cup {c}
      /\ \A ip \in Ips \ {ip0} : Listed(ip)' = Listed(ip)
  BY <1>1, <1>2 DEF InService, Counted, Listed, Types
<1>4. /\ Cardinality(Listed(ip0)') = Cardinality(Listed(ip0)) + 1
      /\ Cardinality(Listed(ip0)) \in Nat
      /\ Cardinality(Listed(ip0)) + 1 < Modulus
  <2>1. Listed(ip0) \in SUBSET Conns BY DEF Listed
  <2> QED BY <1>1, <1>3, <2>1, CountConns
<1>5. writers' = writers \ {c} BY <1>2 DEF Opened, Update, Register
<1>6. /\ Ordered' /\ Books' /\ evicted' \subseteq Ips
      /\ clients' \in [Ips -> (0 .. Modulus - 1) \cup {NoStats}]
      /\ Registered \subseteq Registered' \/ ~ReadLocked
  <2>1. CASE Update(c, (clients[ip0] + 1) % Modulus)
    <3> DEFINE n == (clients[ip0] + 1) % Modulus
    <3>1. /\ clients[ip0] \in 0 .. Modulus - 1
          /\ ip0 \notin evicted => clients[ip0] = Cardinality(Listed(ip0))
      BY <1>1, <2>1, FoundCount DEF Update
    <3>2. n \in 0 .. Modulus - 1
      <4>1. clients[ip0] + 1 \in Int BY <3>1, ModulusFits
      <4> QED BY <4>1, ModulusFits, ModFacts
    <3>3. ip0 \notin evicted => n = Cardinality(Listed(ip0)')
      <4> SUFFICES ASSUME ip0 \notin evicted PROVE n = Cardinality(Listed(ip0)') OBVIOUS
      <4>1. clients[ip0] + 1 \in 0 .. Modulus - 1 BY <1>4, <3>1
      <4>2. n = clients[ip0] + 1
        <5>1. clients[ip0] + 1 \in Int BY <3>1, ModulusFits
        <5> QED BY <4>1, <5>1, ModulusFits, ModFacts
      <4> QED BY <1>4, <3>1, <4>2
    <3>4. Update(c, n) BY <2>1
    <3> HIDE DEF n
    <3>5. Books' BY <1>1, <1>3, <3>2, <3>3, <3>4, UpdateKeepsBooks
    <3>6. /\ Ordered' /\ Registered' = Registered /\ evicted' = evicted
          /\ clients' \in [Ips -> (0 .. Modulus - 1) \cup {NoStats}]
      BY <1>1, <3>2, <3>4, UpdateKeeps
    <3> QED BY <3>5, <3>6 DEF Types
  <2>2. CASE Register(c, 1)
    <3>1. 1 \in 0 .. Modulus - 1 BY <1>4
    <3>2. /\ Ordered' /\ evicted' \subseteq Ips
          /\ clients' \in [Ips -> (0 .. Modulus - 1) \cup {NoStats}]
      BY <1>1, <2>2, <3>1, RegisterKeepsOrder
    <3>3. Books'
      <4>1. 1 \in {0, 1} OBVIOUS
      <4> QED BY <1>1, <1>3, <2>2, <4>1, RegisterKeepsBooks
    <3>4. ~ReadLocked BY <2>2 DEF Register
    <3> QED BY <3>2, <3>3, <3>4
  <2> QED BY <1>2, <2>1, <2>2 DEF Opened
<1>7. Types' BY <1>1, <1>2, <1>5, <1>6 DEF Types
<1>8. PermitsConserved' /\ GaugeExact' BY <1>2, <1>3 DEF PermitsConserved, GaugeExact
<1>9. Locked' BY <1>1, <1>2, <1>6 DEF Locked, ReadLocked, Types
<1> QED BY <1>6, <1>7, <1>8, <1>9

\* A query leaves every count as it is, or registers an evicted client with none.
LEMMA QueryStep ==
    ASSUME IndInv, NEW c \in Conns, Query(c)
    PROVE  IndInv'
PROOF
<1> USE ConnectionsAssumption DEF IndInv
<1> DEFINE ip0 == IpOf[c]
<1>1. /\ pc[c] = "serving" /\ UNCHANGED <<holding, pc, permits, active_connections>>
      /\ Update(c, clients[ip0]) \/ Register(c, 0)
  BY DEF Query
<1>2. /\ InService' = InService /\ Counted' = Counted
      /\ \A ip : Listed(ip)' = Listed(ip)
      /\ c \in Listed(ip0)
  BY <1>1 DEF InService, Counted, Listed
<1>3. writers' = writers \ {c} BY <1>1 DEF Update, Register
<1>4. /\ Ordered' /\ Books' /\ evicted' \subseteq Ips
      /\ clients' \in [Ips -> (0 .. Modulus - 1) \cup {NoStats}]
      /\ Registered \subseteq Registered' \/ ~ReadLocked
  <2>1. CASE Update(c, clients[ip0])
    <3>1. /\ clients[ip0] \in 0 .. Modulus - 1
          /\ ip0 \notin evicted => clients[ip0] = Cardinality(Listed(ip0))
      BY <2>1, FoundCount DEF Update
    <3>2. Books' BY <1>2, <2>1, <3>1, UpdateKeepsBooks
    <3>3. /\ Ordered' /\ Registered' = Registered /\ evicted' = evicted
          /\ clients' \in [Ips -> (0 .. Modulus - 1) \cup {NoStats}]
      BY <2>1, <3>1, UpdateKeeps
    <3> QED BY <3>2, <3>3 DEF Types
  <2>2. CASE Register(c, 0)
    <3>1. 0 \in 0 .. Modulus - 1 BY ModulusFits
    <3>2. /\ Ordered' /\ evicted' \subseteq Ips
          /\ clients' \in [Ips -> (0 .. Modulus - 1) \cup {NoStats}]
      BY <2>2, <3>1, RegisterKeepsOrder
    <3>3. Books'
      <4>1. 0 \in {0, 1} OBVIOUS
      <4> QED BY <1>2, <2>2, <4>1, RegisterKeepsBooks
    <3>4. ~ReadLocked BY <2>2 DEF Register
    <3> QED BY <3>2, <3>3, <3>4
  <2> QED BY <1>1, <2>1, <2>2
<1>5. Types' BY <1>1, <1>3, <1>4 DEF Types
<1>6. PermitsConserved' /\ GaugeExact' BY <1>1, <1>2 DEF PermitsConserved, GaugeExact
<1>7. Locked' BY <1>1, <1>4 DEF Locked, ReadLocked
<1> QED BY <1>4, <1>5, <1>6, <1>7

\* The gauge is lowered: the connection is still counted, so it does not wrap.
LEMMA CloseSubStep ==
    ASSUME IndInv, NEW c \in Conns, CloseSub(c)
    PROVE  IndInv'
PROOF
<1> USE ConnectionsAssumption DEF IndInv
<1>1. /\ pc[c] = "discounting" /\ pc' = [pc EXCEPT ![c] = "leaving"]
      /\ active_connections' = (active_connections - 1) % Modulus
      /\ UNCHANGED <<holding, permits>> /\ UNCHANGED registry
  BY DEF CloseSub, Discounted, Go
<1>2. Ordered' /\ Registered' = Registered BY <1>1, RegistryKept
<1>3. /\ InService' = InService /\ c \in Counted /\ Counted' = Counted \ {c}
      /\ \A ip : Listed(ip)' = Listed(ip)
  BY <1>1 DEF InService, Counted, Listed, Types
<1>4. /\ Cardinality(Counted') = Cardinality(Counted) - 1
      /\ Cardinality(Counted) \in Nat /\ Cardinality(Counted) > 0
  BY <1>3, CountConns DEF Counted
<1>5. active_connections - 1 \in 0 .. Modulus - 1
  BY <1>4 DEF GaugeExact, Types
<1>6. active_connections' = active_connections - 1
  BY <1>1, <1>5, ModulusFits, ModFacts
<1>7. GaugeExact' BY <1>4, <1>6 DEF GaugeExact
<1>8. Types' BY <1>1, <1>5, <1>6 DEF Types, registry
<1>9. PermitsConserved' BY <1>1, <1>3 DEF PermitsConserved
<1>10. Books' BY <1>1, <1>2, <1>3 DEF Books, registry
<1>11. Locked' BY <1>1, <1>2 DEF Locked, Types
<1> QED BY <1>2, <1>7, <1>8, <1>9, <1>10, <1>11

\* The client is found and its count loaded, or it is found or registered under
\* the write lock: one that was never evicted is found, with a count of this
\* connection at least.
LEMMA UnlistLoadStep ==
    ASSUME IndInv, NEW c \in Conns, UnlistLoad(c)
    PROVE  IndInv'
PROOF
<1> USE ConnectionsAssumption DEF IndInv
<1> DEFINE ip0 == IpOf[c]
           n == clients[ip0]
<1>1. pc[c] = "leaving" /\ UNCHANGED <<holding, permits, active_connections>>
  BY DEF UnlistLoad
<1>2. /\ pc' = [pc EXCEPT ![c] = pc'[c]] /\ pc'[c] \in {"unlisting", "done"}
      /\ writers' = writers \ {c} /\ ip0 \in Ips
  BY DEF UnlistLoad, Go, Types, Update, Register
<1>3. /\ InService' = InService /\ Counted' = Counted
      /\ \A ip \in Ips \ {ip0} : Listed(ip)' = Listed(ip)
      /\ c \in Listed(ip0)
      /\ Listed(ip0)' = IF pc'[c] = "done" THEN Listed(ip0) \ {c} ELSE Listed(ip0)
  BY <1>1, <1>2 DEF InService, Counted, Listed, Types
<1>4. /\ Cardinality(Listed(ip0)) \in Nat /\ Cardinality(Listed(ip0)) > 0
      /\ Cardinality(Listed(ip0) \ {c}) = Cardinality(Listed(ip0)) - 1
  <2>1. Listed(ip0) \in SUBSET Conns BY DEF Listed
  <2> QED BY <1>3, <2>1, CountConns
<1>5. ASSUME n # NoStats
      PROVE  n \in 0 .. Modulus - 1 /\ (ip0 \notin evicted => n = Cardinality(Listed(ip0)))
  BY <1>5, FoundCount
<1>6. /\ Ordered' /\ Books' /\ evicted' \subseteq Ips
      /\ clients' \in [Ips -> (0 .. Modulus - 1) \cup {NoStats}]
      /\ Registered \subseteq Registered' \/ ~ReadLocked
      /\ pc'[c] = "unlisting" => ip0 \in Registered'
  <2>1. CASE Update(c, n) /\ Go(c, IF n > 0 THEN "unlisting" ELSE "done")
    <3>1. n # NoStats BY <2>1 DEF Update
    <3>2. pc'[c] = IF n > 0 THEN "unlisting" ELSE "done" BY <2>1 DEF Go, Types
    <3>3. ip0 \notin evicted => n = Cardinality(Listed(ip0)')
      BY <1>3, <1>4, <1>5, <3>1, <3>2
    <3>4. Books' BY <1>2, <1>3, <1>5, <2>1, <3>1, <3>3, UpdateKeepsBooks
    <3>5. /\ Ordered' /\ Registered' = Registered /\ evicted' = evicted
          /\ ip0 \in Registered
          /\ clients' \in [Ips -> (0 .. Modulus - 1) \cup {NoStats}]
      BY <1>5, <2>1, <3>1, UpdateKeeps
    <3> QED BY <3>4, <3>5 DEF Types
  <2>2. CASE Update(c, IF n > 0 THEN Unlisted(ip0) ELSE n) /\ Go(c, "done")
    <3> DEFINE m == IF n > 0 THEN Unlisted(ip0) ELSE n
    <3>1. n # NoStats BY <2>2 DEF Update
    <3>2. pc'[c] = "done" BY <2>2 DEF Go, Types
    <3>3. m = (IF n > 0 THEN n - 1 ELSE n) /\ m \in 0 .. Modulus - 1
      <4>1. n \in 0 .. Modulus - 1 BY <1>5, <3>1
      <4>2. CASE n > 0
        <5>1. n - 1 \in Int /\ n - 1 \in 0 .. Modulus - 1 BY <4>1, <4>2, ModulusFits
        <5>2. (n - 1) % Modulus = n - 1 BY <5>1, ModulusFits, ModFacts
        <5> QED BY <4>2, <5>1, <5>2 DEF Unlisted
      <4>3. CASE ~(n > 0) BY <4>1, <4>3
      <4> QED BY <4>2, <4>3
    <3>4. ip0 \notin evicted => m = Cardinality(Listed(ip0)')
      BY <1>3, <1>4, <1>5, <3>1, <3>2, <3>3
    <3>5. Update(c, m) BY <2>2
    <3> HIDE DEF m
    <3>6. Books' BY <1>2, <1>3, <3>3, <3>4, <3>5, UpdateKeepsBooks
    <3>7. /\ Ordered' /\ Registered' = Registered /\ evicted' = evicted
          /\ clients' \in [Ips -> (0 .. Modulus - 1) \cup {NoStats}]
      BY <3>3, <3>5, UpdateKeeps
    <3> QED BY <3>2, <3>6, <3>7 DEF Types
  <2>3. CASE Register(c, 0) /\ Go(c, "done")
    <3>1. pc'[c] = "done" BY <2>3 DEF Go, Types
    <3>2. 0 \in 0 .. Modulus - 1 BY ModulusFits
    <3>3. /\ Ordered' /\ evicted' \subseteq Ips
          /\ clients' \in [Ips -> (0 .. Modulus - 1) \cup {NoStats}]
      BY <2>3, <3>2, RegisterKeepsOrder
    <3>4. Books'
      <4>1. 0 \in {0, 1} OBVIOUS
      <4> QED BY <1>2, <1>3, <2>3, <4>1, RegisterKeepsBooks
    <3>5. ~ReadLocked BY <2>3 DEF Register
    <3> QED BY <3>1, <3>3, <3>4, <3>5
  <2> QED BY <2>1, <2>2, <2>3 DEF UnlistLoad
<1>7. Types' BY <1>1, <1>2, <1>6 DEF Types
<1>8. PermitsConserved' /\ GaugeExact' BY <1>1, <1>3 DEF PermitsConserved, GaugeExact
<1>9. Locked' BY <1>2, <1>6 DEF Locked, ReadLocked, Types
<1> QED BY <1>6, <1>7, <1>8, <1>9

\* The fetch_sub: the client has not been evicted since the load, and two that
\* have loaded the same count both find their connection in it.
LEMMA UnlistSubStep ==
    ASSUME IndInv, NEW c \in Conns, UnlistSub(c)
    PROVE  IndInv'
PROOF
<1> USE ConnectionsAssumption DEF IndInv
<1> DEFINE ip0 == IpOf[c]
           n == clients[ip0]
<1>1. /\ pc[c] = "unlisting" /\ pc' = [pc EXCEPT ![c] = "done"]
      /\ clients' = [clients EXCEPT ![ip0] = (n - 1) % Modulus]
      /\ UNCHANGED <<holding, permits, active_connections, activity, writers, evicted>>
  BY DEF UnlistSub, Unlisted, Go
<1>2. ip0 \in Ips /\ ip0 \in Registered BY <1>1 DEF Locked
<1>3. n # NoStats BY <1>2 DEF Registered
<1>4. n \in 0 .. Modulus - 1 /\ (ip0 \notin evicted => n = Cardinality(Listed(ip0)))
  BY <1>3, FoundCount
<1>5. (n - 1) % Modulus \in 0 .. Modulus - 1 /\ (n > 0 => (n - 1) % Modulus = n - 1)
  <2>1. n - 1 \in Int /\ (n > 0 => n - 1 \in 0 .. Modulus - 1) BY <1>4, ModulusFits
  <2> QED BY <2>1, ModulusFits, ModFacts
<1>6. /\ clients' \in [Ips -> (0 .. Modulus - 1) \cup {NoStats}]
      /\ clients'[ip0] = (n - 1) % Modulus
      /\ \A ip \in Ips \ {ip0} : clients'[ip] = clients[ip]
  BY <1>1, <1>2, <1>5 DEF Types
<1>7. Registered' = Registered
  <2>1. clients'[ip0] # NoStats BY <1>5, <1>6
  <2> QED BY <1>2, <1>6, <2>1 DEF Registered
<1>8. /\ InService' = InService /\ Counted' = Counted
      /\ \A ip \in Ips \ {ip0} : Listed(ip)' = Listed(ip)
      /\ c \in Listed(ip0) /\ Listed(ip0)' = Listed(ip0) \ {c}
  BY <1>1 DEF InService, Counted, Listed, Types
<1>9. /\ Cardinality(Listed(ip0)) \in Nat /\ Cardinality(Listed(ip0)) > 0
      /\ Cardinality(Listed(ip0)') = Cardinality(Listed(ip0)) - 1
  <2>1. Listed(ip0) \in SUBSET Conns BY DEF Listed
  <2> QED BY <1>8, <2>1, CountConns
<1>10. ip0 \notin evicted => clients'[ip0] = Cardinality(Listed(ip0)')
  BY <1>4, <1>5, <1>6, <1>9
<1>11. Books'
  <2>1. Books /\ UNCHANGED evicted BY <1>1
  <2> HIDE DEF IndInv, n, ip0
  <2>2. ASSUME NEW ip \in Ips \ {ip0}
        PROVE  /\ ip \in Registered' \ evicted' => clients'[ip] = Cardinality(Listed(ip)')
               /\ ip \notin Registered' \cup evicted' => Listed(ip)' = {}
    BY <1>6, <1>7, <1>8, <2>1 DEF Books
  <2> QED BY <1>2, <1>7, <1>10, <2>1, <2>2 DEF Books
<1>12. Ordered' BY <1>1, <1>7 DEF Ordered
<1>13. Types' BY <1>1, <1>6 DEF Types
<1>14. PermitsConserved' /\ GaugeExact' BY <1>1, <1>8 DEF PermitsConserved, GaugeExact
<1>15. Locked' BY <1>1, <1>7 DEF Locked, Types
<1> QED BY <1>11, <1>12, <1>13, <1>14, <1>15

\* The task drops its permit.
LEMMA ReleaseStep ==
    ASSUME IndInv, NEW c \in Conns, Release(c)
    PROVE  IndInv'
PROOF
<1> USE ConnectionsAssumption DEF IndInv
<1>1. /\ pc[c] = "done" /\ pc' = [pc EXCEPT ![c] = "away"]
      /\ permits' = permits + 1
      /\ UNCHANGED <<holding, active_connections>> /\ UNCHANGED registry
  BY DEF Release, Go
<1>2. Ordered' /\ Registered' = Registered BY <1>1, RegistryKept
<1>3. /\ c \in InService /\ InService' = InService \ {c} /\ Counted' = Counted
      /\ \A ip : Listed(ip)' = Listed(ip)
  BY <1>1 DEF InService, Counted, Listed, Types
<1>4. /\ Cardinality(InService') = Cardinality(InService) - 1
      /\ Cardinality(InService) \in Nat
  BY <1>3, CountConns DEF InService
<1>5. PermitsConserved' BY <1>1, <1>4 DEF PermitsConserved, Types
<1>6. Types' BY <1>1 DEF Types, registry
<1>7. GaugeExact' BY <1>1, <1>3 DEF GaugeExact
<1>8. Books' BY <1>1, <1>2, <1>3 DEF Books, registry
<1>9. Locked' BY <1>1, <1>2 DEF Locked, Types
<1> QED BY <1>2, <1>5, <1>6, <1>7, <1>8, <1>9

LEMMA InitInv == Init => IndInv
PROOF
<1> SUFFICES ASSUME Init PROVE IndInv OBVIOUS
<1> USE ConnectionsAssumption
<1>1. /\ InService = {} /\ Counted = {} /\ Registered = {}
      /\ \A ip : Listed(ip) = {}
  BY DEF Init, InService, Counted, Registered, Listed
<1>2. Cardinality({}) = 0 BY FS_EmptySet
<1>3. Types BY ModulusFits DEF Init, Types
<1>4. Ordered
  <2>1. activity = <<>> BY DEF Init
  <2>2. activity \in Seq(Ips) /\ DOMAIN activity = {} BY <2>1
  <2> QED BY <1>1, <1>2, <2>2 DEF Ordered, Room, Range
<1>5. PermitsConserved /\ GaugeExact
  BY <1>1, <1>2 DEF Init, PermitsConserved, GaugeExact
<1>6. Books BY <1>1 DEF Books
<1>7. Locked BY DEF Init, Locked
<1> QED BY <1>3, <1>4, <1>5, <1>6, <1>7 DEF IndInv

LEMMA NextInv ==
    ASSUME IndInv, [Next]_vars
    PROVE  IndInv'
PROOF
<1>1. ASSUME UNCHANGED vars PROVE IndInv'
  <2>1. Ordered' /\ Registered' = Registered
    BY <1>1, RegistryKept DEF IndInv, vars, registry
  <2>2. /\ InService' = InService /\ Counted' = Counted
        /\ \A ip : Listed(ip)' = Listed(ip)
    BY <1>1 DEF vars, InService, Counted, Listed
  <2>3. Types' /\ Locked' BY <1>1, <2>1 DEF IndInv, vars, Types, Locked
  <2>4. PermitsConserved' /\ GaugeExact'
    BY <1>1, <2>2 DEF IndInv, vars, PermitsConserved, GaugeExact
  <2>5. Books' BY <1>1, <2>1, <2>2 DEF IndInv, vars, Books
  <2> QED BY <2>1, <2>3, <2>4, <2>5 DEF IndInv
<1>2. ASSUME NEW l \in Listeners, NEW c \in Conns, Accept(l, c) PROVE IndInv'
  BY <1>2, AcceptStep
<1>3. ASSUME NEW l \in Listeners, Admit(l) \/ Spawn(l) PROVE IndInv'
  <2>1. holding[l] \in Conns BY <1>3 DEF IndInv, Types, Admit, Spawn
  <2>2. CASE Admit(l) BY <2>1, <2>2, AcceptStep
  <2>3. CASE Spawn(l) BY <2>1, <2>3, SpawnStep
  <2> QED BY <1>3, <2>2, <2>3
<1>4. ASSUME NEW c \in Conns, Queue(c) \/ Handshake(c) \/ End(c) PROVE IndInv'
  BY <1>4, QuietStep
<1>5. ASSUME NEW c \in Conns, Query(c) PROVE IndInv' BY <1>5, QueryStep
<1>6. ASSUME NEW c \in Conns, Close(c) PROVE IndInv'
  BY <1>6, QuietStep, CloseSubStep, UnlistLoadStep, UnlistSubStep, ReleaseStep DEF Close
<1> QED BY <1>1, <1>2, <1>3, <1>4, <1>5, <1>6 DEF Next

LEMMA Invariance == Spec => []IndInv
PROOF BY InitInv, NextInv, PTL DEF Spec

-----------------------------------------------------------------------------
(* The theorems.                                                           *)

\* The registry never outgrows its capacity and its order of activity has
\* exactly the addresses it has counts for; nobody is left waiting for the
\* write lock past the call that needed it; there are never more permits than
\* the semaphore was made with.
THEOREM TypeCorrect == Spec => []TypeOK
PROOF
<1>1. ASSUME IndInv PROVE TypeOK
  <2> USE <1>1 DEF IndInv
  <2>1. permits \in 0 .. MAX_CONCURRENT_CONNECTIONS
    <3>1. InService \in SUBSET Conns BY DEF InService
    <3>2. IsFiniteSet(InService) BY <3>1, ConnectionsAssumption, FS_Subset
    <3>3. Cardinality(InService) \in Nat BY <3>2, FS_CardinalityType
    <3> QED BY <3>3, ConnectionsAssumption DEF PermitsConserved, Types
  <2>2. pc \in [Conns -> Range(Stages)] BY StageSet DEF Types
  <2> QED BY <2>1, <2>2 DEF TypeOK, Types, Ordered, Room
<1> QED BY <1>1, Invariance, PTL

\* Every way a connection ends, from a failed handshake to idle_timeout, gives
\* its permit back once, and nobody is served without one.
THEOREM PermitsAreConserved == Spec => []PermitsConserved
PROOF
<1>1. IndInv => PermitsConserved BY DEF IndInv
<1> QED BY <1>1, Invariance, PTL

\* The gauge of `dotdns status' and the registry's counts are exact: the load
\* and the fetch_sub of record_active_connection_closed, with any other task
\* between them, neither skip a decrement nor wrap, and only an eviction makes
\* the registry lose count of a client.
THEOREM CountsAreExact == Spec => []OpenCountsExact
PROOF
<1>1. IndInv => OpenCountsExact
  BY DEF IndInv, GaugeExact, Books, OpenCountsExact, Registered
<1> QED BY <1>1, Invariance, PTL
=============================================================================
