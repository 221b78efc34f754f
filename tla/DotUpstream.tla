----------------------------- MODULE DotUpstream ----------------------------
(***************************************************************************)
(* DNS over TLS upstream with reused connections: DotUpstream in           *)
(* src/src/upstream.rs, asked by several queries at once.                  *)
(*                                                                         *)
(* A response is matched to its query by nothing but its place in the      *)
(* stream: the code reads one message and returns it, whatever its id.  So *)
(* the model keeps, for each stream, the answers the server still owes on  *)
(* it, and the rule that keeps queries apart is who may hold a stream and  *)
(* when it goes back to the idle pool.                                     *)
(*                                                                         *)
(* The server (external) answers the queries on a stream in order and may  *)
(* close a stream at any time, one that lies in the pool too.  When the    *)
(* timeout of query_endpoint elapses, it drops the future at whatever      *)
(* await it is, and the stream it holds with it.                           *)
(***************************************************************************)
EXTENDS Integers, Sequences, SequencesExt, FiniteSets

CONSTANTS Queries,     \* concurrent callers of DotUpstream::query
          Streams,     \* names for TLS streams, reused when one is dropped
          E,           \* endpoints.len()
          DOT_MAX_IDLE_PER_ENDPOINT,
          DOT_IDLE_MAX_AGE,
          EndpointTimeout,   \* self.timeout, for each endpoint
          MaxTime,     \* bound: length of a behaviour in clock ticks
          NoStream

ASSUME DotAssumption == /\ E \in Nat \ {0}
                        /\ DOT_MAX_IDLE_PER_ENDPOINT \in Nat
                        /\ DOT_IDLE_MAX_AGE \in Nat
                        /\ EndpointTimeout \in Nat
                        /\ MaxTime \in Nat
                        /\ NoStream \notin Streams

Endpoints == 1 .. E

\* A query is told from the one before it of the same caller by its parity.
Tokens == Queries \X {0, 1}

VARIABLES now,
          idle,      \* per endpoint, the idle streams and since when
          pc,        \* where each caller stands
          parity,    \* which of its queries the caller is at
          endpoint,  \* the endpoint it is trying
          expires,   \* when its timeout for that endpoint elapses
          held,      \* the stream it holds
          pooled,    \* whether that stream came from the idle pool
          got,       \* the query whose answer it has read, or none
          peer,      \* per stream, the endpoint it is connected to
          owed,      \* per stream, the queries the server has yet to answer
          closed,    \* streams the server has closed
          failed,    \* callers whose latest query returned an error
          spent      \* history: endpoints on which the query of a caller failed
                     \* with a new connection, or for which its time ran out

vars == <<now, idle, pc, parity, endpoint, expires, held, pooled, got, peer, owed,
          closed, failed, spent>>

pool    == <<now, idle>>
attempt == <<parity, endpoint, expires, failed, spent>>
network == <<peer, owed, closed>>

TypeOK ==
    /\ now \in 0 .. MaxTime
    /\ \A e \in Endpoints :
           /\ Len(idle[e]) <= DOT_MAX_IDLE_PER_ENDPOINT
           /\ Range(idle[e]) \subseteq [stream : Streams, since : 0 .. MaxTime]
    /\ pc \in [Queries -> {"idle", "checkout", "connect", "write", "read",
                           "checkin"}]
    /\ parity \in [Queries -> {0, 1}]
    /\ endpoint \in [Queries -> Endpoints]
    /\ expires \in [Queries -> 0 .. MaxTime + EndpointTimeout]
    /\ held \in [Queries -> Streams \cup {NoStream}]
    /\ pooled \in [Queries -> BOOLEAN]
    /\ got \in [Queries -> Tokens \cup {<<>>}]
    /\ peer \in [Streams -> Endpoints]
    /\ \A s \in Streams : Range(owed[s]) \subseteq Tokens
    /\ closed \subseteq Streams
    /\ failed \subseteq Queries
    /\ spent \in [Queries -> SUBSET Endpoints]

Init == /\ now = 0
        /\ idle = [e \in Endpoints |-> <<>>]
        /\ pc = [q \in Queries |-> "idle"]
        /\ parity = [q \in Queries |-> 0]
        /\ endpoint = [q \in Queries |-> 1]
        /\ expires = [q \in Queries |-> 0]
        /\ held = [q \in Queries |-> NoStream]
        /\ pooled = [q \in Queries |-> FALSE]
        /\ got = [q \in Queries |-> <<>>]
        /\ peer = [s \in Streams |-> 1]
        /\ owed = [s \in Streams |-> <<>>]
        /\ closed = {}
        /\ failed = {}
        /\ spent = [q \in Queries |-> {}]

-----------------------------------------------------------------------------
Go(q, where) == pc' = [pc EXCEPT ![q] = where]

Token(q) == <<q, parity[q]>>

IdleStreams(e) == {idle[e][i].stream : i \in DOMAIN idle[e]}

Unused(s) == /\ \A q \in Queries : held[q] # s
             /\ \A e \in Endpoints : s \notin IdleStreams(e)

\* The caller's stream, if any, is dropped; so is what it has read.
LetGo(q) == /\ held' = [held EXCEPT ![q] = NoStream]
            /\ pooled' = [pooled EXCEPT ![q] = FALSE]
            /\ got' = [got EXCEPT ![q] = <<>>]

\* query_endpoint begins with endpoint e, and its timer.
Try(q, e) == /\ endpoint' = [endpoint EXCEPT ![q] = e]
             /\ expires' = [expires EXCEPT ![q] = now + EndpointTimeout]
             /\ Go(q, "checkout")

\* query returns, and no timer is left.
Done(q) == /\ Go(q, "idle")
           /\ expires' = [expires EXCEPT ![q] = 0]
           /\ UNCHANGED endpoint

\* DotUpstream::query begins with the first endpoint.
Begin(q) == /\ pc[q] = "idle"
            /\ parity' = [parity EXCEPT ![q] = 1 - @]
            /\ Try(q, 1)
            /\ failed' = failed \ {q}
            /\ spent' = [spent EXCEPT ![q] = {}]
            /\ UNCHANGED <<pool, held, pooled, got, network>>

\* The idle streams that are not too old.
Young(e) == {i \in DOMAIN idle[e] : now - idle[e][i].since < DOT_IDLE_MAX_AGE}

\* What is left of the pool once the streams from place i on are popped.
Older(e, i) == SubSeq(idle[e], 1, i - 1)

\* checkout, under the lock of the pool: connections are popped, the newest
\* first, until one is young enough; the others are dropped.
Checkout(q) ==
    /\ pc[q] = "checkout"
    /\ LET e == endpoint[q] IN
       IF Young(e) = {}
       THEN /\ idle' = [idle EXCEPT ![e] = <<>>]
            /\ Go(q, "connect")
            /\ UNCHANGED <<held, pooled>>
       ELSE LET top == CHOOSE i \in Young(e) : \A j \in Young(e) : j <= i IN
            /\ idle' = [idle EXCEPT ![e] = Older(e, top)]
            /\ held' = [held EXCEPT ![q] = idle[e][top].stream]
            /\ pooled' = [pooled EXCEPT ![q] = TRUE]
            /\ Go(q, "write")
    /\ UNCHANGED <<now, attempt, got, network>>

\* A TCP connection and a TLS handshake: a new stream to the endpoint.
Connect(q, s) == /\ pc[q] = "connect"
                 /\ Unused(s)
                 /\ held' = [held EXCEPT ![q] = s]
                 /\ pooled' = [pooled EXCEPT ![q] = FALSE]
                 /\ peer' = [peer EXCEPT ![s] = endpoint[q]]
                 /\ owed' = [owed EXCEPT ![s] = <<>>]
                 /\ closed' = closed \ {s}
                 /\ Go(q, "write")
                 /\ UNCHANGED <<pool, attempt, got>>

\* exchange writes the query.
Write(q) == /\ pc[q] = "write"
            /\ held[q] \notin closed
            /\ owed' = [owed EXCEPT ![held[q]] = Append(@, Token(q))]
            /\ Go(q, "read")
            /\ UNCHANGED <<pool, attempt, held, pooled, got, peer, closed>>

\* exchange reads the server's next answer on the stream.
Read(q) == /\ pc[q] = "read"
           /\ held[q] \notin closed
           /\ owed[held[q]] # <<>>
           /\ got' = [got EXCEPT ![q] = Head(owed[held[q]])]
           /\ owed' = [owed EXCEPT ![held[q]] = Tail(@)]
           /\ Go(q, "checkin")
           /\ UNCHANGED <<pool, attempt, held, pooled, peer, closed>>

\* Mutant: room for one more.
Room_OffByOne(e) == Len(idle[e]) <= DOT_MAX_IDLE_PER_ENDPOINT

Room(e) == Len(idle[e]) < DOT_MAX_IDLE_PER_ENDPOINT

\* checkin, under the lock of the pool: the stream goes back, if there is room,
\* and the answer is returned.
Checkin(q) ==
    /\ pc[q] = "checkin"
    /\ LET e == endpoint[q] IN
       idle' = IF Room(e)
               THEN [idle EXCEPT ![e] = Append(@, [stream |-> held[q], since |-> now])]
               ELSE idle
    /\ LetGo(q)
    /\ Done(q)
    /\ UNCHANGED <<now, parity, failed, spent, network>>

\* The endpoint has failed: the next one, or the error back to the pool of upstreams.
NextEndpoint(q) == \/ /\ endpoint[q] < E
                      /\ Try(q, endpoint[q] + 1)
                      /\ UNCHANGED failed
                   \/ /\ endpoint[q] = E
                      /\ Done(q)
                      /\ failed' = failed \cup {q}

\* The timeout of the endpoint has elapsed.
Late(q) == now >= expires[q]

\* What the endpoint was given before it is left: a connection of its own, or
\* all of its time.
Spend(q) == spent' = [spent EXCEPT ![q] =
                         IF ~pooled[q] \/ Late(q) THEN @ \cup {endpoint[q]} ELSE @]

ConnectFails(q) == /\ pc[q] = "connect"
                   /\ NextEndpoint(q)
                   /\ Spend(q)
                   /\ UNCHANGED <<pool, parity, held, pooled, got, network>>

\* Mutant: an exchange that fails on a pooled stream fails the endpoint.
ExchangeFails_NoRetry(q) ==
    /\ pc[q] \in {"write", "read"}
    /\ pc[q] = "write" => held[q] \in closed
    /\ LetGo(q)
    /\ NextEndpoint(q)
    /\ Spend(q)
    /\ UNCHANGED <<pool, parity, network>>

\* exchange fails, on a stream the server has closed or with bytes that do not
\* parse: the stream is dropped, and if it was a pooled one a fresh connection
\* follows.
ExchangeFails(q) ==
    /\ pc[q] \in {"write", "read"}
    /\ pc[q] = "write" => held[q] \in closed
    /\ LetGo(q)
    /\ IF pooled[q] THEN Go(q, "connect") /\ UNCHANGED <<endpoint, expires, failed, spent>>
                    ELSE NextEndpoint(q) /\ Spend(q)
    /\ UNCHANGED <<pool, parity, network>>

\* Mutant: a stream that timed out in the middle of an exchange is reused.
Timeout_KeepsStream(q) ==
    /\ pc[q] # "idle"
    /\ Late(q)
    /\ idle' = IF held[q] # NoStream /\ Room(endpoint[q])
               THEN [idle EXCEPT ![endpoint[q]] =
                         Append(@, [stream |-> held[q], since |-> now])]
               ELSE idle
    /\ LetGo(q)
    /\ NextEndpoint(q)
    /\ Spend(q)
    /\ UNCHANGED <<now, parity, network>>

\* The timeout of query_endpoint drops the future, with the stream it holds,
\* at whatever await it is.
Timeout(q) == /\ pc[q] # "idle"
              /\ Late(q)
              /\ LetGo(q)
              /\ NextEndpoint(q)
              /\ Spend(q)
              /\ UNCHANGED <<pool, parity, network>>

-----------------------------------------------------------------------------
\* The server closes a stream that is in use or idle.
ServerCloses(s) == /\ ~Unused(s)
                   /\ s \notin closed
                   /\ closed' = closed \cup {s}
                   /\ UNCHANGED <<pool, pc, attempt, held, pooled, got, peer, owed>>

Tick == /\ now < MaxTime
        /\ now' = now + 1
        /\ UNCHANGED <<idle, pc, attempt, held, pooled, got, network>>

Next == \/ \E q \in Queries : \/ Begin(q) \/ Checkout(q) \/ ConnectFails(q)
                              \/ \E s \in Streams : Connect(q, s)
                              \/ Write(q) \/ Read(q) \/ Checkin(q)
                              \/ ExchangeFails(q) \/ Timeout(q)
        \/ \E s \in Streams : ServerCloses(s)
        \/ Tick

Spec == Init /\ [][Next]_vars

-----------------------------------------------------------------------------
\* A query returns the answer to itself, never one that an earlier query on the
\* connection gave up waiting for.
OwnAnswer == \A q \in Queries : pc[q] = "checkin" => got[q] = Token(q)

\* An idle stream that has gone stale costs a query no endpoint: a query that leaves
\* an endpoint behind has tried it with a connection of its own or for its whole
\* timeout, and it returns an error only when that is so of every endpoint.
StaleCostsNoEndpoint ==
    \A q \in Queries : /\ \A e \in Endpoints : e < endpoint[q] => e \in spent[q]
                       /\ q \in failed => spent[q] = Endpoints
=============================================================================
