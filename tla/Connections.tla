---------------------------- MODULE Connections -----------------------------
(***************************************************************************)
(* Admission of client connections and their bookkeeping: accept_loop and  *)
(* handle_connection in src/src/server.rs (and their DoH counterparts in   *)
(* src/src/doh.rs, which have a semaphore of their own), the               *)
(* active_connections gauge of src/src/metrics.rs and the client registry  *)
(* of src/src/observability.rs.                                            *)
(*                                                                         *)
(* The registry is behind a read-write lock.  A client that is found under *)
(* the read lock is updated there, by atomics, beside other readers; only  *)
(* a client that is not found takes the write lock, and looks again.       *)
(* While a writer waits no reader gets in, as in the standard library's    *)
(* lock on Linux.  A gauge is lowered by a load and, if that was positive, *)
(* a fetch_sub: two steps.                                                 *)
(*                                                                         *)
(* last_activity is abstracted to the order of the clients' latest         *)
(* activity.                                                               *)
(***************************************************************************)
EXTENDS Integers, Sequences, SequencesExt, FiniteSets

CONSTANTS Listeners,       \* accept loops of one server, which share a semaphore
          Conns,           \* names for client connections
          Ips,
          IpOf,            \* the client address of each connection
          MAX_CONCURRENT_CONNECTIONS,
          client_capacity,
          Modulus,         \* 2^64 in the code
          NoConn, NoStats

ASSUME ConnectionsAssumption ==
    /\ IsFiniteSet(Conns) /\ IsFiniteSet(Ips)
    /\ IpOf \in [Conns -> Ips]
    /\ MAX_CONCURRENT_CONNECTIONS \in Nat \ {0}
    /\ client_capacity \in Nat
    /\ Modulus \in Nat /\ Modulus > Cardinality(Conns)
    /\ NoConn \notin Conns /\ NoStats \notin 0 .. Modulus - 1

VARIABLES holding,             \* the connection each accept loop has accepted
          pc,                  \* where each connection stands
          permits,             \* available permits of the semaphore
          active_connections,  \* gauge of MetricsRecorder
          clients,             \* the registry: active_connections by address
          activity,            \* the registered addresses, the oldest first
          writers,             \* connections that wait for the write lock
          evicted              \* history: addresses that were ever evicted

vars == <<holding, pc, permits, active_connections, clients, activity, writers,
          evicted>>

registry == <<clients, activity, writers, evicted>>

\* In the order a connection goes through them.
Stages == <<"away", "accepted", "admitted", "handshake", "serving",
            "closing", "discounting", "leaving", "unlisting", "done">>

\* A connection is counted in the gauge from its admission to its discount.
Counted == {c \in Conns : pc[c] \in {"admitted", "handshake", "serving",
                                     "closing", "discounting"}}

\* Its client is told of it from its registration to its unlisting.
Listed(ip) == {c \in Conns : /\ IpOf[c] = ip
                             /\ pc[c] \in {"handshake", "serving", "closing",
                                           "discounting", "leaving", "unlisting"}}

Registered == {ip \in Ips : clients[ip] # NoStats}

\* The registry stays within its capacity, and holds one client if that is 0.
TypeOK ==
    /\ holding \in [Listeners -> Conns \cup {NoConn}]
    /\ pc \in [Conns -> Range(Stages)]
    /\ permits \in 0 .. MAX_CONCURRENT_CONNECTIONS
    /\ active_connections \in 0 .. Modulus - 1
    /\ clients \in [Ips -> (0 .. Modulus - 1) \cup {NoStats}]
    /\ Range(activity) = Registered
    /\ Cardinality(Registered) <= (IF client_capacity = 0 THEN 1 ELSE client_capacity)
    /\ writers \subseteq {c \in Conns : pc[c] \in {"admitted", "serving", "leaving"}}
    /\ evicted \subseteq Ips

Init == /\ holding = [l \in Listeners |-> NoConn]
        /\ pc = [c \in Conns |-> "away"]
        /\ permits = MAX_CONCURRENT_CONNECTIONS
        /\ active_connections = 0
        /\ clients = [ip \in Ips |-> NoStats]
        /\ activity = <<>>
        /\ writers = {}
        /\ evicted = {}

-----------------------------------------------------------------------------
(* ObservabilityRegistry::with_client                                      *)

Go(c, where) == pc' = [pc EXCEPT ![c] = where]

\* Somebody is between the load and the fetch_sub of record_connection_closed,
\* and so holds the read lock.
ReadLocked == \E c \in Conns : pc[c] = "unlisting"

\* touch_activity: ip becomes the latest.
touch(ip) == \E i \in DOMAIN activity :
                 /\ activity[i] = ip
                 /\ activity' = Append(RemoveAt(activity, i), ip)

\* Mutant: the registry is found full one client too late.
Full_OffByOne == Cardinality(Registered) > client_capacity

Full == Cardinality(Registered) >= client_capacity /\ Registered # {}

\* The client of c is not found under the read lock, and the write lock is taken.
Queue(c) == /\ pc[c] \in {"admitted", "serving", "leaving"}
            /\ c \notin writers
            /\ clients[IpOf[c]] = NoStats
            /\ ReadLocked
            /\ writers' = writers \cup {c}
            /\ UNCHANGED <<holding, pc, permits, active_connections, clients,
                           activity, evicted>>

\* The slow path: the client of c is registered with an active count of n, and
\* the client that has been inactive for longest makes room.
Register(c, n) ==
    LET gone == IF Full THEN {Head(activity)} ELSE {} IN
    /\ clients[IpOf[c]] = NoStats
    /\ ~ReadLocked
    /\ clients' = [i \in Ips |-> IF i = IpOf[c] THEN n
                                 ELSE IF i \in gone THEN NoStats ELSE clients[i]]
    /\ activity' = Append(IF Full THEN Tail(activity) ELSE activity, IpOf[c])
    /\ writers' = writers \ {c}
    /\ evicted' = evicted \cup gone

\* The client of c is found and its active count becomes n: on the fast path, if
\* no writer waits, or on the slow path, if it was registered meanwhile.
Update(c, n) == /\ clients[IpOf[c]] # NoStats
                /\ IF c \in writers THEN ~ReadLocked ELSE writers = {}
                /\ clients' = [clients EXCEPT ![IpOf[c]] = n]
                /\ touch(IpOf[c])
                /\ writers' = writers \ {c}
                /\ UNCHANGED evicted

-----------------------------------------------------------------------------
(* accept_loop                                                             *)

Accept(l, c) == /\ holding[l] = NoConn
                /\ pc[c] = "away"
                /\ holding' = [holding EXCEPT ![l] = c]
                /\ Go(c, "accepted")
                /\ UNCHANGED <<permits, active_connections, registry>>

PermitFree == permits > 0

\* The loop waits for a permit; then the connection is counted.
Admit(l) == /\ holding[l] # NoConn
            /\ pc[holding[l]] = "accepted"
            /\ PermitFree
            /\ permits' = permits - 1
            /\ active_connections' = (active_connections + 1) % Modulus
            /\ Go(holding[l], "admitted")
            /\ UNCHANGED <<holding, registry>>

\* record_connection_opened, on the stats that were found or on new ones.
Opened(c) == \/ Update(c, (clients[IpOf[c]] + 1) % Modulus)
             \/ Register(c, 1)

\* The client is told, the connection's task is spawned, and the loop accepts
\* again.
Spawn(l) == /\ holding[l] # NoConn
            /\ pc[holding[l]] = "admitted"
            /\ Opened(holding[l])
            /\ Go(holding[l], "handshake")
            /\ holding' = [holding EXCEPT ![l] = NoConn]
            /\ UNCHANGED <<permits, active_connections>>

-----------------------------------------------------------------------------
(* The task of a connection                                                *)

\* The TLS handshake succeeds, or it fails or takes longer than idle_timeout.
Handshake(c) == /\ pc[c] = "handshake"
                /\ Go(c, "serving") \/ Go(c, "closing")
                /\ UNCHANGED <<holding, permits, active_connections, registry>>

\* A query is served; the client's counters and its activity are updated.
Query(c) == /\ pc[c] = "serving"
            /\ Update(c, clients[IpOf[c]]) \/ Register(c, 0)
            /\ UNCHANGED <<holding, pc, permits, active_connections>>

\* End of stream, a read or write failure, or idle_timeout.
End(c) == /\ pc[c] = "serving"
          /\ c \notin writers
          /\ Go(c, "closing")
          /\ UNCHANGED <<holding, permits, active_connections, registry>>

\* record_active_connection_closed: the load.
CloseLoad(c) == /\ pc[c] = "closing"
                /\ Go(c, IF active_connections > 0 THEN "discounting" ELSE "leaving")
                /\ UNCHANGED <<holding, permits, active_connections, registry>>

Discounted == (active_connections - 1) % Modulus

\* record_active_connection_closed: the fetch_sub.
CloseSub(c) == /\ pc[c] = "discounting"
               /\ active_connections' = Discounted
               /\ Go(c, "leaving")
               /\ UNCHANGED <<holding, permits, registry>>

\* Mutant: the client's count is raised again.
Unlisted_Raised(ip) == (clients[ip] + 1) % Modulus

Unlisted(ip) == (clients[ip] - 1) % Modulus

\* record_client_connection_closed: the client is found under the read lock and
\* its count is loaded; or it is found under the write lock, beside nobody; or it
\* is registered anew and a count of 0 stays.
UnlistLoad(c) ==
    LET n == clients[IpOf[c]] IN
    /\ pc[c] = "leaving"
    /\ \/ /\ c \notin writers
          /\ Update(c, n)
          /\ Go(c, IF n > 0 THEN "unlisting" ELSE "done")
       \/ /\ c \in writers
          /\ Update(c, IF n > 0 THEN Unlisted(IpOf[c]) ELSE n)
          /\ Go(c, "done")
       \/ /\ Register(c, 0)
          /\ Go(c, "done")
    /\ UNCHANGED <<holding, permits, active_connections>>

\* record_client_connection_closed: the fetch_sub, and the read lock is free.
UnlistSub(c) ==
    /\ pc[c] = "unlisting"
    /\ clients' = [clients EXCEPT ![IpOf[c]] = Unlisted(IpOf[c])]
    /\ Go(c, "done")
    /\ UNCHANGED <<holding, permits, active_connections, activity, writers,
                   evicted>>

\* Mutant: the permit is lost.
Release_Lost(c) == /\ pc[c] = "done"
                   /\ Go(c, "away")
                   /\ UNCHANGED <<holding, permits, active_connections, registry>>

\* The task ends and drops its permit.
Release(c) == /\ pc[c] = "done"
              /\ permits' = permits + 1
              /\ Go(c, "away")
              /\ UNCHANGED <<holding, active_connections, registry>>

\* Mutant: the task keeps its permit.
Close_NeverReleases(c) == \/ CloseLoad(c) \/ CloseSub(c)
                          \/ UnlistLoad(c) \/ UnlistSub(c)

Close(c) == \/ CloseLoad(c) \/ CloseSub(c)
            \/ UnlistLoad(c) \/ UnlistSub(c) \/ Release(c)

Next == \/ \E l \in Listeners : \/ \E c \in Conns : Accept(l, c)
                                \/ Admit(l) \/ Spawn(l)
        \/ \E c \in Conns : \/ Queue(c) \/ Handshake(c) \/ Query(c)
                            \/ End(c) \/ Close(c)

Spec == Init /\ [][Next]_vars

\* What goes on without the client: its connection's task, and its calls that
\* wait for the write lock.
Work(c) == \/ Handshake(c) \/ Close(c)
           \/ pc[c] # "serving" /\ Queue(c)
           \/ c \in writers /\ Query(c)

\* Tasks are polled, the handshake has a timeout, and whoever waits for the
\* semaphore or for the write lock gets it if it is free again and again.
\* Nothing is assumed of the clients.
FairSpec == /\ Spec
            /\ \A l \in Listeners : SF_vars(Admit(l) \/ Spawn(l))
            /\ \A c \in Conns : SF_vars(Work(c))

-----------------------------------------------------------------------------
InService == {c \in Conns : pc[c] \notin {"away", "accepted"}}

\* The connections in service and the free permits are the semaphore's
\* permits, so at most MAX_CONCURRENT_CONNECTIONS are in service, and no way to
\* end a connection loses a permit.
PermitsConserved ==
    permits + Cardinality(InService) = MAX_CONCURRENT_CONNECTIONS

\* The gauge in `dotdns status' counts the connections in service, and the
\* check before the decrement, stale as it may be, neither wraps nor skips;
\* and a client that was never evicted has as many active connections as the
\* registry says.
OpenCountsExact ==
    /\ active_connections = Cardinality(Counted)
    /\ \A ip \in Registered \ evicted : clients[ip] = Cardinality(Listed(ip))

\* A connection that has ended, or whose handshake has, gives its permit back.
PermitsReturn ==
    \A c \in Conns : pc[c] \in {"handshake", "closing"} ~> pc[c] \in {"serving", "away"}
=============================================================================
