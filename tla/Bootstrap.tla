------------------------------ MODULE Bootstrap -----------------------------
(***************************************************************************)
(* Resolving the host of a DoT or DoH upstream through the bootstrap DNS   *)
(* servers: resolve_host_with_bootstrap and query_bootstrap_dns in         *)
(* src/src/upstream.rs.  The servers are asked in turn, each for A and for *)
(* AAAA records, over a UDP socket of its own per question, until one has  *)
(* an address.                                                             *)
(*                                                                         *)
(* Datagrams are lost, late, duplicated or not DNS at all.  The socket is  *)
(* connected, so all come from the server asked; but its port may be one   *)
(* that an earlier question used, so an answer to any question that server *)
(* was asked may arrive.  The order of addresses is left out.              *)
(***************************************************************************)
EXTENDS Naturals, Sequences

CONSTANTS Ids,          \* transaction ids: few, so that they collide
          AddressesOf,  \* the addresses of each host, records of kind and ip
          Deadline,     \* five seconds, in ticks: read timeout and deadline
          NoHost

Kinds == {"A", "AAAA"}

ASSUME BootstrapAssumption == /\ Deadline \in Nat \ {0}
                              /\ Ids # {}

VARIABLES step,       \* idle, asking, waiting, resolved or failed
          host,       \* the host to resolve
          servers,    \* the servers left, the one asked first
          kind,       \* the record type asked for
          query_id,   \* its transaction id
          asked,      \* questions sent so far
          elapsed,    \* ticks since this question was sent
          waited,     \* ticks in this recv
          addrs       \* addresses found

bootVars == <<step, host, servers, kind, query_id, asked, elapsed, waited, addrs>>

BootTypeOK == /\ step \in {"idle", "asking", "waiting", "resolved", "failed"}
              /\ host \in DOMAIN AddressesOf \cup {NoHost}
              /\ kind \in Kinds
              /\ query_id \in Ids \cup {NoHost}
              /\ elapsed \in 0 .. 2 * Deadline - 1
              /\ waited \in 0 .. Deadline
              /\ addrs \subseteq UNION {AddressesOf[h] : h \in DOMAIN AddressesOf}

BootInit == /\ step = "idle" /\ host = NoHost /\ servers = <<>> /\ kind = "A"
            /\ query_id = NoHost /\ asked = {} /\ elapsed = 0 /\ waited = 0
            /\ addrs = {}

-----------------------------------------------------------------------------
\* resolve_host_with_bootstrap is called.
Resolve(h, ss) == /\ step = "idle"
                  /\ step' = IF ss = <<>> THEN "failed" ELSE "asking"
                  /\ host' = h
                  /\ servers' = ss
                  /\ kind' = "A"
                  /\ addrs' = {}
                  /\ UNCHANGED <<query_id, asked, elapsed, waited>>

\* The socket is opened and the question sent.
Ask(id) == /\ step = "asking"
           /\ step' = "waiting"
           /\ query_id' = id
           /\ asked' = asked \cup {[server |-> Head(servers).id, id |-> id,
                                    host |-> host, kind |-> kind]}
           /\ elapsed' = 0
           /\ waited' = 0
           /\ UNCHANGED <<host, servers, kind, addrs>>

\* Mutant: what the last server said is taken even if it is nothing.
Settled_Empty(found) == found # {} \/ Len(servers) = 1

\* The search ends at the server that gives an address.
Settled(found) == found # {}

\* query_bootstrap_dns returns addresses, or none because it failed: on to the
\* other record type, to the caller, or to the next server.
Over(found) ==
    /\ addrs' = addrs \cup found
    /\ query_id' = NoHost
    /\ elapsed' = 0
    /\ waited' = 0
    /\ \/ /\ kind = "A"
          /\ kind' = "AAAA" /\ step' = "asking" /\ UNCHANGED servers
       \/ /\ kind = "AAAA"
          /\ kind' = "A"
          /\ servers' = IF Settled(addrs') THEN servers ELSE Tail(servers)
          /\ step' = IF Settled(addrs') THEN "resolved"
                     ELSE IF Tail(servers) = <<>> THEN "failed" ELSE "asking"
    /\ UNCHANGED <<host, asked>>

\* The socket cannot be opened, or the host is no name.
AskFails == step = "asking" /\ Over({})

\* recv fails, at the latest when its timeout is over.
RecvFails == step = "waiting" /\ Over({})

\* What the server asked may be answering, now or late.
Answerable == {q \in asked : servers # <<>> /\ q.server = Head(servers).id}

\* Mutant: the transaction id is enough.
Matches_IdOnly(q) == q.id = query_id

\* The answer has the id and the question sent.
Matches(q) == q.id = query_id /\ q.kind = kind /\ q.host = host

\* The answer is ours: its records of the type asked for are the result.
Accept(q, addresses) == /\ step = "waiting"
                        /\ Matches(q)
                        /\ Over({a \in addresses : a.kind = kind})

\* Mutant: the deadline is not looked at.
Reject_NoDeadline == /\ step = "waiting"
                     /\ waited' = 0
                     /\ UNCHANGED <<step, host, servers, kind, query_id, asked,
                                    elapsed, addrs>>

\* Mutant: the deadline is counted from the last datagram.
Reject_Renews == /\ step = "waiting"
                 /\ elapsed' = 0 /\ waited' = 0
                 /\ UNCHANGED <<step, host, servers, kind, query_id, asked, addrs>>

\* A datagram that is no DNS message, no response, or an answer to something
\* else: the loop goes on, unless the deadline is over.
Reject == /\ step = "waiting"
          /\ IF elapsed >= Deadline THEN Over({})
             ELSE /\ waited' = 0
                  /\ UNCHANGED <<step, host, servers, kind, query_id, asked,
                                 elapsed, addrs>>

Receive == \/ \E q \in Answerable : \E A \in SUBSET AddressesOf[q.host] : Accept(q, A)
           \/ Reject

Wait == /\ step = "waiting"
        /\ waited < Deadline
        /\ elapsed' = elapsed + 1
        /\ waited' = waited + 1
        /\ UNCHANGED <<step, host, servers, kind, query_id, asked, addrs>>

\* The caller takes the result.
Take == /\ step \in {"resolved", "failed"}
        /\ step' = "idle" /\ host' = NoHost /\ servers' = <<>> /\ addrs' = {}
        /\ UNCHANGED <<kind, query_id, asked, elapsed, waited>>

BootNext == (\E id \in Ids : Ask(id)) \/ AskFails \/ RecvFails \/ Receive \/ Wait
=============================================================================
