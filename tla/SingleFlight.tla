---------------------------- MODULE SingleFlight ----------------------------
(***************************************************************************)
(* What PendingQueries (src/src/server.rs) promises to its callers: any    *)
(* number of requests that ask one map the same question at a time share   *)
(* one upstream flight, and whoever is aboard when the flight lands gets   *)
(* exactly the outcome it lands with.                                      *)
(*                                                                         *)
(* No map, channel, task or lock appears here.  PendingQueries.tla is      *)
(* shown to implement this specification.                                  *)
(***************************************************************************)
CONSTANTS Requests,     \* callers of PendingQueries::query
          Droppable,    \* the callers whose future can be dropped midway
          Keys,         \* questions, as pending_key tells them apart, per map
          Outcomes,     \* what UpstreamPool::query can return
          NoKey, NoOutcome, TimedOut

VARIABLES asking,       \* the key each request waits for, or NoKey
          aloft,        \* the keys with an upstream flight in progress
          ready,        \* the outcome a landed flight left for the request
          reply         \* what the request's latest query returned

vars == <<asking, aloft, ready, reply>>

TypeOK == /\ asking \in [Requests -> Keys \cup {NoKey}]
          /\ aloft \in SUBSET Keys
          /\ ready \in [Requests -> Outcomes \cup {NoOutcome}]
          /\ reply \in [Requests -> Outcomes \cup {NoOutcome, TimedOut}]

Init == /\ asking = [r \in Requests |-> NoKey]
        /\ aloft = {}
        /\ ready = [r \in Requests |-> NoOutcome]
        /\ reply = [r \in Requests |-> NoOutcome]

\* Request r asks for k: it boards the flight of k, which takes off now if
\* none is in the air.
Ask(r, k) == /\ asking[r] = NoKey
             /\ asking' = [asking EXCEPT ![r] = k]
             /\ aloft' = aloft \cup {k}
             /\ reply' = [reply EXCEPT ![r] = NoOutcome]
             /\ UNCHANGED ready

\* The flight of k lands with outcome o, for everybody still aboard.
Land(k, o) == /\ k \in aloft
              /\ aloft' = aloft \ {k}
              /\ ready' = [r \in Requests |->
                             IF asking[r] = k /\ ready[r] = NoOutcome
                             THEN o ELSE ready[r]]
              /\ UNCHANGED <<asking, reply>>

\* The request leaves, with the outcome v in hand.
Leave(r, v) == /\ asking[r] # NoKey
               /\ asking' = [asking EXCEPT ![r] = NoKey]
               /\ ready' = [ready EXCEPT ![r] = NoOutcome]
               /\ reply' = [reply EXCEPT ![r] = v]
               /\ UNCHANGED aloft

Return(r) == ready[r] # NoOutcome /\ Leave(r, ready[r])

Expire(r) == Leave(r, TimedOut)

GiveUp(r) == r \in Droppable /\ Leave(r, NoOutcome)

Next == \/ \E r \in Requests : \/ \E k \in Keys : Ask(r, k)
                               \/ Return(r)
                               \/ Expire(r)
                               \/ GiveUp(r)
        \/ \E k \in Keys, o \in Outcomes : Land(k, o)

Spec == Init /\ [][Next]_vars

=============================================================================
