---------------------------- MODULE UpstreamPool ----------------------------
(***************************************************************************)
(* Selection, failover and passive health of upstreams: UpstreamPool and   *)
(* UpstreamHealth in src/src/upstream.rs, run by several queries at once.  *)
(*                                                                         *)
(* The health of an upstream is two atomics, read and written without a    *)
(* lock, so every atomic access is a step of its own: the loads in         *)
(* attempt_order, the two stores of record_success, the fetch_add and the  *)
(* swap of record_failure.  What an upstream answers is left open here;    *)
(* UpstreamQuery.tla looks inside one attempt.                             *)
(***************************************************************************)
EXTENDS Integers, Sequences, SequencesExt

CONSTANTS N,              \* upstreams.len()
          Queries,        \* concurrent callers of UpstreamPool::query
          RoundRobin,     \* policy: TRUE round_robin, FALSE sequential
          HEALTH_FAILURE_THRESHOLD,
          HEALTH_COOLDOWN,
          MaxTime         \* bound: length of a behaviour in clock ticks

ASSUME PoolAssumption == /\ N \in Nat \ {0}
                         /\ RoundRobin \in BOOLEAN
                         /\ HEALTH_FAILURE_THRESHOLD \in Nat \ {0}
                         /\ HEALTH_COOLDOWN \in Nat \ {0}
                         /\ MaxTime \in Nat

Upstreams == 0 .. N - 1

VARIABLES now,                    \* base.elapsed()
          consecutive_failures,   \* per upstream, atomic
          degraded_until,         \* per upstream, atomic; 0 means healthy
          round_robin_next,       \* atomic, of which only the value mod N counts
          pc,                     \* where each query stands
          start,                  \* its first candidate
          stamp,                  \* the now_ms it read last
          healthy, degraded,      \* the vectors attempt_order fills
          attempt                 \* its position in the order

vars == <<now, consecutive_failures, degraded_until, round_robin_next, pc,
          start, stamp, healthy, degraded, attempt>>

health == <<consecutive_failures, degraded_until>>
plan   == <<start, healthy, degraded>>

\* The order in which query q tries the upstreams: what attempt_order returns.
order(q) == healthy[q] \o degraded[q]

\* The upstream that query q is busy with.
Current(q) == order(q)[attempt[q]]

TypeOK ==
    /\ now \in 0 .. MaxTime
    /\ consecutive_failures \in [Upstreams -> 0 .. HEALTH_FAILURE_THRESHOLD]
    /\ degraded_until \in [Upstreams -> 0 .. now + HEALTH_COOLDOWN]
    /\ round_robin_next \in Upstreams
    /\ pc \in [Queries -> {"idle", "ordering", "asking", "restoring",
                           "counting", "degrading", "failed"}]
    /\ start \in [Queries -> Upstreams]
    /\ stamp \in [Queries -> 0 .. MaxTime]
    /\ \A q \in Queries : /\ Range(order(q)) \subseteq Upstreams
                          /\ Len(order(q)) <= N
    /\ attempt \in [Queries -> 1 .. N]

Init == /\ now = 0
        /\ consecutive_failures = [u \in Upstreams |-> 0]
        /\ degraded_until = [u \in Upstreams |-> 0]
        /\ round_robin_next = 0
        /\ pc = [q \in Queries |-> "idle"]
        /\ start = [q \in Queries |-> 0]
        /\ stamp = [q \in Queries |-> 0]
        /\ healthy = [q \in Queries |-> <<>>]
        /\ degraded = [q \in Queries |-> <<>>]
        /\ attempt = [q \in Queries |-> 1]

-----------------------------------------------------------------------------
Go(q, where) == pc' = [pc EXCEPT ![q] = where]

\* A caller begins its next query: the policy gives the first candidate, the
\* clock is read.
Begin(q) ==
    /\ pc[q] \in {"idle", "failed"}
    /\ start' = [start EXCEPT ![q] = IF RoundRobin THEN round_robin_next ELSE 0]
    /\ round_robin_next' = IF RoundRobin THEN (round_robin_next + 1) % N
                                         ELSE round_robin_next
    /\ stamp' = [stamp EXCEPT ![q] = now]
    /\ healthy' = [healthy EXCEPT ![q] = <<>>]
    /\ degraded' = [degraded EXCEPT ![q] = <<>>]
    /\ attempt' = [attempt EXCEPT ![q] = 1]
    /\ Go(q, "ordering")
    /\ UNCHANGED <<now, health>>

\* Mutant: the candidates are not taken cyclically.
Candidate_NotCyclic(q) == LET u == start[q] + Len(order(q))
                          IN  IF u < N THEN u ELSE N - 1

\* The upstream attempt_order looks at next.
Candidate(q) == (start[q] + Len(order(q))) % N

is_degraded(u, t) == degraded_until[u] > t

\* One turn of attempt_order's loop, with its load of degraded_until; after
\* the last one the query turns to its first upstream.
Look(q) ==
    /\ pc[q] = "ordering"
    /\ LET u == Candidate(q) IN
       IF is_degraded(u, stamp[q])
       THEN degraded' = [degraded EXCEPT ![q] = Append(@, u)] /\ UNCHANGED healthy
       ELSE healthy' = [healthy EXCEPT ![q] = Append(@, u)] /\ UNCHANGED degraded
    /\ Go(q, IF Len(order(q)) + 1 = N THEN "asking" ELSE "ordering")
    /\ UNCHANGED <<now, health, round_robin_next, start, stamp,
                   attempt>>

\* upstream.query returns Ok; record_success stores 0 failures.
Succeed(q) ==
    /\ pc[q] = "asking"
    /\ consecutive_failures' = [consecutive_failures EXCEPT ![Current(q)] = 0]
    /\ Go(q, "restoring")
    /\ UNCHANGED <<now, degraded_until, round_robin_next, plan, stamp, attempt>>

\* record_success stores 0 in degraded_until; the query returns the
\* response and its locals are gone.
Restore(q) ==
    /\ pc[q] = "restoring"
    /\ degraded_until' = [degraded_until EXCEPT ![Current(q)] = 0]
    /\ Go(q, "idle")
    /\ start' = [start EXCEPT ![q] = 0]
    /\ stamp' = [stamp EXCEPT ![q] = 0]
    /\ healthy' = [healthy EXCEPT ![q] = <<>>]
    /\ degraded' = [degraded EXCEPT ![q] = <<>>]
    /\ attempt' = [attempt EXCEPT ![q] = 1]
    /\ UNCHANGED <<now, consecutive_failures, round_robin_next>>

\* upstream.query returns Err; the clock is read for record_failure.
Fail(q) ==
    /\ pc[q] = "asking"
    /\ stamp' = [stamp EXCEPT ![q] = now]
    /\ Go(q, "counting")
    /\ UNCHANGED <<now, health, round_robin_next, plan, attempt>>

\* To the next upstream of the order, or back to the caller with the error.
MoveOn(q) ==
    IF attempt[q] < N
    THEN /\ attempt' = [attempt EXCEPT ![q] = @ + 1]
         /\ Go(q, "asking")
    ELSE Go(q, "failed") /\ UNCHANGED attempt

\* record_failure's fetch_add.  The model stops counting at the threshold: the
\* code only asks whether the count has reached it.
Count(q) ==
    /\ pc[q] = "counting"
    /\ LET n == consecutive_failures[Current(q)] + 1
           f == IF n > HEALTH_FAILURE_THRESHOLD THEN HEALTH_FAILURE_THRESHOLD
                                                ELSE n
       IN  /\ consecutive_failures' = [consecutive_failures EXCEPT ![Current(q)] = f]
           /\ IF f >= HEALTH_FAILURE_THRESHOLD
              THEN Go(q, "degrading") /\ UNCHANGED attempt
              ELSE MoveOn(q)
    /\ UNCHANGED <<now, degraded_until, round_robin_next, plan, stamp>>

\* Mutant: the cooldown is added to the deadline that is already there.
NewDeadline_Stacked(q) == degraded_until[Current(q)] + HEALTH_COOLDOWN

NewDeadline(q) == stamp[q] + HEALTH_COOLDOWN

\* record_failure's swap.
Degrade(q) ==
    /\ pc[q] = "degrading"
    /\ degraded_until' = [degraded_until EXCEPT ![Current(q)] = NewDeadline(q)]
    /\ MoveOn(q)
    /\ UNCHANGED <<now, consecutive_failures, round_robin_next, plan, stamp>>

Tick == /\ now < MaxTime
        /\ now' = now + 1
        /\ UNCHANGED <<health, round_robin_next, pc, plan, stamp, attempt>>

\* What the pool itself does for q once its query has begun; an attempt ends,
\* one way or the other, because it has a timeout.
Work(q) == \/ Look(q)
           \/ Succeed(q) \/ Restore(q)
           \/ Fail(q) \/ Count(q) \/ Degrade(q)

Next == \/ \E q \in Queries : Begin(q) \/ Work(q)
        \/ Tick

Spec == Init /\ [][Next]_vars

-----------------------------------------------------------------------------
\* The upstreams that have failed query q.
Tried(q) == {order(q)[i] : i \in 1 .. (IF pc[q] = "failed" THEN attempt[q]
                                                          ELSE attempt[q] - 1)}

Busy(q) == pc[q] \in {"asking", "restoring", "counting", "degrading"}

\* A query fails only after every upstream has failed it, and asks none of
\* them twice: "later entries act as fallback resolvers", whatever the other
\* queries did to the health of the upstreams in the meantime.
FallbackComplete ==
    \A q \in Queries : /\ pc[q] = "failed" => Tried(q) = Upstreams
                       /\ Busy(q) => Current(q) \notin Tried(q)
=============================================================================
