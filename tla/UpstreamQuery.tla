---------------------------- MODULE UpstreamQuery ---------------------------
(***************************************************************************)
(* One coalesced query in time: the legs of an attempt on each kind of     *)
(* upstream (PlainUpstream, DotUpstream, DohUpstream in                    *)
(* src/src/upstream.rs), the failover of UpstreamPool::query, and the      *)
(* request that waits for it in PendingQueries::query                      *)
(* (src/src/server.rs).                                                    *)
(*                                                                         *)
(* Time is counted in seconds; FAILOVER_DELAY, 50 ms, is below the         *)
(* resolution of the clock.  All upstreams are healthy, so they are tried  *)
(* in the order of the configuration.                                      *)
(***************************************************************************)
EXTENDS Integers, Sequences

CONSTANTS Pool,       \* the upstreams: protocol, timeout, number of endpoints
          Alive,      \* those that answer every query at once
          PLAIN_UDP_TIMEOUT_CAP,
          PENDING_FOLLOWER_TIMEOUT

Protocols == {"plain", "tls", "https"}

PoolEntries == [protocol : Protocols, timeout : Nat \ {0}, endpoints : Nat \ {0}]

ASSUME QueryAssumption ==
    /\ Pool \in Seq(PoolEntries) /\ Pool # <<>>
    /\ Alive \subseteq DOMAIN Pool
    /\ PLAIN_UDP_TIMEOUT_CAP \in Nat /\ PENDING_FOLLOWER_TIMEOUT \in Nat

VARIABLES clock,               \* seconds since the query began
          up,                  \* the upstream being asked
          leg,                 \* the leg of the attempt on it
          left,                \* seconds until the leg's timeout fires
          began,               \* clock when the attempt began
          task,                \* of the task: asking, answered or failed
          waiter,              \* waiting, or what the request was answered
          upstream_failures, upstream_timeouts    \* counters of MetricsRecorder

queryVars == <<clock, up, leg, left, began, task, waiter,
               upstream_failures, upstream_timeouts>>

\* udp_timeout of PlainUpstream::new.
UdpTimeout(t) == IF t < PLAIN_UDP_TIMEOUT_CAP THEN t ELSE PLAIN_UDP_TIMEOUT_CAP

\* The timeouts of the legs of an attempt: UDP then TCP, or every endpoint the
\* hostname resolved to in turn.
Legs(u) == IF u.protocol = "plain" THEN <<UdpTimeout(u.timeout), u.timeout>>
           ELSE [e \in 1 .. u.endpoints |-> u.timeout]

QueryTypeOK == /\ clock \in Nat /\ left \in Nat /\ began \in Nat
               /\ up \in DOMAIN Pool
               /\ leg \in DOMAIN Legs(Pool[up])
               /\ task \in {"asking", "answered", "failed"}
               /\ waiter \in {"waiting", "answer", "servfail"}
               /\ upstream_failures \in 0 .. Len(Pool)
               /\ upstream_timeouts \in 0 .. Len(Pool)

QueryInit == /\ clock = 0
             /\ up = 1
             /\ leg = 1
             /\ left = Legs(Pool[1])[1]
             /\ began = 0
             /\ task = "asking"
             /\ waiter = "waiting"
             /\ upstream_failures = 0
             /\ upstream_timeouts = 0

-----------------------------------------------------------------------------
(* The task that runs UpstreamPool::query.                                 *)

\* The error an attempt ends with when its last leg ended with e: the plain
\* upstream returns the TCP leg's error, DoT and DoH join their endpoints'
\* errors into one Network error.
ErrorOf(u, e) == IF u.protocol = "plain" THEN e ELSE "network"

\* The attempt is over: it is counted, and the pool turns to the next upstream.
FailOver(e) ==
    /\ upstream_failures' = upstream_failures + 1
    /\ upstream_timeouts' = upstream_timeouts
                            + (IF ErrorOf(Pool[up], e) = "timeout" THEN 1 ELSE 0)
    /\ IF up < Len(Pool)
       THEN /\ up' = up + 1
            /\ leg' = 1
            /\ left' = Legs(Pool[up + 1])[1]
            /\ began' = clock
            /\ UNCHANGED task
       ELSE task' = "failed" /\ UNCHANGED <<up, leg, left, began>>
    /\ UNCHANGED <<clock, waiter>>

\* The next leg of the attempt on the same upstream.
NextLeg ==
    /\ leg' = leg + 1
    /\ left' = Legs(Pool[up])[leg + 1]
    /\ UNCHANGED <<clock, up, began, task, waiter, upstream_failures,
                   upstream_timeouts>>

\* Mutant: an upstream that is unreachable is asked again.
LegOver_AsksAgain(e) ==
    IF leg < Len(Legs(Pool[up])) THEN NextLeg
    ELSE IF e = "timeout" THEN FailOver(e)
    ELSE /\ leg' = 1
         /\ left' = Legs(Pool[up])[1]
         /\ UNCHANGED <<clock, up, began, task, waiter, upstream_failures,
                        upstream_timeouts>>

\* A leg ended with error e.
LegOver(e) == IF leg < Len(Legs(Pool[up])) THEN NextLeg ELSE FailOver(e)

Asking == task = "asking"

LegAnswers == /\ Asking
              /\ task' = "answered"
              /\ UNCHANGED <<clock, up, leg, left, began, waiter,
                             upstream_failures, upstream_timeouts>>

\* The UDP answer is truncated: it is thrown away and TCP is asked.
UdpTruncated == /\ Asking
                /\ Pool[up].protocol = "plain" /\ leg = 1
                /\ NextLeg

LegFails == Asking /\ up \notin Alive /\ LegOver("network")

LegExpires == /\ Asking
              /\ left = 0
              /\ up \notin Alive
              /\ LegOver("timeout")

-----------------------------------------------------------------------------
(* The request that waits.                                                 *)

Answer == /\ waiter = "waiting"
          /\ task # "asking"
          /\ waiter' = IF task = "answered" THEN "answer" ELSE "servfail"
          /\ UNCHANGED <<clock, up, leg, left, began, task,
                         upstream_failures, upstream_timeouts>>

\* Mutant: the wait restarts with every upstream.
WaitOver_Restarts == clock - began >= PENDING_FOLLOWER_TIMEOUT

WaitOver == clock >= PENDING_FOLLOWER_TIMEOUT

\* The pending timeout fires first: ServFail, and the task's result is lost.
GiveUp == /\ waiter = "waiting"
          /\ Asking
          /\ WaitOver
          /\ waiter' = "servfail"
          /\ UNCHANGED <<clock, up, leg, left, began, task,
                         upstream_failures, upstream_timeouts>>

\* Mutant: a timer that is due may be late.
TimersFired_Late == TRUE

TimersFired == left > 0 /\ ~(waiter = "waiting" /\ WaitOver)

\* A second passes; timers that are due have fired, and an upstream that is
\* alive has answered.
SecondPasses == /\ Asking
                /\ TimersFired
                /\ up \notin Alive
                /\ clock' = clock + 1
                /\ left' = left - 1
                /\ UNCHANGED <<up, leg, began, task, waiter,
                               upstream_failures, upstream_timeouts>>

Done == waiter # "waiting" /\ task # "asking" /\ UNCHANGED queryVars

QueryNext == \/ LegAnswers \/ UdpTruncated \/ LegFails \/ LegExpires
             \/ Answer \/ GiveUp \/ SecondPasses \/ Done

QuerySpec == QueryInit /\ [][QueryNext]_queryVars

\* The timers of the runtime fire: something always happens until the task and
\* the request are done.
QueryFairSpec == QuerySpec /\ WF_queryVars(QueryNext)

-----------------------------------------------------------------------------
\* The sums of the first n numbers of a sequence.
Sums(s) == LET sum[n \in 0 .. Len(s)] == IF n = 0 THEN 0 ELSE sum[n - 1] + s[n]
           IN  sum

Budget(u) == Sums(Legs(u))[Len(Legs(u))]

Budgets == [i \in DOMAIN Pool |-> Budget(Pool[i])]

PoolBudget == Sums(Budgets)[Len(Budgets)]

\* The whole task ends within the sum of all legs of the pool: the map entry of a key
\* cannot outlive it.  A request is refused only once every upstream has failed it or
\* it has waited for the whole pending timeout, and never waits longer than that.
\* README.md:36 has `timeout' as "how long dotdns waits for a single query on that
\* upstream before falling back to the next one": that is required here of an upstream
\* with one leg, an encrypted one with one address.  It does not hold of the others,
\* whose legs add up: a plain one takes its capped UDP leg and its TCP leg, one with
\* several addresses a timeout for each.
TimeBounded ==
    /\ Len(Legs(Pool[up])) = 1 => clock - began <= Pool[up].timeout
    /\ clock <= PoolBudget
    /\ waiter = "servfail" => \/ upstream_failures = Len(Pool)
                              \/ clock >= PENDING_FOLLOWER_TIMEOUT
    /\ waiter = "waiting" => clock <= PENDING_FOLLOWER_TIMEOUT

\* The request and the task both end.
QueryEnds == <>(waiter # "waiting" /\ task # "asking")

\* README: "tries upstreams in order until one succeeds, so later entries act
\* as fallback resolvers": no request is refused while an upstream of the pool
\* is alive.
FallbackReached == waiter = "servfail" => Alive = {}
=============================================================================
