--------------------------- MODULE PendingQueries ---------------------------
(***************************************************************************)
(* Coalescing of identical upstream queries: PendingQueries in             *)
(* src/src/server.rs.                                                      *)
(*                                                                         *)
(* The first request for a key (the leader) puts a watch channel in the    *)
(* map `inner' and spawns a detached task that queries the upstream pool;  *)
(* later requests for the key (followers) clone the receiver.  When the    *)
(* pool answers, the task takes the sender out of the map and sends the    *)
(* outcome on it.  Every request waits on its receiver for at most         *)
(* PENDING_FOLLOWER_TIMEOUT; the future of a DoH request can be dropped    *)
(* while it waits, when the client disconnects.                            *)
(*                                                                         *)
(* The daemon has two such maps over one upstream pool and one set of      *)
(* gauges: Server::new makes the one of the DoT handlers, main the one of  *)
(* the DoH handlers.  They share nothing, so the function `inner' is       *)
(* indexed by a map and a question, and a request only ever looks into the *)
(* map of its own server.                                                  *)
(*                                                                         *)
(* A map is behind an async mutex, so a step that holds it is one          *)
(* action; between two awaits a future cannot be dropped, but other        *)
(* threads do run.  A spawned task is named by the channel its leader      *)
(* created.  Channel names are reused once nothing refers to them.         *)
(***************************************************************************)
EXTENDS Integers, FiniteSets

CONSTANTS Requests,    \* connection handlers that call PendingQueries::query
          DohRequests, \* those of the DoH server: hyper may drop their future
          Questions,   \* query messages with the id zeroed: pending_key
          Channels,    \* names for watch channels
          Outcomes,    \* what UpstreamPool::query returns, Ok or Err
          MaxDrops,    \* bound: followers dropped in one behaviour
          NoKey, NoChannel, NoOutcome, TimedOut

\* The `pending' of Server, and the one of DohState.
Maps == {"dot", "doh"}

\* An entry is of one map.
Keys == Maps \X Questions

\* The map a request looks into.
MapOf(r) == IF r \in DohRequests THEN "doh" ELSE "dot"

ASSUME PendingAssumption ==
    /\ DohRequests \subseteq Requests
    /\ NoKey \notin Keys
    /\ NoChannel \notin Channels
    /\ NoOutcome \notin Outcomes
    /\ TimedOut \notin Outcomes
    /\ TimedOut # NoOutcome
    /\ MaxDrops \in Nat

ASSUME FiniteAssumption == IsFiniteSet(Requests) /\ IsFiniteSet(Channels)

VARIABLES
    pc,          \* where each request stands in PendingQueries::query
    key,         \* the key it asked for
    rx,          \* the channel its receiver belongs to
    reply,       \* what its latest query returned
    inner,       \* the shared maps: key -> the channel of its PendingEntry
    chan,        \* the value in each watch channel
    task,        \* where the task spawned for each channel stands
    task_key,    \* the key that task resolves
    result,      \* what the upstream pool returned to it
    tx,          \* the sender it took out of the map
    pending_leaders, pending_followers,   \* gauges of MetricsRecorder
    drops        \* history: followers dropped while they waited

vars == <<pc, key, rx, reply, inner, chan, task, task_key, result, tx,
          pending_leaders, pending_followers, drops>>

reqVars  == <<pc, key, rx, reply>>
taskVars == <<task, task_key, result, tx>>
gauges   == <<pending_leaders, pending_followers, drops>>

TypeOK == /\ pc \in [Requests -> {"idle", "lead", "follow",
                                  "leading", "following"}]
          /\ key \in [Requests -> Keys \cup {NoKey}]
          /\ rx \in [Requests -> Channels \cup {NoChannel}]
          /\ reply \in [Requests -> Outcomes \cup {NoOutcome, TimedOut}]
          /\ inner \in [Keys -> Channels \cup {NoChannel}]
          /\ chan \in [Channels -> Outcomes \cup {NoOutcome}]
          /\ task \in [Channels -> {"none", "calling", "removing", "sending"}]
          /\ task_key \in [Channels -> Keys \cup {NoKey}]
          /\ result \in [Channels -> Outcomes \cup {NoOutcome}]
          /\ tx \in [Channels -> Channels \cup {NoChannel}]
          /\ pending_leaders \in Nat
          /\ pending_followers \in Nat
          /\ drops \in 0 .. MaxDrops

Init == /\ pc = [r \in Requests |-> "idle"]
        /\ key = [r \in Requests |-> NoKey]
        /\ rx = [r \in Requests |-> NoChannel]
        /\ reply = [r \in Requests |-> NoOutcome]
        /\ inner = [k \in Keys |-> NoChannel]
        /\ chan = [c \in Channels |-> NoOutcome]
        /\ task = [c \in Channels |-> "none"]
        /\ task_key = [c \in Channels |-> NoKey]
        /\ result = [c \in Channels |-> NoOutcome]
        /\ tx = [c \in Channels |-> NoChannel]
        /\ pending_leaders = 0
        /\ pending_followers = 0
        /\ drops = 0

-----------------------------------------------------------------------------
(* The request side of PendingQueries::query.                              *)

\* Nothing refers to channel c any more: its name can be given to a new one.
Unused(c) == /\ task[c] = "none"
             /\ \A r \in Requests : rx[r] # c
             /\ \A k \in Keys : inner[k] # c

\* Request r holds a receiver of channel c and will ask for key k.
Hold(r, k, c, p) == /\ pc[r] = "idle"
                    /\ pc' = [pc EXCEPT ![r] = p]
                    /\ key' = [key EXCEPT ![r] = k]
                    /\ rx' = [rx EXCEPT ![r] = c]
                    /\ reply' = [reply EXCEPT ![r] = NoOutcome]

\* Mutant: the entry that is already there is not looked up.
NoEntry_NotLookedUp(k) == TRUE

\* Nobody has a query for k in flight.
NoEntry(k) == inner[k] = NoChannel

\* Under the lock: no entry for k, so r creates the channel and its entry.
JoinAsLeader(r, k, c) ==
    /\ NoEntry(k)
    /\ Unused(c)
    /\ Hold(r, k, c, "lead")
    /\ inner' = [inner EXCEPT ![k] = c]
    /\ chan' = [chan EXCEPT ![c] = NoOutcome]
    /\ UNCHANGED <<taskVars, gauges>>

\* Under the lock: k has an entry, r clones its receiver.
JoinAsFollower(r, k) ==
    /\ ~NoEntry(k)
    /\ Hold(r, k, inner[k], "follow")
    /\ UNCHANGED <<inner, chan, taskVars, gauges>>

\* The leader counts itself and spawns the detached task for its key.
Lead(r) ==
    /\ pc[r] = "lead"
    /\ pc' = [pc EXCEPT ![r] = "leading"]
    /\ task' = [task EXCEPT ![rx[r]] = "calling"]
    /\ task_key' = [task_key EXCEPT ![rx[r]] = key[r]]
    /\ pending_leaders' = pending_leaders + 1
    /\ UNCHANGED <<key, rx, reply, inner, chan, result, tx,
                   pending_followers, drops>>

\* record_pending_follower_joined
Follow(r) ==
    /\ pc[r] = "follow"
    /\ pc' = [pc EXCEPT ![r] = "following"]
    /\ pending_followers' = pending_followers + 1
    /\ UNCHANGED <<key, rx, reply, inner, chan, taskVars,
                   pending_leaders, drops>>

\* Mutant: the future can be dropped before the task has been spawned.
Waiting_FromJoin(r) == pc[r] # "idle"

\* The request is at its await.
Waiting(r) == pc[r] \in {"leading", "following"}

\* The query of r is over, and its receiver is gone.
Return(r, v) == /\ pc' = [pc EXCEPT ![r] = "idle"]
                /\ key' = [key EXCEPT ![r] = NoKey]
                /\ rx' = [rx EXCEPT ![r] = NoChannel]
                /\ reply' = [reply EXCEPT ![r] = v]

\* Mutants: a follower that times out or is resolved is never discounted; a
\* leader is discounted too.
FollowerDone_Forgotten(r) == UNCHANGED pending_followers
FollowerDone_LeaderToo(r) == pending_followers' = pending_followers - 1

\* record_pending_follower_resolved and record_pending_follower_timeout both
\* take a follower out of the gauge; a leader is not in it.
FollowerDone(r) ==
    pending_followers' =
        IF pc[r] = "following" THEN pending_followers - 1 ELSE pending_followers

\* The receiver holds an outcome.
Resolve(r) == /\ Waiting(r)
              /\ chan[rx[r]] # NoOutcome
              /\ Return(r, chan[rx[r]])
              /\ FollowerDone(r)
              /\ UNCHANGED <<inner, chan, taskVars, pending_leaders, drops>>

\* PENDING_FOLLOWER_TIMEOUT elapses.  tokio polls the receiver before the
\* timer, so an outcome that is already there wins.
Timeout(r) == /\ Waiting(r)
              /\ chan[rx[r]] = NoOutcome
              /\ Return(r, TimedOut)
              /\ FollowerDone(r)
              /\ UNCHANGED <<inner, chan, taskVars, pending_leaders, drops>>

\* The future is dropped at its await (at the one before, for the lock, it has
\* done nothing yet): no code of the request runs, so
\* the gauge keeps counting a follower that is gone.
Drop(r) == /\ r \in DohRequests
           /\ Waiting(r)
           /\ drops' = IF pc[r] = "following" THEN drops + 1 ELSE drops
           /\ drops' <= MaxDrops
           /\ Return(r, NoOutcome)
           /\ UNCHANGED <<inner, chan, taskVars,
                          pending_leaders, pending_followers>>

-----------------------------------------------------------------------------
(* The detached task.                                                      *)

\* pool.query returns and the task leaves the gauge of leaders.
PoolAnswers(c, o) ==
    /\ task[c] = "calling"
    /\ task' = [task EXCEPT ![c] = "removing"]
    /\ result' = [result EXCEPT ![c] = o]
    /\ pending_leaders' = pending_leaders - 1
    /\ UNCHANGED <<reqVars, inner, chan, task_key, tx,
                   pending_followers, drops>>

\* Mutant: the sender is dropped with the entry.
Sender_Dropped(c) == NoChannel

\* The sender in the entry of the task's key.
Sender(c) == inner[task_key[c]]

\* Under the lock: the entry of the key leaves the map, the task keeps its
\* sender.
RemoveEntry(c) ==
    /\ task[c] = "removing"
    /\ task' = [task EXCEPT ![c] = "sending"]
    /\ tx' = [tx EXCEPT ![c] = Sender(c)]
    /\ inner' = [inner EXCEPT ![task_key[c]] = NoChannel]
    /\ UNCHANGED <<reqVars, chan, task_key, result, gauges>>

\* tx.send: the outcome is stored in the channel, if a sender was found, and
\* the task ends with its locals.
SendResult(c) ==
    /\ task[c] = "sending"
    /\ chan' = [d \in Channels |-> IF d = tx[c] THEN result[c] ELSE chan[d]]
    /\ task' = [task EXCEPT ![c] = "none"]
    /\ task_key' = [task_key EXCEPT ![c] = NoKey]
    /\ result' = [result EXCEPT ![c] = NoOutcome]
    /\ tx' = [tx EXCEPT ![c] = NoChannel]
    /\ UNCHANGED <<reqVars, inner, gauges>>

-----------------------------------------------------------------------------
Join(r) == \E q \in Questions :
               \/ \E c \in Channels : JoinAsLeader(r, <<MapOf(r), q>>, c)
               \/ JoinAsFollower(r, <<MapOf(r), q>>)

TaskStep(c) == \/ \E o \in Outcomes : PoolAnswers(c, o)
               \/ RemoveEntry(c)
               \/ SendResult(c)

Next == \/ \E r \in Requests : \/ Join(r) \/ Lead(r) \/ Follow(r)
                               \/ Resolve(r) \/ Timeout(r) \/ Drop(r)
        \/ \E c \in Channels : TaskStep(c)

Spec == Init /\ [][Next]_vars

\* The runtime keeps polling what is ready: a request that has joined goes on
\* to its await, and a spawned task runs to its end, because each upstream
\* attempt of pool.query is bounded by a timeout.  Nothing is assumed of the
\* clients, of the timer or of the drops.
Fairness == /\ \A r \in Requests : WF_vars(Lead(r)) /\ WF_vars(Resolve(r))
            /\ \A c \in Channels : WF_vars(TaskStep(c))

FairSpec == Spec /\ Fairness

-----------------------------------------------------------------------------
(* What must hold.                                                         *)

Followers == {r \in Requests : pc[r] = "following"}

Calling == {c \in Channels : task[c] = "calling"}

\* A server never asks the upstream pool the same question twice at a time: this
\* is what coalescing is for.  It holds for each map: a DoT and a DoH request may
\* ask the pool the same question at the same time.
OneCallPerKey ==
    \A c, d \in Calling : task_key[c] = task_key[d] => c = d

\* A sender of channel c still exists: in the map, or in a task's hands.
SenderAlive(c) == \/ \E k \in Keys : inner[k] = c
                  \/ \E d \in Channels : task[d] = "sending" /\ tx[d] = c

\* No request waits on a channel that can no longer speak: the branch that
\* answers "pending upstream request was cancelled" is never taken, whoever
\* is dropped or times out.
NoOrphanWaiter ==
    \A r \in Requests : pc[r] # "idle" /\ chan[rx[r]] = NoOutcome
                            => SenderAlive(rx[r])

\* A key in the map has a task (or a leader about to spawn it) that will take
\* it out: a dropped leader cannot poison the key.
EntryHasOwner ==
    \A k \in Keys : inner[k] # NoChannel =>
        \/ /\ task[inner[k]] \in {"calling", "removing"}
           /\ task_key[inner[k]] = k
        \/ \E r \in Requests : pc[r] = "lead" /\ key[r] = k /\ rx[r] = inner[k]

\* The gauges of `dotdns status': pending_leaders counts the calls in flight,
\* pending_followers the waiting followers and the dropped ones.
GaugesExact ==
    /\ pending_leaders = Cardinality(Calling)
    /\ pending_followers = Cardinality(Followers) + drops

\* Every entry leaves the map, without the help of any timeout and whoever is
\* dropped.
EntriesDrain == \A k \in Keys, c \in Channels : inner[k] = c ~> inner[k] # c

\* A request is answered even if no timer ever fires, unless it is dropped.
WaitersServed == \A r \in Requests : Waiting(r) ~> ~Waiting(r)

-----------------------------------------------------------------------------
(* The inductive invariant behind the safety properties.                   *)

\* A request holds a key and a receiver exactly while it is in the code.
RequestsWellFormed ==
    \A r \in Requests :
        \/ pc[r] = "idle" /\ key[r] = NoKey /\ rx[r] = NoChannel
        \/ pc[r] # "idle" /\ key[r] \in Keys /\ rx[r] \in Channels

\* A channel in the map is there under one key, still silent, and is the one
\* of every request that holds its receiver.
EntriesWellFormed ==
    \A k \in Keys : inner[k] # NoChannel =>
        /\ chan[inner[k]] = NoOutcome
        /\ task[inner[k]] # "sending"
        /\ \A j \in Keys : inner[j] = inner[k] => j = k
        /\ \A r \in Requests : rx[r] = inner[k] => key[r] = k

\* A task works on the entry its leader put in the map, until it takes it out.
TasksWellFormed ==
    \A c \in Channels :
        /\ task[c] \in {"calling", "removing"} =>
               task_key[c] \in Keys /\ inner[task_key[c]] = c
        /\ task[c] \in {"removing", "sending"} => result[c] # NoOutcome
        /\ task[c] = "sending" => tx[c] = c /\ chan[c] = NoOutcome

\* A leader that has not spawned its task yet is the only one on its entry.
LeadersWellFormed ==
    \A r \in Requests : pc[r] = "lead" =>
        /\ inner[key[r]] = rx[r]
        /\ task[rx[r]] = "none"
        /\ \A s \in Requests : pc[s] = "lead" /\ rx[s] = rx[r] => s = r

\* A request's channel has been settled, or is about to be, or is in the map.
WaitersWellFormed ==
    \A r \in Requests : pc[r] # "idle" =>
        \/ inner[key[r]] = rx[r]
        \/ task[rx[r]] = "sending"
        \/ chan[rx[r]] # NoOutcome

Structure == /\ RequestsWellFormed
             /\ EntriesWellFormed
             /\ TasksWellFormed
             /\ LeadersWellFormed
             /\ WaitersWellFormed
             /\ EntryHasOwner

-----------------------------------------------------------------------------
(* PendingQueries implements SingleFlight: a key is aloft while the map has *)
(* it, and the flight lands, for everybody on its channel, when the task    *)
(* takes the entry out.                                                     *)

\* The outcome a channel carries: sent, or in the hands of its task.
Carries(c) == IF task[c] = "sending" THEN result[c] ELSE chan[c]

readyBar == [r \in Requests |-> IF pc[r] = "idle" THEN NoOutcome
                                ELSE Carries(rx[r])]

SF == INSTANCE SingleFlight WITH
          Droppable <- DohRequests,
          asking <- key,
          aloft  <- {k \in Keys : inner[k] # NoChannel},
          ready  <- readyBar

\* Every step is a step of the abstract specification: whoever was aboard when a
\* flight landed gets its outcome, and a flight takes off only if none is aloft.
SingleFlightSpec == SF!Spec
=============================================================================
