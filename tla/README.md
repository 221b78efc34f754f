# dotdns in TLA+

dotdns is a DNS server written in Rust. It answers DNS over TLS (DoT) and DNS
over HTTPS (DoH) clients, blocks domains from downloaded lists, caches
responses, and resolves the rest through a pool of upstream resolvers. This
directory models the parts of it in which requests, tasks, timers, files and
processes interact, checks the models with TLC, and proves the central results
with TLAPS. Paths such as `src/src/server.rs` are relative to the parent of
this directory. `PROJECT.json` maps every definition to the lines it models.

Contents: [inventory](#inventory), [plan](#plan), [modules](#modules),
[runs](#runs), [bounds](#bounds), [fairness](#fairness),
[what the violations say](#disagreements-between-code-and-documentation),
[proofs](#proofs), [not modelled](#not-modelled).

To check one run and one proof module:

    tlc -workers 2 -config Cache.cfg MCCache
    tlapm CacheProofs.tla

## Inventory

### Components

| component | code | state it keeps | operations |
|---|---|---|---|
| pending query coalescing | `server.rs`: `PendingQueries` | for each of the two servers a map from query message to a watch channel, behind an async mutex; two gauges | `query`: join as leader or follower, detached task, wait with timeout, drop |
| cache | `cache.rs` | hash map of entries with an expiry, behind a mutex; size gauge, eviction counter | `get`, `insert`, `flush` |
| upstream pool, passive health | `upstream.rs`: `UpstreamPool`, `UpstreamHealth` | two atomics per upstream, round-robin counter | `query`, `attempt_order`, `record_success`, `record_failure` |
| upstream transports | `upstream.rs`: `PlainUpstream`, `DotUpstream`, `DohUpstream` | DoT: idle TLS streams per endpoint | `query`, `checkout`, `checkin` |
| bootstrap resolution | `upstream.rs`: `resolve_host_with_bootstrap`, `query_bootstrap_dns` | a UDP socket per question | hostname to addresses at startup |
| resolver | `server.rs`: `resolve_with_context` | counters | verdict, cache lookup, wait, cache insert, response |
| EDNS client subnet | `server.rs` | none | masking and injecting the client address |
| DoT connections | `server.rs`: `accept_loop`, `handle_connection` | semaphore, gauge of connections | accept, admit, handshake, serve, close |
| DoH server | `doh.rs` | semaphore of its own | accept, GET and POST requests |
| observability registry | `observability.rs` | client map of limited size behind a read-write lock, atomics per client | opened, closed, query, evict, snapshot |
| metrics | `metrics.rs` | atomics | count, snapshot |
| statistics file | `metrics.rs`, `main.rs` | a file and its temporary file | `load_stats`, `save_stats` every 60 s and at shutdown |
| blocklist refresh | `blocklist.rs`: `ReloadableBlocklist`, `RemoteBlocklists` | list files, the engine in use, `refresh_lock` | `refresh_and_reload` |
| blocklist rules | `blocklist.rs`: `BlocklistEngine`, `parse_line` | sets of rules | parse a line, match a name |
| management socket | `management.rs` | a loop per connection, lines read and replies written | status, cache flush, blocklist reload, snapshots |
| configuration | `config.rs` | the settings | parse, validate |
| command line | `main.rs`, `cli.rs` | how far the start has come | serve, management commands |

### How they interact

A connection handler calls `resolve_with_context` for each query. That reads
the blocklist engine (an atomically swapped pointer), the cache, and on a miss
`PendingQueries::query`, whose leader spawns a task that outlives the request
and calls `UpstreamPool::query`; the pool walks over the upstreams, whose
health all tasks share. DoT and DoH have a pending map each; the pool, the cache
and the gauges are common to both. The answer comes back over a watch channel, and each
request inserts it in the cache on its own. A reload replaces the engine at any
point of this path, the management socket flushes the cache at any point of it,
and a DoH client that disconnects drops the request's future at any await.
Beside that, timers refresh the blocklist and save the counters, and the
process can stop or crash at any point of either. A reload command runs the
same refresh in the task of its connection, under the lock that the timer's
refresh takes. Before all that, one task reads the configuration, the
certificate and the lists, resolves the hosts of the upstreams one by one
through the bootstrap servers, and starts the DoT, DoH and management servers,
the failure of any of which ends the process.

### What is hard

* Concurrency: leader, followers and the detached task on one map and one
  channel; health atomics accessed by several tasks without a lock; the client
  map evicting a client whose connections are open; refreshes from three callers.
* Cancellation: a dropped future skips whatever follows the await.
* Failure: errors at each of the steps of a refresh or of a save, a crash
  between two of them, upstreams that are silent, refuse or close streams,
  bootstrap datagrams that are lost, late or answer something else, a management
  client that goes away while its reload runs.
* Time: nested timeouts (leg, endpoint, upstream, pending), lifetimes compared
  in fine grain and written in whole seconds, cooldowns, age of idle streams.
* Staleness: a verdict read before a wait and used after it; a health value
  loaded before it is acted on; an idle stream the server has closed.
* Limits: cache capacity (0 included), idle streams per endpoint, the
  semaphore, the registry's capacity, a 64-bit gauge at zero, prefixes of 0 and
  of the whole width of an address, suffixes at the edge of a label.

`PROJECT.json` lists each of these under `hazards`, at its line, with the
properties that would catch it going wrong.

### What makes each component correct

* Coalescing: one upstream call per question of a server at a time; whoever waits gets the
  outcome of the call it waited for; nobody waits on a channel nobody will
  write to; every entry leaves the map; the gauges count what they name.
* Cache: a served answer is the latest insert of its key and is within its
  lifetime, and so is the TTL written into it; capacity is respected.
* Pool: a query fails only after every upstream was tried once, and a cooldown
  is bounded.
* Transports: attempts take bounded time, no query reads another query's answer
  from a reused stream, and a stream that has gone stale costs it no endpoint.
* Resolver: answers cross neither names nor client subnets, upstream learns no
  more of a client than its prefix, a wrong verdict has only one excuse (a
  reload), every query is answered.
* Connections: permits are neither lost nor made up, gauges are exact.
* Statistics: counters never fall below what was saved, over crashes and restarts,
  as long as the file can be read.
* Blocklist: an engine is built from one refresh, and never goes back; a rule
  blocks its domain and what is below it, unless an exception covers the name.
* Management: a success means that the work was done after it was asked for,
  replies come in the order of the requests, and commands end.
* Start: what listens has a configuration that no later step chokes on, the
  endpoints of an upstream belong to its host, and the start ends.

## Plan

The order follows the importance of the behaviour. All steps are done.

1. `SingleFlight` and `PendingQueries`: abstract and detailed coalescing, the
   refinement, its proof.
2. `Cache` and its proof.
3. `UpstreamPool`: selection, failover and health under interleaving.
4. `UpstreamQuery`: one query in time through all the timeouts.
5. `DotUpstream`: reuse of streams.
6. `Resolver`: composes `Cache`, `SingleFlight` and the rules.
7. `Connections`: admission, gauges, registry.
8. `StatsFile` and `Blocklist`: files, errors and restarts.
9. `ClientSubnet`, and `Resolver` over it: what goes upstream on whose behalf.
10. `Management`: composes `Blocklist` with the connections of the socket.
11. `Config`, `BlocklistRules` and `Bootstrap`, composed by `Startup`.
12. Proofs about `DotUpstream`, `Management` and the `Blocklist` in it,
    `Connections`, `StatsFile`, `UpstreamPool` and `Resolver`.
13. Proofs about `Startup` with `Config`, `BlocklistRules` and `Bootstrap` in it,
    and about `UpstreamQuery`, which leaves no invariant of a run without a proof.

## Modules

Each component has a module with its state and actions, where its configuration
needs more than numbers and names an `MC` module with constant definitions or
symmetry, and a module of proofs. Two of the modules of proofs are for two
components each, which is why the specifications of `UpstreamQuery` and `StatsFile`
have names of their own (`QuerySpec`, `StatsSpec`): `UpstreamProofs` extends
`UpstreamPool` and `UpstreamQuery`, and `DaemonProofs` extends `Startup` and
`StatsFile`. Operators named `X_Something`, preceded by a comment that starts with
"Mutant", are deliberately wrong variants of `X`; no specification uses them. They
exist to show that each property fails when the code has the bug.

### SingleFlight and PendingQueries

`SingleFlight` is the promise: requests ask (`Ask`), a flight for a key lands
with an outcome (`Land`) for everybody aboard, and a request leaves with that
outcome (`Return`), by its timeout (`Expire`), or because its future is dropped
(`GiveUp`). There is no map, channel or task in it.

`PendingQueries` is the code. The daemon makes two of them, one in `Server::new`
for DoT and one in `main` for DoH; a key is a map and a question, and a request
joins in the map of its own server (`MapOf`). Keys of different maps share only the
gauges. `Join` is the critical section on the map;
`Lead` spawns the task; `Follow` counts the follower; `PoolAnswers`,
`RemoveEntry` and `SendResult` are the steps of the task; `Resolve`, `Timeout`
and `Drop` end the wait. A watch channel holds its last value, so a receiver
cloned late still sees it. Two names of a channel are never in use at once:
`Join` takes a channel to which nothing refers.

`SingleFlightSpec` maps the detailed state to the abstract one: a key is aloft
while its entry is in the map, and the flight lands when the task removes the
entry, which is the step after which no request can board. Requests that have
already boarded have the outcome in hand from then on, although the channel is
written one step later.

### Cache

One mutex protects the cache, so each operation is one action. A message is the
set of record TTLs in each of its three sections. Time is in ticks, several to
a second, because the code compares fine-grained instants but writes whole
seconds. `learned` records the latest insert of each key for the properties.
An insert into a full cache first drops some entry, the first of the hash map's
order, which is any one in the model; it does so even if the key it inserts is
already there, and with a capacity of 0 the one entry it then adds stays.

### UpstreamPool

Every atomic access is a step. `attempt_order` reads the health of the
candidates one after another and puts each in the vector of the healthy or of
the degraded, so the order may mix moments. `record_failure` is the increment,
then the swap; `record_success` is two stores.

### UpstreamQuery

One query in seconds: legs (UDP then TCP, or one endpoint after another),
failover to the next upstream, and the request that waits beside it with
`PENDING_FOLLOWER_TIMEOUT`. The upstreams in `Alive` answer at once; any other
may answer, fail or stay silent.

### DotUpstream

The code returns whatever message it reads from the stream, so the model keeps
the answers the server owes on each stream, in order. A caller takes an idle
stream or connects, writes, reads, and checks the stream in. An exchange that fails
on an idle stream is followed by a new connection to the same endpoint, within the
timer that `query_endpoint` set when it began (`Try`, `Late`). When that elapses, it
drops the future, and the stream with it, at whatever await it is. `spent` records
for the properties which endpoints the query has left after a connection of its own
failed or its time ran out. That a stream has one owner is not a property here: Rust
moves it out of the pool.

### Resolver

`INSTANCE Cache` and `INSTANCE SingleFlight` share their variables with the
module, and each access of `resolve_with_context` to them is a step: the
verdict, the lookup, joining, the end of the wait with the insert. The pending
map distinguishes whole query messages and the cache only a part of them, and
there is a pending map for each server and one cache, so two flights can end in one
cache key: a flight is a map and a question. A cache hit or a fresh answer is returned
with the request's own id, which is why answers are compared by question and
not by message.

A query arrives from an address, and `query_with_ecs` of `ClientSubnet` makes
the query that goes upstream: it keeps the client's option, or puts in one with
the address masked by arithmetic, or none. `SubnetOf` and `Reveals` say bit by
bit what the option may be, without the mask, and `Attributed` requires of every
answer that the upstream gave it for a subnet that this client may be in.

### Connections

Accept loops share a semaphore. A connection is accepted, admitted or refused,
registered, has a handshake that may fail or time out, serves queries, and is
closed: the gauge is lowered, the client is told, and the permit is dropped, in
the code's order. A client that is found under the registry's read lock is
updated there, beside other readers: the load and the decrement of its count are
two steps, and no writer gets between them. A call that does not find its client
waits for the write lock (`Queue`), and while one waits no new reader gets in,
which is how the standard library's lock works on Linux; without that, a stream
of overlapping readers would keep a closing connection from ever returning its
permit.

### StatsFile

A file name refers to a body. Opening for writing truncates the body the name
refers to at that moment, and a later write goes to that body wherever a rename
has taken it. That is what makes two saves with one temporary name interesting.

`Load` has the outcomes of `load_stats`: the counters in the file; zero, because
there is no file or one that does not parse, which is removed if it can be; or zero
because the file cannot be read, in which case it stays. `unread` is true from such
a start to its first save that goes well, which replaces the file.

### Blocklist

A refresh is a walk over the lists: download to a temporary file, rename, for
block lists and then for allow lists; then reading every file; then the swap.
Each of these steps can fail. The content of a list is the number of the
refresh that downloaded it. The module has no run of its own: `Management`
composes it.

### Management

A connection has a client's side (`link`) and a server's side (`handler`), and
the lines between them that have no reply yet (`sent`, of which `read` are
read). `Clis` are the commands of the program: one line, one reply, exit.
`Peers` are other programs, which may write several lines, nonsense, or go away
at any time. `ReadLine` reads one and dispatches it; `Reload` is the reload in
the task of the connection, whose steps are those of `Blocklist` with the
connections as its `Commands`; `SendResponse` writes the reply. `Stop` is the end
of the daemon at any moment: the connections are lost, the files stay.

Each line carries what its command must get rid of (the refreshes begun so far,
or whether the cache had entries), which is what `AcknowledgedIsDone` looks at
when the reply is written.

### Config, BlocklistRules, Bootstrap and Startup

`Config.Flaws` is `Config::validate`: its checks in its order, each with its
error. Checks that stand together and give the same error are one entry.

`BlocklistRules` is the rules as functions. Matching works on the text of
names, so a name is a sequence of characters and `domain_suffixes` cuts it after
its dots; of the rest of a line there is only which of `parse_line`'s marks it
bears. The reference says what a rule covers without cutting: the name is the
domain, or ends in a dot and the domain.

`Bootstrap` asks the servers in turn, for A and AAAA records. The socket is
connected, so only the server asked can be heard; but ids are few and ports are
reused, so an answer to any question that server was ever asked may arrive, with
any of the records it could have. `Reject` is the loop over datagrams that do
not match, with its deadline beside the read timeout of each `recv`.

`Startup` is `main` for the `serve` command and `run_serve`: `ReadConfig`,
`LoadCertificate`, `ReadLine` and `UseRules` (or `NoLists`, if the refresh fails
or is disabled), one `Build...` action per upstream, `BuildDoh`, `Listen` for
each server, and `ServerFails` or `Shutdown` at the end. It takes over an oddity
of the code: an IPv6 address without brackets loses its last group to what is
taken for a port.

## Runs

| run | specification | distinct states | shows |
|---|---|---|---|
| `pending` | `FairSpec` | 80,000 | a DoT and two DoH requests for one question: one call at a time per map, nobody waits on a channel without a writer, gauges exact, every step is a step of `SingleFlight`; entries leave the map and waiters are served although no timer need ever fire |
| `cache` | `Spec` | 30,000 | three keys for two places: lifetime and capacity |
| `pool` | `Spec` | 2,000,000 | two interleaved queries: complete failover, and cooldowns that never stack up (the range of `degraded_until` in `TypeOK`) |
| `query` | `QueryFairSpec` | 950 | plain, DoT and DoH upstreams in time: an upstream with one leg is left within its timeout, the query is bounded by the legs of the pool, a refused request was refused for a reason, and the query ends |
| `fallback_budget` | `QuerySpec` | | counterexample, see below |
| `dot` | `Spec` | 4,700,000 | callers share idle streams of two endpoints: own answers, a bounded pool, no endpoint given up because of a stale stream |
| `resolver` | `FairSpec` | 260,000 | DoT and DoH clients of two subnets with reloads, flushes, drops and timeouts: attribution by name and subnet, verdicts, and every request is answered even if the upstream never is |
| `connections` | `FairSpec` | 33,000 | permits conserved and returned, gauge exact, registry bounded, client counts exact unless evicted |
| `stats` | `StatsSpec` | 760,000 | saves, errors, crashes: counters never fall below what was saved, as long as saves do not overlap and the file can be read |
| `shutdown_save` | `StatsSpec` | | counterexample, see below |
| `management` | `FairSpec` | 280,000 | a command, a peer with several lines, the timer and the start share the refresh lock, with errors, vanishing clients and restarts: what is acknowledged is done, replies are in order, one refresh per engine, never back, and commands end |
| `startup` | `FairSpec` | 420,000 | 300 configurations, 850 lists and two bootstrap servers that answer late, wrongly or not: what serves is sound, endpoints belong to their host, verdicts of the rules in use meet the reference, and the start ends |

Deadlock is checked in every run but `startup`, where the process ends. Where a
bound would stop a behaviour, the module still allows the steps that end it. Runs of
`FairSpec` use no symmetry.

## Bounds

* `pending`: two DoH requests are a leader and a follower, and either, once it is
  back or dropped, starts the second flight while the other still waits for the
  first; the DoT request asks the same question in the other map and moves the same
  gauges. Two channels let the task of the first flight still hold one while the
  second is made; two outcomes tell the flights apart. One question is enough for
  all races, because keys meet only in their map; the proofs cover any number.
  `MaxDrops` bounds the drift of the gauge that drops cause; one drop already makes
  it differ.
* `cache`: three keys for two places force an eviction; two ticks per second
  separate the comparison of instants from whole seconds; four ticks let an
  entry expire and be replaced. `MaxEvictions` bounds the counter only. Other
  values that the configuration accepts, a capacity of 0 and a `min_ttl` above
  `max_ttl` among them, are covered by the proofs.
* `pool`: a threshold of 2 (the code's is 3) lets both queries contribute to a
  streak; `MaxTime` 3 exceeds a cooldown of 2, so that an upstream degrades and
  recovers.
* `query`: the real timeouts, in seconds.
* `dot`: two callers and one idle stream per endpoint, so that the pool is full when
  the second stream comes back; a timeout of one tick and a clock of two, so that it
  elapses before, during and after the retry on a new connection; three streams, so
  that one is still closing while both callers hold theirs; two endpoints for
  failover; ages up to the limit and beyond. A caller's query is told from its
  previous one by parity, which is enough because a stream owes at most the answer
  of its holder.
* `resolver`: a cache with one place forces eviction; addresses of two bits and
  prefixes of 0, 1 and 2 bits put two clients in one subnet or in two, and reach
  both ends of the mask; two DoH requests share a flight, the DoT request asks the
  same on a flight of its own that ends in the same cache key; two queries in a
  behaviour are enough for a hit to follow a miss and for two flights to overlap;
  one reload is enough for an old verdict and a new one to be in flight together.
* `connections`: `client_capacity` 1 with two addresses forces evictions of
  clients with open connections; two connections per address are needed for
  two simultaneous closes. `Modulus` 8 stands for 2^64 and exceeds the number
  of connections, so a wrap cannot be mistaken for a count.
* `stats`: three bodies cover the file, the temporary file and one that is
  still open after both names moved on.
* `management`: a block list and an allow list, so that a refresh can stop
  between the kinds; two refreshes, so that one can overtake or follow another;
  a peer with two lines on their way, so that one waits behind a slow reload.
* `startup`: every value each check of `validate` tells apart, and combinations
  of those that are checked together; every rule of up to three of five
  characters (two letters, one of them in both cases, a dot, and a mark that no
  domain has) and pairs of lines of every form, against every name of up to four
  characters;
  two hosts, of which one has an AAAA record, resolved in turn, so that late
  answers about the first reach the second; two ids, so that they collide; a
  deadline of two ticks, so that a datagram can come before, at and after it.

## Fairness

Liveness is stated under what the runtime gives, and no more.

* Weak fairness of the steps that a spawned or running task can always take (`Lead`,
  `TaskStep`, `Resolve`, `Work` of `Blocklist`, `Handle`, `Start` of `Startup`): the
  executor runs every task that is ready. In `pending` that includes `PoolAnswers`:
  `UpstreamPool::query` returns, as `query` shows, because each leg has a timeout.
  It does not include `Timeout` and `Drop`.
* In `resolver` the opposite is assumed: nothing makes the upstream answer, and
  the pending timeout alone ends a wait.
* In `query` time passes and timers fire: weak fairness of `QueryNext`.
* In `startup` time passes while the start waits for a datagram (`Wait`), and
  nothing makes a server answer. Signals and failing servers are not fair.
* In `management` a command reads its reply (`Receive`); peers need do nothing.
* Strong fairness of `ReloadLock` in `Management`: tokio's mutex hands itself to its
  waiters in the order they came, so a caller does not wait for ever while
  others take the lock again and again.
* Strong fairness of an accept loop (`Admit`, `Spawn`) and of what a connection
  does without its client (`Work`) in `Connections`: the semaphore serves its
  waiters in order, and the write lock of the registry, once free, goes to a
  waiting writer. Nothing makes a client query or end its connection: the
  property speaks of connections that have ended, or are in their handshake,
  which has a timeout.

## Disagreements between code and documentation

Two runs check what the documentation says and find a behaviour
of the code in which it is false. `PROJECT.json` quotes the text under
`findings`.

* `fallback_budget`: two silent plain upstreams take longer than the pending
  timeout, so the request is refused before the live third one is asked.
  `FallbackInTime` proves that this is the only way to be refused: if the attempts
  on the upstreams before a live one fit in the timeout, no request is.
* `shutdown_save`: a periodic save beside the final one leaves a file that does
  not hold the final counters. `ShutdownSaveKept` proves that
  without the overlap the file holds at least those.

Other differences were met while modelling. The passing properties are stated so
as to make room for them, which is where to look for each:

* A follower whose future is dropped while it waits stays in
  `pending_followers` (`server.rs:118`): `GaugesExact` adds `drops`.
* A success between the two accesses of `record_failure` leaves an upstream
  degraded although no failure is counted (`upstream.rs:684`), against the
  comment on `HEALTH_FAILURE_THRESHOLD`; the range of
  `degraded_until` in `TypeOK` bounds the damage.
* `README.md:36` says of `timeout` that it "controls how long dotdns waits for a
  single query on that upstream before falling back to the next one", and the
  comment at `upstream.rs:141` that capping UDP "keeps a single dead upstream from
  stacking" its two timeouts. The code does stack them (`upstream.rs:180`): a silent
  plain upstream holds a query for the capped UDP leg and then for the whole TCP
  timeout, 7 s when the configured timeout is 5 s; a DoT or DoH upstream with several
  addresses takes its timeout once for each. `TimeBounded` requires what the
  documentation says of upstreams with one leg only, where it holds, and bounds the
  rest by the legs of the pool. It is this that `fallback_budget` runs into.
* `README.md:55` says that DoH uses the same pending-query coalescing as DoT. It has
  a map of its own (`main.rs:396`), so a question that comes over both is asked
  twice at a time: `OneCallPerKey` is per map.
* A statistics file that is there but cannot be read (`metrics.rs:351`) makes the
  counters start from zero, and the first periodic save, which comes at once
  (`main.rs:413`), replaces what it held, against `examples/dotdns.toml:91`:
  `CountersNeverFallBack` leaves out the time from such a start to that save.
* A DoT upstream all of whose endpoints time out counts as a failure and not as
  a timeout (`upstream.rs:284`): `ErrorOf` in `UpstreamQuery`.
* After an eviction has made a client's count smaller than the number of its
  open connections, two that end together lower 1 to 2^64 - 1
  (`observability.rs:126`, against the comment three lines above it):
  `OpenCountsExact` leaves out clients that were evicted.
* An IPv6 address without brackets is cut at its last colon (`config.rs:187`,
  `upstream.rs:81`): as a DoT upstream it passes or fails validation by what is
  left of it, and then has no address; `Host` in `Startup`.
* An IPv6 address in the url of a DoH upstream keeps its brackets, is not
  recognised as an address and is looked up as a name (`upstream.rs:489`):
  `IsLiteral` in `Startup`.
* A reload command downloads and activates lists that the configuration
  disables (`management.rs:285`): `Call` in `Blocklist` does not look at `enabled`
  for commands.
* A blocked query looks in the cache first, so a domain that a reload blocks is
  answered from the cache until the entry expires (`server.rs:550`):
  `ContradictionsComeFromOldRules`.
* The response to a miss carries the TTL of the upstream; only the copy in the
  cache is clamped (`server.rs:594`, against `examples/dotdns.toml:44`).
* A restart while a download fails leaves the engine empty although the lists
  are complete on disk (`main.rs:334`, against `README.md:129`): `Fail` in
  `Blocklist` returns before `Read`. `VerdictsMeetReference` says nothing of such
  a start.

## Proofs

`PendingQueriesProofs` proves, for any finite sets of requests and channels and any
questions and outcomes (`PendingAssumption`, `FiniteAssumption`), that
`PendingQueries` keeps its types, makes one call per key (a question of a map), has
no orphaned waiter, has an owner for each entry and exact gauges, and implements
`SingleFlight`. The invariant is `TypeOK /\ Structure /\ GaugesExact`. None of the
parts is inductive alone: that no waiter is orphaned needs to know where the sender
of a channel is at each stage of the task (in the map, in the task's hands, or
spent) and that a channel belongs to one key, which is what `Structure` says part by
part; that a gauge never goes below zero, a part of `TypeOK`, needs that the gauge
equals the cardinality of the set it counts. The refinement has one step per action:
`RemoveEntry` is the landing, and every other step of the task is a stutter.

`CacheProofs` proves, for any limits, capacity and set of messages with
non-negative TTLs (`CacheAssumption`), that the cache keeps its types, serves
only fresh answers, is bounded, and, without a `min_ttl`, keeps no entry longer
than its shortest record. The invariant adds `Faithful`, which ties each entry
to the latest insert of its key; without it nothing is known of what an
arbitrary entry contains, and a hit could serve anything. The bound needs
cardinality lemmas: an insert adds at most one key, and an eviction in a full
cache makes room for it.

`DotUpstreamProofs` is for any callers, streams, endpoints and size of the idle
pool (`DotAssumption`). The code reads whatever comes next on a stream, so that
an answer is the caller's own cannot be had from the exchange alone. The
invariant says of every stream who has it (`Holding`, `Pooling`: one caller, or
one place of one pool) and what the server owes on it (`Exchanging`: nothing
before the write and after the read, the caller's answer in between, and nothing
in the pool). Own answers and the right endpoint follow. That stale streams cost no
endpoint (`StaleCostsNoEndpoint`) is inductive beside this once it is known that a
caller without a stream has none of the pool (`Unpooled`): a failure to connect, or of
the exchange that follows, is then that of a connection of its own.

`ManagementProofs` first shows that every step of `Management` is a step of
`Blocklist` or a stutter (`ImplementsBlocklist`), and then works with the two
together. For the lists, `Exclusive` ties the steps of a refresh to
`refresh_lock`, and `Progress` says how far the lists on disk, the staged ones
and the engine being read are of this refresh, by its place; a failure may stop
anywhere, and the next refresh relies on nothing it left. For a connection, the
handler's place and its reply are tied to the first line without an answer.
`EngineNeverGoesBack`, `AcknowledgedIsDone` and `RepliesInOrder` are action
properties: they follow from the invariant in the state before the step. Timers
and commands are different callers (`BlocklistAssumption`) and a connection
takes at least one line (`MaxLines`).

`ConnectionsProofs` is for any accept loops, permits and capacity, finitely many
connections and addresses, and counters of any width in which the connections
fit (`ConnectionsAssumption`). A gauge is exact because it equals the
cardinality of a set of connections, by their stage. What makes it inductive is
`Books` (an address that was never evicted and is not registered has no
connection that counts), and `Locked` (a count that was loaded, to be lowered, is
still there: no writer evicts it before the `fetch_sub`).

`DaemonProofs` has two parts. The first is about a start, for any alphabet, hosts,
servers, ids and deadlines, any configuration with the types that serde gives it
(`Configs`) and any lists (`StartupAssumption`, `RulesAssumption`: lower case maps
characters to characters). Its invariant, `StartInv`, has a part for each thing that
an earlier step leaves for a later one:

* `Given`: the configuration and the lists are those the start was given;
* `Passed`: a stage after "config" has a configuration that `validate` accepts, one
  after "tls" has a certificate, and one after "pool" has an entry for every
  upstream. With `PoolBuilt` this gives `ServesSound`, whose bounds on the
  configuration are each the negation of an entry of `Flaws`;
* `Rules`: the rules read so far are those of the lines read so far, and the engine
  in use is empty or has those of all lines. That in the latter case it blocks what the
  reference blocks is a fact about `domain_suffixes`, for names of any length
  (`VerdictsCorrectOnAnyName`): it holds position by position, and needs no
  induction;
* `Timers`: the `recv` that waits now began before the deadline, without which
  `TypeOK` does not bound the time of a question;
* `Asked`: what is being resolved is the host of the next upstream, and the
  addresses found so far are its own. Of the datagrams nothing is assumed; that a
  late answer about another host is not taken is due to the comparison of the
  question in `Matches`;
* `PoolBuilt`: the pool has one set of endpoints per upstream passed, not empty
  unless the upstream is plain.

The second part is about `StatsFile`, for any files and any bound of the counter.
The type invariant holds for overlapping saves too. The rest is for behaviours in
which saves do not overlap, which is what `shutdown_save` shows to be needed: there
is then one save under way, what it writes is a file other than the one under the
permanent name (`NamesHold`, `Progress`), and snapshots lie between the saved value
and the counter (`Monotone`), except while the file is `unread`: the counter is then
below what the file holds, until a save replaces it. A crash anywhere changes none
of this. What a graceful shutdown has saved can then be followed only by newer saves
(`Survives`).

`UpstreamProofs` also has two parts. `UpstreamPool` is taken for any number of
upstreams, either policy and any threshold and cooldown (`PoolAssumption`). The two
vectors of `attempt_order` together always hold what a walk around the ring of
upstreams has visited, each once (`Walks`), and where a query stands says how long
the walk is (`Phases`); whether an upstream is found healthy only decides on the
vector. That N steps around a ring of N visit everything is shown from the
arithmetic of the remainder.

`UpstreamQuery` is taken for any pool that is not empty, any timeouts and numbers of
endpoints above zero, which `ServesSound` says of the timeouts and of the encrypted
upstreams of a daemon that serves (a plain upstream's legs do not depend on its
endpoints), and any upstreams silent (`QueryAssumption`). `TimeBounded` speaks of
the sum of the legs of pools of any length. `Sums` is a recursive function, and that
it has the values its definition says is itself to be shown: if for some length
there were no such function, then for a least one, and the one for the length before
it could be continued (`SumsExist`; the same argument gives `SumsGrow`). The
invariant says that the time spent on an attempt and the time left of its leg are
within the sum of the legs so far, that the attempts before it are within the sum of
their budgets (`Clocks`), how many upstreams have failed (`Counted`), and why a
request was refused (`Waits`). `FallbackInTime` adds `Reached`: the pool is never
past an upstream that answers and spends no time on it. Its condition cannot be
weakened: with the pool of `fallback_budget` a pending timeout of 15 s satisfies it
and one of 14 s, the sum of the two attempts, is refuted by TLC.

`ResolverProofs` is for any requests, queries, settings, lists and answers and a
cache of any size. It instantiates `CacheProofs`, shows that each step of the
resolver is a step of the cache or leaves it idle, and so inherits that module's
invariant (`CacheKeepsItsPromises`). Its own invariant has three parts. `Stored` and
`Delivered` say that whatever is cached or ready was said by upstream for that very
key, which gives the first half of `Attributed`; the other half, that the key
reveals of the client what it may and no more, is `UpstreamQueryFacts`, a fact about
`mask_bits` for every width and prefix. It needs that powers of two add up, and as
nothing about exponents can be proved by induction here, that comes from counting: a
set of n elements has 2^n subsets (`FS_SUBSET` of the library, whose own proof takes
2^(n+1) = 2 * 2^n as known), and subsets of a disjoint union are pairs of subsets.
`Consistent` treats verdicts of requests under way and entries of the cache alike,
as opinions on a name under a version of the rules: two opinions of one version
agree, because a request takes its opinion from the rules in force and an entry has
that of the request that made it, and a reload makes all of them old. This is
`ContradictionsComeFromOldRules`, which is not inductive by itself: it says nothing
about the entry that the next hit will find. `Counts` adds the requests at their
lookup to the hits and misses, without which these could overtake the queries.
`ResolverAssumption` asks that queries and addresses have the parts the code reads,
that prefixes fit their family (`Config` checks that), that every query made from an
arrival is a question and has a key, and that the blocked response is no upstream
answer.

The inductive invariants were also checked with TLC on the instances of the runs.

Every invariant and every action property of the passing runs is the statement of
a theorem. Left to TLC is what the prover does not handle: liveness, everything
under fairness and `ENABLED` (`PermitsReturn`, `CommandsEnd`, `QueriesAnswered`,
`StartEnds`, `QueryEnds`, `EntriesDrain`, `WaitersServed`), that the condition of
`FallbackInTime` is needed, and the two counterexamples. `Blocklist` has no run of
its own and is proved about in `Management`. No module uses recursive operators.

## Not modelled

* Parsing of command line arguments, printing, logging, the reading of TOML: I/O
  without state that others share. Settings that validation does not look at
  and that look odd (capacity 0, `min_ttl` above `max_ttl`) are covered by the
  proofs about `Cache`.
* HTTP parsing in the DoH server and JSON on the management socket: the effects
  of requests and commands are actions, their encoding is not. A DoH request
  that is refused with a status of its own (`doh.rs:186` to `doh.rs:237`) changes
  no state.
* Counters that are only added to, latency sums, and the contents of snapshots.
* Ranges of addresses that are not public (`is_public_client_ip`): `Private` is
  any set of addresses.
* TLS, HTTP/2, the DNS wire format, the file system and tokio: modelled by what
  the code relies on (an ordered stream that may close; rename and truncate; a
  watch channel, a semaphore, locks), and marked external where a definition
  stands for them.
