# Verification of golang-rpc-framework

TLA+ models of this repository's framework and of the services built on it, TLC
runs over small instances of them, and TLAPS proofs of the properties that matter
most for every size. Paths are relative to the repository; `client.go` is
`pkg/client/client.go`, `server.go` is `pkg/server/server.go`, `etcd.go` is
`pkg/registry/etcd.go`, `client_manager.go` and `handlers.go` are in `pkg/gateway`.

    tlc -config Server.cfg MCServer         # any run: see "Runs"
    tlapm Client_proofs.tla                 # see "Proofs"

## 1. The system

The framework is a toolkit for gRPC services (client, server, registry,
configuration, logging, tracing, messaging) with a user service, an order service
and an HTTP gateway built on it. The interesting state is in a few objects shared
by many goroutines, each with a mutex or two of its own; most hard questions are
about what happens *between* the critical sections of two of them.

| Component | State it keeps | Operations | Interacts with |
|---|---|---|---|
| Task processor (`client.go`, `AsyncProcessor`; the server has a copy, `pkg/server/server.go`) | bounded channel of tasks, map of handlers, `running` | `Start`, `Stop`, `RegisterHandler`, `SubmitTask`, worker loop | callers of the client or server, handlers |
| Circuit breaker (`client.go`) | state, failure count, time of last failure | `IsAllowed`, `RecordFailure`, `RecordSuccess` | `DialService` asks it and reports failures to it |
| Connection pool and dialling (`client.go`) | map address -> connection, limit | `DialService`, `GetConnection`, `Close` | cache, breaker, registry |
| Client cache (`client.go`) | shards: map key -> item, count; an item has access and expiry times | `Set`, `Get`, `Delete`, `evictOldest` | holds connections the pool owns |
| Load balancers (`client.go`) | address lists, counters | `Next`, `UpdateAddresses` | fed by `watchServiceChanges`; nothing calls `Next` when dialling |
| etcd registration (`etcd.go`) | `leases`: service -> lease; in etcd: leases and keys | `Register`, `Deregister`, `Close`, `keepAlive` | etcd, the registry's health checker |
| etcd discovery (`etcd.go`) | `watchers`: name -> cancel function | `Discover`, `Watch`, `Close` | etcd, consumers of the channel of lists |
| Nacos registry (`pkg/registry/nacos.go`) | none but the Nacos client's | the same interface | Nacos callbacks |
| Gateway client manager (`client_manager.go`) | per service: connections, clients, `CurrentIdx`, `healthy` | `Start`, `Stop`, updates, `getServiceClient` | registry's `Watch`, HTTP handlers |
| Gateway HTTP server, middleware (`pkg/gateway`) | token buckets per client address | handlers, rate limiting | client manager, one gRPC call per request |
| gRPC server (`server.go`) | token bucket, pooled buffers, health checks, chain of interceptors | `New`, `RegisterService`, `Start`, `Stop`, requests through the chain | grpc.Server, task processor |
| Advanced pool (`pkg/pool`) | service -> pool of connections, metrics | `GetConnection`, `CreateServicePool`, clean-up, health check, `Close` | timers |
| User and order services (`internal/user`, `internal/order`) | in-memory or MySQL tables | create, read, update, delete, list | gRPC handlers |
| Configuration, hot reload (`pkg/config`) | settings, callbacks | load, defaults, save; reload, `Get*`, `RegisterCallback` | file, environment, file watcher |
| Message queue (`pkg/mq`) | subject -> subscription | publish, request, subscribe, unsubscribe, close | NATS |
| Redis cache (`pkg/cache`) | two caches | `GetWithFallback`, `Set`, `Delete` | Redis |
| Log file (`pkg/logger`) | file, its size, backups | `Write`, rotation, `Close` | file system |
| API versions (`pkg/api`) | supported and deprecated versions, services | register, choose a version, latest | callers' metadata |
| Programs (`cmd/*`, `examples`) | where `main` is | set up, serve, wait for a signal, shut down | all of the above |
| Database, security, metrics, tracing, governance | thin wrappers | | third-party libraries |

What makes each hard, and what makes it correct:

* **Task processor.** `Stop` closes a channel that submitters send on; workers read
  the handler map without its mutex. Correct: nothing is sent on the closed
  channel; an accepted task is handed to a worker once, in order; it is dropped
  only if nobody registered its handler in time; after `Stop` the queue drains and
  the workers end.
* **Circuit breaker.** `IsAllowed` changes the state under a *read* lock; results
  of old requests arrive in new states. Correct: state and count agree; an open
  breaker is probed after its timeout and not before; callers that report every
  result make it recover.
* **Dialling.** Five critical sections with nothing held between them. Correct:
  at most one open connection per address, all of them in the pool; the cache
  never answers with a closed one before `Close`; an open breaker stops dials.
* **Cache.** `Get` uses an item after unlocking. Correct: a shard at rest is within
  its capacity; eviction removes the least recently used item when nothing
  interferes.
* **Registration.** Calls to etcd fail in the middle, leases expire, the process
  dies, a service is registered again. Correct: the lease the registry remembers
  is the one that keeps the key; what is deregistered or dead disappears.
* **Discovery.** A stream of events, each answered by reading the list again.
  Correct: consumers never go back in time and see the last change; a cancelled
  watch ends.
* **Client manager.** Updates replace connections under requests. Correct: no
  leaks, no index out of range, requests shared evenly, goroutines end.
* **Requests.** A service checks under one lock and writes under another, and works
  on when the gateway has given up; pages are computed in 32 bits. Correct: names
  are not created twice, answers are states the object was in, deletion is final, an
  update leaves alone what it does not mention.
* **gRPC server.** `Start`, `Stop`, registration and requests come in any order; a
  bucket refilled in fractions; buffers cleared outside any lock. Correct: the process
  ends only by what its callers do; the rate is bounded and nobody starves; a buffer
  has one user and no old data.
* **Gateway process.** A signal may come at any point of the start, and the shutdown
  may time out. Correct: a handler always has a client manager; a signal ends the process.
* **Advanced pool, hot reload, message queue, two-level cache, log file.** Each works in
  steps between which others act, or fails half-way. Correct: what is listed is open; a
  program knows the values it asked for; a message is handled once; stale copies do not
  stay; no line is lost.
* **Programs.** Each step of the start may end the process, and in the services the server
  starts in a goroutine beside them. Correct: a service that is configured as it should be
  registers.

The full list of hazards, each with its line and the properties that guard against
it, is in `PROJECT.json`.

## 2. Modules

| Module | Models | Extends |
|---|---|---|
| `TaskLedger` | what the task processor promises its callers (abstract) | |
| `AsyncProcessor` | the task processor, step by step | |
| `GrpcServer` | a server's life, its requests in the interceptors, its health checks | |
| `RateLimiter` | the server's token bucket | |
| `MemoryPool` | the server's recycled buffers | |
| `Server` | the server's four parts | `AsyncProcessor`, `RateLimiter`, `MemoryPool`; instance of `GrpcServer` |
| `CircuitBreaker` | the three methods of the breaker | |
| `BreakerClients` | overlapping requests that use the breaker as it is meant to be | `CircuitBreaker` |
| `ClientDial` | dialling: cache, breaker, discovery and pool composed | `CircuitBreaker` |
| `ShardedCache` | one shard of the cache in full detail | |
| `LoadBalancers` | the three load balancers and the health checks | |
| `Client` | the client's parts | `ClientDial`, `ShardedCache`; instance of `LoadBalancers` |
| `AdvancedPool`, `HotReload`, `NatsQueue`, `FallbackCache`, `RotatingFile`, `Versions` | one package each | |
| `Toolkit` | these packages and the breaker | `BreakerClients`; instances of the six |
| `EtcdLeases` | registration and leases | |
| `EtcdWatch` | watches | |
| `ClientManager` | the gateway's client manager | |
| `GatewayLimiter` | the token buckets of the HTTP middleware | |
| `GatewayProcess` | the gateway's `main`, `Start` and `Stop` | |
| `Gateway` | what is around the gateway's requests | `EtcdLeases`, `GatewayLimiter`, `ClientManager`; instance of `GatewayProcess` |
| `GatewayCalls` | what all HTTP handlers share: refusals, the call, its deadline, status codes, pages | |
| `UserRequests`, `OrderRequests` | requests about users and about orders, through all layers | `GatewayCalls` |
| `Requests` | the gateway with both services | `UserRequests`, `OrderRequests` |
| `Configuration` | how file and environment become a configuration (pure operators) | |
| `ProgramStart` | every program from `main` to its loop | `Configuration` |
| `*_proofs` | theorems about the module of that name; where that puts parts together, about its parts | that module, `TLAPS` |
| `MC*` | constants of the small instances | the module of the same name |

`Server`, `Client`, `Toolkit` and `Gateway` put side by side parts that share no state, or
share it only in the way that their comments name. A behaviour of such a module is a
behaviour of one part, chosen at the start, with the fairness that part has; the
variables of the others stay in one initial state. The real interactions are inside the
parts: dialling is cache, breaker, registry and pool; a request is gateway, service and
table; the processor meets the server's life in `Stop`.

Conventions: a variable has the name of the field it stands for; an action that is
one critical section is one step; a goroutine that takes several steps has a program
counter `pc`. Variables commented as "history" are not in the code: they record what
a property needs. Operators commented as "Mutant" are plausible bugs of the operator
that follows them; they occur in no specification, and each shows that a
property would notice that bug.

### AsyncProcessor and TaskLedger

The state is `running`, the handler map (`handlers`), the buffered channel
(`queue`, `open`), the lock of `ap.mu` (`lock` and its readers), and program counters
of submitters, workers and the goroutine that registers. `SubmitTask` holds the read
lock from its test of `running` to its send; `Stop` holds the write lock while it
clears `running` and closes the channel. That is the whole reason no send meets the
closed channel, and the mutant `StopUnlocked` shows it. A send can go to the buffer
or straight to a waiting worker (`SendToWorker`), which differ in when the buffer
is full. `RegisterHandler` is two steps, because workers read the map without the
mutex: a lookup that overlaps the write is a data race, modelled as a choice
between finding the handler, missing it, and the runtime's fatal error
(`LookupRace`). The server's `ServerAsyncProcessor` is the same code with other
names; the map names its lines too.

`TaskLedger` forgets queue, locks and workers: tasks are accepted or refused until
it is shut, and accepted tasks finish. `ImplementsLedger` is the refinement.

### GrpcServer, RateLimiter, MemoryPool and Server

`New` takes any of the options that decide which interceptors there are. `Chain` is
their order, `place` how far a request has come. In `chainUnaryServer` and
`chainStreamServer` the innermost interceptor is given a nil `next`, so that a request that
passes all of them ends the process (finding 5). `Start` and the goroutine that calls
`Serve`, `Stop` and its `GracefulStop`, and the health checker's goroutine are steps of
their own. `Stop` holds `s.mu` from before it waits to the end, and is four steps: the
beginning, the end of `GracefulStop`, the task processor's `Stop` and the health checker's.
Each of these two clears its `running` and closes its channel only if it was set; `Close`
panics on a channel that is closed already, so that closing twice is a behaviour the model
can have and `EndsOnlyByCallers` excludes. grpc.Server is external.

`RateLimiter` counts in units of 1/`Grain` of a token, so that fractions of a second and of
a token are exact; `excess` is history: the most that any interval up to now has let
through beyond what it earned. In `MemoryPool`, `Put` clears a buffer and gives it back
without a lock, and sync.Pool may drop what it holds.

### CircuitBreaker and BreakerClients

Time is counted as ticks since the last failure, up to the timeout. `IsAllowed` and
`IsRefused` are the two outcomes of `IsAllowed()`; the step to half-open is atomic
with the answer, because a data race between two callers that both store the same
state under the read lock has no other outcome. `BreakerClients` lets any number of
requests overlap, each of which asks, works, and reports. No code of the repository
calls `RecordSuccess` (see finding 1), so `Succeed` is what a caller that follows the
interface would do.

### ClientDial

Each `Dialer` is a goroutine in `DialService`; a step is one critical section: cache
lookup (two when it meets an expired entry), breaker, discovery, the pool's
`GetConnection` (dial included: it holds the pool's mutex), and `cache.Set`. `Close`
takes the pool's mutex only. The registry's lists change at any time and `Discover`
may fail. Left out: eviction from the cache for lack of room (a shard holds 625
services), and `watchServiceChanges`, which feeds a load balancer that dialling
does not ask.

### LoadBalancers

`UpdateAddresses` may bring a list that is shorter, empty, in another order, or of another
service. `served` and `before` are history: answers since the last list, and the connections
an address had when it came.

### ShardedCache

Items are numbered pointers, so that a `Get` can go on with an item that has been
replaced. `Set` holds the write lock over insertion and eviction; since `Get` stores
`AccessTime` without the lock, `evictOldest` is taken read by read (`EvictCompare`,
`EvictTake`). Each shard is independent, so one is modelled. `quiet` records that no
touch fell into the current scan.

### EtcdLeases

`r.mu` makes `Register`, `Deregister`, `Close` and the clean-up of `keepAlive` one step
each. etcd is external: it grants, revokes and expires leases, and deletes a key with
its lease. A call that returns an error may have been carried out or not
(`RegisterPutFails`, `DeregisterFails`). A service registered again gets a new lease
and a second `keepAlive`; the old one ends and cleans up by *service ID*.

### EtcdWatch

What etcd holds for a name is abstracted to the number of changes made to it; a list
is the number at which it was read, which is all that order and loss depend on.
`Watch` is two steps (first `Discover`, then storing the cancel function), and the
goroutine follows its two `select`s. A stream whose client is closed yields zero
responses without an error for ever, as clientv3's closed channel does, so the loop
turns until its `Done` case is chosen.

### ClientManager

A list is abstracted to its length, a connection is a number. `Start` goes through
the services one by one and may fail anywhere; the watch goroutine receives a list
(or nil from a closed channel) in one step and applies it under `cm.mu` in another,
dialling any number of its instances with success. `Stop` is two steps, for it
signals before it takes the mutex.

### GatewayLimiter and GatewayProcess

A bucket is created full when a client first asks and forgotten when it has not asked
for two windows. `GatewayProcess` has a step for
each call of `main` and of `Gateway.Start` that waits or that a signal can fall between;
`ListenAndServe`, `Shutdown` and its 30 seconds are net/http's.

### GatewayCalls, UserRequests, OrderRequests and Requests

A request passes the gateway's handler, the gRPC handler, the service and the
repository. `GatewayCalls` has the steps all requests share: `Handle` is a gateway
handler up to its call, `Answer` and `Deadline` are the ends of the call, and `Reply`,
`Fails`, `Replies` and `GoesOn` are what a service's handler may do next. A deadline
does not reach the service, which looks at no context: a call that was given up is
still served, one that was never delivered stays where it is. `UserRequests` and
`OrderRequests` add one action per gateway handler and one per critical section of
the service: an operation that checks under one lock and writes under another
(`CreateUser` and `Create`, `UpdateUser` and `Update`, `UpdateOrder` and `StoreOrder`) is
two steps. The mapping of errors follows the layers: an error the gRPC handler knows
becomes a response with a message and no data, any other a gRPC error, and the
gateway turns a gRPC error of a get into 404 and of all else into 500.

The tables keep each object's past contents (`users`, `orders`) and which IDs are in
the map (`liveUsers`, `liveOrders`); `seen`, noted when a request starts, tells what its
answer must not be older than. An ID of 0 stands for all a validation refuses. Left
out: fields other than those named, the keyword and status filters of lists, the
order number, and the interceptors of `pkg/server`. Which requests fail the gateway's
own validation, and when the manager has no client, is left open (`ClientManager`
models the latter). `repo` is the user table: in memory, or MySQL, whose unique index also
guards renaming and whose `UPDATE` writes what the request leaves out. The services share
nothing, so that one behaviour of `Requests` talks to one of them, chosen at the start.

### AdvancedPool, HotReload, NatsQueue, FallbackCache, RotatingFile and Versions

* `AdvancedPool`: a `ServicePool` is an object that a caller goes on with after the
  clean-up has removed it. `acp.mu` is a variable, because the clean-up holds it over all
  pools, and then waits for itself: `updateMetrics` takes it again.
* `HotReload`: the file may be written, left incomplete or replaced between any two steps
  of the watcher; events merge. Callbacks run with `mu` held.
* `NatsQueue`: the map's keys are strings, so that a subject with a colon can meet a
  subject and group; deliveries, callbacks and replies are steps.
* `FallbackCache`: `GetWithFallback` is three steps, any of which may fail; writers change
  both caches meanwhile.
* `RotatingFile`: renames and opens may fail, and a write may fail with the beginning of the
  line in the file (`AppendLine`); the process may die and open the file again;
  backups are named by the second; `length` is the length of the file, `size` what the writer
  believes it to be, which leaves out what failed writes have appended since it was opened.
  `spilt` is history: how much of the file that is.
* `Versions`: no goroutines; calls in any order, over versions that differ in one part.

### Configuration and ProgramStart

`Configuration` has one key for each way keys are treated, and how environment, file,
`Unmarshal` and the defaults combine. `ProgramStart` runs each program's `main` as a list of
steps, each of which goes on or ends the process, over every configuration within reach.

## 3. Runs

All states of the instance are explored. `CHECK_DEADLOCK FALSE` where the system may
really stop: after `Stop` or `Close`, when every call has returned, or when a bound on
counters is used up.

| Run | Instance | What it shows |
|---|---|---|
| `Server` | 3 submissions of 2 types, 2 workers, 2 slots; a limit of 2 a second in thirds; 2 users of 3 buffers; 1 request, 2 health checks, 2 starts and stops | `NoSendOnClosed`; `RegisteredHandlerRuns`; refinement of `TaskLedger` (`ImplementsLedger`); `DrainsAndEnds`; `RateBounded` and `AskersAdmitted`; `BuffersCleanAndAlone`; `EndsOnlyByCallers`; `ChecksRunUntilStop` |
| `Client` | 2 dialling goroutines, 2 services, 2 addresses, a pool of 1; 2 goroutines, 3 keys and 4 items on a shard of 2; 3 addresses under each load balancer | `PoolOwnsConnections`, `CachedConnectionUsable`; `ShardWithinCapacity`, `QuietEvictionIsLRU`; `SharesLoad` |
| `ClientBreakerRecovers` | 2 goroutines, 1 service, pool of 2 | *Violated*: finding 1 |
| `Toolkit` | breaker: 3 callers, threshold 2, timeout 2, 5 failures; pool: 2 callers, 1 connection, 2 pools; reload: 1 key, 2 values, 3 writes; queue: 2 subscriptions, 2 messages, subjects `a` and `a:q`, group `q`; cache: 2 readers, 2 writes; log: 4 lines of 1, 2 or 3 in a file of 2, 2 seconds; versions: 3 | `HalfOpenAfterTimeout`, `ReportingCallersRecover`; `ListedConnectionsOpen`; `CallbacksCaughtUp`, `ConfigFollowsFile`; `HandledOnceThenAcked`; `StaleCopiesExpire`; `RotationKeepsLines`; `VersionsHonoured` |
| `Gateway` | leases: 2 services, 3 leases; manager: 1 service, 3 instances, 7 connections, 4 requests per update; limiter: 2 clients, 2 requests a window of 2 ticks; process: 2 requests | `KnownLeaseHoldsKey`, `GoneServicesDisappear`, `DeadLeaseForgotten`; `NoConnectionLeaks`, `RequestsAreShared`, `WatchersEnd`; `ClientRateBounded`; `RequestsHaveClients`, `SignalEndsProcess` |
| `ClientManagerBroken` | the same | *Violated*: finding 4 |
| `EtcdReregister` | 2 services, 3 leases | *Violated*: finding 2 |
| `EtcdWatch` | 2 watches of 1 name, 1 change | `ViewsMoveForward`, `LaterChangesSeen`, `CancelledWatchEnds` |
| `EtcdWatchClose` | the same | *Violated*: finding 3 |
| `Requests` | 3 requests, IDs 0 and 1, 2 names, 2 customers, 2 statuses, 5-bit integers (`Limit` is 16), pages of at most 4 | `UniqueUnlessRenamed`, `DeletedStaysDeleted`, `AnswersFresh`, `ObjectsStayValid`, `OverflowAloneCrashes` |
| `ServerHandlers` | 2 requests, all options | *Violated*: finding 5 |
| `ServicesStart` | every program; files and environments that differ from a complete one and an empty one in at most one key | *Violated*: finding 6 |

Each property of a passing run has a mutant in `PROJECT.json`, a plausible bug of the code
under which TLC finds that property violated. The type invariants are not in the runs: where
a module has proofs they are theorems, else they document the variables.

Why the bounds are enough. The interesting cases need few actors: a queue that fills
needs one task more than slots, a race needs two goroutines, an eviction one key more
than the capacity, a re-registration two leases of a service and a third of
another; a duplicate name, an update that meets a deletion, or an answer mixed of two
updates, three requests; an overlooked write two writes while a first is handled; two
rotations in a second, three lines. Every instance fires every action of its module. In
`Requests` the integers have 5 bits for 32 and pages at most 4 elements for 100, so that the
offsets of three kinds of page differ as in the code: one that fits, one that overflows
(page 9 of 2), and a size that is refused. Bounds on counters (every constant whose name
starts with `Max` and whose comment says "bound") sit in the guards of the actions that
count up; each is larger than the number of events its longest scenario needs. The
failures of the breaker in particular end after `MaxFailures`, which is the assumption "the
failures stop" of every statement about recovery. Symmetry is used in safety runs only, over
values no definition tells apart.

Fairness, and why the code justifies it:

* Weak fairness of the steps of a goroutine that has been started and of calls under
  way: the Go scheduler runs every runnable goroutine, and mutexes are starvation-free.
* Consumers of a watch receive until they cancel it, not longer.
* Weak fairness of submitters before their send, of the HTTP handlers, of the writers of
  files and caches and of signals is *not* assumed: nobody has to act.
* Strong fairness of the `Done` case of a `select` in a loop whose other case stays
  ready or becomes ready again and again: Go chooses uniformly among the ready cases.
* Weak fairness of clocks, of timeouts and tickers, of etcd's expiry of a lease that is
  not renewed and of Redis's of keys.
* `AskersAdmitted` assumes a client that keeps asking, `BreakerClients` and `ClientDial`
  that callers keep calling: a breaker nobody asks has no way to change its state.

### Findings

1. **A breaker that opened never closes** (`ClientBreakerRecovers`). `DialService` calls
   `RecordFailure` on every error path and `RecordSuccess` on none, so the failure
   count only grows: after `Threshold` failures over the whole life of the client
   the breaker is open or half-open for ever, and every later failure opens it at
   once. `BreakerClients` shows that the breaker itself does recover if successes are
   reported.
2. **A deregistered service stays in etcd** (`EtcdReregister`). The health checker
   registers again on every tick; when the old lease ends, its `keepAlive` deletes
   `r.leases[serviceID]`, which is the new lease by then. `Deregister` finds none,
   returns nil, and the new lease is renewed for ever. `GoneServicesDisappear`
   shows that nothing else goes wrong: it needs a second registration.
3. **Close leaves watch goroutines behind** (`EtcdWatchClose`). `r.watchers` has one cancel
   function per service name. A second watch replaces the first's, either one's end
   deletes the other's, and a `Watch` that overlaps `Close` stores its own too late.
   Such a goroutine turns on the closed stream for ever. `CancelledWatchEnds` shows
   that a watch which is cancelled does end.
4. **A broken watch takes a healthy service down** (`ClientManagerBroken`).
   `watchService` receives without asking whether the channel is closed, as the
   registry does when its own watch fails, and treats nil as an empty list: all
   connections are closed and the service is unhealthy until the gateway restarts.

5. **A server with interceptors dies of its first request** (`ServerHandlers`). The chains
   built by `chainUnaryServer` and `chainStreamServer` never call the handler they are given;
   the innermost interceptor calls nil, and nothing recovers. `EndsOnlyByCallers` shows
   that `Start`, `Stop` and the health checker end the process in no other way than by
   what the program calls out of order, and close no channel twice.
6. **The services do not start** (`ServicesStart`). `NewNacosRegistry` parses its address
   with a verb `fmt.Sscanf` does not have and fails for every address; the user and the
   order service exit before they register. Past that, `main` would listen a second time on
   the address its own server listens on.

Also met while modelling, most of it recorded as hazards:

* The half-open breaker admits every caller, not a few.
* A dial under way when `Client.Close` is called leaves an open connection in the
  pool, and so does an update under way when the manager stops.
* `Get`'s purge can remove an item that is not expired; the shard's `count` is not
  the number of its items.
* A change between `Watch`'s first list and the opening of its stream is reported only
  with the next change.
* A missing user or order is answered with 200 and a message, since the gRPC handlers
  report it in a response; a name that is taken is answered with 201. The documents
  speak of 404 (`docs/GATEWAY_ARCHITECTURE.md:311`).
* A request answered with 500 at its deadline may have created its object all the same.
* A page whose offset overflows 32 bits makes the slice in `List` panic, and nothing in
  `pkg/server` recovers: `OverflowAloneCrashes` shows that no other page does.
* Renaming a user does not look for the name (`UniqueUnlessRenamed` says how far names
  are unique), and every order status may follow every other.
* A `user_id` that does not parse lists the orders of all users.
* The client's chains of interceptors (`client.go:870-909`) have the same nil as the
  server's; no program uses them.
* The first clean-up of the advanced pool stops the pool for ever
  (`pkg/pool/advanced_pool.go:291`). A pool that is full of idle connections neither reuses
  nor replaces them until then.
* The callbacks `ConfigManager` registers for sections such as `server.*` match no key and
  are never called; they read the configuration, and would wait for their caller.
* A second `Start` of a server, or registering a service after it, ends the process.
* A CORS preflight request never reaches the CORS middleware.
* MySQL's `UPDATE` overwrites what a request leaves out; `CreateUser` takes every error of
  the look-up by name for "free"; the repository for PostgreSQL is mostly stubs.
* The in-memory `Create` returns the stored object itself, which
  `internal/user/service/user_service_test.go:176` does not expect.
* `docs/API.md:627` speaks of a sliding window; the limiters are token buckets.
* A value that is no number, in a variable whose key the file has, makes `Unmarshal` fail,
  though `loadFromEnv` passes it over; an explicit 0 is replaced by the default;
  `SaveToFile` panics on a name without a slash.
* Two rotations of the log in one second lose the first one's backup.
* A write to the log that fails half-way leaves its part in the file and does not count it
  (`pkg/logger/logger.go:448`): the file can outgrow `max_size` by as much, and the next
  line continues the broken one. `RotationKeepsLines` shows that it outgrows it by no more.

## 4. Proofs

Each `_proofs` module proves, for every value of the constants and from the assumptions
named in the modules, that an inductive invariant holds and that the property follows
from it. Each such invariant is the type invariant, the property, and what follows here.
`Server`, `Client`, `Toolkit` and `Gateway` put parts side by side; theorems about a
part's own specification hold in the whole by `PartsOfServer`, `PartsOfClient`,
`BreakerOfToolkit` and `PartsOfGateway` (every behaviour of the whole is, seen through the
variables of a part, one of that part), the others are stated of the whole.

| Theorem | Property | Argument |
|---|---|---|
| **`AsyncProcessor_proofs`** | | any tasks, types, finite set of workers, queue size |
| `TypeCorrect` | `TypeOK` | inductive as `TypeInv`, with the ranges of program counters spelt out |
| `SendsFindOpenChannel` | `NoSendOnClosed` | `GateInv`: a submitter past its test of `running` holds the read lock, `running` implies that the channel is open, and `Stop` needs the write lock |
| `StopIsFinal` | `NothingAcceptedAfterStop` | an action property: acceptance needs a submitter past the test, hence `running` |
| `Conservation` | `TasksConserved` | queue, workers' hands, finished and ignored are disjoint and make up the accepted tasks; needs that the queue has no duplicates |
| `HandlersRun` | `RegisteredHandlerRuns` | `LookupInv`: a type registered when its task was accepted stays in the map until the worker reads it |
| `EarlyRegistrationIsSafe` | `FatalNeedsLateRegistration` | the race needs a writer while a worker looks up, hence a task accepted before a registration ended |
| `FirstInFirstOut` | `DispatchInOrder` | `OrderInv`: what was dispatched followed by the queue is what was accepted |
| `ProcessorImplementsLedger` | `ImplementsLedger` | refinement: the mapped initial state is the ledger's, and every step is, under the invariants above, one of its steps or a stutter; each action by itself |
| **`Server_proofs`** | | any limit and grain; any users, buffers and sizes; any calls, checks, services, starts |
| `LimiterTypes`, `RateIsBounded` | `LimiterTypeOK`, `RateBounded` | what the worst interval took beyond what it earned, and what the next `Allow` will find, are together at most a bucket |
| `BuffersAreClean` | `BuffersCleanAndAlone` | `MemoryInv`: a buffer that was not put back is in use and in one user's hands; who holds a dirty one is writing to it; the counter is the number of users between the count up and the count down |
| `OnlyCallersEndIt` | `EndsOnlyByCallers` | `GrpcInv`: whoever registers too late was preceded by a `Start`, and each way to serve needs one; the task queue and the health checker's channel are open as long as their owner is running, and `Stop` closes them only then, so that the one panic left is a request that meets the nil handler |
| **`Client_proofs`** | | any goroutines, services, finite set of addresses, limit; any lists without repetition |
| `PoolOwns`, `CacheAnswersOpen` | `PoolOwnsConnections`, `CachedConnectionUsable` | nothing but `Close` closes, and a connection a dial is about to cache is in the pool; the bound on the pool's size by cardinality |
| `LoadIsShared` | `SharesLoad` | one invariant per balancer. Round robin and weighted: those before the index have had one call more than those after it (`GoesRound`), and an index that a longer list left behind is reduced before use. Least connections: connections are those of the start plus the calls given, and the least was chosen |
| **`ShardedCache_proofs`** | | any goroutines, finite set of keys, capacity |
| `CapacityHolds` | `ShardWithinCapacity` | `NewestIsCandidate`: the item just inserted is older than the time the scan starts from, and no `Get` under way holds it, so that the scan cannot end without a victim however many items are touched meanwhile |
| `EvictionIsLRU` | `QuietEvictionIsLRU` | `ScanInv`: while nobody touches an item, the one the scan holds was used before all it has seen, and before the time it compares with; only `evictOldest` gives the lock back with a victim gone |
| **`Toolkit_proofs`** | | breaker: any callers, threshold above zero, timeout; any services, sizes, keys, values, subjects, groups, lines |
| `BreakerTypes`, `ClosedMeansFewFailures`, `ProbesWaitForTimeout` | `TypeOK`, `ClosedBelowThreshold`, `HalfOpenAfterTimeout` | their conjunction is inductive: a failure recorded late resets the clock and, above the threshold, the state |
| `PoolListsWhatIsOpen` | `ListedConnectionsOpen` | `PoolInv`: pools belong to one service and share no connection, and what has not been created is in none; the clean-up visits services whose pools it cannot lose, since it holds `acp.mu` |
| `ProgramIsTold` | `CallbacksCaughtUp` | `ReloadInv`: at each step of the watcher, which keys the program knows in the configuration and which in the backup it compares with |
| `MessagesHandledOnce` | `HandledOnceThenAcked` | `QueueInv`: an active subscription is the one its key names, hence the only one for its subject and group; a message waits for, is with or was handled by at most one subscription of a subject and group (`Has`) |
| `RotationsKeepLines` | `RotationKeepsLines` | `FileInv`: the writer's size and what failed writes left (`spilt`) are together at least the file's length, so that a line is only appended where it fits but for that; a rename moves the lines of the file to a backup (`RenameKeeps`) |
| **`EtcdWatch_proofs`** | | any watches, names and changes |
| `WatchTypes`, `ViewsGoForward` | `TypeOK`, `ViewsMoveForward` | `InOrder`: what the consumer has seen, what is in the channel, what the goroutine is sending and what etcd holds are each no older than the one before |
| **`Gateway_proofs`** | | any services, leases, clients, limit, window, instances and updates |
| `LeaseTypes`, `KnownLeasesHold` | `KnownLeaseHoldsKey` | leases are numbered as they are granted, so that a new one is neither renewed nor holds a key; with the types, which say as much, the property is inductive |
| `BucketTypes`, `EveryClientIsBounded` | `ClientRateBounded` | as for the server's bucket, for each client; a bucket that is forgotten would have been full, which is what the two windows are for |
| `ManagerOwnsConnections`, `IndexStaysInRange` | `NoConnectionLeaks`, `IndexInRange` | services share no connection (`Apart`), and what `Start` has not come to has no connection and no goroutine (`Untouched`) |
| `ConnectionsTakeTurns` | `RequestsAreShared` | `SharedInv`: the connections before the index have been handed out once more than those from it on (`InTurn`); occurrences in a sequence are counted by a lemma about `Append` |
| `HandlersHaveClients` | `RequestsHaveClients` | `ProcessInv`: the server listens only when the manager is up, and `main` comes to stop it only when the server is shut and its handlers are gone |
| **`Requests_proofs`** | | any requests in finite number, names, customers, statuses, width of integers, limit of pages |
| `NamesAreUnique` | `UniqueUnlessRenamed` | each step of a request adds a user, adds a further row to one, drops users or leaves the table alone (`UserChange`); the one that adds a user looks for the name under the same lock, and one that renames in MySQL is refused by the index. `UserData` bounds the users by the creations answered |
| `ObjectsAreValid` | `ObjectsStayValid` | every row a table ever has is valid (`OrderRow`, `UsersStayComplete`): a creation was validated, an order's new status when its update comes to the repository (`UpdatesChecked`), and in memory an update fills in what the request left out |
| `AnswersAreFresh` | `AnswersFresh` | `UserFresh`, `OrderFresh`: a reply not yet answered is a row of the object at or after the one noted at the start; rows only accumulate, so that it stays one. A gateway that gave up answers no 200 |
| `OverflowsAloneCrash` | `OverflowAloneCrashes` | arithmetic of `PageBounds`: without overflow both bounds of the slice are cut to the list |
| `NothingComesBack` | `DeletedStaysDeleted` | an action property: the only step that adds an ID to the map takes the next one |

Assumptions on constants. Most say that sizes are natural numbers, that what is counted is
finite, and that "none" is no other value. Four say something about the code's
environment:

* `RequestsAreFew` (`GatewayCalls`): there are fewer objects than half of the integers that
  count them, 2^30 in the code. `OverflowsAloneCrash` needs it: beyond it the offset
  and the size of a page that is within the list could have a sum that overflows.
* `PeersListedOnce` (`Client`): a list of addresses has none twice. A list with an address
  twice gives it two calls where others get one, which is what the code does.
* `MemoryConstants` (`MemoryPool`): lengths asked for are not negative.
* `ThresholdAssumption` (`CircuitBreaker`): a breaker with threshold 0 is never closed.

Only model-checked: liveness under fairness and the properties that need it
(`AskersAdmitted`, `ChecksRunUntilStop`, `DrainsAndEnds`, `ReportingCallersRecover`,
`ConfigFollowsFile`, `StaleCopiesExpire`, `GoneServicesDisappear`, `DeadLeaseForgotten`,
`WatchersEnd`, `SignalEndsProcess`, `LaterChangesSeen`, `CancelledWatchEnds`), which are out of
the prover's reach, and `VersionsHonoured`, whose second half is about what the recursive
`Scan` finds for every order of a map. Every other property of a passing run is a
theorem. `FallbackCache` has no safety property, `ProgramStart` only the one that is violated.

## 5. Not modelled

* The client's chains of interceptors: the code of the server's, used by no program.
* Nacos (`pkg/registry/nacos.go`) beyond its constructor: it fails for every address, so
  that no program reaches the other methods.
* Authentication handlers and token signing: computations without state that call no
  service; CORS, recovery and logging middleware: no state that is read back.
* Logging formats and levels, metrics, spans: observation. `RotatingFile` has what the
  logger keeps; `ProgramStart` what creating them may fail of.
* The database wrapper and the typed cache wrapper: one call of a library each. The
  PostgreSQL repository: mostly stubs.
* `pkg/governance`, `internal/middleware`: wiring around third-party libraries that no
  program uses; generated protobuf code, test helpers.
* In what is modelled: fields of users and orders other than those named, keyword and
  status filters, formatting of addresses and numbers.
