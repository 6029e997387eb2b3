------------------------------ MODULE ClientDial ------------------------------
(***************************************************************************)
(* Client.DialService of pkg/client/client.go with the parts it goes       *)
(* through: the connection cache, the circuit breaker, service discovery   *)
(* and the connection pool; and Client.Close, which DialService takes no   *)
(* lock against. Concurrent dials interleave between the locks of the      *)
(* parts: each of their methods is one step, cache.Get two when it meets   *)
(* an expired entry (the read lock is released before the entry is         *)
(* deleted under the write lock).                                          *)
(*                                                                         *)
(* The registry is external: Discover fails, finds nothing or lists the    *)
(* current instances. Ages of cache entries count ticks up to TTL + 1.     *)
(***************************************************************************)
EXTENDS CircuitBreaker, Sequences, FiniteSets

CONSTANTS
  Dialer,       \* goroutines calling DialService
  Service,      \* service names
  Addr,         \* instance addresses
  Listing,      \* lists of addresses Discover may return
  MaxConns,     \* opts.MaxConnections
  TTL,          \* opts.CacheTTL in ticks
  MaxFailures,  \* bound: failures recorded
  MaxCreated,   \* bound: connections created
  None          \* no address, no connection, no cache entry

ASSUME AddrAssumption == IsFiniteSet(Addr)
ASSUME MaxConnsAssumption == MaxConns \in Nat
ASSUME TTLAssumption == TTL \in Nat
ASSUME ListingAssumption == Listing \subseteq Seq(Addr) \ {<<>>}
ASSUME BoundsAssumption == MaxFailures \in Nat /\ MaxCreated \in Nat
ASSUME NoneAssumption == None \notin Addr /\ None \notin Nat

Conn == 1..MaxCreated

VARIABLES
  pc,        \* Dialer -> next step of DialService
  svc,       \* Dialer -> its serviceName
  addr,      \* Dialer -> addresses[0]
  conn,      \* Dialer -> the connection it got from the pool
  listing,   \* Service -> instances registered now
  pool,      \* Addr -> cp.conns, None where the map has no entry
  cache,     \* Service -> connection and age of the entry, or None
  created,   \* connections created so far; they are numbered
  endpoint,  \* Conn -> the address it was dialled to
  open,      \* connections not closed yet
  down       \* Close has been called

vars == <<cbVars, pc, svc, addr, conn, listing, pool, cache, created, endpoint,
          open, down>>

Entry == [conn : Conn, age : 0..TTL + 1]
Steps == {"idle", "lookup", "evict", "check", "discover", "get", "fail", "set"}

TypeOK ==
  /\ BreakerTypeOK /\ failureCount <= MaxFailures
  /\ pc \in [Dialer -> Steps]
  /\ svc \in [Dialer -> Service]
  /\ addr \in [Dialer -> Addr \cup {None}]
  /\ conn \in [Dialer -> Conn \cup {None}]
  /\ listing \in [Service -> Listing]
  /\ pool \in [Addr -> Conn \cup {None}]
  /\ cache \in [Service -> Entry \cup {None}]
  /\ created \in 0..MaxCreated
  /\ endpoint \in [1..created -> Addr]
  /\ open \in SUBSET (1..created)
  /\ down \in BOOLEAN

Init ==
  /\ BreakerInit
  /\ pc = [d \in Dialer |-> "idle"]
  /\ svc \in [Dialer -> Service]
  /\ addr = [d \in Dialer |-> None]
  /\ conn = [d \in Dialer |-> None]
  /\ listing \in [Service -> Listing]
  /\ pool = [a \in Addr |-> None]
  /\ cache = [s \in Service |-> None]
  /\ created = 0 /\ endpoint = <<>> /\ open = {}
  /\ down = FALSE

\* Bound: dials on their way to RecordFailure count as failures already.
FailuresLeft ==
  failureCount + Cardinality({d \in Dialer : pc[d] = "fail"}) < MaxFailures

Goto(d, step) == pc' = [pc EXCEPT ![d] = step]
Expired(entry) == entry.age > TTL

(***************************************************************************)
(* DialService, step by step                                               *)
(***************************************************************************)

\* Callers start no dial on a client they know to be closed.
DialService(d, s) ==
  /\ pc[d] = "idle" /\ ~down
  /\ svc' = [svc EXCEPT ![d] = s]
  /\ addr' = [addr EXCEPT ![d] = None]
  /\ conn' = [conn EXCEPT ![d] = None]
  /\ Goto(d, "lookup")
  /\ UNCHANGED <<cbVars, listing, pool, cache, created, endpoint, open, down>>

\* cache.Get: a live entry ends the dial, an expired one is to be deleted.
CacheGet(d) ==
  LET entry == cache[svc[d]] IN
  /\ pc[d] = "lookup"
  /\ \/ entry = None /\ Goto(d, "check") /\ UNCHANGED conn
     \/ entry # None /\ Expired(entry) /\ Goto(d, "evict") /\ UNCHANGED conn
     \/ /\ entry # None /\ ~Expired(entry)
        /\ Goto(d, "idle")
        /\ conn' = [conn EXCEPT ![d] = entry.conn]
  /\ UNCHANGED <<cbVars, svc, addr, listing, pool, cache, created, endpoint,
                 open, down>>

\* The delete does not look again: it may hit an entry stored meanwhile.
CacheEvict(d) ==
  /\ pc[d] = "evict"
  /\ cache' = [cache EXCEPT ![svc[d]] = None]
  /\ Goto(d, "check")
  /\ UNCHANGED <<cbVars, svc, addr, conn, listing, pool, created, endpoint,
                 open, down>>

BreakerCheck(d) ==
  /\ pc[d] = "check"
  /\ \/ IsAllowed /\ Goto(d, "discover")
     \/ IsRefused /\ Goto(d, "idle")
  /\ UNCHANGED <<svc, addr, conn, listing, pool, cache, created, endpoint,
                 open, down>>

\* Discover fails or finds no instance, or the first listed one is used.
Discover(d) ==
  LET s == svc[d] IN
  /\ pc[d] = "discover"
  /\ \/ /\ FailuresLeft
        /\ Goto(d, "fail")
        /\ UNCHANGED addr
     \/ /\ Goto(d, "get")
        /\ addr' = [addr EXCEPT ![d] = Head(listing[s])]
  /\ UNCHANGED <<cbVars, svc, conn, listing, pool, cache, created, endpoint,
                 open, down>>

PoolSize == Cardinality({a \in Addr : pool[a] # None})

\* Mutant: the pool dials without looking for an existing connection.
GetConnectionNoReuse(d) ==
  LET a == addr[d] IN
  /\ pc[d] = "get"
  /\ PoolSize < MaxConns \/ pool[a] # None
  /\ created < MaxCreated
  /\ created' = created + 1
  /\ endpoint' = Append(endpoint, a)
  /\ open' = open \cup {created'}
  /\ pool' = [pool EXCEPT ![a] = created']
  /\ conn' = [conn EXCEPT ![d] = created']
  /\ Goto(d, "set")
  /\ UNCHANGED <<cbVars, svc, addr, listing, cache, down>>

\* Mutant: a full pool closes a connection to make room.
GetConnectionEvicts(d) ==
  LET a == addr[d] IN
  /\ pc[d] = "get"
  /\ pool[a] = None /\ created < MaxCreated
  /\ created' = created + 1
  /\ endpoint' = Append(endpoint, a)
  /\ open' = {created'}
  /\ pool' = [b \in Addr |-> IF b = a THEN created' ELSE None]
  /\ conn' = [conn EXCEPT ![d] = created']
  /\ Goto(d, "set")
  /\ UNCHANGED <<cbVars, svc, addr, listing, cache, down>>

\* ConnectionPool.GetConnection, all of it under the mutex of the pool: reuse,
\* refuse when full, or dial (which may fail) and store.
GetConnection(d) ==
  LET a == addr[d] IN
  /\ pc[d] = "get"
  /\ \/ /\ pool[a] # None
        /\ conn' = [conn EXCEPT ![d] = pool[a]]
        /\ Goto(d, "set")
        /\ UNCHANGED <<pool, created, endpoint, open>>
     \/ /\ pool[a] = None
        /\ FailuresLeft
        /\ Goto(d, "fail")
        /\ UNCHANGED <<conn, pool, created, endpoint, open>>
     \/ /\ pool[a] = None /\ PoolSize < MaxConns
        /\ created < MaxCreated
        /\ created' = created + 1
        /\ endpoint' = Append(endpoint, a)
        /\ open' = open \cup {created'}
        /\ pool' = [pool EXCEPT ![a] = created']
        /\ conn' = [conn EXCEPT ![d] = created']
        /\ Goto(d, "set")
  /\ UNCHANGED <<cbVars, svc, addr, listing, cache, down>>

DialFails(d) ==
  /\ pc[d] = "fail"
  /\ RecordFailure
  /\ Goto(d, "idle")
  /\ UNCHANGED <<svc, addr, conn, listing, pool, cache, created, endpoint,
                 open, down>>

\* cache.Set and the return of the connection. The watcher goroutine started
\* here only feeds the load balancer, which DialService never asks.
CacheSet(d) ==
  /\ pc[d] = "set"
  /\ cache' = [cache EXCEPT ![svc[d]] = [conn |-> conn[d], age |-> 0]]
  /\ Goto(d, "idle")
  /\ UNCHANGED <<cbVars, svc, addr, conn, listing, pool, created, endpoint,
                 open, down>>

(***************************************************************************)
(* Close, the registry and the clock                                       *)
(***************************************************************************)

\* Client.Close empties the pool; the cache keeps its entries and dials under
\* way are not told.
Close ==
  /\ ~down
  /\ down' = TRUE
  /\ open' = open \ {pool[a] : a \in Addr}
  /\ pool' = [a \in Addr |-> None]
  /\ UNCHANGED <<cbVars, pc, svc, addr, conn, listing, cache, created,
                 endpoint>>

RegistryChanges(s, list) ==
  /\ list # listing[s]
  /\ listing' = [listing EXCEPT ![s] = list]
  /\ UNCHANGED <<cbVars, pc, svc, addr, conn, pool, cache, created, endpoint,
                 open, down>>

Tick ==
  /\ BreakerTick
  /\ cache' = [s \in Service |->
                 IF cache[s] = None THEN None
                 ELSE [cache[s] EXCEPT !.age = Older(@, TTL)]]
  /\ UNCHANGED <<cbState, failureCount, pc, svc, addr, conn, listing, pool,
                 created, endpoint, open, down>>

DialStep(d) ==
  \/ CacheGet(d) \/ CacheEvict(d) \/ BreakerCheck(d) \/ Discover(d)
  \/ GetConnection(d) \/ DialFails(d) \/ CacheSet(d)

Next ==
  \/ \E d \in Dialer : DialStep(d) \/ \E s \in Service : DialService(d, s)
  \/ Close
  \/ \E s \in Service, list \in Listing : RegistryChanges(s, list)
  \/ Tick

Spec == Init /\ [][Next]_vars

\* Time passes, dials go on, and callers keep dialling every service.
FairSpec ==
  /\ Spec
  /\ WF_vars(Tick)
  /\ \A d \in Dialer :
       /\ WF_vars(DialStep(d))
       /\ \A s \in Service : SF_vars(DialService(d, s))

(***************************************************************************)
(* Properties                                                              *)
(***************************************************************************)

\* The pool owns every open connection, each under the address it was dialled
\* to and never more than maxConns of them: concurrent first dials of one
\* address cannot leave a second connection behind that no Close would find.
PoolOwnsConnections ==
  /\ open = {pool[a] : a \in Addr} \ {None}
  /\ \A a \in Addr : pool[a] # None => endpoint[pool[a]] = a
  /\ PoolSize <= MaxConns

\* Until the client is closed, what the cache answers with and what a dial is
\* about to return is an open connection, though the cache and the pool share
\* no lock.
CachedConnectionUsable ==
  ~down => /\ \A s \in Service : cache[s] # None => cache[s].conn \in open
           /\ \A d \in Dialer : pc[d] = "set" => conn[d] \in open

\* docs/README_OLD.md: automatic failure detection and recovery. Once dials
\* succeed again the breaker closes again.
BreakerRecovers == cbState # "closed" ~> (cbState = "closed" \/ down)
===============================================================================
