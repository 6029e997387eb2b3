----------------------------- MODULE Client_proofs -----------------------------
(***************************************************************************)
(* The client, for any number of dialling goroutines, services, addresses  *)
(* and lists, and any size of the pool: the pool owns the connections, the *)
(* cache answers with open ones, and the load balancers share calls out.   *)
(* The state of the breaker does not matter: the first part is about the   *)
(* pool, the cache and the dials between them. (The sharded cache has      *)
(* ShardedCache_proofs.)                                                   *)
(***************************************************************************)
EXTENDS Client, SequenceTheorems, FiniteSetTheorems, TLAPS

(***************************************************************************)
(* Dialling: PoolOwnsConnections, CachedConnectionUsable                   *)
(***************************************************************************)

\* What the steps of a dial leave behind for the next: an address before the pool
\* is asked, a connection before the cache is set; connections are numbered.
DialTypeOK ==
  /\ pc \in [Dialer -> Steps]
  /\ svc \in [Dialer -> Service]
  /\ addr \in [Dialer -> Addr \cup {None}]
  /\ conn \in [Dialer -> Nat \cup {None}]
  /\ \A d \in Dialer : pc[d] = "get" => addr[d] \in Addr
  /\ \A d \in Dialer : pc[d] = "set" => conn[d] \in Nat
  /\ listing \in [Service -> Listing]
  /\ down \in BOOLEAN

StoreTypeOK ==
  /\ created \in Nat
  /\ endpoint \in Seq(Addr) /\ Len(endpoint) = created
  /\ open \in SUBSET (1..created)
  /\ pool \in [Addr -> 1..created \cup {None}]
  /\ cache \in [Service -> [conn : Nat, age : Nat] \cup {None}]

DialInv == DialTypeOK /\ StoreTypeOK /\ PoolOwnsConnections /\ CachedConnectionUsable

Pooled == {a \in Addr : pool[a] # None}

\* A pooled connection is open.
LEMMA PooledOpen ==
  ASSUME PoolOwnsConnections, NEW a \in Addr, pool[a] # None
  PROVE  pool[a] \in open
BY DEF PoolOwnsConnections

\* What the pool owns depends on nothing but pool, endpoint and open.
LEMMA PoolUntouched ==
  ASSUME StoreTypeOK, PoolOwnsConnections, UNCHANGED <<pool, created, endpoint, open>>
  PROVE  PoolOwnsConnections'
BY DEF PoolOwnsConnections, PoolSize

(***************************************************************************)
(* The steps of a dial                                                     *)
(***************************************************************************)

\* A new connection under an address that has none.
LEMMA NewConnection ==
  ASSUME DialInv, NEW d \in Dialer, pc[d] = "get", NEW a \in Addr, a = addr[d],
         pool[a] = None, PoolSize < MaxConns, created' = created + 1,
         endpoint' = Append(endpoint, a), open' = open \cup {created'},
         pool' = [pool EXCEPT ![a] = created']
  PROVE  /\ PoolOwnsConnections'
         /\ created' \in Nat /\ endpoint' \in Seq(Addr) /\ Len(endpoint') = created'
         /\ open' \in SUBSET (1..created') /\ pool' \in [Addr -> 1..created' \cup {None}]
<1> USE DEF DialInv, StoreTypeOK
<1>1. /\ endpoint' \in Seq(Addr) /\ Len(endpoint') = created'
      /\ \A i \in 1..created : endpoint'[i] = endpoint[i]
      /\ endpoint'[created'] = a
  BY AppendProperties
<1>2. /\ created' \in Nat /\ created' \notin 1..created /\ created' \in 1..created'
      /\ 1..created \subseteq 1..created' /\ created' # None
  BY NoneAssumption
<1>3. open' \in SUBSET (1..created') /\ pool' \in [Addr -> 1..created' \cup {None}]
  BY <1>2
<1>4. open' = {pool'[b] : b \in Addr} \ {None}
  BY <1>2 DEF PoolOwnsConnections
<1>5. ASSUME NEW b \in Addr, pool'[b] # None
      PROVE  endpoint'[pool'[b]] = b
  BY <1>1, <1>5 DEF PoolOwnsConnections
<1>6. PoolSize' <= MaxConns
  <2>1. Pooled' = Pooled \cup {a} /\ a \notin Pooled
    BY <1>2 DEF Pooled
  <2>2. IsFiniteSet(Pooled)
    BY AddrAssumption, FS_Subset DEF Pooled
  <2>3. Cardinality(Pooled') = Cardinality(Pooled) + 1 /\ Cardinality(Pooled) \in Nat
    BY <2>1, <2>2, FS_AddElement, FS_CardinalityType
  <2> QED
    BY <2>3, MaxConnsAssumption DEF PoolSize, Pooled
<1> QED
  BY <1>1, <1>2, <1>3, <1>4, <1>5, <1>6 DEF PoolOwnsConnections

LEMMA GetConnectionStep ==
  ASSUME DialInv, NEW d \in Dialer, GetConnection(d)
  PROVE  DialInv'
<1> DEFINE a == addr[d]
<1>1. a \in Addr /\ pc[d] = "get" /\ UNCHANGED <<svc, addr, listing, cache, down>>
  BY DEF GetConnection, DialInv, DialTypeOK
<1>2. CASE /\ pool[a] # None /\ conn' = [conn EXCEPT ![d] = pool[a]] /\ Goto(d, "set")
           /\ UNCHANGED <<pool, created, endpoint, open>>
  <2>1. pool[a] \in open /\ pool[a] \in Nat
    BY <1>1, <1>2, PooledOpen DEF DialInv, StoreTypeOK
  <2>2. DialTypeOK'
    BY <1>1, <1>2, <2>1 DEF DialInv, DialTypeOK, Goto, Steps
  <2>3. StoreTypeOK' /\ PoolOwnsConnections'
    BY <1>1, <1>2, PoolUntouched DEF DialInv, StoreTypeOK
  <2>4. CachedConnectionUsable'
    BY <1>1, <1>2, <2>1 DEF DialInv, DialTypeOK, CachedConnectionUsable, Goto
  <2> QED
    BY <2>2, <2>3, <2>4 DEF DialInv
<1>3. CASE Goto(d, "fail") /\ UNCHANGED <<conn, pool, created, endpoint, open>>
  <2>1. DialTypeOK'
    BY <1>1, <1>3 DEF DialInv, DialTypeOK, Goto, Steps
  <2>2. StoreTypeOK' /\ PoolOwnsConnections'
    BY <1>1, <1>3, PoolUntouched DEF DialInv, StoreTypeOK
  <2>3. CachedConnectionUsable'
    BY <1>1, <1>3 DEF DialInv, DialTypeOK, CachedConnectionUsable, Goto
  <2> QED
    BY <2>1, <2>2, <2>3 DEF DialInv
<1>4. CASE /\ pool[a] = None /\ PoolSize < MaxConns /\ created' = created + 1
           /\ endpoint' = Append(endpoint, a) /\ open' = open \cup {created'}
           /\ pool' = [pool EXCEPT ![a] = created']
           /\ conn' = [conn EXCEPT ![d] = created'] /\ Goto(d, "set")
  <2>1. /\ PoolOwnsConnections'
        /\ created' \in Nat /\ endpoint' \in Seq(Addr) /\ Len(endpoint') = created'
        /\ open' \in SUBSET (1..created') /\ pool' \in [Addr -> 1..created' \cup {None}]
    BY <1>1, <1>4, NewConnection
  <2>2. DialTypeOK'
    BY <1>1, <1>4, <2>1 DEF DialInv, DialTypeOK, Goto, Steps
  <2>3. StoreTypeOK'
    BY <1>1, <2>1 DEF DialInv, StoreTypeOK
  <2>4. CachedConnectionUsable'
    BY <1>1, <1>4 DEF DialInv, DialTypeOK, CachedConnectionUsable, Goto
  <2> QED
    BY <2>1, <2>2, <2>3, <2>4 DEF DialInv
<1> QED
  BY <1>2, <1>3, <1>4 DEF GetConnection

\* The other steps of a dial leave the pool alone.
LEMMA OtherDialSteps ==
  ASSUME DialInv, NEW d \in Dialer,
         \/ CacheGet(d) \/ CacheEvict(d) \/ BreakerCheck(d) \/ Discover(d)
         \/ DialFails(d) \/ CacheSet(d)
  PROVE  DialInv'
<1> USE DEF DialInv
<1>1. UNCHANGED <<pool, created, endpoint, open>> /\ UNCHANGED <<svc, listing, down>>
  BY DEF CacheGet, CacheEvict, BreakerCheck, Discover, DialFails, CacheSet
<1>2. PoolOwnsConnections'
  BY <1>1, PoolUntouched
<1>3. CASE CacheGet(d)
  <2>1. DialTypeOK'
    BY <1>3 DEF CacheGet, Goto, DialTypeOK, StoreTypeOK, Steps
  <2>2. StoreTypeOK'
    BY <1>1, <1>3 DEF CacheGet, StoreTypeOK
  <2>3. CachedConnectionUsable'
    BY <1>1, <1>3 DEF CacheGet, Goto, DialTypeOK, CachedConnectionUsable
  <2> QED
    BY <1>2, <2>1, <2>2, <2>3
<1>4. CASE CacheEvict(d)
  <2>1. DialTypeOK'
    BY <1>4 DEF CacheEvict, Goto, DialTypeOK, Steps
  <2>2. StoreTypeOK'
    BY <1>1, <1>4 DEF CacheEvict, StoreTypeOK
  <2>3. CachedConnectionUsable'
    BY <1>1, <1>4 DEF CacheEvict, Goto, DialTypeOK, StoreTypeOK, CachedConnectionUsable
  <2> QED
    BY <1>2, <2>1, <2>2, <2>3
<1>5. CASE BreakerCheck(d) \/ DialFails(d)
  <2>1. DialTypeOK'
    BY <1>5 DEF BreakerCheck, DialFails, Goto, DialTypeOK, Steps
  <2>2. StoreTypeOK'
    BY <1>1, <1>5 DEF BreakerCheck, DialFails, StoreTypeOK
  <2>3. CachedConnectionUsable'
    BY <1>1, <1>5 DEF BreakerCheck, DialFails, Goto, DialTypeOK, CachedConnectionUsable
  <2> QED
    BY <1>2, <2>1, <2>2, <2>3
<1>6. CASE Discover(d)
  <2>1. Head(listing[svc[d]]) \in Addr
    <3>1. listing[svc[d]] \in Seq(Addr) /\ listing[svc[d]] # <<>>
      BY ListingAssumption DEF DialTypeOK
    <3> QED
      BY <3>1, HeadTailProperties
  <2>2. DialTypeOK'
    BY <1>6, <2>1 DEF Discover, Goto, DialTypeOK, Steps
  <2>3. StoreTypeOK'
    BY <1>1, <1>6 DEF Discover, StoreTypeOK
  <2>4. CachedConnectionUsable'
    BY <1>1, <1>6 DEF Discover, Goto, DialTypeOK, CachedConnectionUsable
  <2> QED
    BY <1>2, <2>2, <2>3, <2>4
<1>7. CASE CacheSet(d)
  <2>1. DialTypeOK'
    BY <1>7 DEF CacheSet, Goto, DialTypeOK, Steps
  <2>2. StoreTypeOK'
    BY <1>1, <1>7 DEF CacheSet, StoreTypeOK, DialTypeOK
  <2>3. CachedConnectionUsable'
    BY <1>1, <1>7 DEF CacheSet, Goto, DialTypeOK, StoreTypeOK, CachedConnectionUsable
  <2> QED
    BY <1>2, <2>1, <2>2, <2>3
<1> QED
  BY <1>3, <1>4, <1>5, <1>6, <1>7

(***************************************************************************)
(* Close, the registry, the clock, and the invariant                       *)
(***************************************************************************)
LEMMA CloseStep == ASSUME DialInv, Close PROVE DialInv'
<1> USE DEF DialInv
<1>1. DialTypeOK' /\ StoreTypeOK'
  BY DEF Close, DialTypeOK, StoreTypeOK
<1>2. open' = {} /\ \A a \in Addr : pool'[a] = None
  BY DEF Close, PoolOwnsConnections
<1>3. Pooled' = {}
  BY <1>2 DEF Pooled
<1>4. PoolOwnsConnections'
  BY <1>2, <1>3, FS_EmptySet, MaxConnsAssumption DEF PoolOwnsConnections, PoolSize, Pooled
<1>5. CachedConnectionUsable'
  BY DEF Close, CachedConnectionUsable
<1> QED
  BY <1>1, <1>4, <1>5

LEMMA TickStep == ASSUME DialInv, Tick PROVE DialInv'
<1> USE DEF DialInv
<1>1. UNCHANGED <<pc, svc, addr, conn, listing, pool, created, endpoint, open, down>>
  BY DEF Tick
<1>2. DialTypeOK' /\ PoolOwnsConnections'
  BY <1>1, PoolUntouched DEF DialTypeOK
<1>3. ASSUME NEW s \in Service
      PROVE  /\ cache'[s] \in [conn : Nat, age : Nat] \cup {None}
             /\ cache'[s] # None => cache[s] # None /\ cache'[s].conn = cache[s].conn
  <2>1. cache'[s] = IF cache[s] = None THEN None
                    ELSE [cache[s] EXCEPT !.age = Older(@, TTL)]
    BY DEF Tick
  <2>2. CASE cache[s] = None
    BY <2>1, <2>2
  <2>3. CASE cache[s] # None
    <3>1. cache[s] \in [conn : Nat, age : Nat]
      BY <2>3 DEF StoreTypeOK
    <3>2. Older(cache[s].age, TTL) \in Nat
      BY <3>1, TTLAssumption DEF Older
    <3> QED
      BY <2>1, <2>3, <3>1, <3>2
  <2> QED
    BY <2>2, <2>3
<1>4. StoreTypeOK'
  BY <1>1, <1>3 DEF StoreTypeOK, Tick
<1>5. CachedConnectionUsable'
  BY <1>1, <1>3 DEF CachedConnectionUsable
<1> QED
  BY <1>2, <1>4, <1>5

LEMMA DialInvHolds == Spec => []DialInv
<1>1. Init => DialInv
  <2> SUFFICES ASSUME Init PROVE DialInv
    OBVIOUS
  <2>1. DialTypeOK
    BY DEF Init, DialTypeOK, Steps
  <2>2. StoreTypeOK
    BY EmptySeq DEF Init, StoreTypeOK
  <2>3. Pooled = {}
    BY DEF Init, Pooled
  <2>4. PoolSize = 0
    <3>1. PoolSize = Cardinality({})
      BY <2>3 DEF PoolSize, Pooled
    <3> QED
      BY <3>1, FS_EmptySet
  <2>5. PoolOwnsConnections
    BY <2>4, MaxConnsAssumption DEF Init, PoolOwnsConnections
  <2>6. CachedConnectionUsable
    BY DEF Init, CachedConnectionUsable
  <2> QED
    BY <2>1, <2>2, <2>5, <2>6 DEF DialInv
<1>2. DialInv /\ [Next]_vars => DialInv'
  <2> SUFFICES ASSUME DialInv, [Next]_vars PROVE DialInv'
    OBVIOUS
  <2>1. ASSUME NEW d \in Dialer, DialStep(d) PROVE DialInv'
    BY <2>1, GetConnectionStep, OtherDialSteps DEF DialStep
  <2>2. ASSUME NEW d \in Dialer, NEW s \in Service, DialService(d, s) PROVE DialInv'
    <3>1. DialTypeOK'
      BY <2>2 DEF DialService, Goto, DialInv, DialTypeOK, Steps
    <3>2. StoreTypeOK' /\ PoolOwnsConnections'
      BY <2>2, PoolUntouched DEF DialService, DialInv, StoreTypeOK
    <3>3. CachedConnectionUsable'
      BY <2>2 DEF DialService, Goto, DialInv, DialTypeOK, CachedConnectionUsable
    <3> QED
      BY <3>1, <3>2, <3>3 DEF DialInv
  <2>3. ASSUME NEW s \in Service, NEW listed \in Listing, RegistryChanges(s, listed)
        PROVE  DialInv'
    <3>1. DialTypeOK'
      BY <2>3 DEF RegistryChanges, DialInv, DialTypeOK
    <3>2. StoreTypeOK' /\ PoolOwnsConnections'
      BY <2>3, PoolUntouched DEF RegistryChanges, DialInv, StoreTypeOK
    <3>3. CachedConnectionUsable'
      BY <2>3 DEF RegistryChanges, DialInv, CachedConnectionUsable
    <3> QED
      BY <3>1, <3>2, <3>3 DEF DialInv
  <2>4. CASE UNCHANGED vars
    <3>1. DialTypeOK' /\ StoreTypeOK' /\ PoolOwnsConnections'
      BY <2>4, PoolUntouched DEF vars, DialInv, DialTypeOK, StoreTypeOK
    <3>2. CachedConnectionUsable'
      BY <2>4 DEF vars, DialInv, CachedConnectionUsable
    <3> QED
      BY <3>1, <3>2 DEF DialInv
  <2> QED
    BY <2>1, <2>2, <2>3, <2>4, CloseStep, TickStep DEF Next
<1> QED
  BY <1>1, <1>2, PTL DEF Spec

\* Concurrent dials and Close leave no open connection that the pool does not own,
\* none under an address it was not dialled to, and no more than maxConns
\* (ConnectionPool.GetConnection).
THEOREM PoolOwns == Spec => []PoolOwnsConnections
<1>1. DialInv => PoolOwnsConnections
  BY DEF DialInv
<1> QED
  BY <1>1, DialInvHolds, PTL

\* Until Close, what the cache answers with and a dial is about to return is open,
\* though cache and pool share no lock (Client.DialService).
THEOREM CacheAnswersOpen == Spec => []CachedConnectionUsable
<1>1. DialInv => CachedConnectionUsable
  BY DEF DialInv
<1> QED
  BY <1>1, DialInvHolds, PTL

(***************************************************************************)
(* The load balancers: SharesLoad                                          *)
(***************************************************************************)

\* The addresses after base, up to next, are ahead: they were given one call more.
IsAhead(i, base, next) ==
  IF base <= next THEN base <= i /\ i < next ELSE base <= i \/ i < next

\* Calls go round the list from base on, and next is next.
GoesRound(list, next, counts) ==
  \E base \in 0..(Len(list) - 1), rounds \in Nat : \A i \in 0..(Len(list) - 1) :
    counts[list[i + 1]] = rounds + (IF IsAhead(i, base, next) THEN 1 ELSE 0)

Once(list) == \A i, j \in 1..Len(list) : list[i] = list[j] => i = j

\* The index may be beyond a list that has become shorter only where it is taken modulo
\* its length before it is used.
BalancerTypes ==
  /\ kind \in {"round_robin", "weighted_round_robin", "least_connections"}
  /\ addresses \in Seq(Peer) /\ Once(addresses)
  /\ current \in Nat
  /\ connections \in [Peer -> Nat] /\ served \in [Peer -> Nat] /\ before \in [Peer -> Nat]
RoundRobinInv ==
  kind = "round_robin" /\ addresses # <<>> =>
    /\ \A i \in 1..Len(addresses) : addresses[i] \in health
    /\ current < Len(addresses) /\ GoesRound(addresses, current, served)
WeightedInv ==
  kind = "weighted_round_robin" /\ addresses # <<>> =>
    GoesRound(addresses, (current + 1) % Len(addresses), served)
LeastInv ==
  kind = "least_connections" =>
    \A i \in 1..Len(addresses) :
      /\ connections[addresses[i]] = before[addresses[i]] + served[addresses[i]]
      /\ \A j \in 1..Len(addresses) :
           served[addresses[i]] > served[addresses[j]] + 1 =>
             before[addresses[i]] < before[addresses[j]]
BalancerInv == BalancerTypes /\ RoundRobinInv /\ WeightedInv /\ LeastInv

LEMMA Wraps ==
  ASSUME NEW n \in Nat \ {0}, NEW i \in 0..n
  PROVE  i % n = IF i = n THEN 0 ELSE i
OBVIOUS

LEMMA RoundBegins ==
  ASSUME NEW list \in Seq(Peer), NEW next \in 0..(Len(list) - 1), NEW counts,
         \A a \in Peer : counts[a] = 0
  PROVE  GoesRound(list, next, counts)
<1>1. \A i \in 0..(Len(list) - 1) : list[i + 1] \in Peer /\ ~IsAhead(i, next, next)
  BY DEF IsAhead
<1>2. \A i \in 0..(Len(list) - 1) :
        counts[list[i + 1]] = 0 + (IF IsAhead(i, next, next) THEN 1 ELSE 0)
  BY <1>1
<1> QED
  BY <1>2 DEF GoesRound

\* When the round comes back to where it began, all are equal again.
LEMMA RoundGoesOn ==
  ASSUME NEW list \in Seq(Peer), Once(list), NEW next \in 0..(Len(list) - 1),
         NEW counts \in [Peer -> Nat], GoesRound(list, next, counts)
  PROVE  GoesRound(list, (next + 1) % Len(list), [counts EXCEPT ![list[next + 1]] = @ + 1])
<1> DEFINE n == Len(list)  last == n - 1  new == [counts EXCEPT ![list[next + 1]] = @ + 1]
           after == (next + 1) % n
<1>1. n \in Nat \ {0} /\ next \in 0..(n - 1)
  OBVIOUS
<1>2. after = IF next + 1 = n THEN 0 ELSE next + 1
  <2> HIDE DEF n
  <2>1. next + 1 \in 0..n
    BY <1>1
  <2> QED
    BY <1>1, <2>1, Wraps
<1>3. PICK base \in 0..(n - 1), rounds \in Nat : \A i \in 0..(n - 1) :
        counts[list[i + 1]] = rounds + (IF IsAhead(i, base, next) THEN 1 ELSE 0)
  BY DEF GoesRound
<1>4. \A i \in 0..(n - 1) :
        new[list[i + 1]] = IF i = next THEN counts[list[i + 1]] + 1 ELSE counts[list[i + 1]]
  <2>1. \A i \in 0..(n - 1) : i + 1 \in 1..n /\ list[i + 1] \in Peer
    OBVIOUS
  <2>2. \A i \in 0..(n - 1) : list[i + 1] = list[next + 1] => i = next
    BY <1>1, <2>1 DEF Once
  <2> QED
    BY <1>1, <2>1, <2>2
<1> HIDE DEF n, new, after
<1>5. after \in 0..(n - 1) /\ \A i \in 0..(n - 1) : new[list[i + 1]] =
        IF i = next \/ IsAhead(i, base, next) THEN rounds + 1 ELSE rounds
  <2>1. ~IsAhead(next, base, next)
    BY <1>1 DEF IsAhead
  <2>2. after \in 0..(n - 1)
    BY <1>1, <1>2
  <2> SUFFICES ASSUME NEW i \in 0..(n - 1)
               PROVE  new[list[i + 1]] =
                        IF i = next \/ IsAhead(i, base, next) THEN rounds + 1 ELSE rounds
    BY <2>2
  <2> QED
    BY <1>3, <1>4, <2>1
<1>6. CASE after = base
  <2>1. ASSUME NEW i \in 0..(n - 1)
        PROVE  (i = next \/ IsAhead(i, base, next)) /\ ~IsAhead(i, base, after)
    BY <1>1, <1>2, <1>6, <2>1 DEF IsAhead
  <2>2. \A i \in 0..(n - 1) :
          new[list[i + 1]] = (rounds + 1) + (IF IsAhead(i, base, after) THEN 1 ELSE 0)
    BY <1>5, <2>1
  <2>3. rounds + 1 \in Nat
    OBVIOUS
  <2>4. GoesRound(list, after, new)
    BY <2>2, <2>3 DEF GoesRound, n
  <2> QED
    BY <2>4 DEF n, new, after
<1>7. CASE after # base
  <2>1. ASSUME NEW i \in 0..(n - 1)
        PROVE  (i = next \/ IsAhead(i, base, next)) <=> IsAhead(i, base, after)
    BY <1>1, <1>2, <1>7, <2>1 DEF IsAhead
  <2>2. \A i \in 0..(n - 1) :
          new[list[i + 1]] = rounds + (IF IsAhead(i, base, after) THEN 1 ELSE 0)
    BY <1>5, <2>1
  <2>3. GoesRound(list, after, new)
    BY <2>2 DEF GoesRound, n
  <2> QED
    BY <2>3 DEF n, new, after
<1> QED
  BY <1>6, <1>7

LEMMA RoundShares ==
  ASSUME NEW list \in Seq(Peer), NEW next, NEW counts, GoesRound(list, next, counts),
         NEW i \in 1..Len(list), NEW j \in 1..Len(list)
  PROVE  ~(counts[list[i]] > counts[list[j]] + 1)
<1>1. PICK base \in 0..(Len(list) - 1), rounds \in Nat : \A k \in 0..(Len(list) - 1) :
        counts[list[k + 1]] = rounds + (IF IsAhead(k, base, next) THEN 1 ELSE 0)
  BY DEF GoesRound
<1>2. ASSUME NEW m \in 1..Len(list) PROVE counts[list[m]] \in rounds..(rounds + 1)
  <2>1. PICK k \in 0..(Len(list) - 1) : k + 1 = m
    <3>1. m - 1 \in 0..(Len(list) - 1) /\ (m - 1) + 1 = m
      OBVIOUS
    <3> QED
      BY <3>1
  <2>2. counts[list[m]] = rounds + (IF IsAhead(k, base, next) THEN 1 ELSE 0)
    BY <1>1, <2>1
  <2> QED
    BY <2>2
<1>3. counts[list[i]] \in rounds..(rounds + 1) /\ counts[list[j]] \in rounds..(rounds + 1)
  BY <1>2
<1> QED
  BY <1>3

\* The one that answers gets one call more.
LEMMA ServedCounts ==
  ASSUME BalancerInv, NEW i \in 1..Len(addresses), Balancer!Serve(addresses[i])
  PROVE  /\ addresses[i] \in Peer
         /\ served' = [served EXCEPT ![addresses[i]] = @ + 1]
         /\ served' \in [Peer -> Nat]
         /\ UNCHANGED <<kind, addresses, health, before>>
BY SMTT(30) DEF BalancerInv, BalancerTypes, Balancer!Serve

LEMMA RoundRobinStep ==
  ASSUME BalancerInv, Balancer!RoundRobinNext
  PROVE  BalancerInv'
<1> DEFINE n == Len(addresses)
<1>1. kind = "round_robin" /\ n \in Nat \ {0} /\ addresses # <<>>
  BY DEF Balancer!RoundRobinNext, Balancer!Size, BalancerInv, BalancerTypes
<1>2. /\ \A i \in 1..n : addresses[i] \in health
      /\ current \in 0..(n - 1) /\ GoesRound(addresses, current, served)
  BY <1>1 DEF BalancerInv, BalancerTypes, RoundRobinInv
<1>3. PICK i \in 0..(n - 1) :
        /\ \A j \in 0..(i - 1) : addresses[((current + j) % n) + 1] \notin health
        /\ current' = (((current + i) % n) + 1) % n
        /\ Balancer!Serve(addresses[((current + i) % n) + 1])
  BY DEF Balancer!RoundRobinNext, Balancer!Size, Balancer!At
<1>4. (current + 0) % n = current
  <2> HIDE DEF n
  <2> QED
    BY <1>1, <1>2, Wraps
\* Every address of the list is healthy, so that the first is taken.
<1>5. i = 0
  <2> SUFFICES ASSUME i # 0 PROVE FALSE
    OBVIOUS
  <2>1. 0 \in 0..(i - 1)
    BY <1>1, <1>3
  <2>2. addresses[current + 1] \notin health
    BY <1>3, <1>4, <2>1
  <2> QED
    BY <1>2, <2>2
<1>6. current' = (current + 1) % n /\ Balancer!Serve(addresses[current + 1])
  BY <1>3, <1>4, <1>5
<1>7. current + 1 \in 1..n /\ current' \in 0..(n - 1)
  <2> HIDE DEF n
  <2> QED
    BY <1>1, <1>2, <1>6, Wraps
<1>8. /\ served' = [served EXCEPT ![addresses[current + 1]] = @ + 1]
      /\ served' \in [Peer -> Nat]
      /\ UNCHANGED <<kind, addresses, health, before, connections>>
  BY <1>6, <1>7, ServedCounts DEF Balancer!RoundRobinNext
<1>9. GoesRound(addresses, current', served')
  BY <1>2, <1>6, <1>8, RoundGoesOn DEF BalancerInv, BalancerTypes
<1>10. current' \in Nat /\ current' < n
  <2> HIDE DEF n
  <2> QED
    BY <1>1, <1>7
<1>11. BalancerTypes'
  BY <1>8, <1>10 DEF BalancerInv, BalancerTypes, Once
<1>12. RoundRobinInv'
  BY <1>2, <1>8, <1>9, <1>10 DEF RoundRobinInv
<1>13. WeightedInv' /\ LeastInv'
  BY <1>1, <1>8 DEF WeightedInv, LeastInv
<1> QED
  BY <1>11, <1>12, <1>13 DEF BalancerInv

LEMMA WeightedStep ==
  ASSUME BalancerInv, Balancer!WeightedNext
  PROVE  BalancerInv'
<1> DEFINE n == Len(addresses)
<1>1. kind = "weighted_round_robin" /\ n \in Nat \ {0} /\ addresses # <<>> /\ current \in Nat
  BY DEF Balancer!WeightedNext, Balancer!Size, BalancerInv, BalancerTypes
<1>2. /\ current' = (current + 1) % n /\ UNCHANGED connections
      /\ Balancer!Serve(addresses[current' + 1])
  BY DEF Balancer!WeightedNext, Balancer!Size, Balancer!At
<1>3. current' \in 0..(n - 1)
  <2> HIDE DEF n
  <2> QED
    BY <1>1, <1>2
<1>4. current' + 1 \in 1..n /\ current' \in Nat
  <2>1. PICK k \in 0..(n - 1) : k = current'
    BY <1>3
  <2>2. k + 1 \in 1..n /\ k \in Nat
    OBVIOUS
  <2> QED
    BY <2>1, <2>2
<1>5. /\ served' = [served EXCEPT ![addresses[current' + 1]] = @ + 1]
      /\ served' \in [Peer -> Nat]
      /\ UNCHANGED <<kind, addresses, health, before>>
  BY <1>2, <1>4, ServedCounts
<1>6. GoesRound(addresses, current', served)
  BY <1>1, <1>2 DEF BalancerInv, WeightedInv
<1>7. GoesRound(addresses, (current' + 1) % n, served')
  BY <1>3, <1>5, <1>6, RoundGoesOn DEF BalancerInv, BalancerTypes
<1>8. BalancerTypes'
  BY <1>2, <1>4, <1>5 DEF BalancerInv, BalancerTypes, Once
<1>9. WeightedInv'
  BY <1>5, <1>7 DEF WeightedInv
<1>10. RoundRobinInv' /\ LeastInv'
  BY <1>1, <1>5 DEF RoundRobinInv, LeastInv
<1> QED
  BY <1>8, <1>9, <1>10 DEF BalancerInv

LEMMA LeastStep ==
  ASSUME BalancerInv, Balancer!LeastNext
  PROVE  BalancerInv'
<1>1. kind = "least_connections" /\ addresses \in Seq(Peer)
  BY DEF Balancer!LeastNext, BalancerInv, BalancerTypes
<1>2. Balancer!Listed = {addresses[i] : i \in 1..Len(addresses)}
  BY <1>1 DEF Balancer!Listed, Balancer!ToSet
<1>3. PICK k \in 1..Len(addresses) :
        /\ \A i \in 1..Len(addresses) : connections[addresses[k]] <= connections[addresses[i]]
        /\ connections' = [connections EXCEPT ![addresses[k]] = @ + 1]
        /\ Balancer!Serve(addresses[k]) /\ UNCHANGED current
  BY <1>2 DEF Balancer!LeastNext
<1> DEFINE a == addresses[k]
<1>4. /\ a \in Peer /\ served' = [served EXCEPT ![a] = @ + 1]
      /\ served' \in [Peer -> Nat]
      /\ UNCHANGED <<kind, addresses, health, before>>
  BY <1>3, ServedCounts
<1>5. \A i \in 1..Len(addresses) : addresses[i] \in Peer
  BY <1>1
<1>6. /\ connections' = [connections EXCEPT ![a] = @ + 1]
      /\ \A i \in 1..Len(addresses) : connections[a] <= connections[addresses[i]]
  BY <1>3
<1> HIDE DEF a
<1>7. /\ connections' \in [Peer -> Nat]
      /\ \A b \in Peer : served'[b] = IF b = a THEN served[b] + 1 ELSE served[b]
      /\ \A b \in Peer : connections'[b] = IF b = a THEN connections[b] + 1 ELSE connections[b]
  BY SMTT(30), <1>4, <1>6 DEF BalancerInv, BalancerTypes
<1>8. \A b \in Peer : served[b] \in Nat /\ before[b] \in Nat /\ connections[b] \in Nat
  BY DEF BalancerInv, BalancerTypes
<1>9. ASSUME NEW i \in 1..Len(addresses)
      PROVE  connections'[addresses[i]] = before'[addresses[i]] + served'[addresses[i]]
  <2>1. connections[addresses[i]] = before[addresses[i]] + served[addresses[i]]
    BY <1>1 DEF BalancerInv, LeastInv
  <2>2. PICK b \in Peer : b = addresses[i]
    BY <1>5
  <2>3. connections'[b] = before[b] + served'[b]
    <3>1. connections[b] = before[b] + served[b]
      BY <2>1, <2>2
    <3>2. /\ served'[b] = IF b = a THEN served[b] + 1 ELSE served[b]
          /\ connections'[b] = IF b = a THEN connections[b] + 1 ELSE connections[b]
      BY <1>7
    <3>3. served[b] \in Nat /\ before[b] \in Nat
      BY <1>8
    <3> QED
      BY <3>1, <3>2, <3>3
  <2> QED
    BY <1>4, <2>2, <2>3
\* The one that is taken has no more connections than the others.
<1>10. ASSUME NEW i \in 1..Len(addresses), NEW j \in 1..Len(addresses),
              served'[addresses[i]] > served'[addresses[j]] + 1
       PROVE  before'[addresses[i]] < before'[addresses[j]]
  <2>1. PICK b \in Peer, c \in Peer : b = addresses[i] /\ c = addresses[j]
    BY <1>5
  <2>2. /\ connections[b] = before[b] + served[b] /\ connections[c] = before[c] + served[c]
        /\ connections[a] <= connections[c]
        /\ served[b] > served[c] + 1 => before[b] < before[c]
    BY <1>1, <1>6, <2>1 DEF BalancerInv, LeastInv
  <2>3. served'[b] > served'[c] + 1
    BY <1>10, <2>1
  <2>4. before[b] < before[c]
    <3>1. CASE b = a
      <4>1. served'[b] = served[b] + 1 /\ served'[c] \in {served[c], served[c] + 1}
        BY <1>7, <3>1
      <4>2. served[b] > served[c]
        BY <1>8, <2>3, <4>1
      <4>3. before[b] + served[b] <= before[c] + served[c]
        BY <2>2, <3>1
      <4> QED
        BY <1>8, <4>2, <4>3
    <3>2. CASE b # a
      <4>1. served'[b] = served[b] /\ served'[c] \in {served[c], served[c] + 1}
        BY <1>7, <3>2
      <4> QED
        BY SMTT(30), <1>8, <2>2, <2>3, <4>1
    <3> QED
      BY <3>1, <3>2
  <2> QED
    BY <1>4, <2>1, <2>4
<1>11. BalancerTypes'
  BY <1>3, <1>4, <1>7 DEF BalancerInv, BalancerTypes, Once
<1>12. LeastInv'
  BY <1>4, <1>9, <1>10 DEF LeastInv
<1>13. RoundRobinInv' /\ WeightedInv'
  BY <1>1, <1>4 DEF RoundRobinInv, WeightedInv
<1> QED
  BY <1>11, <1>12, <1>13 DEF BalancerInv

LEMMA UpdateStep ==
  ASSUME BalancerInv, NEW list \in PeerListing, Balancer!WatchServiceChanges(list)
  PROVE  BalancerInv'
<1>1. list \in Seq(Peer) /\ Once(list)
  BY PeersListedOnce DEF Once
<1>2. addresses' = list /\ kind' = kind
  BY DEF Balancer!WatchServiceChanges
<1>3. /\ served' = [p \in Peer |-> 0] /\ served' \in [Peer -> Nat]
      /\ \A p \in Peer : served'[p] = 0
  BY DEF Balancer!WatchServiceChanges, Balancer!RoundRobinUpdate, Balancer!WeightedUpdate,
     Balancer!LeastUpdate, Balancer!Counting, Balancer!Zero
<1>4. \A next \in 0..(Len(list) - 1) : GoesRound(list, next, served')
  BY <1>1, <1>3, RoundBegins
<1>5. list # <<>> => Len(list) \in Nat \ {0}
  BY <1>1
<1>6. \A i \in 1..Len(list) : list[i] \in Peer
  BY <1>1
<1>7. [p \in Peer |-> 0] \in [Peer -> Nat]
  OBVIOUS
<1>8. CASE Balancer!RoundRobinUpdate(list)
  <2>1. /\ kind = "round_robin" /\ UNCHANGED connections /\ before' = [p \in Peer |-> 0]
        /\ current' = IF current >= Len(list) THEN 0 ELSE current
    BY <1>8 DEF Balancer!RoundRobinUpdate, Balancer!Counting, Balancer!Zero
  <2>2. \A i \in 1..Len(list) : list[i] \in health'
    BY <1>1, <1>8 DEF Balancer!RoundRobinUpdate, Balancer!ToSet
  <2>3. current' \in Nat /\ (list # <<>> => current' \in 0..(Len(list) - 1))
    BY <1>5, <2>1 DEF BalancerInv, BalancerTypes, RoundRobinInv, WeightedInv, LeastInv
  <2>4. list # <<>> => current' < Len(list) /\ GoesRound(list, current', served')
    BY <1>4, <1>5, <2>3
  <2> QED
    BY <1>1, <1>2, <1>3, <1>7, <2>1, <2>2, <2>3, <2>4 DEF BalancerInv, BalancerTypes, RoundRobinInv, WeightedInv, LeastInv
<1>9. CASE Balancer!WeightedUpdate(list)
  <2>1. kind = "weighted_round_robin" /\ UNCHANGED <<connections, current>>
        /\ before' = [p \in Peer |-> 0]
    BY <1>9 DEF Balancer!WeightedUpdate, Balancer!Counting, Balancer!Zero
  <2>2. list # <<>> => (current + 1) % Len(list) \in 0..(Len(list) - 1)
    BY <1>5 DEF BalancerInv, BalancerTypes, RoundRobinInv, WeightedInv, LeastInv
  <2>3. list # <<>> => GoesRound(list, (current' + 1) % Len(list), served')
    BY <1>4, <2>1, <2>2
  <2> QED
    BY <1>1, <1>2, <1>3, <1>7, <2>1, <2>3 DEF BalancerInv, BalancerTypes, RoundRobinInv, WeightedInv, LeastInv
<1>10. CASE Balancer!LeastUpdate(list)
  <2>1. kind = "least_connections" /\ UNCHANGED current /\ before' = connections'
    BY <1>10 DEF Balancer!LeastUpdate, Balancer!Counting
  <2>2. connections' \in [Peer -> Nat]
    BY <1>10 DEF Balancer!LeastUpdate, BalancerInv, BalancerTypes
  <2>3. \A i \in 1..Len(list) : connections'[list[i]] = before'[list[i]] + served'[list[i]]
    BY <1>3, <1>6, <2>1, <2>2
  <2>4. \A i, j \in 1..Len(list) : ~(served'[list[i]] > served'[list[j]] + 1)
    BY <1>3, <1>6
  <2> QED
    BY <1>1, <1>2, <1>3, <2>1, <2>2, <2>3, <2>4 DEF BalancerInv, BalancerTypes, RoundRobinInv, WeightedInv, LeastInv
<1> QED
  BY <1>8, <1>9, <1>10 DEF Balancer!WatchServiceChanges

LEMMA BalancerStep == BalancerInv /\ [Balancer!Next]_balancerVars => BalancerInv'
<1>1. BalancerInv /\ UNCHANGED balancerVars => BalancerInv'
  BY DEF BalancerInv, BalancerTypes, RoundRobinInv, WeightedInv, LeastInv, balancerVars, Once
<1> QED
  BY <1>1, RoundRobinStep, WeightedStep, LeastStep, UpdateStep DEF Balancer!Next

LEMMA BalancerShares == BalancerInv => SharesLoad
<1> SUFFICES ASSUME BalancerInv, NEW a \in Balancer!Healthy, NEW b \in Balancer!Healthy,
                    served[a] > served[b] + 1
             PROVE  before[a] < before[b]
  BY DEF SharesLoad, Balancer!SharesLoad
<1>0. addresses \in Seq(Peer)
  BY DEF BalancerInv, BalancerTypes
<1>1. Balancer!Listed = {addresses[i] : i \in 1..Len(addresses)}
  BY <1>0 DEF Balancer!Listed, Balancer!ToSet
<1>2. Balancer!Healthy \subseteq Balancer!Listed
  BY DEF Balancer!Healthy, Balancer!RoundRobinHealthy, Balancer!WeightedHealthy,
     Balancer!LeastHealthy, BalancerInv, BalancerTypes
<1>3. PICK i, j \in 1..Len(addresses) : a = addresses[i] /\ b = addresses[j]
  BY <1>1, <1>2
<1>4. addresses # <<>> /\ addresses \in Seq(Peer)
  BY <1>3 DEF BalancerInv, BalancerTypes, RoundRobinInv, WeightedInv, LeastInv
<1>5. CASE kind = "least_connections"
  BY <1>3, <1>5 DEF BalancerInv, BalancerTypes, RoundRobinInv, WeightedInv, LeastInv
<1>6. CASE kind # "least_connections"
  <2>1. \E next : GoesRound(addresses, next, served)
    BY <1>4, <1>6 DEF BalancerInv, BalancerTypes, RoundRobinInv, WeightedInv, LeastInv
  <2> QED
    BY <1>3, <1>4, <2>1, RoundShares
<1> QED
  BY <1>5, <1>6

(***************************************************************************)
(* The whole                                                               *)
(***************************************************************************)

\* Whatever part is observed, the others stand still: every behaviour of the client is one
\* of its dials and of its sharded cache, so that what is proved of these holds in it.
THEOREM PartsOfClient == ClientSpec => Spec /\ ShardSpec
<1>1. ClientInit => Init /\ ShardInit
  BY DEF ClientInit
<1>2. [ClientNext]_clientVars => [Next]_vars /\ [ShardNext]_shardVars
  BY DEF ClientNext, DialPart, ShardPart, BalancerPart, clientVars
<1> QED
  BY <1>1, <1>2, PTL DEF ClientSpec, Spec, ShardSpec

\* Between two lists no address is given more than one call ahead of another, except by
\* least_connections to one that had fewer connections when the list came; whatever
\* index a longer list left behind (the load balancers' Next and UpdateAddresses).
THEOREM LoadIsShared == ClientSpec => []SharesLoad
<1>1. ClientInit => BalancerInv
  <2> SUFFICES ASSUME ClientInit PROVE BalancerInv
    OBVIOUS
  <2>1. /\ kind \in {"round_robin", "weighted_round_robin", "least_connections"}
        /\ addresses = <<>> /\ current = 0 /\ connections = [p \in Peer |-> 0]
        /\ served = [p \in Peer |-> 0] /\ before = [p \in Peer |-> 0]
    BY DEF ClientInit, Balancer!Init, Balancer!Kinds, Balancer!Zero
  <2>2. addresses \in Seq(Peer) /\ Len(addresses) = 0
    BY <2>1
  <2> QED
    BY <2>1, <2>2 DEF BalancerInv, BalancerTypes, RoundRobinInv, WeightedInv, LeastInv, Once
<1>2. [ClientNext]_clientVars => [Balancer!Next]_balancerVars
  BY DEF ClientNext, DialPart, ShardPart, BalancerPart, clientVars
<1> QED
  BY <1>1, <1>2, BalancerStep, BalancerShares, PTL DEF ClientSpec
===============================================================================
