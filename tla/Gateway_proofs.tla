----------------------------- MODULE Gateway_proofs -----------------------------
(***************************************************************************)
(* Around the requests of the gateway, for every number of services,       *)
(* instances, leases and clients and every limit: the registry remembers   *)
(* the lease that keeps a service in etcd, no client takes more than its   *)
(* share, the client manager leaks no connection and shares requests out,  *)
(* and no handler runs without it. A part of the gateway is proved about   *)
(* on its own; the last section takes the results to the whole.            *)
(***************************************************************************)
EXTENDS Gateway, FiniteSetTheorems, TLAPS

(***************************************************************************)
(* Leases in etcd: KnownLeaseHoldsKey                                      *)
(***************************************************************************)

\* Leases are numbered as they are granted, so that a new one is neither renewed
\* nor holds a key; with that the property is inductive.
LeaseInv == TypeOK /\ KnownLeaseHoldsKey

\* A new lease is one of the numbers, and nothing is known of it yet.
LEMMA NewLease ==
  ASSUME TypeOK, Grant
  PROVE  /\ granted' \in Lease /\ granted' \notin live
         /\ granted \in Nat /\ granted' = granted + 1
         /\ renewing[granted'] = "no"
         /\ \A s \in Service : holder[s] # granted'
BY LeaseConstants DEF TypeOK, Grant, Lease

\* Dropping leases leaves the keys that hang on others, and no others.
LEMMA DropKeeps ==
  ASSUME TypeOK, NEW dead, Drop(dead)
  PROVE  /\ live' \in SUBSET (1..granted)
         /\ holder' \in [Service -> live' \cup {None}]
         /\ \A s \in Service : holder'[s] \in {holder[s], None}
BY DEF TypeOK, Drop

LEMMA TypeStep == TypeOK /\ [Next]_vars => TypeOK'
<1> SUFFICES ASSUME TypeOK, [Next]_vars PROVE TypeOK'
  OBVIOUS
<1> USE LeaseConstants DEF Lease
<1>1. ASSUME NEW s \in Service, Register(s) PROVE TypeOK'
  <2>1. Grant
    BY <1>1 DEF Register
  <2>2. /\ granted' \in Lease /\ granted' \in Nat /\ granted < granted'
        /\ 1..granted \subseteq 1..granted' /\ granted' \in 1..granted' /\ granted' <= MaxLeases
    BY <2>1, NewLease
  <2>3. live' \in SUBSET (1..granted') /\ holder' \in [Service -> live' \cup {None}]
    BY <1>1, <2>2 DEF Register, TypeOK
  <2>4. leases' \in [Service -> 1..granted' \cup {None}] /\ gone' \in SUBSET Service
    BY <1>1, <2>2 DEF Register, TypeOK
  <2>5. /\ renewing' \in [Lease -> {"no", "starting", "on", "ended"}]
        /\ owner' \in [Lease -> Service \cup {None}]
    BY <1>1, <2>2 DEF Register, TypeOK
  <2>6. ASSUME NEW l \in Lease, renewing'[l] # "no"
        PROVE  l <= granted' /\ owner'[l] # None
    <3>1. CASE l = granted'
      BY <1>1, <2>2, <3>1 DEF Register, TypeOK
    <3>2. CASE l # granted'
      <4>1. renewing'[l] = renewing[l] /\ owner'[l] = owner[l]
        BY <1>1, <3>2 DEF Register, TypeOK
      <4>2. l <= granted /\ owner[l] # None /\ granted \in Nat
        BY <2>6, <4>1 DEF TypeOK
      <4> QED
        BY <2>2, <4>1, <4>2
    <3> QED
      BY <3>1, <3>2
  <2> HIDE DEF Lease
  <2> QED
    BY <1>1, <2>2, <2>3, <2>4, <2>5, <2>6 DEF Register, TypeOK
<1>2. ASSUME NEW s \in Service, RegisterPutFails(s) PROVE TypeOK'
  <2>1. Grant
    BY <1>2 DEF RegisterPutFails
  <2>2. /\ granted' \in Lease /\ granted' \in Nat /\ granted < granted'
        /\ 1..granted \subseteq 1..granted' /\ granted' \in 1..granted' /\ granted' <= MaxLeases
    BY <2>1, NewLease
  <2>3. live' \in SUBSET (1..granted') /\ holder' \in [Service -> live' \cup {None}]
    BY <1>2, <2>2 DEF RegisterPutFails, TypeOK
  <2>4. leases' \in [Service -> 1..granted' \cup {None}] /\ gone' \in SUBSET Service
    BY <1>2, <2>2 DEF RegisterPutFails, TypeOK
  <2>5. ASSUME NEW l \in Lease, renewing'[l] # "no"
        PROVE  l <= granted' /\ owner'[l] # None
    <3>1. renewing[l] # "no" /\ l # granted' /\ granted \in Nat
      BY <1>2, <2>1, <2>5, NewLease DEF RegisterPutFails
    <3>2. l <= granted /\ owner[l] # None /\ owner'[l] = owner[l]
      BY <1>2, <3>1 DEF RegisterPutFails, TypeOK
    <3> QED
      BY <2>2, <3>1, <3>2
  <2>6. owner' \in [Lease -> Service \cup {None}]
    BY <1>2, <2>2 DEF RegisterPutFails, TypeOK
  <2> HIDE DEF Lease
  <2> QED
    BY <1>2, <2>2, <2>3, <2>4, <2>5, <2>6 DEF RegisterPutFails, TypeOK
<1>3. ASSUME NEW s \in Service, Deregister(s) PROVE TypeOK'
  <2>1. /\ live' \in SUBSET (1..granted)
        /\ holder' \in [Service -> live' \cup {None}]
    BY <1>3, DropKeeps DEF Deregister, TypeOK
  <2> QED
    BY <1>3, <2>1 DEF Deregister, TypeOK
<1>4. ASSUME NEW s \in Service, DeregisterFails(s) PROVE TypeOK'
  <2>1. /\ live' \in SUBSET (1..granted)
        /\ holder' \in [Service -> live' \cup {None}]
    BY <1>4, DropKeeps DEF DeregisterFails
  <2> QED
    BY <1>4, <2>1 DEF DeregisterFails, TypeOK
<1>5. ASSUME NEW l \in Lease, KeepAliveStarts(l) PROVE TypeOK'
  BY <1>5 DEF KeepAliveStarts, TypeOK
<1>6. ASSUME NEW l \in Lease, KeepAliveFails(l) PROVE TypeOK'
  BY <1>6 DEF KeepAliveFails, TypeOK
<1>7. ASSUME NEW l \in Lease, KeepAliveEnds(l) PROVE TypeOK'
  BY <1>7 DEF KeepAliveEnds, TypeOK
<1>8. ASSUME NEW l \in Lease, KeepAliveCleanup(l) PROVE TypeOK'
  BY <1>8 DEF KeepAliveCleanup, TypeOK
<1>9. ASSUME NEW l \in Lease, LeaseExpires(l) PROVE TypeOK'
  <2>1. /\ live' \in SUBSET (1..granted)
        /\ holder' \in [Service -> live' \cup {None}]
    BY <1>9, DropKeeps DEF LeaseExpires
  <2> QED
    BY <1>9, <2>1 DEF LeaseExpires, TypeOK
<1>10. CASE Close
  <2>1. /\ live' \in SUBSET (1..granted)
        /\ holder' \in [Service -> live' \cup {None}]
    BY <1>10, DropKeeps DEF Close
  <2> QED
    BY <1>10, <2>1 DEF Close, TypeOK
<1>11. CASE Crash
  BY <1>11 DEF Crash, TypeOK
<1>12. CASE UNCHANGED vars
  BY <1>12 DEF vars, TypeOK
<1> QED
  BY <1>1, <1>2, <1>3, <1>4, <1>5, <1>6, <1>7, <1>8, <1>9, <1>10, <1>11, <1>12 DEF Next

LEMMA KnownLeaseStep == LeaseInv /\ [Next]_vars => KnownLeaseHoldsKey'
<1> SUFFICES ASSUME LeaseInv, [Next]_vars PROVE KnownLeaseHoldsKey'
  OBVIOUS
<1> SUFFICES ASSUME NEW s \in Service, holder'[s] # None, leases'[s] # None
             PROVE  holder'[s] = leases'[s] \/ renewing'[holder'[s]] = "no"
  BY DEF KnownLeaseHoldsKey
<1>1. TypeOK /\ holder[s] \in Lease \cup {None}
  <2>1. TypeOK
    BY DEF LeaseInv
  <2>2. 1..granted \subseteq Lease
    BY <2>1, LeaseConstants DEF TypeOK, Lease
  <2> QED
    BY <2>1, <2>2 DEF TypeOK
<1>2. holder[s] # None /\ leases[s] # None =>
        holder[s] = leases[s] \/ renewing[holder[s]] = "no"
  BY DEF LeaseInv, KnownLeaseHoldsKey
<1>3. ASSUME NEW r \in Service, Register(r)
      PROVE  holder'[s] = leases'[s] \/ renewing'[holder'[s]] = "no"
  <2>1. Grant
    BY <1>3 DEF Register
  <2>2. CASE r = s
    BY <1>1, <1>3, <2>2 DEF Register, TypeOK
  <2>3. CASE r # s
    BY <1>1, <1>2, <1>3, <2>1, <2>3, NewLease DEF Register, TypeOK
  <2> QED
    BY <2>2, <2>3
<1>4. ASSUME NEW r \in Service, RegisterPutFails(r)
      PROVE  holder'[s] = leases'[s] \/ renewing'[holder'[s]] = "no"
  <2>1. Grant
    BY <1>4 DEF RegisterPutFails
  <2>2. holder'[s] \in {holder[s], granted'}
    BY <1>1, <1>4 DEF RegisterPutFails, TypeOK
  <2> QED
    BY <1>1, <1>2, <1>4, <2>1, <2>2, NewLease DEF RegisterPutFails
<1>5. ASSUME NEW r \in Service, Deregister(r) \/ DeregisterFails(r)
      PROVE  holder'[s] = leases'[s] \/ renewing'[holder'[s]] = "no"
  <2>1. holder'[s] = holder[s]
    BY <1>1, <1>5, DropKeeps DEF Deregister, DeregisterFails
  <2>2. leases'[s] = leases[s] /\ renewing' = renewing
    BY <1>1, <1>5 DEF Deregister, DeregisterFails, TypeOK
  <2> QED
    BY <1>2, <2>1, <2>2
<1>6. ASSUME NEW l \in Lease,
             KeepAliveStarts(l) \/ KeepAliveFails(l) \/ KeepAliveEnds(l)
      PROVE  holder'[s] = leases'[s] \/ renewing'[holder'[s]] = "no"
  BY <1>1, <1>2, <1>6 DEF KeepAliveStarts, KeepAliveFails, KeepAliveEnds, TypeOK
<1>7. ASSUME NEW l \in Lease, KeepAliveCleanup(l)
      PROVE  holder'[s] = leases'[s] \/ renewing'[holder'[s]] = "no"
  BY <1>1, <1>2, <1>7 DEF KeepAliveCleanup, TypeOK
<1>8. ASSUME NEW l \in Lease, LeaseExpires(l)
      PROVE  holder'[s] = leases'[s] \/ renewing'[holder'[s]] = "no"
  <2>1. holder'[s] = holder[s]
    BY <1>1, <1>8, DropKeeps DEF LeaseExpires
  <2> QED
    BY <1>2, <1>8, <2>1 DEF LeaseExpires
<1>9. CASE Close \/ Crash
  BY <1>9 DEF Close, Crash
<1>10. CASE UNCHANGED vars
  BY <1>2, <1>10 DEF vars
<1> QED
  BY <1>3, <1>4, <1>5, <1>6, <1>7, <1>8, <1>9, <1>10 DEF Next

LEMMA LeaseInvHolds == Spec => []LeaseInv
<1>1. Init => LeaseInv
  BY LeaseConstants DEF Init, LeaseInv, TypeOK, KnownLeaseHoldsKey, Lease
<1>2. LeaseInv /\ [Next]_vars => LeaseInv'
  BY TypeStep, KnownLeaseStep DEF LeaseInv
<1> QED
  BY <1>1, <1>2, PTL DEF Spec

\* A key in etcd hangs on a lease etcd holds, and every goroutine that renews
\* belongs to a lease that was granted and to a service (keepAlive).
THEOREM LeaseTypes == Spec => []TypeOK
<1>1. LeaseInv => TypeOK
  BY DEF LeaseInv
<1> QED
  BY <1>1, LeaseInvHolds, PTL

\* However often services are registered again, Puts and Revokes fail and leases
\* expire, the lease that the registry remembers is the one the key hangs on, or
\* one that nobody renews is (Register, Deregister, keepAlive).
THEOREM KnownLeasesHold == Spec => []KnownLeaseHoldsKey
<1>1. LeaseInv => KnownLeaseHoldsKey
  BY DEF LeaseInv
<1> QED
  BY <1>1, LeaseInvHolds, PTL

(***************************************************************************)
(* The limiter: ClientRateBounded                                          *)
(***************************************************************************)

\* What the bucket of a client holds, known or forgotten, if it is refilled now.
Level(p) == Min({tokens[p] + lastRefill[p] * Limit, BucketSize})

\* What a client took too much is missing in its bucket; one without a bucket,
\* which will start with a full one, has taken nothing too much.
PeerInv(p) ==
  /\ passed[p] + Level(p) <= BucketSize
  /\ p \notin known => passed[p] = 0

BucketsInv == LimiterTypeOK /\ \A p \in Peer : PeerInv(p)

(***************************************************************************)
(* Arithmetic                                                              *)
(***************************************************************************)
LEMMA MinOfTwo ==
  ASSUME NEW a \in Int, NEW b \in Int
  PROVE  Min({a, b}) = IF a <= b THEN a ELSE b
<1> DEFINE m == IF a <= b THEN a ELSE b
<1>1. m \in {a, b} /\ \A y \in {a, b} : m <= y
  OBVIOUS
<1>2. \A x \in {a, b} : (\A y \in {a, b} : x <= y) => x = m
  OBVIOUS
<1> QED
  BY <1>1, <1>2 DEF Min

LEMMA MaxOfTwo ==
  ASSUME NEW a \in Int, NEW b \in Int
  PROVE  Max({a, b}) = IF a >= b THEN a ELSE b
<1> DEFINE m == IF a >= b THEN a ELSE b
<1>1. m \in {a, b} /\ \A y \in {a, b} : m >= y
  OBVIOUS
<1>2. \A x \in {a, b} : (\A y \in {a, b} : x >= y) => x = m
  OBVIOUS
<1> QED
  BY <1>1, <1>2 DEF Max

\* A window and more fills a bucket; until then every tick adds Limit.
LEMMA Refilling ==
  /\ BucketSize \in Nat /\ MaxAge \in Nat /\ Window <= MaxAge /\ Window <= BucketSize
  /\ \A age \in Nat : age * Limit \in Nat /\ (age + 1) * Limit = age * Limit + Limit
  /\ \A age \in Nat : age >= Window => age * Limit >= BucketSize
<1> USE GatewayLimiterAssumption
<1>1. BucketSize \in Nat /\ Window <= BucketSize
  BY DEF BucketSize
<1>2. MaxAge \in Nat /\ Window <= MaxAge
  BY DEF MaxAge, CleanupInterval
<1>3. ASSUME NEW age \in Nat
      PROVE  age * Limit \in Nat /\ (age + 1) * Limit = age * Limit + Limit
  OBVIOUS
<1>4. ASSUME NEW age \in Nat, age >= Window
      PROVE  age * Limit >= BucketSize
  <2>1. PICK more \in Nat : age = Window + more
    BY <1>4
  <2>2. age * Limit = Limit * Window + more * Limit /\ more * Limit >= 0
    BY <2>1
  <2> QED
    BY <2>2 DEF BucketSize
<1> QED
  BY <1>1, <1>2, <1>3, <1>4

\* The level of a bucket, without the operators on sets.
LEMMA LevelIs ==
  ASSUME NEW t \in Nat, NEW age \in Nat
  PROVE  /\ Min({t + age * Limit, BucketSize}) =
              IF t + age * Limit <= BucketSize THEN t + age * Limit ELSE BucketSize
         /\ Min({t + age * Limit, BucketSize}) \in 0..BucketSize
<1>1. age * Limit \in Nat /\ BucketSize \in Nat
  BY Refilling
<1> QED
  BY <1>1, MinOfTwo

(***************************************************************************)
(* The steps                                                               *)
(***************************************************************************)

\* Allow refills the bucket to its level: a forgotten client's bucket was full.
LEMMA RefilledIsLevel ==
  ASSUME BucketsInv, NEW p \in Peer
  PROVE  /\ Refilled(p) \in 0..BucketSize
         /\ passed[p] + Refilled(p) <= BucketSize
<1>1. Level(p) \in 0..BucketSize /\ passed[p] \in Nat /\ BucketSize \in Nat
  <2>1. /\ BucketSize \in Nat /\ passed[p] \in Nat
        /\ tokens[p] \in Nat /\ lastRefill[p] \in Nat
    BY Refilling DEF BucketsInv, LimiterTypeOK
  <2> QED
    BY <2>1, LevelIs DEF Level
<1>2. CASE p \in known \ Forgotten
  BY <1>1, <1>2 DEF Refilled, Level, BucketsInv, PeerInv
<1>3. CASE p \in Forgotten
  <2>1. lastRefill[p] \in Nat /\ lastRefill[p] >= Window /\ tokens[p] \in Nat
    BY <1>3, GatewayLimiterAssumption DEF Forgotten, Cutoff, BucketsInv, LimiterTypeOK
  <2>2. Level(p) = BucketSize
    <3>1. lastRefill[p] * Limit \in Nat /\ lastRefill[p] * Limit >= BucketSize
      BY <2>1, Refilling
    <3>2. Level(p) = IF tokens[p] + lastRefill[p] * Limit <= BucketSize
                     THEN tokens[p] + lastRefill[p] * Limit ELSE BucketSize
      BY <2>1, LevelIs DEF Level
    <3> QED
      BY <1>1, <2>1, <3>1, <3>2
  <2> QED
    BY <1>1, <1>3, <2>2 DEF Refilled, BucketsInv, PeerInv
<1>4. CASE p \notin known
  BY <1>1, <1>4 DEF Refilled, BucketsInv, PeerInv
<1> QED
  BY <1>2, <1>3, <1>4

LEMMA AllowStep ==
  ASSUME BucketsInv, NEW p \in Peer, Allow(p)
  PROVE  BucketsInv'
<1> DEFINE cost == IF Admitted(p) THEN Window ELSE 0
<1>1. /\ Refilled(p) \in 0..BucketSize /\ passed[p] + Refilled(p) <= BucketSize
      /\ BucketSize \in Nat /\ MaxAge \in Nat
  BY RefilledIsLevel, Refilling
<1>2. cost \in Nat /\ cost <= Refilled(p)
  BY <1>1, GatewayLimiterAssumption DEF Admitted
<1>3. LimiterTypeOK'
  BY <1>1, <1>2 DEF Allow, BucketsInv, LimiterTypeOK
<1>4. ASSUME NEW q \in Peer PROVE PeerInv(q)'
  <2>1. CASE q = p
    <3>1. /\ tokens'[q] = Refilled(p) - cost /\ lastRefill'[q] = 0
          /\ passed'[q] = passed[p] + cost /\ q \in known'
      BY <2>1 DEF Allow, BucketsInv, LimiterTypeOK
    <3>2. Level(q)' = Min({Refilled(p) - cost, BucketSize})
      <4>1. 0 * Limit = 0 /\ Refilled(p) - cost + 0 = Refilled(p) - cost
        BY <1>1, <1>2, GatewayLimiterAssumption
      <4> QED
        BY <3>1, <4>1 DEF Level
    <3>3. Level(q)' = Refilled(p) - cost
      BY <3>2, <1>1, <1>2, MinOfTwo
    <3> QED
      BY <3>1, <3>3, <1>1, <1>2 DEF PeerInv, BucketsInv, LimiterTypeOK
  <2>2. CASE q # p
    <3>1. /\ tokens'[q] = tokens[q] /\ lastRefill'[q] = lastRefill[q]
          /\ passed'[q] = passed[q]
      BY <2>2 DEF Allow, BucketsInv, LimiterTypeOK
    <3>2. Level(q)' = Level(q)
      BY <3>1 DEF Level
    <3>3. q \notin known' => q \notin known \/ q \in Forgotten
      BY DEF Allow
    <3>4. q \in Forgotten => passed[q] = 0
      <4>1. q \in Forgotten => passed[q] + BucketSize <= BucketSize
        BY RefilledIsLevel DEF Refilled
      <4> QED
        BY <4>1, Refilling DEF BucketsInv, LimiterTypeOK
    <3> QED
      BY <3>1, <3>2, <3>3, <3>4 DEF PeerInv, BucketsInv
  <2> QED
    BY <2>1, <2>2
<1> QED
  BY <1>3, <1>4 DEF BucketsInv

\* A tick takes Limit from what was too much, and adds at most as much to the level.
LEMMA TickStep ==
  ASSUME BucketsInv, LimiterTick
  PROVE  BucketsInv'
<1>1. ASSUME NEW age \in 0..MaxAge
      PROVE  Later(age) = IF age < MaxAge THEN age + 1 ELSE age
  <2>1. age + 1 \in Int /\ MaxAge \in Int
    BY Refilling
  <2>2. Later(age) = IF age + 1 <= MaxAge THEN age + 1 ELSE MaxAge
    BY <2>1, MinOfTwo DEF Later
  <2> QED
    BY <2>1, <2>2
<1>2. \A p \in Peer : /\ passed[p] \in Nat
                      /\ passed'[p] = IF passed[p] >= Limit THEN passed[p] - Limit ELSE 0
  BY MaxOfTwo, GatewayLimiterAssumption DEF LimiterTick, BucketsInv, LimiterTypeOK
<1>3. LimiterTypeOK'
  <2>1. \A age \in 0..MaxAge : Later(age) \in 0..MaxAge
    BY <1>1, Refilling
  <2>2. passed' \in [Peer -> Nat]
    BY <1>2, GatewayLimiterAssumption DEF LimiterTick
  <2> QED
    BY <2>1, <2>2 DEF LimiterTick, BucketsInv, LimiterTypeOK
<1>4. ASSUME NEW p \in Peer PROVE PeerInv(p)'
  <2>1. /\ tokens[p] \in Nat /\ lastRefill[p] \in 0..MaxAge /\ tokens'[p] = tokens[p]
        /\ lastRefill'[p] = IF lastRefill[p] < MaxAge THEN lastRefill[p] + 1 ELSE lastRefill[p]
        /\ known' = known
    BY <1>1 DEF LimiterTick, BucketsInv, LimiterTypeOK
  <2>2. PeerInv(p)
    BY DEF BucketsInv
  <2>3. /\ Level(p) \in 0..BucketSize /\ Level(p)' \in 0..BucketSize
        /\ Level(p)' <= Level(p) + Limit
    <3>1. lastRefill[p] * Limit \in Nat /\ lastRefill'[p] * Limit \in Nat
          /\ lastRefill'[p] * Limit <= lastRefill[p] * Limit + Limit
      BY <2>1, Refilling, GatewayLimiterAssumption
    <3>2. lastRefill[p] \in Nat /\ lastRefill'[p] \in Nat /\ BucketSize \in Nat
      BY <2>1, Refilling
    <3>3. /\ Level(p) = IF tokens[p] + lastRefill[p] * Limit <= BucketSize
                        THEN tokens[p] + lastRefill[p] * Limit ELSE BucketSize
          /\ Level(p) \in 0..BucketSize
      BY <2>1, <3>2, LevelIs DEF Level
    <3>4. /\ Level(p)' = IF tokens[p] + lastRefill'[p] * Limit <= BucketSize
                         THEN tokens[p] + lastRefill'[p] * Limit ELSE BucketSize
          /\ Level(p)' \in 0..BucketSize
      BY <2>1, <3>2, LevelIs DEF Level
    <3> HIDE DEF Level
    <3> QED
      BY <2>1, <3>1, <3>2, <3>3, <3>4, GatewayLimiterAssumption
  <2>4. /\ passed[p] \in Nat /\ BucketSize \in Nat
        /\ passed'[p] = IF passed[p] >= Limit THEN passed[p] - Limit ELSE 0
    BY <1>2, Refilling
  <2> QED
    BY <2>1, <2>2, <2>3, <2>4, GatewayLimiterAssumption DEF PeerInv
<1> QED
  BY <1>3, <1>4 DEF BucketsInv

LEMMA BucketsInvHolds == LimiterSpec => []BucketsInv
<1>1. LimiterInit => BucketsInv
  <2> SUFFICES ASSUME LimiterInit PROVE BucketsInv
    OBVIOUS
  <2>1. LimiterTypeOK
    BY Refilling DEF LimiterInit, LimiterTypeOK
  <2>2. ASSUME NEW p \in Peer PROVE PeerInv(p)
    <3>1. tokens[p] = BucketSize /\ lastRefill[p] = 0 /\ passed[p] = 0 /\ BucketSize \in Nat
      BY Refilling DEF LimiterInit
    <3>2. Level(p) <= BucketSize /\ Level(p) \in Nat
      BY <3>1, LevelIs DEF Level
    <3> QED
      BY <3>1, <3>2 DEF PeerInv
  <2> QED
    BY <2>1, <2>2 DEF BucketsInv
<1>2. BucketsInv /\ [LimiterNext]_limiterVars => BucketsInv'
  <2> SUFFICES ASSUME BucketsInv, [LimiterNext]_limiterVars PROVE BucketsInv'
    OBVIOUS
  <2>1. ASSUME NEW p \in Peer, Allow(p) PROVE BucketsInv'
    BY <2>1, AllowStep
  <2>2. CASE LimiterTick
    BY <2>2, TickStep
  <2>3. CASE UNCHANGED limiterVars
    BY <2>3 DEF limiterVars, BucketsInv, LimiterTypeOK, PeerInv, Level
  <2> QED
    BY <2>1, <2>2, <2>3 DEF LimiterNext
<1> QED
  BY <1>1, <1>2, PTL DEF LimiterSpec

\* Every bucket holds between nothing and the limit (RateLimiter.Allow).
THEOREM BucketTypes == LimiterSpec => []LimiterTypeOK
<1>1. BucketsInv => LimiterTypeOK
  BY DEF BucketsInv
<1> QED
  BY <1>1, BucketsInvHolds, PTL

\* No client is ever admitted more than the limit and what time has refilled,
\* although cleanup forgets clients and a forgotten one starts with a full bucket.
THEOREM EveryClientIsBounded == LimiterSpec => []ClientRateBounded
<1>1. BucketsInv => ClientRateBounded
  <2> SUFFICES ASSUME BucketsInv, NEW p \in Peer PROVE passed[p] <= BucketSize
    BY DEF ClientRateBounded
  <2>1. Level(p) \in 0..BucketSize /\ passed[p] \in Nat
    BY LevelIs DEF Level, BucketsInv, LimiterTypeOK
  <2> QED
    BY <2>1, Refilling DEF BucketsInv, PeerInv
<1> QED
  BY <1>1, BucketsInvHolds, PTL

(***************************************************************************)
(* The client manager: NoConnectionLeaks, IndexInRange, RequestsAreShared  *)
(***************************************************************************)

\* The connections the manager holds for a service.
Held(s) == {conns[s][i] : i \in 1..Len(conns[s])}

\* A service Start has not come to has no connection and no goroutine; its
\* goroutine is the last thing Start makes for it.
Untouched ==
  start \in {"init", "watch"} =>
    /\ at \in 1..Len(Services)
    /\ \A i \in at..Len(Services) : watcher[Services[i]] = "none"
    /\ \A i \in at..Len(Services) :
         i > at \/ start = "init" => Held(Services[i]) = {}

ConnTypeOK ==
  /\ dialled \in Nat
  /\ conns \in [ServiceName -> Seq(Nat)]
  /\ idx \in [ServiceName -> Nat] /\ healthy \in [ServiceName -> BOOLEAN]
  /\ watcher \in [ServiceName -> {"none", "select", "update", "ended"}]

\* Numbers of connections are given out once, so two services share none.
Apart ==
  /\ \A s \in ServiceName : Held(s) \subseteq 1..dialled
  /\ \A s, t \in ServiceName : s # t => Held(s) \cap Held(t) = {}

HeldAreOpen == stop = "no" => open = UNION {Held(s) : s \in ServiceName}

ManagerInv == ConnTypeOK /\ Apart /\ Untouched /\ HeldAreOpen /\ IndexInRange

LEMMA ServiceFacts ==
  /\ Len(Services) \in Nat \ {0}
  /\ \A i \in 1..Len(Services) : Services[i] \in ServiceName
  /\ \A i, j \in 1..Len(Services) : Services[i] = Services[j] => i = j
BY ManagerConstants DEF ServiceName, Range, IsInjective

\* After a dial the service holds the new numbers, and the others what they held.
LEMMA DialHeld ==
  ASSUME ConnTypeOK, NEW s \in ServiceName, NEW n \in Nat, NEW closed, Dial(s, n, closed)
  PROVE  /\ Held(s)' = dialled + 1..dialled + n
         /\ \A t \in ServiceName : t # s => Held(t)' = Held(t)
         /\ conns' \in [ServiceName -> Seq(Nat)] /\ Len(conns'[s]) = n
         /\ \A t \in ServiceName : t # s => conns'[t] = conns[t]
<1> DEFINE new == [i \in 1..n |-> dialled + i]
<1>1. new \in Seq(Nat) /\ Len(new) = n /\ \A i \in 1..n : new[i] = dialled + i
  BY DEF ConnTypeOK
<1>2. conns' = [conns EXCEPT ![s] = new]
  BY DEF Dial
<1>3. conns'[s] = new /\ \A t \in ServiceName : t # s => conns'[t] = conns[t]
  BY <1>2 DEF ConnTypeOK
<1>4. conns' \in [ServiceName -> Seq(Nat)]
  BY <1>1, <1>2 DEF ConnTypeOK
<1>5. Held(s)' = {dialled + i : i \in 1..n}
  BY <1>1, <1>3 DEF Held
<1>6. {dialled + i : i \in 1..n} = dialled + 1..dialled + n
  <2>1. ASSUME NEW c \in dialled + 1..dialled + n PROVE \E i \in 1..n : c = dialled + i
    <3>1. c - dialled \in 1..n /\ c = dialled + (c - dialled)
      BY DEF ConnTypeOK
    <3> QED
      BY <3>1
  <2>2. ASSUME NEW i \in 1..n PROVE dialled + i \in dialled + 1..dialled + n
    BY DEF ConnTypeOK
  <2> QED
    BY <2>1, <2>2
<1>7. \A t \in ServiceName : t # s => Held(t)' = Held(t)
  BY <1>3 DEF Held
<1> QED
  BY <1>1, <1>3, <1>4, <1>5, <1>6, <1>7

\* What a dial leaves behind, if the numbers of the service it is for are the ones
\* closed, or if it had none.
LEMMA DialKeeps ==
  ASSUME ConnTypeOK, Apart, HeldAreOpen, IndexInRange,
         NEW s \in ServiceName, NEW n \in Nat, NEW closed, Dial(s, n, closed),
         closed = Held(s), UNCHANGED stop,
         watcher' \in [ServiceName -> {"none", "select", "update", "ended"}]
  PROVE  ConnTypeOK' /\ Apart' /\ HeldAreOpen' /\ IndexInRange'
<1> DEFINE fresh == dialled + 1..dialled + n
<1>1. /\ Held(s)' = fresh /\ \A t \in ServiceName : t # s => Held(t)' = Held(t)
      /\ conns' \in [ServiceName -> Seq(Nat)] /\ Len(conns'[s]) = n
      /\ \A t \in ServiceName : t # s => conns'[t] = conns[t]
  BY DialHeld
<1>2. dialled \in Nat /\ dialled' = dialled + n /\ dialled' \in Nat
  BY DEF Dial, ConnTypeOK
<1>3. ConnTypeOK'
  BY <1>1, <1>2 DEF Dial, ConnTypeOK
<1>4. Apart'
  <2>1. \A t \in ServiceName : Held(t)' \subseteq 1..dialled'
    <3>1. 1..dialled \subseteq 1..dialled' /\ fresh \subseteq 1..dialled'
      BY <1>2
    <3>2. ASSUME NEW t \in ServiceName PROVE Held(t)' \subseteq 1..dialled'
      <4>1. Held(t) \subseteq 1..dialled
        BY DEF Apart
      <4> QED
        BY <1>1, <3>1, <4>1
    <3> QED
      BY <3>2
  <2>2. \A t \in ServiceName : t # s => Held(t)' \cap fresh = {}
    BY <1>1, <1>2 DEF Apart
  <2>3. ASSUME NEW t \in ServiceName, NEW u \in ServiceName, t # u
        PROVE  Held(t)' \cap Held(u)' = {}
    <3>1. CASE t = s
      BY <1>1, <2>2, <2>3, <3>1
    <3>2. CASE u = s
      BY <1>1, <2>2, <2>3, <3>2
    <3>3. CASE t # s /\ u # s
      BY <1>1, <2>3, <3>3 DEF Apart
    <3> QED
      BY <3>1, <3>2, <3>3
  <2> QED
    BY <2>1, <2>3 DEF Apart
<1>5. HeldAreOpen'
  <2> SUFFICES ASSUME stop = "no" PROVE open' = UNION {Held(t)' : t \in ServiceName}
    BY DEF HeldAreOpen
  <2>1. open = UNION {Held(t) : t \in ServiceName}
    BY DEF HeldAreOpen
  <2>2. open' = (open \ Held(s)) \cup fresh
    BY DEF Dial
  <2>3. \A t \in ServiceName : t # s => Held(t) \cap Held(s) = {}
    BY DEF Apart
  <2>4. ASSUME NEW c \in open' PROVE \E t \in ServiceName : c \in Held(t)'
    BY <1>1, <2>1, <2>2, <2>4
  <2>5. ASSUME NEW t \in ServiceName, NEW c \in Held(t)' PROVE c \in open'
    BY <1>1, <2>1, <2>2, <2>3, <2>5
  <2> QED
    BY <2>4, <2>5
<1>6. IndexInRange'
  <2> SUFFICES ASSUME NEW t \in ServiceName, healthy'[t] PROVE idx'[t] < Len(conns'[t])
    BY DEF IndexInRange
  <2>1. CASE t = s
    BY <1>1, <2>1 DEF Dial, ConnTypeOK
  <2>2. CASE t # s
    BY <1>1, <2>2 DEF Dial, ConnTypeOK, IndexInRange
  <2> QED
    BY <2>1, <2>2
<1> QED
  BY <1>3, <1>4, <1>5, <1>6

\* Steps that leave the connections alone.
LEMMA ConnsUntouched ==
  ASSUME ManagerInv, UNCHANGED <<conns, dialled>>
  PROVE  Apart' /\ \A s \in ServiceName : Held(s)' = Held(s)
<1>1. \A s \in ServiceName : Held(s)' = Held(s)
  BY DEF Held
<1> QED
  BY <1>1 DEF ManagerInv, Apart

\* Steps with which Start does not move on, and that touch no service it has not
\* come to.
LEMMA UntouchedStays ==
  ASSUME Untouched, UNCHANGED <<start, at>> \/ start' = "failed",
         \A t \in ServiceName :
           watcher[t] = "none" => Held(t)' = Held(t) /\ watcher'[t] = "none"
  PROVE  Untouched'
<1> SUFFICES ASSUME start' \in {"init", "watch"} PROVE Untouched'
  BY DEF Untouched
<1>1. UNCHANGED <<start, at>> /\ at \in 1..Len(Services)
  BY DEF Untouched
<1>2. ASSUME NEW i \in at..Len(Services)
      PROVE  /\ watcher'[Services[i]] = "none"
             /\ i > at \/ start = "init" => Held(Services[i])' = {}
  <2>1. i \in 1..Len(Services) /\ Services[i] \in ServiceName
    BY <1>1, ServiceFacts
  <2> QED
    BY <1>1, <2>1 DEF Untouched
<1> QED
  BY <1>1, <1>2 DEF Untouched

LEMMA InitServiceClientStep ==
  ASSUME ManagerInv, NEW n \in Nat, InitServiceClient(n)
  PROVE  ManagerInv'
<1> DEFINE s == Services[at]
<1>1. at \in 1..Len(Services) /\ s \in ServiceName
  BY ServiceFacts DEF InitServiceClient, ManagerInv, Untouched
<1>2. Held(s) = {}
  BY <1>1, ServiceFacts DEF InitServiceClient, ManagerInv, Untouched
<1>3. Dial(s, n, Held(s)) /\ UNCHANGED <<stop, watcher>>
  BY <1>2 DEF InitServiceClient
<1>4. ConnTypeOK' /\ Apart' /\ HeldAreOpen' /\ IndexInRange'
  BY <1>1, <1>3, DialKeeps DEF ManagerInv, ConnTypeOK
<1>5. \A t \in ServiceName : t # s => Held(t)' = Held(t)
  BY <1>1, <1>3, DialHeld DEF ManagerInv
<1>6. Untouched'
  <2>1. start = "init" /\ start' = "watch" /\ UNCHANGED <<at, watcher>>
    BY DEF InitServiceClient
  <2>2. ASSUME NEW i \in at..Len(Services)
        PROVE  watcher[Services[i]] = "none" /\ (i > at => Held(Services[i])' = {})
    <3>1. i \in 1..Len(Services) /\ Services[i] \in ServiceName
      BY <1>1, ServiceFacts
    <3>2. i > at => Services[i] # s
      BY <1>1, <3>1, ServiceFacts
    <3>3. watcher[Services[i]] = "none" /\ Held(Services[i]) = {}
      BY <2>1 DEF ManagerInv, Untouched
    <3> QED
      BY <1>5, <3>1, <3>2, <3>3
  <2> QED
    BY <1>1, <2>1, <2>2 DEF Untouched
<1> QED
  BY <1>4, <1>6 DEF ManagerInv

LEMMA UpdateServiceClientStep ==
  ASSUME ManagerInv, NEW s \in ServiceName, NEW n \in Nat,
         UpdateServiceClient(s, n)
  PROVE  ManagerInv'
<1>1. Range(conns[s]) = Held(s)
  BY DEF ManagerInv, ConnTypeOK, Range, Held
<1>2. Dial(s, n, Held(s)) /\ UNCHANGED <<stop, start, at>>
  BY <1>1 DEF UpdateServiceClient
<1>3. watcher' = [watcher EXCEPT ![s] = "select"] /\ watcher[s] = "update"
  BY DEF UpdateServiceClient
<1>4. ConnTypeOK' /\ Apart' /\ HeldAreOpen' /\ IndexInRange'
  BY <1>2, <1>3, DialKeeps DEF ManagerInv, ConnTypeOK
<1>5. \A t \in ServiceName : t # s => Held(t)' = Held(t)
  BY <1>2, DialHeld DEF ManagerInv
<1>6. Untouched'
  BY <1>2, <1>3, <1>5, UntouchedStays DEF ManagerInv, ConnTypeOK
<1> QED
  BY <1>4, <1>6 DEF ManagerInv

LEMMA WatchServiceStep ==
  ASSUME ManagerInv, NEW n \in Nat, WatchService(n)
  PROVE  ManagerInv'
<1>1. UNCHANGED <<stop, conns, idx, healthy, dialled, open>>
  BY DEF WatchService, client
<1>2. at \in 1..Len(Services) /\ Services[at] \in ServiceName
  BY ServiceFacts DEF WatchService, ManagerInv, Untouched
<1>3. Apart' /\ \A s \in ServiceName : Held(s)' = Held(s)
  BY <1>1, ConnsUntouched
<1>4. ConnTypeOK' /\ HeldAreOpen' /\ IndexInRange'
  BY <1>1, <1>2, <1>3
     DEF WatchService, ManagerInv, ConnTypeOK, HeldAreOpen, IndexInRange
<1>5. Untouched'
  <2> SUFFICES ASSUME start' \in {"init", "watch"}
               PROVE  /\ at' \in 1..Len(Services)
                      /\ \A i \in at'..Len(Services) :
                           /\ watcher'[Services[i]] = "none"
                           /\ Held(Services[i])' = {}
    BY DEF Untouched
  <2>1. at' = at + 1 /\ at # Len(Services) /\ start = "watch"
    BY DEF WatchService
  <2>2. at' \in 1..Len(Services)
    BY <1>2, <2>1, ServiceFacts
  <2>3. ASSUME NEW i \in at'..Len(Services)
        PROVE  watcher'[Services[i]] = "none" /\ Held(Services[i])' = {}
    <3>1. i \in at..Len(Services) /\ i > at /\ i \in 1..Len(Services)
      BY <1>2, <2>1, ServiceFacts
    <3>2. Services[i] \in ServiceName /\ Services[i] # Services[at]
      BY <1>2, <3>1, ServiceFacts
    <3>3. watcher[Services[i]] = "none" /\ Held(Services[i]) = {}
      BY <2>1, <3>1 DEF ManagerInv, Untouched
    <3> QED
      BY <1>3, <3>2, <3>3 DEF WatchService, ManagerInv, ConnTypeOK
  <2> QED
    BY <2>2, <2>3
<1> QED
  BY <1>3, <1>4, <1>5 DEF ManagerInv

LEMMA GetServiceClientStep ==
  ASSUME ManagerInv, NEW s \in ServiceName, GetServiceClient(s)
  PROVE  ManagerInv'
<1>1. UNCHANGED <<start, at, stop, conns, healthy, watcher, dialled, open>>
  BY DEF GetServiceClient
<1>2. Apart' /\ \A t \in ServiceName : Held(t)' = Held(t)
  BY <1>1, ConnsUntouched
<1>3. HeldAreOpen' /\ Untouched'
  BY <1>1, <1>2, UntouchedStays DEF ManagerInv, HeldAreOpen
<1>4. Len(conns[s]) \in Nat \ {0} /\ idx[s] \in Nat
  BY DEF GetServiceClient, ManagerInv, ConnTypeOK, IndexInRange
<1>5. (idx[s] + 1) % Len(conns[s]) \in 0..Len(conns[s]) - 1
  BY <1>4
<1>6. idx' = [idx EXCEPT ![s] = (idx[s] + 1) % Len(conns[s])]
  BY DEF GetServiceClient
<1>7. ConnTypeOK'
  BY <1>1, <1>4, <1>5, <1>6 DEF ManagerInv, ConnTypeOK
<1>8. IndexInRange'
  BY <1>1, <1>4, <1>5, <1>6 DEF ManagerInv, ConnTypeOK, IndexInRange
<1> QED
  BY <1>2, <1>3, <1>7, <1>8 DEF ManagerInv

\* Steps of the goroutines, of the registry and of Start and Stop that dial
\* nothing.
LEMMA OtherSteps ==
  ASSUME ManagerInv, NEW s \in ServiceName, NEW n \in Nat,
         \/ StartFails \/ StopSignal \/ StopClose \/ WatchReceive(s)
         \/ WatchStops(s) \/ Publish(s, n) \/ WatchEnds(s) \/ UNCHANGED managerVars
  PROVE  ManagerInv'
<1> USE DEF client, managerVars
<1>1. UNCHANGED <<conns, idx, healthy, dialled>>
  BY DEF StartFails, StopSignal, StopClose, WatchReceive, WatchStops, Publish, WatchEnds
<1>2. Apart' /\ \A t \in ServiceName : Held(t)' = Held(t)
  BY <1>1, ConnsUntouched
<1>3. /\ UNCHANGED watcher \/ watcher' = [watcher EXCEPT ![s] = "update"]
         \/ watcher' = [watcher EXCEPT ![s] = "ended"]
      /\ UNCHANGED watcher \/ watcher[s] # "none"
  BY DEF StartFails, StopSignal, StopClose, WatchReceive, WatchStops, Publish, WatchEnds
<1>4. ConnTypeOK' /\ IndexInRange'
  BY <1>1, <1>3 DEF ManagerInv, ConnTypeOK, IndexInRange
<1>5. stop' = "no" => stop = "no" /\ UNCHANGED open
  BY DEF StartFails, StopSignal, StopClose, WatchReceive, WatchStops, Publish, WatchEnds
<1>6. HeldAreOpen'
  BY <1>2, <1>5 DEF ManagerInv, HeldAreOpen
<1>7. UNCHANGED <<start, at>> \/ start' = "failed"
  BY DEF StartFails, StopSignal, StopClose, WatchReceive, WatchStops, Publish, WatchEnds
<1>8. Untouched'
  BY <1>2, <1>3, <1>7, UntouchedStays DEF ManagerInv, ConnTypeOK
<1> QED
  BY <1>2, <1>4, <1>6, <1>8 DEF ManagerInv

LEMMA ManagerInvHolds == ManagerSpec => []ManagerInv
<1>1. ManagerInit => ManagerInv
  <2> SUFFICES ASSUME ManagerInit PROVE ManagerInv
    OBVIOUS
  <2>1. \A s \in ServiceName : conns[s] = <<>> /\ Held(s) = {}
    BY DEF ManagerInit, Held
  <2>2. ConnTypeOK /\ Apart /\ HeldAreOpen /\ IndexInRange
    BY <2>1 DEF ManagerInit, ConnTypeOK, Apart, HeldAreOpen, IndexInRange
  <2>3. Untouched
    BY <2>1, ServiceFacts DEF ManagerInit, Untouched
  <2> QED
    BY <2>2, <2>3 DEF ManagerInv
<1>2. ManagerInv /\ [ManagerNext]_managerVars => ManagerInv'
  <2> SUFFICES ASSUME ManagerInv, [ManagerNext]_managerVars PROVE ManagerInv'
    OBVIOUS
  <2>1. PICK s \in ServiceName : TRUE
    BY ServiceFacts
  <2>2. 0..MaxInstances \subseteq Nat
    BY ManagerConstants
  <2>3. CASE StartFails \/ StopSignal \/ StopClose \/ UNCHANGED managerVars
    BY <2>1, <2>3, OtherSteps
  <2>4. ASSUME NEW n \in 0..MaxInstances,
               \/ InitServiceClient(n) \/ WatchService(n)
               \/ \E t \in ServiceName : UpdateServiceClient(t, n) \/ Publish(t, n)
        PROVE  ManagerInv'
    BY <2>2, <2>4, InitServiceClientStep, WatchServiceStep, UpdateServiceClientStep,
       OtherSteps
  <2>5. ASSUME NEW t \in ServiceName,
               WatchReceive(t) \/ WatchStops(t) \/ GetServiceClient(t) \/ WatchEnds(t)
        PROVE  ManagerInv'
    BY <2>5, GetServiceClientStep, OtherSteps
  <2> QED
    BY <2>3, <2>4, <2>5 DEF ManagerNext
<1> QED
  BY <1>1, <1>2, PTL DEF ManagerSpec

\* Updates, requests and a failing Start leave no open connection the manager does
\* not hand out, and hand out no closed one, until Stop (updateServiceClient).
THEOREM ManagerOwnsConnections == ManagerSpec => []NoConnectionLeaks
<1>1. ManagerInv => NoConnectionLeaks
  BY DEF ManagerInv, HeldAreOpen, NoConnectionLeaks, ConnTypeOK, Held, Range
<1> QED
  BY <1>1, ManagerInvHolds, PTL

\* However long the lists and in whatever order updates and requests come, the
\* index of a healthy service is one of its connections (getServiceClient).
THEOREM IndexStaysInRange == ManagerSpec => []IndexInRange
<1>1. ManagerInv => IndexInRange
  BY DEF ManagerInv
<1> QED
  BY <1>1, ManagerInvHolds, PTL

(***************************************************************************)
(* Between two updates the connections of a service are handed out in      *)
(* turn: those before the current index once more than the others.         *)
(***************************************************************************)

\* How often x is among those handed out, h.
Times(h, x) == Cardinality({i \in DOMAIN h : h[i] = x})

InTurn(c, next, h) ==
  \E rounds \in Nat : \A j \in 1..Len(c) :
    Times(h, c[j]) = rounds + (IF j <= next THEN 1 ELSE 0)

SharedInv ==
  /\ handed \in [ServiceName -> Seq(Nat)]
  /\ \A s \in ServiceName :
       /\ \A i, j \in 1..Len(conns[s]) : conns[s][i] = conns[s][j] => i = j
       /\ InTurn(conns[s], idx[s], handed[s])

LEMMA TimesOfAppended ==
  ASSUME NEW h \in Seq(Nat), NEW x \in Nat, NEW y
  PROVE  /\ Times(h, y) \in Nat
         /\ Times(Append(h, x), y) = Times(h, y) + (IF x = y THEN 1 ELSE 0)
<1> DEFINE n == Len(h)  before == {i \in 1..n : h[i] = y}  new == Append(h, x)
           after == {i \in 1..(n + 1) : new[i] = y}
<1>1. n \in Nat /\ DOMAIN h = 1..n /\ DOMAIN new = 1..(n + 1)
      /\ new[n + 1] = x /\ \A i \in 1..n : new[i] = h[i]
  OBVIOUS
<1>2. IsFiniteSet(before) /\ Cardinality(before) \in Nat /\ n + 1 \notin before
  <2>1. IsFiniteSet(1..n)
    BY <1>1, FS_Interval
  <2>2. before \in SUBSET (1..n)
    OBVIOUS
  <2>3. n + 1 \notin 1..n
    BY <1>1
  <2> QED
    BY <2>1, <2>2, <2>3, FS_Subset, FS_CardinalityType
<1>3. Times(h, y) = Cardinality(before) /\ Times(new, y) = Cardinality(after)
  BY <1>1 DEF Times
<1>4. after = IF x = y THEN before \cup {n + 1} ELSE before
  BY <1>1
<1>5. Cardinality(before \cup {n + 1}) = Cardinality(before) + 1
  BY <1>2, FS_AddElement
<1> HIDE DEF before, after, new, n
<1> QED
  BY <1>2, <1>3, <1>4, <1>5 DEF new

LEMMA TurnWraps ==
  ASSUME NEW n \in Nat, NEW i \in 1..n
  PROVE  i % n = IF i = n THEN 0 ELSE i
OBVIOUS

LEMMA StartInTurn == \A c : InTurn(c, 0, <<>>)
<1>1. \A x : Times(<<>>, x) = 0
  BY FS_EmptySet DEF Times
<1> SUFFICES ASSUME NEW c PROVE InTurn(c, 0, <<>>)
  OBVIOUS
<1>2. \A j \in 1..Len(c) : Times(<<>>, c[j]) = 0 + (IF j <= 0 THEN 1 ELSE 0)
  BY <1>1
<1> QED
  BY <1>2 DEF InTurn

\* The next one in turn is handed out; after the last a round is over.
LEMMA NextInTurn ==
  ASSUME NEW c \in Seq(Nat), \A i, j \in 1..Len(c) : c[i] = c[j] => i = j,
         NEW next \in Nat, next < Len(c), NEW h \in Seq(Nat), InTurn(c, next, h)
  PROVE  InTurn(c, (next + 1) % Len(c), Append(h, c[next + 1]))
<1> DEFINE n == Len(c)  x == c[next + 1]
<1>1. n \in Nat /\ next + 1 \in 1..n /\ x \in Nat
  OBVIOUS
<1>2. PICK rounds \in Nat : \A j \in 1..n :
        Times(h, c[j]) = rounds + (IF j <= next THEN 1 ELSE 0)
  BY DEF InTurn
<1>3. \A j \in 1..n : Times(Append(h, x), c[j]) = rounds + (IF j <= next + 1 THEN 1 ELSE 0)
  <2> SUFFICES ASSUME NEW j \in 1..n
               PROVE  Times(Append(h, x), c[j]) = rounds + (IF j <= next + 1 THEN 1 ELSE 0)
    OBVIOUS
  <2>1. Times(Append(h, x), c[j]) = Times(h, c[j]) + (IF x = c[j] THEN 1 ELSE 0)
    BY <1>1, TimesOfAppended
  <2>2. x = c[j] <=> j = next + 1
    BY <1>1
  <2>3. j \in Nat
    BY <1>1
  <2> HIDE DEF n, x
  <2> QED
    BY <1>2, <2>1, <2>2, <2>3
<1>4. CASE next + 1 < n
  <2>1. (next + 1) % n = next + 1
    <3> HIDE DEF n
    <3>1. next + 1 # n
      BY <1>1, <1>4
    <3> QED
      BY <1>1, <3>1, TurnWraps
  <2> QED
    BY <1>3, <2>1 DEF InTurn
<1>5. CASE next + 1 = n
  <2>1. (next + 1) % n = 0
    <3> HIDE DEF n
    <3> QED
      BY <1>1, <1>5, TurnWraps
  <2>2. \A j \in 1..n : Times(Append(h, x), c[j]) = (rounds + 1) + (IF j <= 0 THEN 1 ELSE 0)
    BY <1>1, <1>3, <1>5
  <2>3. rounds + 1 \in Nat
    OBVIOUS
  <2> QED
    BY <2>1, <2>2, <2>3 DEF InTurn
<1> QED
  BY <1>1, <1>4, <1>5

LEMMA SharedStep ==
  ManagerInv /\ SharedInv /\ [ManagerNext]_managerVars => SharedInv'
<1> SUFFICES ASSUME ManagerInv, SharedInv, [ManagerNext]_managerVars PROVE SharedInv'
  OBVIOUS
<1>1. CASE UNCHANGED <<conns, idx, handed>>
  BY <1>1 DEF SharedInv
<1>2. ASSUME NEW s \in ServiceName, NEW n \in Nat, NEW closed, Dial(s, n, closed)
      PROVE  SharedInv'
  <2>1. /\ conns'[s] = [i \in 1..n |-> dialled + i] /\ Len(conns'[s]) = n
        /\ idx'[s] = 0 /\ handed'[s] = <<>> /\ handed' \in [ServiceName -> Seq(Nat)]
        /\ \A t \in ServiceName : t # s =>
             conns'[t] = conns[t] /\ idx'[t] = idx[t] /\ handed'[t] = handed[t]
    BY <1>2, DialHeld DEF Dial, ManagerInv, ConnTypeOK, SharedInv
  <2>2. \A i, j \in 1..Len(conns'[s]) : conns'[s][i] = conns'[s][j] => i = j
    BY <2>1 DEF ManagerInv, ConnTypeOK
  <2>3. InTurn(conns'[s], idx'[s], handed'[s])
    BY <2>1, StartInTurn
  <2>4. ASSUME NEW t \in ServiceName, t # s
        PROVE  /\ \A i, j \in 1..Len(conns'[t]) : conns'[t][i] = conns'[t][j] => i = j
               /\ InTurn(conns'[t], idx'[t], handed'[t])
    <3>1. conns'[t] = conns[t] /\ idx'[t] = idx[t] /\ handed'[t] = handed[t]
      BY <2>1, <2>4
    <3> QED
      BY <3>1 DEF SharedInv
  <2> QED
    BY <2>1, <2>2, <2>3, <2>4 DEF SharedInv
<1>3. ASSUME NEW s \in ServiceName, GetServiceClient(s) PROVE SharedInv'
  <2>1. /\ conns[s] \in Seq(Nat) /\ idx[s] \in Nat /\ idx[s] < Len(conns[s])
        /\ conns[s][idx[s] + 1] \in Nat
    BY <1>3 DEF GetServiceClient, ManagerInv, ConnTypeOK, IndexInRange
  <2>2. /\ conns' = conns
        /\ handed' = [handed EXCEPT ![s] = Append(@, conns[s][idx[s] + 1])]
        /\ idx' = [idx EXCEPT ![s] = (@ + 1) % Len(conns[s])]
    BY <1>3 DEF GetServiceClient
  <2>3. /\ handed' \in [ServiceName -> Seq(Nat)]
        /\ handed'[s] = Append(handed[s], conns[s][idx[s] + 1])
        /\ idx'[s] = (idx[s] + 1) % Len(conns[s])
        /\ \A t \in ServiceName : t # s => idx'[t] = idx[t] /\ handed'[t] = handed[t]
    BY <2>1, <2>2 DEF SharedInv, ManagerInv, ConnTypeOK
  <2>4. InTurn(conns'[s], idx'[s], handed'[s])
    <3>1. handed[s] \in Seq(Nat) /\ InTurn(conns[s], idx[s], handed[s])
          /\ \A i, j \in 1..Len(conns[s]) : conns[s][i] = conns[s][j] => i = j
      BY DEF SharedInv
    <3>2. InTurn(conns[s], (idx[s] + 1) % Len(conns[s]),
                 Append(handed[s], conns[s][idx[s] + 1]))
      BY <2>1, <3>1, NextInTurn
    <3> QED
      BY <2>2, <2>3, <3>2
  <2> QED
    BY <2>2, <2>3, <2>4 DEF SharedInv
<1>4. ASSUME NEW s \in ServiceName, NEW n \in Nat, UpdateServiceClient(s, n) PROVE SharedInv'
  BY <1>2, <1>4 DEF UpdateServiceClient
<1>5. ASSUME NEW n \in Nat, InitServiceClient(n) PROVE SharedInv'
  <2>1. Services[at] \in ServiceName
    BY <1>5, ServiceFacts DEF InitServiceClient, ManagerInv, Untouched
  <2> QED
    BY <1>2, <1>5, <2>1 DEF InitServiceClient
<1>6. ASSUME NEW s \in ServiceName, NEW n \in Nat,
             \/ StartFails \/ StopSignal \/ StopClose \/ WatchReceive(s) \/ WatchService(n)
             \/ WatchStops(s) \/ Publish(s, n) \/ WatchEnds(s) \/ UNCHANGED managerVars
      PROVE  UNCHANGED <<conns, idx, handed>>
  BY <1>6 DEF StartFails, StopSignal, StopClose, WatchReceive, WatchService, WatchStops, Publish,
     WatchEnds, client, managerVars
<1>7. 0..MaxInstances \subseteq Nat /\ \E s \in ServiceName : TRUE
  BY ManagerConstants, ServiceFacts
<1> QED
  BY <1>1, <1>3, <1>4, <1>5, <1>6, <1>7 DEF ManagerNext

\* Between two updates no connection of a service is handed out twice more than another,
\* wherever in the turn the last update or the last request left the index.
THEOREM ConnectionsTakeTurns == ManagerSpec => []RequestsAreShared
<1>1. ManagerInit => SharedInv
  BY StartInTurn DEF ManagerInit, SharedInv
<1>2. ManagerInv /\ SharedInv => RequestsAreShared
  <2> SUFFICES ASSUME ManagerInv, SharedInv, NEW s \in ServiceName,
                      NEW c \in Range(conns[s]), NEW d \in Range(conns[s])
               PROVE  Times(handed[s], c) <= Times(handed[s], d) + 1
    BY DEF RequestsAreShared, Times
  <2>1. PICK i, j \in 1..Len(conns[s]) : c = conns[s][i] /\ d = conns[s][j]
    <3>1. DOMAIN conns[s] = 1..Len(conns[s])
      BY DEF ManagerInv, ConnTypeOK
    <3>2. \A x \in Range(conns[s]) : \E k \in 1..Len(conns[s]) : x = conns[s][k]
      BY <3>1 DEF Range
    <3> QED
      BY <3>2
  <2>2. PICK rounds \in Nat : \A k \in 1..Len(conns[s]) :
          Times(handed[s], conns[s][k]) = rounds + (IF k <= idx[s] THEN 1 ELSE 0)
    BY DEF SharedInv, InTurn
  <2>3. Times(handed[s], c) \in rounds..(rounds + 1)
    BY <2>1, <2>2
  <2>4. Times(handed[s], d) \in rounds..(rounds + 1)
    BY <2>1, <2>2
  <2> QED
    BY <2>3, <2>4
<1> QED
  BY <1>1, <1>2, ManagerInvHolds, SharedStep, PTL DEF ManagerSpec

(***************************************************************************)
(* The process: RequestsHaveClients                                        *)
(***************************************************************************)

\* The server listens only after the manager is up, and the manager is stopped only
\* when the server is shut and has no handler left.
ProcessInv ==
  /\ handling # {} => manager = "up"
  /\ server \in {"new", "listening", "shut"}
  /\ server = "listening" => manager = "up"
  /\ starter = "listen" /\ server = "new" => manager = "up"
  /\ main \in {"shutdown", "stop", "deferred"} => server = "shut"
  /\ main \in {"stop", "deferred"} => handling = {}

LEMMA ProcessStep == ProcessInv /\ [Process!Next]_processVars => ProcessInv'
<1> SUFFICES ASSUME ProcessInv, [Process!Next]_processVars PROVE ProcessInv'
  OBVIOUS
<1> USE DEF ProcessInv, Process!Exit
<1>1. CASE Process!MainStep
  BY <1>1 DEF Process!MainStep, Process!SetupFails, Process!Setup, Process!ShutdownTimesOut,
     Process!ShutdownEnds, Process!StopManager, Process!Return
<1>2. CASE Process!Signal \/ Process!StartFails
  BY <1>2 DEF Process!Signal, Process!StartFails
<1>3. CASE Process!ManagerStarts \/ Process!Listen \/ Process!ServeEnds
  BY <1>3 DEF Process!ManagerStarts, Process!Listen, Process!ServeEnds
<1>4. ASSUME NEW r \in Request, Process!Arrive(r) \/ Process!Answer(r) PROVE ProcessInv'
  BY <1>4 DEF Process!Arrive, Process!Answer, Process!Running
<1>5. CASE UNCHANGED processVars
  BY <1>5 DEF processVars
<1> QED
  BY <1>1, <1>2, <1>3, <1>4, <1>5 DEF Process!Next

(***************************************************************************)
(* The whole                                                               *)
(***************************************************************************)

\* Whatever part is observed, the others stand still: every behaviour of the gateway is one
\* of its leases, of its limiter and of its client manager, so that what is proved of these
\* holds in it.
THEOREM PartsOfGateway == GatewaySpec => Spec /\ LimiterSpec /\ ManagerSpec
<1>1. GatewayInit => Init /\ LimiterInit /\ ManagerInit
  BY DEF GatewayInit
<1>2. [GatewayNext]_gatewayVars =>
        [Next]_vars /\ [LimiterNext]_limiterVars /\ [ManagerNext]_managerVars
  BY DEF GatewayNext, LeasesPart, ManagerPart, LimiterPart, ProcessPart, gatewayVars
<1> QED
  BY <1>1, <1>2, PTL DEF GatewaySpec, Spec, LimiterSpec, ManagerSpec

\* A handler runs only while the client manager it calls through has been started and not
\* been stopped, whenever the signal comes and however long handlers take.
THEOREM HandlersHaveClients == GatewaySpec => []RequestsHaveClients
<1>1. GatewayInit => ProcessInv
  BY DEF GatewayInit, Process!Init, ProcessInv
<1>2. [GatewayNext]_gatewayVars => [Process!Next]_processVars
  BY DEF GatewayNext, LeasesPart, ManagerPart, LimiterPart, ProcessPart, gatewayVars
<1>3. ProcessInv => RequestsHaveClients
  BY DEF ProcessInv, RequestsHaveClients, Process!RequestsHaveClients
<1> QED
  BY <1>1, <1>2, <1>3, ProcessStep, PTL DEF GatewaySpec
===============================================================================
