----------------------------- MODULE Server_proofs -----------------------------
(***************************************************************************)
(* The parts of a gRPC server, for every limit and grain of time, every    *)
(* number of goroutines, buffers, requests, services and health checks:    *)
(* the token bucket keeps its promise, a buffer has one user and comes     *)
(* clean, and nothing but its callers ends the process. (The task          *)
(* processor has AsyncProcessor_proofs.)                                   *)
(***************************************************************************)
EXTENDS Server, FiniteSetTheorems, TLAPS

(***************************************************************************)
(* The limiter: RateBounded                                                *)
(***************************************************************************)

\* What an interval has taken too much is missing in the bucket: together with
\* what the next Allow will find there it is never more than a full bucket.
BucketInv ==
  /\ LimiterTypeOK
  /\ excess + AtMost(tokens + earned, Bucket) <= Bucket

\* The product is all that the steps need to know of a bucket.
LEMMA BucketNat == Bucket \in Nat
BY LimiterAssumption DEF Bucket

LEMMA BucketInvStep == BucketInv /\ [LimiterNext]_limiterVars => BucketInv'
<1> SUFFICES ASSUME BucketInv, [LimiterNext]_limiterVars PROVE BucketInv'
  OBVIOUS
<1> DEFINE refilled == AtMost(tokens + earned, Bucket)
<1> USE BucketNat, LimiterAssumption
<1>1. refilled \in 0..Bucket
  BY DEF BucketInv, LimiterTypeOK, AtMost
<1>2. CASE Allow
  <2>1. CASE refilled >= Grain
    BY <1>1, <1>2, <2>1 DEF Allow, Take, BucketInv, LimiterTypeOK, AtMost
  <2>2. CASE ~(refilled >= Grain)
    BY <1>1, <1>2, <2>2 DEF Allow, Take, BucketInv, LimiterTypeOK, AtMost
  <2> QED
    BY <2>1, <2>2
<1>3. CASE LimiterTick
  BY <1>1, <1>3 DEF LimiterTick, BucketInv, LimiterTypeOK, AtMost, AtLeast
<1>4. CASE UNCHANGED limiterVars
  BY <1>4 DEF limiterVars, BucketInv, LimiterTypeOK, AtMost
<1> QED
  BY <1>2, <1>3, <1>4 DEF LimiterNext

LEMMA BucketInvHolds == LimiterSpec => []BucketInv
<1>1. LimiterInit => BucketInv
  BY BucketNat DEF LimiterInit, BucketInv, LimiterTypeOK, AtMost
<1> QED
  BY <1>1, BucketInvStep, PTL DEF LimiterSpec

\* The bucket never overflows and never owes tokens (RateLimiter.Allow).
THEOREM LimiterTypes == LimiterSpec => []LimiterTypeOK
<1>1. BucketInv => LimiterTypeOK
  BY DEF BucketInv
<1> QED
  BY <1>1, BucketInvHolds, PTL

\* In no interval does the server admit more than a full bucket and what the
\* interval earned, whatever limit is configured (RateLimiter.Allow).
THEOREM RateIsBounded == LimiterSpec => []RateBounded
<1>1. BucketInv => RateBounded
  BY BucketNat, LimiterAssumption DEF BucketInv, LimiterTypeOK, RateBounded, AtMost
<1> QED
  BY <1>1, BucketInvHolds, PTL

(***************************************************************************)
(* The pool of buffers: BuffersCleanAndAlone                               *)
(***************************************************************************)

\* What the standard sizes are for: a buffer is never shorter than was asked for.
LEMMA BestSizeFits == \A size \in Nat : FindBestSize(size) \in Nat /\ FindBestSize(size) >= size
<1> SUFFICES ASSUME NEW size \in Nat
             PROVE  FindBestSize(size) \in Nat /\ FindBestSize(size) >= size
  OBVIOUS
<1> DEFINE fitting == {s \in BufferSizes : size <= s}
<1>1. fitting # {} => \E x \in fitting : \A y \in fitting : x <= y
  <2>1. BufferSizes = {1, 4, 16, 64}
    BY DEF BufferSizes
  <2>2. CASE size <= 1
    BY <2>1, <2>2
  <2>3. CASE size > 1 /\ size <= 4
    BY <2>1, <2>3
  <2>4. CASE size > 4 /\ size <= 16
    BY <2>1, <2>4
  <2>5. CASE size > 16
    BY <2>1, <2>5
  <2> QED
    BY <2>2, <2>3, <2>4, <2>5
<1>2. fitting # {} => Min(fitting) \in fitting
  BY <1>1 DEF Min
<1>3. \A x \in fitting : x \in Nat /\ x >= size
  BY DEF BufferSizes
<1>4. FindBestSize(size) = IF fitting = {} THEN size ELSE Min(fitting)
  BY DEF FindBestSize
<1> HIDE DEF fitting
<1> QED
  BY <1>2, <1>3, <1>4

\* Where a user and its buffer are.
UserBuffer(u) ==
  /\ step[u] = "idle" => buf[u] = NoBuffer
  /\ step[u] \in {"got", "cleared", "counting"} => buf[u] # NoBuffer
  /\ step[u] = "got" => length[u] = Standard
  /\ step[u] = "using" => (length[u] = Standard <=> buf[u] # NoBuffer)
  /\ step[u] \in {"got", "using"} => length[u] >= asked[u]

\* u has a standard buffer that has not been put back.
Holds(u) == step[u] \in {"got", "using", "cleared"} /\ buf[u] # NoBuffer

\* What is in nobody's hands is clean, since only who holds a buffer writes to it, and
\* puts it back clean.
MemoryInv ==
  /\ buf \in [User -> Buffer \cup {NoBuffer}]
  /\ length \in [User -> Nat] /\ asked \in [User -> Nat]
  /\ step \in [User -> {"idle", "got", "using", "cleared", "counting"}]
  /\ \A u \in User : UserBuffer(u)
  /\ \A u \in User : Holds(u) => buf[u] \in inUse
  /\ \A u, v \in User : u # v /\ Holds(u) /\ Holds(v) => buf[u] # buf[v]
  /\ \A b \in dirty : \E u \in User : step[u] = "using" /\ buf[u] = b /\ b # NoBuffer
  /\ IsFiniteSet(Counted) /\ allocated = Cardinality(Counted)

\* Steps of one user that change nothing of the others.
LEMMA CountedChanges ==
  ASSUME MemoryInv, NEW u \in User,
         \A v \in User \ {u} : buf'[v] = buf[v] /\ step'[v] = step[v]
  PROVE  /\ (u \in Counted <=> u \in Counted') => Counted' = Counted
         /\ u \notin Counted /\ u \in Counted' =>
              IsFiniteSet(Counted') /\ Cardinality(Counted') = Cardinality(Counted) + 1
         /\ u \in Counted /\ u \notin Counted' =>
              IsFiniteSet(Counted') /\ Cardinality(Counted') = Cardinality(Counted) - 1
<1>1. \A v \in User \ {u} : v \in Counted <=> v \in Counted'
  BY DEF Counted
<1>2. Counted \subseteq User /\ Counted' \subseteq User
  BY DEF Counted
<1>3. IsFiniteSet(Counted)
  BY DEF MemoryInv
<1>4. (u \in Counted <=> u \in Counted') => Counted' = Counted
  BY <1>1, <1>2
<1>5. u \notin Counted /\ u \in Counted' => Counted' = Counted \cup {u}
  BY <1>1, <1>2
<1>6. u \in Counted /\ u \notin Counted' => Counted' = Counted \ {u}
  BY <1>1, <1>2
<1> QED
  BY <1>3, <1>4, <1>5, <1>6, FS_AddElement, FS_RemoveElement

LEMMA GetStep ==
  ASSUME MemoryInv, NEW u \in User, NEW size \in SizeArgs, GetWithSize(u, size)
  PROVE  MemoryInv'
<1> USE DEF MemoryInv, UserBuffer, Holds
<1>1. size \in Nat /\ FindBestSize(size) \in Nat /\ FindBestSize(size) >= size
  BY BestSizeFits, MemoryConstants
<1>2. step[u] = "idle" /\ buf[u] = NoBuffer /\ u \notin Counted
      /\ asked' = [asked EXCEPT ![u] = size] /\ UNCHANGED <<dirty, allocated>>
  BY DEF GetWithSize, Counted
<1>3. CASE FindBestSize(size) = Standard
  <2>1. PICK b \in Buffer \ inUse :
          /\ inUse' = inUse \cup {b} /\ buf' = [buf EXCEPT ![u] = b]
          /\ length' = [length EXCEPT ![u] = Standard]
          /\ step' = [step EXCEPT ![u] = "got"]
    BY <1>3 DEF GetWithSize, Get
  <2>2. b # NoBuffer /\ Standard \in Nat
    BY MemoryConstants DEF Standard
  <2>3. u \notin Counted'
    BY <2>1 DEF Counted
  <2>4. Counted' = Counted
    BY <1>2, <2>1, <2>3, CountedChanges
  <2>5. /\ buf' \in [User -> Buffer \cup {NoBuffer}]
        /\ length' \in [User -> Nat] /\ asked' \in [User -> Nat]
        /\ step' \in [User -> {"idle", "got", "using", "cleared", "counting"}]
    BY <1>1, <1>2, <2>1, <2>2
  <2>6. /\ \A v \in User : UserBuffer(v)'
        /\ \A v \in User : Holds(v)' => buf'[v] \in inUse'
    BY <1>1, <1>2, <1>3, <2>1, <2>2
  <2>7. \A v, w \in User : v # w /\ Holds(v)' /\ Holds(w)' => buf'[v] # buf'[w]
    BY <1>2, <2>1, <2>2
  <2>8. \A c \in dirty' : \E v \in User : step'[v] = "using" /\ buf'[v] = c /\ c # NoBuffer
    BY <1>2, <2>1
  <2> QED
    BY <1>2, <2>4, <2>5, <2>6, <2>7, <2>8
<1>4. CASE FindBestSize(size) # Standard
  <2>1. /\ length' = [length EXCEPT ![u] = FindBestSize(size)]
        /\ step' = [step EXCEPT ![u] = "using"] /\ UNCHANGED <<inUse, buf>>
    BY <1>4 DEF GetWithSize
  <2>2. u \notin Counted'
    BY <1>2, <2>1 DEF Counted
  <2>3. Counted' = Counted
    BY <1>2, <2>1, <2>2, CountedChanges
  <2>4. /\ buf' \in [User -> Buffer \cup {NoBuffer}]
        /\ length' \in [User -> Nat] /\ asked' \in [User -> Nat]
        /\ step' \in [User -> {"idle", "got", "using", "cleared", "counting"}]
    BY <1>1, <1>2, <2>1
  <2>5. \A v \in User : UserBuffer(v)'
    BY <1>1, <1>2, <1>4, <2>1
  <2>6. /\ \A v \in User : Holds(v)' => Holds(v)
        /\ \A c \in dirty' : \E v \in User : step'[v] = "using" /\ buf'[v] = c /\ c # NoBuffer
    BY <1>2, <2>1
  <2> QED
    BY <1>2, <2>1, <2>3, <2>4, <2>5, <2>6
<1> QED
  BY <1>3, <1>4

\* A step of a user on its way through Get and Put.
LEMMA UserStep ==
  ASSUME MemoryInv, NEW u \in User,
         GetCounts(u) \/ Write(u) \/ PutIgnored(u) \/ PutClears(u) \/ PutPools(u) \/ PutCounts(u)
  PROVE  MemoryInv'
<1> USE DEF MemoryInv, UserBuffer, Holds
<1>1. CASE GetCounts(u)
  <2>1. Counted' = Counted \cup {u} /\ u \notin Counted
    BY <1>1 DEF GetCounts, Counted
  <2>2. IsFiniteSet(Counted') /\ Cardinality(Counted') = Cardinality(Counted) + 1
    BY <2>1, FS_AddElement
  <2> QED
    BY <1>1, <2>2 DEF GetCounts
<1>2. CASE Write(u)
  BY <1>2 DEF Write, Counted
<1>3. CASE PutIgnored(u)
  <2>1. buf[u] = NoBuffer /\ Counted' = Counted
    BY <1>3 DEF PutIgnored, Counted
  <2> QED
    BY <1>3, <2>1 DEF PutIgnored
<1>4. CASE PutClears(u)
  <2>1. buf[u] # NoBuffer /\ Counted' = Counted
    BY <1>4 DEF PutClears, Counted
  <2>2. \A v \in User \ {u} : step[v] = "using" /\ buf[v] # NoBuffer => buf[v] # buf[u]
    BY <1>4, <2>1 DEF PutClears
  <2>3. \A b \in dirty' : \E v \in User : step'[v] = "using" /\ buf'[v] = b /\ b # NoBuffer
    BY <1>4 DEF PutClears
  <2> QED
    BY <1>4, <2>1, <2>2, <2>3 DEF PutClears
<1>5. CASE PutPools(u)
  <2>1. buf[u] # NoBuffer /\ Counted' = Counted
    BY <1>5 DEF PutPools, Counted
  <2>2. \A v \in User \ {u} : Holds(v) => buf[v] # buf[u]
    BY <1>5, <2>1 DEF PutPools
  <2> QED
    BY <1>5, <2>1, <2>2 DEF PutPools
<1>6. CASE PutCounts(u)
  <2>1. Counted' = Counted \ {u} /\ u \in Counted
    BY <1>6 DEF PutCounts, Counted
  <2>2. IsFiniteSet(Counted') /\ Cardinality(Counted') = Cardinality(Counted) - 1
    BY <2>1, FS_RemoveElement
  <2> QED
    BY <1>6, <2>2 DEF PutCounts
<1> QED
  BY <1>1, <1>2, <1>3, <1>4, <1>5, <1>6

LEMMA MemoryStep == MemoryInv /\ [MemoryNext]_memoryVars => MemoryInv'
<1> SUFFICES ASSUME MemoryInv, [MemoryNext]_memoryVars PROVE MemoryInv'
  OBVIOUS
<1>1. CASE Collect \/ UNCHANGED memoryVars
  BY <1>1 DEF Collect, memoryVars, MemoryInv, UserBuffer, Holds, Counted
<1> QED
  BY <1>1, GetStep, UserStep DEF MemoryNext

(***************************************************************************)
(* The server's life: EndsOnlyByCallers                                    *)
(***************************************************************************)

\* Who registers with the server after it was started ends the process. A channel is
\* open for as long as its owner is running, so that Stop, which closes it only then,
\* closes it once: nothing panics but a request that is lost.
GrpcInv ==
  /\ starts \in Nat /\ starting \in Nat
  /\ served \/ starting > 0 => starts > 0
  /\ outcome \in [Call -> {"none", "refused", "lost"}]
  /\ process \in {"up", "exited", "panicked"}
  /\ sapRunning => queueOpen
  /\ hcRunning => stopOpen
  /\ Grpc!EndsOnlyByCallers

LEMMA GrpcStep == GrpcInv /\ [Grpc!GrpcNext]_grpcVars => GrpcInv'
<1> SUFFICES ASSUME GrpcInv, [Grpc!GrpcNext]_grpcVars PROVE GrpcInv'
  OBVIOUS
<1> USE DEF GrpcInv, Grpc!EndsOnlyByCallers, Grpc!Up, Grpc!Free, Grpc!stopVars
<1>1. CASE Grpc!Start
  BY <1>1 DEF Grpc!Start, Grpc!Register, Grpc!requestVars
<1>2. ASSUME NEW s \in Service, Grpc!RegisterService(s) PROVE GrpcInv'
  BY <1>2 DEF Grpc!RegisterService, Grpc!Register, Grpc!requestVars
<1>3. CASE Grpc!Serve \/ Grpc!StopBegins \/ Grpc!StopEnds
  BY <1>3 DEF Grpc!Serve, Grpc!StopBegins, Grpc!StopEnds, Grpc!requestVars
<1>10. CASE Grpc!StopProcessor
  <2>1. CASE opts.async /\ sapRunning
    BY <1>10, <2>1 DEF Grpc!StopProcessor, Grpc!Close, Grpc!requestVars
  <2>2. CASE ~(opts.async /\ sapRunning)
    BY <1>10, <2>2 DEF Grpc!StopProcessor, Grpc!requestVars
  <2> QED
    BY <2>1, <2>2
<1>11. CASE Grpc!StopChecker
  <2>1. CASE opts.health /\ hcRunning
    BY <1>11, <2>1 DEF Grpc!StopChecker, Grpc!Close, Grpc!requestVars
  <2>2. CASE ~(opts.health /\ hcRunning)
    BY <1>11, <2>2 DEF Grpc!StopChecker, Grpc!requestVars
  <2> QED
    BY <2>1, <2>2
<1>4. ASSUME NEW k \in Check, Grpc!RegisterCheck(k) PROVE GrpcInv'
  BY <1>4 DEF Grpc!RegisterCheck, Grpc!requestVars
<1>5. CASE Grpc!RunChecks \/ Grpc!CheckerEnds
  BY <1>5 DEF Grpc!RunChecks, Grpc!CheckerEnds, Grpc!requestVars
<1>6. ASSUME NEW c \in Call, Grpc!Arrive(c) PROVE GrpcInv'
  BY <1>6 DEF Grpc!Arrive, Grpc!lifeVars
<1>7. ASSUME NEW c \in Call, Grpc!Up, Grpc!CallNext(c),
             UNCHANGED <<starts, starting, served, sapRunning, queueOpen, hcRunning, stopOpen>>
      PROVE  GrpcInv'
  BY <1>7 DEF Grpc!CallNext
<1>8. ASSUME NEW c \in Call, Grpc!Intercept(c) PROVE GrpcInv'
  BY <1>7, <1>8 DEF Grpc!Intercept, Grpc!LimitAllows, Grpc!LimitRefuses, Grpc!Trace,
     Grpc!TraceStream, Grpc!SetTimeout, Grpc!Measure, Grpc!At, Grpc!lifeVars
<1>9. CASE UNCHANGED grpcVars
  BY <1>9 DEF grpcVars
<1> QED
  BY <1>1, <1>2, <1>3, <1>4, <1>5, <1>6, <1>8, <1>9, <1>10, <1>11
     DEF Grpc!GrpcNext, Grpc!StopStep

(***************************************************************************)
(* The whole                                                               *)
(***************************************************************************)

\* Whatever part is observed, the others stand still: every behaviour of the server is one
\* of its task processor and of its limiter, so that what is proved of these holds in it.
THEOREM PartsOfServer == ServerSpec => Spec /\ LimiterSpec
<1>1. ServerInit => Init /\ LimiterInit
  BY DEF ServerInit
<1>2. [ServerNext]_serverVars => [Next]_vars /\ [LimiterNext]_limiterVars
  BY DEF ServerNext, TasksPart, LimiterPart, MemoryPart, GrpcPart, serverVars
<1> QED
  BY <1>1, <1>2, PTL DEF ServerSpec, Spec, LimiterSpec

\* A buffer has one user at a time, is as long as was asked for and comes without the data
\* of the one before, though Put clears it with no lock; and the counter tells how many
\* are out (MemoryPool.Get, Put).
THEOREM BuffersAreClean == ServerSpec => []BuffersCleanAndAlone
<1>1. ServerInit => MemoryInv
  <2> SUFFICES ASSUME ServerInit PROVE MemoryInv
    OBVIOUS
  <2>1. Counted = {}
    BY DEF ServerInit, MemoryInit, Counted
  <2>2. IsFiniteSet(Counted) /\ Cardinality(Counted) = 0
    BY <2>1, FS_EmptySet
  <2> QED
    BY <2>2 DEF ServerInit, MemoryInit, MemoryInv, UserBuffer, Holds
<1>2. [ServerNext]_serverVars => [MemoryNext]_memoryVars
  BY DEF ServerNext, TasksPart, LimiterPart, MemoryPart, GrpcPart, serverVars
<1>3. MemoryInv => BuffersCleanAndAlone
  <2> SUFFICES ASSUME MemoryInv PROVE BuffersCleanAndAlone
    OBVIOUS
  <2>1. \A u \in User : step[u] = "got" => buf[u] \notin dirty
    BY DEF MemoryInv, UserBuffer, Holds
  <2>2. ASSUME NEW u \in User, NEW v \in User, u # v, buf[u] = buf[v],
               {step[u], step[v]} \subseteq {"got", "using", "cleared"}
        PROVE  buf[u] = NoBuffer
    BY <2>2 DEF MemoryInv, Holds
  <2> QED
    BY <2>1, <2>2 DEF BuffersCleanAndAlone, MemoryInv, UserBuffer
<1> QED
  BY <1>1, <1>2, <1>3, MemoryStep, PTL DEF ServerSpec

\* In whatever order and however often Start, Stop, registrations, requests and health
\* checks come, neither the task queue nor the health checker's channel is closed twice
\* and nothing panics but a request that meets the nil handler; the process exits only
\* after a Start (Server.Start and Stop, Stop of ServerAsyncProcessor and HealthChecker).
THEOREM OnlyCallersEndIt == ServerSpec => []EndsOnlyByCallers
<1>1. ServerInit => GrpcInv
  BY DEF ServerInit, Grpc!GrpcInit, GrpcInv, Grpc!EndsOnlyByCallers
<1>2. [ServerNext]_serverVars => [Grpc!GrpcNext]_grpcVars
  BY DEF ServerNext, TasksPart, LimiterPart, MemoryPart, GrpcPart, serverVars
<1>3. GrpcInv => EndsOnlyByCallers
  BY DEF GrpcInv, EndsOnlyByCallers
<1> QED
  BY <1>1, <1>2, <1>3, GrpcStep, PTL DEF ServerSpec
===============================================================================
