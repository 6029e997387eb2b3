---------------------------- MODULE Toolkit_proofs ----------------------------
(***************************************************************************)
(* The mechanisms of pkg/ keep their promises for any callers, services,   *)
(* keys, messages and lines. The breaker's theorems are about its own      *)
(* specification, the others about the toolkit's: a behaviour of the       *)
(* toolkit is, seen through the variables of one part, one of that part.   *)
(***************************************************************************)
EXTENDS Toolkit, Sequences, FiniteSetTheorems, TLAPS

(***************************************************************************)
(* The circuit breaker                                                     *)
(***************************************************************************)

\* ClosedBelowThreshold and HalfOpenAfterTimeout constrain the breaker in
\* different states; with the types they are inductive together.
BreakerInv == TypeOK /\ ClosedBelowThreshold /\ HalfOpenAfterTimeout

\* No step of a caller or of the clock breaks the invariant: the argument is
\* about the breaker's four operations, whoever calls them.
LEMMA BreakerInvStep == BreakerInv /\ [Next]_vars => BreakerInv'
<1> SUFFICES ASSUME BreakerInv, [Next]_vars
             PROVE  BreakerInv'
  OBVIOUS
<1> USE ThresholdAssumption, TimeoutAssumption, MaxFailuresAssumption
<1>1. ASSUME NEW c \in Caller, Admit(c)
      PROVE  BreakerInv'
  BY <1>1 DEF BreakerInv, TypeOK, BreakerTypeOK, ClosedBelowThreshold,
     HalfOpenAfterTimeout, Elapsed, CircuitState, Admit, IsAllowed
<1>2. ASSUME NEW c \in Caller, Refuse(c)
      PROVE  BreakerInv'
  BY <1>2 DEF BreakerInv, TypeOK, BreakerTypeOK, ClosedBelowThreshold,
     HalfOpenAfterTimeout, Elapsed, CircuitState, Refuse, IsRefused, cbVars
<1>3. ASSUME NEW c \in Caller, Fail(c)
      PROVE  BreakerInv'
  BY <1>3 DEF BreakerInv, TypeOK, BreakerTypeOK, ClosedBelowThreshold,
     HalfOpenAfterTimeout, Elapsed, CircuitState, Fail, RecordFailure
<1>4. ASSUME NEW c \in Caller, Succeed(c)
      PROVE  BreakerInv'
  BY <1>4 DEF BreakerInv, TypeOK, BreakerTypeOK, ClosedBelowThreshold,
     HalfOpenAfterTimeout, Elapsed, CircuitState, Succeed, RecordSuccess
<1>5. CASE Tick
  BY <1>5 DEF BreakerInv, TypeOK, BreakerTypeOK, ClosedBelowThreshold,
     HalfOpenAfterTimeout, Elapsed, CircuitState, Tick, BreakerTick, Older
<1>6. CASE UNCHANGED vars
  BY <1>6 DEF BreakerInv, TypeOK, BreakerTypeOK, ClosedBelowThreshold,
     HalfOpenAfterTimeout, Elapsed, vars, cbVars
<1>7. QED
  BY <1>1, <1>2, <1>3, <1>4, <1>5, <1>6 DEF Next

LEMMA BreakerInvHolds == Spec => []BreakerInv
<1>1. Init => BreakerInv
  BY ThresholdAssumption, TimeoutAssumption, MaxFailuresAssumption
     DEF Init, BreakerInit, BreakerInv, TypeOK, BreakerTypeOK, CircuitState,
         ClosedBelowThreshold, HalfOpenAfterTimeout, Elapsed
<1>2. QED
  BY <1>1, BreakerInvStep, PTL DEF Spec

\* Every reachable state has the declared types.
THEOREM BreakerTypes == Spec => []TypeOK
<1>1. BreakerInv => TypeOK
  BY DEF BreakerInv
<1>2. QED
  BY <1>1, BreakerInvHolds, PTL

\* The breaker is closed exactly while it has counted fewer failures than the
\* threshold, however late the results of overlapping requests arrive.
THEOREM ClosedMeansFewFailures == Spec => []ClosedBelowThreshold
<1>1. BreakerInv => ClosedBelowThreshold
  BY DEF BreakerInv
<1>2. QED
  BY <1>1, BreakerInvHolds, PTL

\* A half-open breaker has seen no failure for its whole timeout.
THEOREM ProbesWaitForTimeout == Spec => []HalfOpenAfterTimeout
<1>1. BreakerInv => HalfOpenAfterTimeout
  BY DEF BreakerInv
<1>2. QED
  BY <1>1, BreakerInvHolds, PTL

\* Whatever package is observed, every behaviour of the toolkit is one of the breaker with
\* its callers, so that what is proved of these holds in it.
THEOREM BreakerOfToolkit == ToolkitSpec => Spec
<1>1. ToolkitInit => Init
  BY DEF ToolkitInit
<1>2. [ToolkitNext]_toolkitVars => [Next]_vars
  BY DEF ToolkitNext, toolkitVars, BreakerPart, PoolPart, ReloadPart, QueuePart, CachePart,
     FilePart, VersionPart
<1> QED
  BY <1>1, <1>2, PTL DEF ToolkitSpec, Spec

(***************************************************************************)
(* The advanced connection pool                                            *)
(***************************************************************************)

\* A pool that callers can find is the pool of one service, no connection is in two
\* pools, and what has not been created or dialled yet is in none. The clean-up holds
\* acp.mu, so that the services it has still to visit keep their pools.
PoolTypes ==
  /\ pools \in [Service -> 0..created] /\ created \in 0..MaxPools
  /\ conns \in [ConnPool!Pool -> SUBSET (1..dialled)] /\ dialled \in 0..MaxConns
  /\ caller \in [PoolCaller -> {"idle", "called", "found", "metrics"}]
  /\ holds \in [PoolCaller -> 0..created]
  /\ \A c \in PoolCaller : caller[c] = "found" => holds[c] # 0
PoolsApart ==
  /\ \A s, t \in Service : pools[s] = pools[t] /\ pools[s] # 0 => s = t
  /\ \A p, q \in ConnPool!Pool : p # q => conns[p] \cap conns[q] = {}
  /\ \A p \in ConnPool!Pool : p > created => conns[p] = {}
CleaningPools ==
  cleaner = "cleaning" => mu # "free" /\ \A s \in toClean : s \in Service /\ pools[s] # 0
PoolInv == PoolTypes /\ PoolsApart /\ CleaningPools /\ ListedConnectionsOpen

LEMMA PoolNumbers ==
  /\ MaxPools \in Nat /\ MaxConns \in Nat /\ ConnPool!Pool = 1..MaxPools
  /\ PoolTypes =>
       /\ created \in Nat /\ dialled \in Nat
       /\ \A s \in Service : pools[s] \in 0..created /\ (pools[s] # 0 => pools[s] \in ConnPool!Pool)
       /\ \A p \in ConnPool!Pool : conns[p] \subseteq 1..dialled
BY PoolConstants DEF PoolTypes, ConnPool!Pool

\* The new pool lists connections that nobody had.
LEMMA NewPool ==
  ASSUME PoolInv, NEW s \in Service, ConnPool!CreateServicePool(s) PROVE PoolInv'
<1> DEFINE new == (dialled + 1)..dialled'
<1>1. /\ created' = created + 1 /\ created < MaxPools /\ mu = "free"
      /\ dialled' \in dialled..MaxConns
      /\ conns' = [conns EXCEPT ![created'] = new]
      /\ pools' = [pools EXCEPT ![s] = created']
      /\ live' = live \cup new
      /\ UNCHANGED <<caller, holds, closer, mu, cleaner, toClean>>
  BY PoolNumbers, PoolConstants DEF ConnPool!CreateServicePool, PoolInv
<1>2. /\ PoolTypes /\ PoolsApart /\ CleaningPools /\ ListedConnectionsOpen
      /\ created' \in ConnPool!Pool /\ created \in Nat /\ dialled \in Nat
  BY <1>1, PoolNumbers DEF PoolInv
<1>3. /\ pools' \in [Service -> 0..created']
      /\ \A t \in Service : pools'[t] = IF t = s THEN created' ELSE pools[t]
  BY <1>1, <1>2 DEF PoolTypes
<1>4. /\ \A p \in ConnPool!Pool : conns'[p] = IF p = created' THEN new ELSE conns[p]
      /\ \A p \in ConnPool!Pool : conns'[p] \in SUBSET (1..dialled')
      /\ new \cap (1..dialled) = {}
  BY <1>1, <1>2, PoolNumbers DEF PoolTypes
<1>5. conns' \in [ConnPool!Pool -> SUBSET (1..dialled')]
  BY <1>1, <1>2, <1>4 DEF PoolTypes
<1>6. PoolTypes'
  <2>1. created' \in 0..MaxPools /\ dialled' \in 0..MaxConns
    BY <1>1, <1>2, PoolNumbers
  <2>2. holds' \in [PoolCaller -> 0..created']
    BY <1>1, <1>2 DEF PoolTypes
  <2> QED
    BY <1>1, <1>2, <1>3, <1>5, <2>1, <2>2 DEF PoolTypes
<1>7. PoolsApart'
  <2>1. \A t, u \in Service : pools'[t] = pools'[u] /\ pools'[t] # 0 => t = u
    <3>1. \A t \in Service : pools[t] # created'
      BY <1>1, <1>2, PoolNumbers
    <3> QED
      BY <1>2, <1>3, <3>1 DEF PoolsApart
  <2>2. \A p, q \in ConnPool!Pool : p # q => conns'[p] \cap conns'[q] = {}
    <3>1. \A p \in ConnPool!Pool : new \cap conns[p] = {}
      BY <1>2, <1>4, PoolNumbers
    <3> HIDE DEF new
    <3> QED
      BY <1>2, <1>4, <3>1 DEF PoolsApart
  <2>3. \A p \in ConnPool!Pool : p > created' => conns'[p] = {}
    BY <1>1, <1>2, <1>4, PoolNumbers DEF PoolsApart
  <2> QED
    BY <2>1, <2>2, <2>3 DEF PoolsApart
<1>8. CleaningPools'
  BY <1>1, <1>2 DEF CleaningPools
<1>9. ListedConnectionsOpen'
  <2>1. ASSUME closer # "done", NEW t \in Service, pools'[t] # 0
        PROVE  conns'[pools'[t]] \subseteq live'
    BY <1>1, <1>2, <1>3, <1>4, <2>1, PoolNumbers DEF ListedConnectionsOpen, ConnPool!ListedConnectionsOpen
  <2>2. conns[created'] = {}
    BY <1>1, <1>2 DEF PoolsApart
  <2>3. live' \subseteq UNION {conns'[p] : p \in ConnPool!Pool}
    BY <1>1, <1>2, <1>4, <2>2 DEF ListedConnectionsOpen, ConnPool!ListedConnectionsOpen
  <2> QED
    BY <1>1, <2>1, <2>3 DEF ListedConnectionsOpen, ConnPool!ListedConnectionsOpen
<1> QED
  BY <1>6, <1>7, <1>8, <1>9 DEF PoolInv

\* What is closed was in this pool alone, and leaves it, or the pool is given up.
LEMMA CleanedPool ==
  ASSUME PoolInv, NEW s \in Service, ConnPool!CleanPool(s) PROVE PoolInv'
<1> DEFINE old == pools[s]
<1>1. /\ cleaner = "cleaning" /\ s \in toClean /\ toClean' = toClean \ {s}
      /\ conns' = [conns EXCEPT ![old] = @ \ stale]
      /\ \/ live' = live \ conns[old] /\ pools' = [pools EXCEPT ![s] = 0]
         \/ live' = live \ (stale \cap conns[old]) /\ pools' = pools
      /\ UNCHANGED <<created, dialled, mu, cleaner, caller, holds, closer>>
  BY DEF ConnPool!CleanPool
<1>2. PoolTypes /\ PoolsApart /\ CleaningPools /\ ListedConnectionsOpen
  BY DEF PoolInv
<1>3. old \in ConnPool!Pool /\ old # 0 /\ created \in Nat
  BY <1>1, <1>2, PoolNumbers DEF CleaningPools
<1>4. /\ pools' \in [Service -> 0..created]
      /\ \A t \in Service : pools'[t] = pools[t] \/ (t = s /\ pools'[t] = 0)
  <2>1. pools \in [Service -> 0..created] /\ 0 \in 0..created
    BY <1>2, <1>3 DEF PoolTypes
  <2> QED
    BY <1>1, <2>1
<1>5. /\ \A p \in ConnPool!Pool : conns'[p] = IF p = old THEN conns[p] \ stale ELSE conns[p]
      /\ conns' \in [ConnPool!Pool -> SUBSET (1..dialled)]
  BY <1>1, <1>2 DEF PoolTypes
<1>6. PoolTypes' /\ CleaningPools'
  BY <1>1, <1>2, <1>4, <1>5 DEF PoolTypes, CleaningPools
<1> HIDE DEF old
<1>7. PoolsApart'
  BY <1>1, <1>2, <1>4, <1>5 DEF PoolsApart
<1>8. ListedConnectionsOpen'
  <2>1. \A t \in Service : pools[t] # 0 => pools[t] \in ConnPool!Pool
    BY <1>2, PoolNumbers
  <2>2. \A t \in Service : t # s /\ pools[t] # 0 => pools[t] # old
    BY <1>2, <1>3 DEF old, PoolsApart
  <2>3. \A p \in ConnPool!Pool : p # old => conns[p] \cap conns[old] = {}
    BY <1>2, <1>3 DEF PoolsApart
  <2>4. ASSUME closer # "done", NEW t \in Service, pools'[t] # 0
        PROVE  conns'[pools'[t]] \subseteq live'
    <3>1. pools'[t] = pools[t] /\ pools[t] \in ConnPool!Pool /\ conns[pools[t]] \subseteq live
      BY <1>2, <1>4, <2>1, <2>4 DEF ListedConnectionsOpen, ConnPool!ListedConnectionsOpen
    <3>2. CASE t = s
      <4>1. pools[t] = old /\ pools' # [pools EXCEPT ![s] = 0]
        BY <1>2, <2>4, <3>2 DEF old, PoolTypes
      <4>2. live' = live \ (stale \cap conns[old])
        BY <1>1, <4>1
      <4>3. conns'[pools'[t]] = conns[old] \ stale
        BY <1>3, <1>5, <3>1, <4>1
      <4> QED
        BY <3>1, <4>1, <4>2, <4>3
    <3>3. CASE t # s
      BY <1>1, <1>5, <2>2, <2>3, <2>4, <3>1, <3>3
    <3> QED
      BY <3>2, <3>3
  <2>5. ASSUME NEW x \in live' PROVE \E p \in ConnPool!Pool : x \in conns'[p]
    <3>1. x \in live /\ ~(x \in conns[old] /\ x \in stale)
      BY <1>1
    <3>2. PICK p \in ConnPool!Pool : x \in conns[p]
      BY <1>2, <3>1 DEF ListedConnectionsOpen, ConnPool!ListedConnectionsOpen
    <3> QED
      BY <1>5, <3>1, <3>2
  <2> QED
    BY <1>1, <2>4, <2>5 DEF ListedConnectionsOpen, ConnPool!ListedConnectionsOpen
<1> QED
  BY <1>6, <1>7, <1>8 DEF PoolInv

\* The connection that is dialled was in no pool.
LEMMA DialledConnection ==
  ASSUME PoolInv, NEW c \in PoolCaller, ConnPool!DialNew(c) PROVE PoolInv'
<1> DEFINE h == holds[c]
<1>1. /\ caller[c] = "found" /\ dialled < MaxConns
      /\ dialled' = dialled + 1 /\ live' = live \cup {dialled'}
      /\ conns' = [conns EXCEPT ![h] = @ \cup {dialled'}]
      /\ caller' = [caller EXCEPT ![c] = "idle"] /\ holds' = [holds EXCEPT ![c] = 0]
      /\ UNCHANGED <<pools, created, mu, cleaner, toClean, closer>>
  BY DEF ConnPool!DialNew, ConnPool!Return
<1>2. PoolTypes /\ PoolsApart /\ CleaningPools /\ ListedConnectionsOpen
  BY DEF PoolInv
<1>3. /\ h \in ConnPool!Pool /\ h \in 1..created
      /\ dialled \in Nat /\ dialled' \in 0..MaxConns
  BY <1>1, <1>2, PoolNumbers DEF PoolTypes
<1>4. /\ caller' \in [PoolCaller -> {"idle", "called", "found", "metrics"}]
      /\ holds' \in [PoolCaller -> 0..created]
      /\ \A d \in PoolCaller : caller'[d] = "found" => holds'[d] # 0
  BY <1>1, <1>2, PoolNumbers DEF PoolTypes
<1> HIDE DEF h
<1>5. \A p \in ConnPool!Pool : conns'[p] = IF p = h THEN conns[p] \cup {dialled'} ELSE conns[p]
  BY <1>1, <1>2 DEF PoolTypes
<1>6. \A p \in ConnPool!Pool : dialled' \notin conns[p] /\ conns'[p] \in SUBSET (1..dialled')
  BY <1>1, <1>2, <1>3, <1>5, PoolNumbers
<1>7. conns' \in [ConnPool!Pool -> SUBSET (1..dialled')]
  BY <1>1, <1>2, <1>6 DEF PoolTypes
<1>8. PoolTypes' /\ CleaningPools'
  BY <1>1, <1>2, <1>3, <1>4, <1>7 DEF PoolTypes, CleaningPools
<1>9. PoolsApart'
  BY <1>1, <1>2, <1>3, <1>5, <1>6, PoolNumbers DEF PoolsApart
<1>10. ListedConnectionsOpen'
  <2>1. \A t \in Service : pools[t] # 0 => pools[t] \in ConnPool!Pool
    BY <1>2, PoolNumbers
  <2>2. closer # "done" => \A t \in Service : pools[t] # 0 => conns'[pools[t]] \subseteq live'
    BY <1>1, <1>2, <1>5, <2>1 DEF ListedConnectionsOpen, ConnPool!ListedConnectionsOpen
  <2>3. live' \subseteq UNION {conns'[p] : p \in ConnPool!Pool}
    BY <1>1, <1>2, <1>3, <1>5 DEF ListedConnectionsOpen, ConnPool!ListedConnectionsOpen
  <2> QED
    BY <1>1, <2>2, <2>3 DEF ListedConnectionsOpen, ConnPool!ListedConnectionsOpen
<1> QED
  BY <1>8, <1>9, <1>10 DEF PoolInv

LEMMA PoolInvStep == PoolInv /\ [ConnPool!Next]_poolVars => PoolInv'
<1> SUFFICES ASSUME PoolInv, [ConnPool!Next]_poolVars PROVE PoolInv'
  OBVIOUS
<1>1. ASSUME NEW s \in Service, ConnPool!CreateServicePool(s) \/ ConnPool!CleanPool(s) PROVE PoolInv'
  BY <1>1, NewPool, CleanedPool
<1>4. ASSUME NEW c \in PoolCaller, ConnPool!DialNew(c) PROVE PoolInv'
  BY <1>4, DialledConnection
<1> USE PoolConstants DEF PoolInv, PoolTypes, PoolsApart, CleaningPools, ListedConnectionsOpen,
        ConnPool!ListedConnectionsOpen, ConnPool!Pool, ConnPool!poolVars
<1>3. ASSUME NEW c \in PoolCaller, NEW s \in Service, ConnPool!Lookup(c, s) PROVE PoolInv'
  BY SMTT(30), <1>3 DEF ConnPool!Lookup
<1>5. ASSUME NEW c \in PoolCaller, ConnPool!Call(c, "called") \/ ConnPool!Call(c, "metrics")
      PROVE  PoolInv'
  BY SMTT(30), <1>5 DEF ConnPool!Call
<1>9. ASSUME NEW c \in PoolCaller, ConnPool!Reuse(c) PROVE PoolInv'
  BY SMTT(30), <1>9 DEF ConnPool!Reuse, ConnPool!Return
<1>10. ASSUME NEW c \in PoolCaller, ConnPool!NoConnection(c) PROVE PoolInv'
  BY SMTT(30), <1>10 DEF ConnPool!NoConnection, ConnPool!Return
<1>11. ASSUME NEW c \in PoolCaller, ConnPool!GetMetrics(c) PROVE PoolInv'
  BY SMTT(30), <1>11 DEF ConnPool!GetMetrics, ConnPool!Return
<1>6. CASE ConnPool!CleanupBegins \/ ConnPool!CleanupSticks \/ ConnPool!CleanerEnds
  BY SMTT(30), <1>6 DEF ConnPool!CleanupBegins, ConnPool!CleanupSticks, ConnPool!CleanerEnds
<1>7. CASE ConnPool!CloseSignal \/ ConnPool!CloseAll \/ ConnPool!TimePasses
  BY SMTT(30), <1>7 DEF ConnPool!CloseSignal, ConnPool!CloseAll, ConnPool!TimePasses
<1>8. CASE UNCHANGED poolVars
  BY <1>8 DEF poolVars
<1> QED
  BY <1>1, <1>3, <1>4, <1>5, <1>6, <1>7, <1>8, <1>9, <1>10, <1>11
     DEF ConnPool!Next, ConnPool!CallerStep

\* A behaviour of the toolkit is, seen through the pool's variables, one of the pool.
LEMMA PoolInvHolds == ToolkitSpec => []PoolInv
<1>1. ToolkitInit => PoolInv
  BY PoolConstants DEF ToolkitInit, ConnPool!Init, PoolInv, PoolTypes, PoolsApart,
     CleaningPools, ConnPool!Pool, ListedConnectionsOpen, ConnPool!ListedConnectionsOpen
<1>2. [ToolkitNext]_toolkitVars => [ConnPool!Next]_poolVars
  BY DEF ToolkitNext, toolkitVars, BreakerPart, PoolPart, ReloadPart, QueuePart, CachePart,
     FilePart, VersionPart
<1> QED
  BY <1>1, <1>2, PoolInvStep, PTL DEF ToolkitSpec

\* Until Close a pool that callers can find lists no closed connection, and no connection
\* is open that no pool lists (AdvancedConnectionPool: CreateServicePool, getConnection
\* and performCleanup).
THEOREM PoolListsWhatIsOpen == ToolkitSpec => []ListedConnectionsOpen
<1>1. PoolInv => ListedConnectionsOpen
  BY DEF PoolInv
<1> QED
  BY <1>1, PoolInvHolds, PTL

(***************************************************************************)
(* The hot-reloading configuration                                         *)
(***************************************************************************)

\* The program knows a key's value among these, or has not read it, or it was removed.
Known(k, contents) == told[k] \in {Absent, contents[k]} \/ contents[k] = Absent

\* What the program knows, seen from each point of the watcher's way through a change:
\* the values of before the change stand in backup until the callbacks are called, and
\* a key is in changed until its own was.
ReloadInv ==
  /\ settings \in Reload!Contents \cup {Bad}
  /\ config \in Reload!Contents /\ told \in Reload!Contents /\ registered \subseteq Key
  /\ loader = "idle" => told = Reload!Nothing /\ config = Reload!Nothing
  /\ loader \in {"idle", "read"} => watcher = "none"
  /\ \A k \in Key : k \notin registered => told[k] = Absent
  /\ watcher \in {"none", "waiting", "backed up"} => \A k \in Key : Known(k, config)
  /\ watcher = "backed up" => backup = config
  /\ watcher = "loaded" => \A k \in Key : Known(k, backup) \/ told[k] = config[k]
  /\ watcher = "calling" => \A k \in Key \ changed : Known(k, config)

LEMMA ReloadInvStep == ReloadInv /\ [Reload!Next]_reloadVars => ReloadInv'
<1> SUFFICES ASSUME ReloadInv, [Reload!Next]_reloadVars PROVE ReloadInv'
  OBVIOUS
<1> USE DEF ReloadInv, Known, Reload!Contents, Reload!Nothing, Reload!Free, Reload!fileVars,
        Reload!programVars
<1>1. ASSUME NEW contents \in Reload!Contents \cup {Bad},
             Reload!WriteFile(contents) \/ Reload!ReplaceFile(contents)
      PROVE  ReloadInv'
  BY <1>1 DEF Reload!WriteFile, Reload!ReplaceFile, Reload!Written
<1>2. CASE Reload!LoadConfig
  BY <1>2 DEF Reload!LoadConfig
<1>3. CASE Reload!LoadWatches \/ Reload!Stop
  BY <1>3 DEF Reload!LoadWatches, Reload!Stop
<1>4. ASSUME NEW k \in Key, Reload!RegisterCallback(k) PROVE ReloadInv'
  BY <1>4 DEF Reload!RegisterCallback
<1>5. ASSUME NEW k \in Key, Reload!Get(k) PROVE ReloadInv'
  BY <1>5 DEF Reload!Get
<1>6. CASE Reload!HandleConfigChange \/ Reload!ReadInConfig
  BY <1>6 DEF Reload!HandleConfigChange, Reload!ReadInConfig
<1>7. CASE Reload!DetectChanges
  BY <1>7 DEF Reload!DetectChanges
<1>8. ASSUME NEW k \in Key, Reload!CallBack(k) PROVE ReloadInv'
  BY <1>8 DEF Reload!CallBack
<1>9. CASE Reload!HandledChange \/ Reload!WatcherEnds
  BY <1>9 DEF Reload!HandledChange, Reload!WatcherEnds
<1>10. CASE UNCHANGED reloadVars
  BY <1>10 DEF reloadVars
<1> QED
  BY <1>1, <1>2, <1>3, <1>4, <1>5, <1>6, <1>7, <1>8, <1>9, <1>10
     DEF Reload!Next, Reload!WatcherStep

LEMMA ReloadInvHolds == ToolkitSpec => []ReloadInv
<1>1. ToolkitInit => ReloadInv
  BY DEF ToolkitInit, Reload!Init, ReloadInv, Known, Reload!Contents, Reload!Nothing
<1>2. [ToolkitNext]_toolkitVars => [Reload!Next]_reloadVars
  BY DEF ToolkitNext, toolkitVars, BreakerPart, PoolPart, ReloadPart, QueuePart, CachePart,
     FilePart, VersionPart
<1> QED
  BY <1>1, <1>2, ReloadInvStep, PTL DEF ToolkitSpec

\* When the watcher is at rest, the program knows the current value of every key it has
\* registered for and read once, unless the key was removed from the file, for any keys
\* and values (HotReloadConfig.handleConfigChange and its callers).
THEOREM ProgramIsTold == ToolkitSpec => []CallbacksCaughtUp
<1>1. ReloadInv => CallbacksCaughtUp
  BY DEF ReloadInv, Known, CallbacksCaughtUp, Reload!CallbacksCaughtUp
<1> QED
  BY <1>1, ReloadInvHolds, PTL

(***************************************************************************)
(* The message queue                                                       *)
(***************************************************************************)

\* A subscription that has, or had, the message.
Has(s, m) ==
  \/ \E i \in 1..Len(inbox[s]) : inbox[s][i] = m
  \/ handling[s] = m
  \/ <<s, m>> \in handled

\* The key a subscription is stored under when it is made.
KeyAt(s) == Queue!KeyOf(subs[s].subject, subs[s].group)

QueueTypes ==
  /\ subscriptions \in [Queue!Keys -> Nat] /\ made \in 0..MaxSubs
  /\ subs \in [Queue!Sub -> [subject : Subject, group : Group \cup {Plain}]]
  /\ active \subseteq 1..made
  /\ inbox \in [Queue!Sub -> Seq(Queue!Msg)] /\ handling \in [Queue!Sub -> 0..MaxMsgs]
  /\ msgs \in [Queue!Msg -> {"new", "sent", "asked", "replied", "failed"}]
  /\ acked \subseteq Queue!Msg

\* No two active subscriptions are for the same subject and group.
StoredByKey == \A s \in active : subscriptions[KeyAt(s)] = s

\* A message went to one subscription of a subject and group, once.
SentOnce ==
  /\ \A m \in Queue!Msg, s \in Queue!Sub : Has(s, m) => msgs[m] # "new"
  /\ \A m \in Queue!Msg, s, t \in Queue!Sub :
       Has(s, m) /\ Has(t, m) /\ subs[s] = subs[t] => s = t

AnsweredWasHandled ==
  \A m \in Queue!Msg : m \in acked \/ msgs[m] = "replied" =>
    \E s \in Queue!Sub : <<s, m>> \in handled

QueueInv == QueueTypes /\ StoredByKey /\ SentOnce /\ AnsweredWasHandled

LEMMA KeysOfSubs ==
  ASSUME QueueTypes
  PROVE  /\ \A s \in Queue!Sub : KeyAt(s) \in Queue!Keys
         /\ \A s, t \in Queue!Sub : subs[s] = subs[t] => KeyAt(s) = KeyAt(t)
<1>1. ASSUME NEW s \in Queue!Sub PROVE KeyAt(s) \in Queue!Keys
  <2>1. subs[s].subject \in Subject /\ subs[s].group \in Group \cup {Plain}
    BY DEF QueueTypes
  <2>2. \A subject \in Subject, group \in Group \cup {Plain} :
          Queue!KeyOf(subject, group) \in Queue!Keys
    BY DEF Queue!Keys
  <2> QED
    BY <2>1, <2>2 DEF KeyAt
<1> QED
  BY <1>1 DEF KeyAt

LEMMA InboxEnds ==
  ASSUME QueueTypes, NEW s \in Queue!Sub, inbox[s] # <<>>
  PROVE  /\ Head(inbox[s]) \in Queue!Msg /\ Head(inbox[s]) = inbox[s][1]
         /\ Len(inbox[s]) >= 1
         /\ Tail(inbox[s]) \in Seq(Queue!Msg)
         /\ \A i \in 1..Len(Tail(inbox[s])) :
              i + 1 \in 1..Len(inbox[s]) /\ Tail(inbox[s])[i] = inbox[s][i + 1]
<1>1. inbox[s] \in Seq(Queue!Msg)
  BY DEF QueueTypes
<1> QED
  BY <1>1

LEMMA SubsAreFixed ==
  ASSUME [Queue!Next]_queueVars
  PROVE  subs' = subs /\ \A s : KeyAt(s)' = KeyAt(s)
<1>1. subs' = subs
  BY DEF Queue!Next, queueVars, Queue!subVars, Queue!Subscribe, Queue!QueueSubscribe, Queue!Add,
         Queue!Close, Queue!Unsubscribe, Queue!Publish, Queue!PublishWithReply, Queue!Send,
         Queue!ReplyArrives, Queue!RequestFails, Queue!CallbackBegins, Queue!CallbackEnds
<1> QED
  BY <1>1 DEF KeyAt, Queue!KeyOf

LEMMA QueueTypesStep == QueueTypes /\ [Queue!Next]_queueVars => QueueTypes'
<1> SUFFICES ASSUME QueueTypes, [Queue!Next]_queueVars PROVE QueueTypes'
  OBVIOUS
<1> USE QueueConstants DEF QueueTypes, Queue!Sub, Queue!Msg, Queue!subVars
<1>1. ASSUME NEW k \in Queue!Keys, made < MaxSubs, Queue!Add(k) PROVE QueueTypes'
  BY SMTT(30), <1>1 DEF Queue!Add
<1>2. CASE Queue!Subscribe \/ Queue!QueueSubscribe
  <2>1. made + 1 \in Queue!Sub
    BY <1>2 DEF Queue!Subscribe, Queue!QueueSubscribe
  <2>2. /\ Queue!Subscribe => Queue!KeyOf(Queue!Upcoming.subject, Plain) = KeyAt(made + 1)
        /\ Queue!QueueSubscribe =>
             Queue!KeyOf(Queue!Upcoming.subject, Queue!Upcoming.group) = KeyAt(made + 1)
    BY DEF Queue!Subscribe, Queue!QueueSubscribe, KeyAt, Queue!Upcoming
  <2> QED
    BY SMTT(30), <1>1, <1>2, <2>1, <2>2, KeysOfSubs DEF Queue!Subscribe, Queue!QueueSubscribe
<1>0. ASSUME NEW ended, Queue!Ended(ended)
      PROVE  active' \subseteq active /\ inbox' \in [Queue!Sub -> Seq(Queue!Msg)]
  <2>1. <<>> \in Seq(Queue!Msg)
    OBVIOUS
  <2>2. inbox' \in [Queue!Sub -> Seq(Queue!Msg)]
    BY <1>0, <2>1, Zenon DEF Queue!Ended
  <2> QED
    BY <1>0, <2>2 DEF Queue!Ended
<1>3. ASSUME NEW k \in Queue!Keys, Queue!Unsubscribe(k) PROVE QueueTypes'
  BY <1>0, <1>3 DEF Queue!Unsubscribe
<1>4. CASE Queue!Close
  BY <1>0, <1>4 DEF Queue!Close
<1>5. ASSUME NEW m \in Queue!Msg, NEW s \in Subject,
             Queue!Publish(m, s) \/ Queue!PublishWithReply(m, s)
      PROVE  QueueTypes'
  <2>1. PICK receivers :
          inbox' = [t \in Queue!Sub |->
                      IF t \in receivers THEN Append(inbox[t], m) ELSE inbox[t]]
    BY <1>5 DEF Queue!Publish, Queue!PublishWithReply, Queue!Send
  <2>2. \A t \in Queue!Sub : Append(inbox[t], m) \in Seq(Queue!Msg)
    OBVIOUS
  <2>3. inbox' \in [Queue!Sub -> Seq(Queue!Msg)]
    BY <2>1, <2>2, Zenon DEF QueueTypes
  <2> QED
    BY <1>5, <2>3 DEF Queue!Publish, Queue!PublishWithReply, Queue!Send
<1>6. ASSUME NEW m \in Queue!Msg, Queue!ReplyArrives(m) \/ Queue!RequestFails(m)
      PROVE  QueueTypes'
  BY <1>6 DEF Queue!ReplyArrives, Queue!RequestFails
<1>7. ASSUME NEW s \in Queue!Sub, Queue!CallbackBegins(s) PROVE QueueTypes'
  <2>1. Tail(inbox[s]) \in Seq(Queue!Msg) /\ Head(inbox[s]) \in Queue!Msg
    BY <1>7, InboxEnds DEF Queue!CallbackBegins
  <2>2. inbox' \in [Queue!Sub -> Seq(Queue!Msg)]
    BY <1>7, <2>1, Zenon DEF Queue!CallbackBegins
  <2>3. handling' \in [Queue!Sub -> 0..MaxMsgs]
    BY SMTT(30), <1>7, <2>1 DEF Queue!CallbackBegins
  <2> QED
    BY <1>7, <2>2, <2>3 DEF Queue!CallbackBegins
<1>8. ASSUME NEW s \in Queue!Sub, Queue!CallbackEnds(s) PROVE QueueTypes'
  <2>0. handling[s] \in Queue!Msg
    BY <1>8 DEF Queue!CallbackEnds
  <2>1. acked' \subseteq Queue!Msg
    <3>1. acked' \subseteq acked \cup {handling[s]}
      BY <1>8 DEF Queue!CallbackEnds
    <3> QED
      BY <2>0, <3>1
  <2>2. handling' \in [Queue!Sub -> 0..MaxMsgs]
    BY <1>8 DEF Queue!CallbackEnds
  <2> QED
    BY <1>8, <2>1, <2>2 DEF Queue!CallbackEnds
<1>9. CASE UNCHANGED queueVars
  BY <1>9 DEF queueVars
<1> QED
  BY <1>2, <1>3, <1>4, <1>5, <1>6, <1>7, <1>8, <1>9 DEF Queue!Next

\* A key is taken only when it is free, and given up with its subscription.
LEMMA StoredByKeyStep ==
  QueueTypes /\ StoredByKey /\ [Queue!Next]_queueVars => StoredByKey'
<1> SUFFICES ASSUME QueueTypes, StoredByKey, [Queue!Next]_queueVars PROVE StoredByKey'
  OBVIOUS
<1> USE QueueConstants DEF QueueTypes, StoredByKey, Queue!Sub, Queue!Msg, Queue!subVars
<1>0. (\A s : KeyAt(s)' = KeyAt(s)) /\ \A s \in Queue!Sub : KeyAt(s) \in Queue!Keys
  BY SubsAreFixed, KeysOfSubs
<1>1. CASE Queue!Subscribe \/ Queue!QueueSubscribe
  <2>1. /\ made + 1 \in Queue!Sub
        /\ subscriptions[KeyAt(made + 1)] = 0 /\ Queue!Add(KeyAt(made + 1))
    BY <1>1 DEF Queue!Subscribe, Queue!QueueSubscribe, KeyAt, Queue!Upcoming
  <2> QED
    BY <1>0, <2>1 DEF Queue!Add
<1>2. ASSUME NEW k \in Queue!Keys, Queue!Unsubscribe(k) PROVE StoredByKey'
  BY <1>0, <1>2 DEF Queue!Unsubscribe, Queue!Ended
<1>3. CASE Queue!Close
  BY <1>3 DEF Queue!Close, Queue!Ended
<1>4. CASE UNCHANGED <<subscriptions, active>>
  BY <1>0, <1>4
<1>5. ASSUME NEW m \in Queue!Msg, NEW s \in Subject,
             Queue!Publish(m, s) \/ Queue!PublishWithReply(m, s)
      PROVE  UNCHANGED <<subscriptions, active>>
  BY <1>5 DEF Queue!Publish, Queue!PublishWithReply, Queue!Send
<1>6. ASSUME NEW m \in Queue!Msg, Queue!ReplyArrives(m) \/ Queue!RequestFails(m)
      PROVE  UNCHANGED <<subscriptions, active>>
  BY <1>6 DEF Queue!ReplyArrives, Queue!RequestFails
<1>7. ASSUME NEW s \in Queue!Sub, Queue!CallbackBegins(s) \/ Queue!CallbackEnds(s)
      PROVE  UNCHANGED <<subscriptions, active>>
  BY <1>7 DEF Queue!CallbackBegins, Queue!CallbackEnds
<1>8. CASE UNCHANGED queueVars
  BY <1>4, <1>8 DEF queueVars
<1> QED
  BY <1>1, <1>2, <1>3, <1>4, <1>5, <1>6, <1>7, <1>8 DEF Queue!Next

\* Only Send gives a message to a subscription: the others move it on or drop it.
LEMMA MessagesMoveOn ==
  ASSUME QueueTypes, [Queue!Next]_queueVars,
         ~ \E m \in Queue!Msg, s \in Subject : Queue!Publish(m, s) \/ Queue!PublishWithReply(m, s)
  PROVE  /\ \A s \in Queue!Sub, m \in Queue!Msg : Has(s, m)' => Has(s, m)
         /\ \A m \in Queue!Msg : msgs'[m] = "new" => msgs[m] = "new"
<1> USE QueueConstants DEF QueueTypes, Has, Queue!Sub, Queue!Msg, Queue!subVars
<1> DEFINE Moved == /\ \A s \in Queue!Sub, m \in Queue!Msg : Has(s, m)' => Has(s, m)
                    /\ \A m \in Queue!Msg : msgs'[m] = "new" => msgs[m] = "new"
<1>1. CASE Queue!Subscribe \/ Queue!QueueSubscribe
  BY <1>1 DEF Queue!Subscribe, Queue!QueueSubscribe, Queue!Add
<1>2. ASSUME NEW ended, Queue!Ended(ended), UNCHANGED <<handling, msgs, handled>> PROVE Moved
  BY <1>2 DEF Queue!Ended
<1>3. ASSUME NEW k \in Queue!Keys, Queue!Unsubscribe(k) PROVE Moved
  BY <1>2, <1>3 DEF Queue!Unsubscribe
<1>4. CASE Queue!Close
  BY <1>2, <1>4 DEF Queue!Close
<1>5. ASSUME NEW m \in Queue!Msg, Queue!ReplyArrives(m) \/ Queue!RequestFails(m) PROVE Moved
  BY <1>5 DEF Queue!ReplyArrives, Queue!RequestFails
<1>6. ASSUME NEW s \in Queue!Sub, Queue!CallbackBegins(s) PROVE Moved
  <2>1. ASSUME NEW m \in Queue!Msg, NEW i \in 1..Len(inbox'[s]), inbox'[s][i] = m
        PROVE  \E j \in 1..Len(inbox[s]) : inbox[s][j] = m
    BY <1>6, <2>1, InboxEnds DEF Queue!CallbackBegins
  <2>2. \E j \in 1..Len(inbox[s]) : inbox[s][j] = Head(inbox[s])
    BY <1>6, InboxEnds DEF Queue!CallbackBegins
  <2>3. /\ handling'[s] = Head(inbox[s])
        /\ \A t \in Queue!Sub : t # s => inbox'[t] = inbox[t] /\ handling'[t] = handling[t]
    BY <1>6 DEF Queue!CallbackBegins
  <2>4. UNCHANGED <<msgs, handled>>
    BY <1>6 DEF Queue!CallbackBegins
  <2>5. ASSUME NEW m \in Queue!Msg, Has(s, m)' PROVE Has(s, m)
    <3>1. CASE \E i \in 1..Len(inbox'[s]) : inbox'[s][i] = m
      BY <2>1, <3>1
    <3>2. CASE handling'[s] = m
      BY <2>2, <2>3, <3>2
    <3> QED
      BY <2>4, <2>5, <3>1, <3>2
  <2>6. ASSUME NEW t \in Queue!Sub, t # s, NEW m \in Queue!Msg, Has(t, m)' PROVE Has(t, m)
    BY <2>3, <2>4, <2>6
  <2> QED
    BY <2>4, <2>5, <2>6
<1>7. ASSUME NEW s \in Queue!Sub, Queue!CallbackEnds(s) PROVE Moved
  BY SMTT(30), <1>7 DEF Queue!CallbackEnds
<1>8. CASE UNCHANGED queueVars
  BY <1>8 DEF queueVars
<1> QED
  BY <1>1, <1>3, <1>4, <1>5, <1>6, <1>7, <1>8 DEF Queue!Next

LEMMA SentOnceStep ==
  QueueTypes /\ StoredByKey /\ SentOnce /\ [Queue!Next]_queueVars => SentOnce'
<1> SUFFICES ASSUME QueueTypes, StoredByKey, SentOnce, [Queue!Next]_queueVars PROVE SentOnce'
  OBVIOUS
<1>1. subs' = subs
  BY SubsAreFixed
<1>2. CASE ~ \E m \in Queue!Msg, s \in Subject :
               Queue!Publish(m, s) \/ Queue!PublishWithReply(m, s)
  BY <1>1, <1>2, MessagesMoveOn DEF SentOnce
<1>3. ASSUME NEW m \in Queue!Msg, NEW subject \in Subject,
             Queue!Publish(m, subject) \/ Queue!PublishWithReply(m, subject)
      PROVE  SentOnce'
  <2>1. PICK receivers \in Queue!Receivers(subject) :
          inbox' = [t \in Queue!Sub |->
                      IF t \in receivers THEN Append(inbox[t], m) ELSE inbox[t]]
    BY <1>3 DEF Queue!Publish, Queue!PublishWithReply, Queue!Send
  <2>2. receivers \subseteq active
    BY <2>1 DEF Queue!Receivers
  <2>3. msgs[m] = "new" /\ msgs'[m] # "new" /\ UNCHANGED <<handling, handled>>
        /\ \A n \in Queue!Msg : n # m => msgs'[n] = msgs[n]
    BY <1>3 DEF Queue!Publish, Queue!PublishWithReply, Queue!Send, QueueTypes
  <2>4. ASSUME NEW s \in Queue!Sub, NEW n \in Queue!Msg, Has(s, n)'
        PROVE  Has(s, n) \/ (n = m /\ s \in receivers)
    BY <2>1, <2>3, <2>4 DEF Has, QueueTypes
  \* Two that receive it are active, and would have the same key.
  <2>5. ASSUME NEW s \in receivers, NEW t \in receivers, subs[s] = subs[t] PROVE s = t
    <3>1. s \in Queue!Sub /\ t \in Queue!Sub
      BY <2>2, QueueConstants DEF QueueTypes, Queue!Sub
    <3> QED
      BY <2>2, <2>5, <3>1, KeysOfSubs DEF StoredByKey
  <2> QED
    BY <1>1, <2>3, <2>4, <2>5 DEF SentOnce
<1> QED
  BY <1>2, <1>3

LEMMA AnsweredStep ==
  QueueTypes /\ AnsweredWasHandled /\ [Queue!Next]_queueVars => AnsweredWasHandled'
<1> SUFFICES ASSUME QueueTypes, AnsweredWasHandled, [Queue!Next]_queueVars
             PROVE  AnsweredWasHandled'
  OBVIOUS
<1> USE DEF QueueTypes, AnsweredWasHandled, Queue!subVars
<1>1. CASE Queue!Subscribe \/ Queue!QueueSubscribe
  BY <1>1 DEF Queue!Subscribe, Queue!QueueSubscribe, Queue!Add
<1>2. ASSUME NEW k \in Queue!Keys, Queue!Unsubscribe(k) PROVE AnsweredWasHandled'
  BY <1>2 DEF Queue!Unsubscribe
<1>3. CASE Queue!Close
  BY <1>3 DEF Queue!Close
<1>4. ASSUME NEW m \in Queue!Msg, NEW s \in Subject,
             Queue!Publish(m, s) \/ Queue!PublishWithReply(m, s)
      PROVE  AnsweredWasHandled'
  BY <1>4 DEF Queue!Publish, Queue!PublishWithReply, Queue!Send
<1>5. ASSUME NEW m \in Queue!Msg, Queue!ReplyArrives(m) \/ Queue!RequestFails(m)
      PROVE  AnsweredWasHandled'
  BY <1>5 DEF Queue!ReplyArrives, Queue!RequestFails
<1>6. ASSUME NEW s \in Queue!Sub, Queue!CallbackBegins(s) PROVE AnsweredWasHandled'
  BY <1>6 DEF Queue!CallbackBegins
<1>7. ASSUME NEW s \in Queue!Sub, Queue!CallbackEnds(s) PROVE AnsweredWasHandled'
  BY <1>7 DEF Queue!CallbackEnds
<1>8. CASE UNCHANGED queueVars
  BY <1>8 DEF queueVars
<1> QED
  BY <1>1, <1>2, <1>3, <1>4, <1>5, <1>6, <1>7, <1>8 DEF Queue!Next

LEMMA QueueInvHolds == ToolkitSpec => []QueueInv
<1>1. ToolkitInit => QueueInv
  BY QueueConstants DEF ToolkitInit, Queue!Init, QueueInv, QueueTypes, StoredByKey, SentOnce,
     AnsweredWasHandled, Has, Queue!Sub, Queue!Msg
<1>2. [ToolkitNext]_toolkitVars => [Queue!Next]_queueVars
  BY DEF ToolkitNext, toolkitVars, BreakerPart, PoolPart, ReloadPart, QueuePart, CachePart,
     FilePart, VersionPart
<1>3. QueueInv /\ [Queue!Next]_queueVars => QueueInv'
  BY QueueTypesStep, StoredByKeyStep, SentOnceStep, AnsweredStep DEF QueueInv
<1> QED
  BY <1>1, <1>2, <1>3, PTL DEF ToolkitSpec

\* A message is handled at most once for its subject and once for each queue group, and an
\* answered request has been handled, whatever is subscribed and unsubscribed meanwhile
\* (NatsMessageQueue).
THEOREM MessagesHandledOnce == ToolkitSpec => []HandledOnceThenAcked
<1>1. QueueInv => HandledOnceThenAcked
  BY DEF QueueInv, SentOnce, AnsweredWasHandled, Has, HandledOnceThenAcked,
     Queue!HandledOnceThenAcked
<1> QED
  BY <1>1, QueueInvHolds, PTL

(***************************************************************************)
(* The rotating log file                                                   *)
(***************************************************************************)

\* The file is as long as maxSize, or a single line, and failed writes allow.
WithinSize ==
  \/ length <= MaxSize + spilt
  \/ \E l \in LogFile!Line : file = {l} /\ length <= sizes[l] + spilt

\* currentSize is never less than what complete lines take of the file, although a
\* rotation that fails leaves it where it was: what fits by the one fits by the other.
FileInv ==
  /\ sizes \in [LogFile!Line -> Size] /\ next \in Nat /\ now \in LogFile!Second
  /\ length \in Nat /\ size \in Nat /\ spilt \in Nat /\ length <= size + spilt
  /\ backups \in [LogFile!Second -> SUBSET LogFile!Line]
  /\ file \subseteq LogFile!Line
  /\ \A l \in logged :
       l \in file \/ l \in replaced \/ \E t \in LogFile!Second : l \in backups[t]
  /\ WithinSize

\* A line is in the file or a backup still when the file becomes the backup of a second,
\* unless it was in the one of that name.
LEMMA RenameKeeps ==
  ASSUME FileInv, LogFile!Rename
  PROVE  /\ backups' \in [LogFile!Second -> SUBSET LogFile!Line]
         /\ \A l \in logged : l \in replaced' \/ \E t \in LogFile!Second : l \in backups'[t]
<1> USE DEF FileInv, LogFile!Rename
<1>1. \A t \in LogFile!Second : backups'[t] = IF t = now THEN file ELSE backups[t]
  OBVIOUS
<1>2. ASSUME NEW l \in logged
      PROVE  l \in replaced' \/ \E t \in LogFile!Second : l \in backups'[t]
  <2>1. CASE l \in file
    BY <1>1, <2>1
  <2>2. CASE l \in replaced
    BY <2>2
  <2>3. ASSUME NEW t \in LogFile!Second, l \in backups[t]
        PROVE  l \in replaced' \/ \E u \in LogFile!Second : l \in backups'[u]
    BY <1>1, <2>3
  <2> QED
    BY <2>1, <2>2, <2>3
<1> QED
  BY <1>2

LEMMA FileInvStep == FileInv /\ [LogFile!Next]_fileVars => FileInv'
<1> SUFFICES ASSUME FileInv, [LogFile!Next]_fileVars PROVE FileInv'
  OBVIOUS
<1> USE FileConstants
    DEF FileInv, WithinSize, LogFile!Line, LogFile!Second, LogFile!Fits, LogFile!OpenedAt
<1>0. \A l \in LogFile!Line : sizes[l] \in Nat
  OBVIOUS
<1>1. CASE LogFile!WriteFits
  <2>1. /\ next \in LogFile!Line /\ size + sizes[next] <= MaxSize
        /\ UNCHANGED <<sizes, backups, now, replaced>> /\ next' = next + 1
    BY <1>1 DEF LogFile!WriteFits, LogFile!AppendLine
  <2>0. /\ sizes[next] \in Nat /\ length \in Nat /\ size \in Nat /\ spilt \in Nat
        /\ MaxSize \in Nat /\ length <= size + spilt /\ WithinSize
    BY <1>0, <2>1
  <2>2. CASE /\ file' = file \cup {next} /\ length' = length + sizes[next]
             /\ size' = size + sizes[next] /\ spilt' = spilt /\ logged' = logged \cup {next}
    <3>1. /\ length' \in Nat /\ size' \in Nat
          /\ length' <= MaxSize + spilt' /\ length' <= size' + spilt'
      <4> HIDE DEF FileInv, WithinSize
      <4> QED
        BY <2>1, <2>2, <2>0
    <3>2. \A l \in logged' :
            l \in file' \/ l \in replaced' \/ \E t \in LogFile!Second : l \in backups'[t]
      BY <2>1, <2>2
    <3>3. next' \in Nat /\ spilt' \in Nat /\ file' \subseteq LogFile!Line
      BY <2>0, <2>1, <2>2
    <3>4. WithinSize'
      BY <3>1
    <3> HIDE DEF WithinSize
    <3> QED
      BY <2>1, <3>1, <3>2, <3>3, <3>4
  <2>3. ASSUME NEW n \in 0..sizes[next] - 1, length' = length + n, spilt' = spilt + n,
               UNCHANGED <<file, size, logged>>
        PROVE  FileInv'
    <3>1. length' \in Nat /\ spilt' \in Nat /\ length' <= size' + spilt' /\ WithinSize'
      <4> HIDE DEF FileInv
      <4> QED
        BY <2>1, <2>3, <2>0
    <3> QED
      BY <2>1, <2>3, <3>1
  <2> QED
    BY <1>1, <2>2, <2>3 DEF LogFile!WriteFits, LogFile!AppendLine
<1>2. CASE LogFile!WriteFails
  BY <1>2 DEF LogFile!WriteFails
<1>3. CASE LogFile!Rotate
  <2>1. /\ backups' \in [LogFile!Second -> SUBSET LogFile!Line]
        /\ \A l \in logged : l \in replaced' \/ \E t \in LogFile!Second : l \in backups'[t]
    BY <1>3, RenameKeeps DEF LogFile!Rotate
  <2>2. next \in LogFile!Line /\ UNCHANGED <<sizes, now>> /\ next' = next + 1
    BY <1>3 DEF LogFile!Rotate, LogFile!AppendLine
  <2>3. CASE /\ file' = {next} /\ length' = sizes[next] /\ size' = sizes[next]
             /\ spilt' = 0 /\ logged' = logged \cup {next}
    <3>1. length' \in Nat /\ length' <= size' + spilt' /\ length' <= sizes'[next] + spilt'
      BY <1>0, <2>2, <2>3
    <3> QED
      BY <2>1, <2>2, <2>3, <3>1
  <2>4. ASSUME NEW n \in 0..sizes[next] - 1, length' = n, spilt' = n,
               file' = {}, size' = 0, UNCHANGED logged
        PROVE  FileInv'
    <3>1. n \in Nat /\ length' <= size' + spilt' /\ length' <= MaxSize + spilt'
      BY <1>0, <2>2, <2>4
    <3> QED
      BY <2>1, <2>2, <2>4, <3>1
  <2>5. \/ /\ file' = {next} /\ length' = sizes[next] /\ size' = sizes[next]
           /\ spilt' = 0 /\ logged' = logged \cup {next}
        \/ /\ \E n \in 0..sizes[next] - 1 : length' = n /\ spilt' = n
           /\ file' = {} /\ size' = 0 /\ UNCHANGED logged
    BY <1>0, <1>3, <2>2 DEF LogFile!Rotate, LogFile!AppendLine
  <2> QED
    BY <2>3, <2>4, <2>5
<1>4. CASE LogFile!RenameFails
  BY <1>4 DEF LogFile!RenameFails
<1>5. CASE LogFile!OpenFails
  <2>1. /\ backups' \in [LogFile!Second -> SUBSET LogFile!Line]
        /\ \A l \in logged : l \in replaced' \/ \E t \in LogFile!Second : l \in backups'[t]
    BY <1>5, RenameKeeps DEF LogFile!OpenFails
  <2> QED
    BY <1>5, <2>1 DEF LogFile!OpenFails
<1>6. CASE LogFile!Close
  BY <1>6 DEF LogFile!Close
<1>9. CASE LogFile!Restart
  BY <1>9 DEF LogFile!Restart
<1>7. CASE LogFile!Tick
  BY <1>7 DEF LogFile!Tick
<1>8. CASE UNCHANGED fileVars
  BY <1>8 DEF fileVars
<1> QED
  BY <1>1, <1>2, <1>3, <1>4, <1>5, <1>6, <1>7, <1>8, <1>9 DEF LogFile!Next

LEMMA FileInvHolds == ToolkitSpec => []FileInv
<1>1. ToolkitInit => FileInv
  BY FileConstants DEF ToolkitInit, LogFile!Init, FileInv, WithinSize, LogFile!Line, LogFile!Second
<1>2. [ToolkitNext]_toolkitVars => [LogFile!Next]_fileVars
  BY DEF ToolkitNext, toolkitVars, BreakerPart, PoolPart, ReloadPart, QueuePart, CachePart,
     FilePart, VersionPart
<1> QED
  BY <1>1, <1>2, FileInvStep, PTL DEF ToolkitSpec

\* Whatever fails in a write or a rotation and whenever the process dies, a line that was
\* written is in the file or a backup, unless a backup's name was used twice in a second;
\* and the file outgrows its limit, or a single line that is larger, by no more than what
\* failed writes have left in it (RotatingFileWriter).
THEOREM RotationsKeepLines == ToolkitSpec => []RotationKeepsLines
<1>1. FileInv => RotationKeepsLines
  <2> SUFFICES ASSUME FileInv PROVE RotationKeepsLines
    OBVIOUS
  <2>1. ASSUME NEW l \in logged
        PROVE  l \in file \cup (UNION {backups[t] : t \in LogFile!Second}) \cup replaced
    <3>1. CASE \E t \in LogFile!Second : l \in backups[t]
      <4>1. PICK t \in LogFile!Second : l \in backups[t]
        BY <3>1
      <4>2. backups[t] \in {backups[u] : u \in LogFile!Second}
        BY Zenon
      <4> QED
        BY <4>1, <4>2
    <3> QED
      BY <2>1, <3>1 DEF FileInv
  <2> QED
    BY <2>1 DEF FileInv, WithinSize, RotationKeepsLines, LogFile!RotationKeepsLines
<1> QED
  BY <1>1, FileInvHolds, PTL
===============================================================================
