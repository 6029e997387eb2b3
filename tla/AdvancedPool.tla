---------------------------- MODULE AdvancedPool ----------------------------
(***************************************************************************)
(* AdvancedConnectionPool of pkg/pool/advanced_pool.go: pools of           *)
(* connections by service, the calls that use them, and the goroutine that *)
(* cleans up. Of its optional parts, no code can set the circuit breaker,  *)
(* the load balancer or the health checker, so that GetConnection asks     *)
(* none of them and the health check returns at once.                      *)
(*                                                                         *)
(* A ServicePool is an object: a caller that looked it up goes on with it  *)
(* after the clean-up has removed it or CreateServicePool has replaced it. *)
(* Its mutex is held within one step at a time and needs no variable;      *)
(* acp.mu does, for the clean-up holds it over all pools and beyond.       *)
(***************************************************************************)
EXTENDS Integers, FiniteSets

CONSTANTS
  Service,         \* names of services
  Caller,          \* goroutines that call the pool
  MaxConnections,  \* ServicePoolConfig.MaxConnections
  Prefill,         \* the smaller of MaxIdle and the number of targets
  MaxPools,        \* bound: pools created
  MaxConns,        \* bound: connections dialled
  Cleanup          \* CleanupInterval > 0

Pool == 1..MaxPools
Conn == 1..MaxConns

VARIABLES
  pools,     \* acp.pools: Service -> pool, 0 for none
  conns,     \* Pool -> connections it lists, whose order decides nothing
  live,      \* connections that are open
  stale,     \* connections not used for IdleTimeout
  unused,    \* pools not used for twice DefaultIdleTimeout
  created,   \* pools created so far
  dialled,   \* connections dialled so far
  mu,        \* acp.mu: "free", "cleanup" or "close"
  cleaner,   \* the goroutine of the clean-up
  toClean,   \* services its loop has still to visit
  pc,        \* Caller -> what it does
  holds,     \* Caller -> the pool it looked up, 0 for none
  closed,    \* stopChan is closed
  closer,    \* Close: "idle", "waiting" for acp.mu, or "done"
  retired    \* history: pools removed or replaced

vars == <<pools, conns, live, stale, unused, created, dialled, mu, cleaner, toClean,
          pc, holds, closed, closer, retired>>
poolVars == <<pools, conns, live, stale, unused, created, dialled, retired>>

TypeOK ==
  /\ pools \in [Service -> 0..created] /\ created \in 0..MaxPools
  /\ conns \in [Pool -> SUBSET (1..dialled)]
  /\ \A p \in Pool : Cardinality(conns[p]) <= MaxConnections \/ Cardinality(conns[p]) <= Prefill
  /\ dialled \in 0..MaxConns /\ live \in SUBSET (1..dialled) /\ stale \in SUBSET Conn
  /\ unused \in SUBSET Pool /\ retired \in SUBSET (1..created)
  /\ mu \in {"free", "cleanup", "close"}
  /\ cleaner \in {"none", "waiting", "cleaning", "stuck", "ended"}
  /\ toClean \in SUBSET Service
  /\ pc \in [Caller -> {"idle", "called", "found", "metrics"}]
  /\ holds \in [Caller -> 0..created]
  /\ closed \in BOOLEAN /\ closer \in {"idle", "waiting", "done"}

\* NewAdvancedConnectionPool
Init ==
  /\ pools = [s \in Service |-> 0] /\ conns = [p \in Pool |-> {}]
  /\ live = {} /\ stale = {} /\ unused = {} /\ created = 0 /\ dialled = 0
  /\ mu = "free" /\ toClean = {}
  /\ cleaner = IF Cleanup THEN "waiting" ELSE "none"
  /\ pc = [c \in Caller |-> "idle"] /\ holds = [c \in Caller |-> 0]
  /\ closed = FALSE /\ closer = "idle" /\ retired = {}

(***************************************************************************)
(* CreateServicePool and GetConnection                                     *)
(***************************************************************************)

\* A pool for the service replaces the one it had. Dials may fail, so that it starts
\* with any number of connections up to Prefill.
CreateServicePool(s) ==
  /\ mu = "free" /\ created < MaxPools
  /\ created' = created + 1
  /\ \E n \in 0..Prefill :
       /\ dialled + n <= MaxConns
       /\ dialled' = dialled + n
       /\ live' = live \cup (dialled + 1)..dialled'
       /\ conns' = [conns EXCEPT ![created'] = (dialled + 1)..dialled']
  /\ pools' = [pools EXCEPT ![s] = created']
  /\ retired' = retired \cup ({pools[s]} \ {0})
  /\ UNCHANGED <<stale, unused, mu, cleaner, toClean, pc, holds, closed, closer>>

Call(c, step) ==
  /\ pc[c] = "idle"
  /\ pc' = [pc EXCEPT ![c] = step]
  /\ UNCHANGED <<poolVars, mu, cleaner, toClean, holds, closed, closer>>

\* The pool is looked up under the read lock; GetConnection fails without one.
Lookup(c, s) ==
  /\ pc[c] = "called" /\ mu = "free"
  /\ pc' = [pc EXCEPT ![c] = IF pools[s] = 0 THEN "idle" ELSE "found"]
  /\ holds' = [holds EXCEPT ![c] = pools[s]]
  /\ UNCHANGED <<poolVars, mu, cleaner, toClean, closed, closer>>

Return(c) == pc' = [pc EXCEPT ![c] = "idle"] /\ holds' = [holds EXCEPT ![c] = 0]

Usable(p) == conns[p] \ stale

\* getConnection: a connection that is not idle too long is used again.
Reuse(c) ==
  /\ pc[c] = "found" /\ Usable(holds[c]) # {}
  /\ unused' = unused \ {holds[c]}
  /\ Return(c)
  /\ UNCHANGED <<pools, conns, live, stale, created, dialled, retired, mu, cleaner,
                 toClean, closed, closer>>

\* Otherwise it dials if there is room, and fails if there is none or the dial does.
DialNew(c) ==
  LET p == holds[c]
  IN  /\ pc[c] = "found" /\ Usable(p) = {}
      /\ Cardinality(conns[p]) < MaxConnections /\ dialled < MaxConns
      /\ dialled' = dialled + 1
      /\ live' = live \cup {dialled'}
      /\ conns' = [conns EXCEPT ![p] = @ \cup {dialled'}]
      /\ unused' = unused \ {p}
      /\ Return(c)
      /\ UNCHANGED <<pools, stale, created, retired, mu, cleaner, toClean, closed, closer>>

NoConnection(c) ==
  /\ pc[c] = "found" /\ Usable(holds[c]) = {}
  /\ unused' = unused \ {holds[c]}
  /\ Return(c)
  /\ UNCHANGED <<pools, conns, live, stale, created, dialled, retired, mu, cleaner,
                 toClean, closed, closer>>

\* GetMetrics: updateMetrics reads all pools under the read lock.
GetMetrics(c) ==
  /\ pc[c] = "metrics" /\ mu = "free"
  /\ Return(c)
  /\ UNCHANGED <<poolVars, mu, cleaner, toClean, closed, closer>>

(***************************************************************************)
(* Clean-up, Close and time                                                *)
(***************************************************************************)

CleanupBegins ==
  /\ cleaner = "waiting" /\ mu = "free"
  /\ cleaner' = "cleaning" /\ mu' = "cleanup"
  /\ toClean' = {s \in Service : pools[s] # 0}
  /\ UNCHANGED <<poolVars, pc, holds, closed, closer>>

\* Mutant: connections are closed and stay in the pool.
CleanPoolKeeps(s) ==
  LET p == pools[s] IN
  /\ cleaner = "cleaning" /\ s \in toClean
  /\ toClean' = toClean \ {s}
  /\ live' = live \ (stale \cap conns[p])
  /\ UNCHANGED <<pools, conns, stale, unused, created, dialled, retired, mu, cleaner,
                 pc, holds, closed, closer>>

\* Connections idle too long are closed and dropped; a pool unused too long loses
\* the others as well (they are closed and stay in its list) and is removed.
CleanPool(s) ==
  LET p == pools[s]
  IN  /\ cleaner = "cleaning" /\ s \in toClean
      /\ toClean' = toClean \ {s}
      /\ conns' = [conns EXCEPT ![p] = @ \ stale]
      /\ IF p \in unused
         THEN /\ live' = live \ conns[p]
              /\ pools' = [pools EXCEPT ![s] = 0]
              /\ retired' = retired \cup {p}
         ELSE /\ live' = live \ (stale \cap conns[p])
              /\ UNCHANGED <<pools, retired>>
      /\ UNCHANGED <<stale, unused, created, dialled, mu, cleaner, pc, holds, closed,
                     closer>>

\* updateMetrics asks for the read lock of the mutex that performCleanup holds.
CleanupSticks ==
  /\ cleaner = "cleaning" /\ toClean = {}
  /\ cleaner' = "stuck"
  /\ UNCHANGED <<poolVars, mu, toClean, pc, holds, closed, closer>>

CleanerEnds ==
  /\ cleaner = "waiting" /\ closed
  /\ cleaner' = "ended"
  /\ UNCHANGED <<poolVars, mu, toClean, pc, holds, closed, closer>>

CloseSignal ==
  /\ closer = "idle"
  /\ closed' = TRUE /\ closer' = "waiting"
  /\ UNCHANGED <<poolVars, mu, cleaner, toClean, pc, holds>>

\* The connections of all pools are closed and stay in them.
CloseAll ==
  /\ closer = "waiting" /\ mu = "free"
  /\ live' = live \ UNION {conns[pools[s]] : s \in {s \in Service : pools[s] # 0}}
  /\ closer' = "done"
  /\ UNCHANGED <<pools, conns, stale, unused, created, dialled, retired, mu, cleaner,
                 toClean, pc, holds, closed>>

\* Nobody used the connection, or the pool, for so long.
TimePasses ==
  /\ \/ \E x \in 1..dialled : stale' = stale \cup {x} /\ UNCHANGED unused
     \/ \E p \in 1..created : unused' = unused \cup {p} /\ UNCHANGED stale
  /\ UNCHANGED <<pools, conns, live, created, dialled, retired, mu, cleaner, toClean,
                 pc, holds, closed, closer>>

CallerStep(c) ==
  \/ \E s \in Service : Lookup(c, s)
  \/ Reuse(c) \/ DialNew(c) \/ NoConnection(c) \/ GetMetrics(c)

Next ==
  \/ \E s \in Service : CreateServicePool(s) \/ CleanPool(s)
  \/ \E c \in Caller : Call(c, "called") \/ Call(c, "metrics") \/ CallerStep(c)
  \/ CleanupBegins \/ CleanupSticks \/ CleanerEnds
  \/ CloseSignal \/ CloseAll \/ TimePasses

Spec == Init /\ [][Next]_vars

(***************************************************************************)
(* Properties                                                              *)
(***************************************************************************)

\* Until Close a pool that callers can find lists no closed connection, and no
\* connection is open that no pool lists: clean-up closes what it drops and drops
\* what it closes, whatever callers add meanwhile.
ListedConnectionsOpen ==
  /\ closer # "done" =>
       \A s \in Service : pools[s] # 0 => conns[pools[s]] \subseteq live
  /\ live \subseteq UNION {conns[p] : p \in Pool}
===============================================================================
