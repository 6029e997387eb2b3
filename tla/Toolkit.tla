------------------------------- MODULE Toolkit -------------------------------
(***************************************************************************)
(* The packages of pkg/ that offer a mechanism to the programs and share   *)
(* nothing with each other: the circuit breaker with clients that report   *)
(* every result, the advanced connection pool, the hot-reloading           *)
(* configuration, the NATS queue, the two-level cache, the rotating log    *)
(* file and the API versions. One behaviour is a behaviour of one of them. *)
(***************************************************************************)
EXTENDS BreakerClients

CONSTANTS
  \* of AdvancedPool
  Service, PoolCaller, MaxConnections, Prefill, MaxPools, MaxConns, Cleanup,
  Key, Setting, Absent, Bad, MaxFileWrites,       \* of HotReload
  Subject, Group, Plain, MaxSubs, MaxMsgs,        \* of NatsQueue
  Reader, CacheKey, ConfiguredTTL, Hour, MaxWrites,  \* of FallbackCache
  Size, MaxSize, MaxLines, MaxTime,               \* of RotatingFile
  Version, Current, Invalid                       \* of Versions

ASSUME PoolConstants ==
  MaxConnections \in Nat /\ Prefill \in Nat /\ MaxPools \in Nat /\ MaxConns \in Nat

ASSUME FileConstants == Size \subseteq Nat /\ {MaxSize, MaxLines, MaxTime} \subseteq Nat

ASSUME QueueConstants == MaxSubs \in Nat /\ MaxMsgs \in Nat

ASSUME ReloadConstants == MaxFileWrites \in Nat

VARIABLES
  part,  \* the package that is observed
  \* of AdvancedPool
  pools, conns, live, stale, unused, created, dialled, mu, cleaner, toClean,
  caller, holds, closed, closer, retired,
  \* of HotReload
  settings, fileWrites, config, watched, event, missed, loader, watcher, backup,
  changed, registered, sections, told, stopped,
  \* of NatsQueue
  subscriptions, subs, made, active, connected, inbox, handling, msgs, handled, acked,
  \* of FallbackCache
  primary, expires, secondary, left, writes, reader, key, data,
  \* of RotatingFile
  sizes, next, logged, exists, file, length, size, handle, spilt, backups, now, replaced,
  \* of Versions
  supported, deprecated, services, reply, latest

poolVars == <<pools, conns, live, stale, unused, created, dialled, mu, cleaner, toClean,
              caller, holds, closed, closer, retired>>
reloadVars == <<settings, fileWrites, config, watched, event, missed, loader, watcher,
                backup, changed, registered, sections, told, stopped>>
queueVars == <<subscriptions, subs, made, active, connected, inbox, handling, msgs,
               handled, acked>>
cacheVars == <<primary, expires, secondary, left, writes, reader, key, data>>
fileVars == <<sizes, next, logged, exists, file, length, size, handle, spilt, backups, now,
              replaced>>
versionVars == <<supported, deprecated, services, reply, latest>>
toolkitVars == <<vars, poolVars, reloadVars, queueVars, cacheVars, fileVars,
                 versionVars, part>>

ConnPool == INSTANCE AdvancedPool WITH Caller <- PoolCaller, pc <- caller

Reload == INSTANCE HotReload
            WITH Value <- Setting, MaxWrites <- MaxFileWrites,
                 file <- settings, writes <- fileWrites

Queue == INSTANCE NatsQueue

Cache == INSTANCE FallbackCache WITH Key <- CacheKey, pc <- reader

LogFile == INSTANCE RotatingFile

Api == INSTANCE Versions

\* The parts that are not observed start in one state each, and stay there.
ToolkitInit ==
  /\ part \in {"breaker", "pool", "reload", "queue", "cache", "file", "versions"}
  /\ Init /\ ConnPool!Init /\ Reload!Init /\ Queue!Init /\ Cache!Init /\ LogFile!Init
  /\ Api!Init
  /\ part # "reload" => settings = Reload!Nothing /\ ~sections
  /\ part # "queue" => subs = [s \in Queue!Sub |-> CHOOSE sub \in
                                 [subject : Subject, group : {Plain}] : TRUE]
  /\ part # "cache" => key = [r \in Reader |-> CHOOSE k \in CacheKey : TRUE]
  /\ part # "file" => sizes = [l \in LogFile!Line |-> CHOOSE s \in Size : TRUE]

BreakerPart ==
  /\ part = "breaker" /\ Next
  /\ UNCHANGED <<poolVars, reloadVars, queueVars, cacheVars, fileVars, versionVars, part>>

PoolPart ==
  /\ part = "pool" /\ ConnPool!Next
  /\ UNCHANGED <<vars, reloadVars, queueVars, cacheVars, fileVars, versionVars, part>>

ReloadPart ==
  /\ part = "reload" /\ Reload!Next
  /\ UNCHANGED <<vars, poolVars, queueVars, cacheVars, fileVars, versionVars, part>>

QueuePart ==
  /\ part = "queue" /\ Queue!Next
  /\ UNCHANGED <<vars, poolVars, reloadVars, cacheVars, fileVars, versionVars, part>>

CachePart ==
  /\ part = "cache" /\ Cache!Next
  /\ UNCHANGED <<vars, poolVars, reloadVars, queueVars, fileVars, versionVars, part>>

FilePart ==
  /\ part = "file" /\ LogFile!Next
  /\ UNCHANGED <<vars, poolVars, reloadVars, queueVars, cacheVars, versionVars, part>>

VersionPart ==
  /\ part = "versions" /\ Api!Next
  /\ UNCHANGED <<vars, poolVars, reloadVars, queueVars, cacheVars, fileVars, part>>

ToolkitNext ==
  \/ BreakerPart \/ PoolPart \/ ReloadPart \/ QueuePart \/ CachePart \/ FilePart
  \/ VersionPart

\* Each package is as fair as its own module says: callers of the breaker report,
\* goroutines run on, and time passes.
ToolkitSpec ==
  /\ ToolkitInit /\ [][ToolkitNext]_toolkitVars
  /\ WF_vars(part = "breaker" /\ Tick)
  /\ \A c \in Caller :
       /\ WF_vars(part = "breaker" /\ Admit(c))
       /\ WF_vars(part = "breaker" /\ (Fail(c) \/ Succeed(c)))
  /\ WF_reloadVars(part = "reload" /\ Reload!WatcherStep)
  /\ WF_cacheVars(part = "cache" /\ Cache!Tick)
  /\ \A r \in Reader : WF_cacheVars(part = "cache" /\ Cache!ReaderStep(r))

(***************************************************************************)
(* Properties of the parts                                                 *)
(***************************************************************************)

\* See AdvancedPool: the pool lists the connections that are open.
ListedConnectionsOpen == ConnPool!ListedConnectionsOpen

\* See HotReload: a watcher at rest has told the program every value it asked for.
CallbacksCaughtUp == Reload!CallbacksCaughtUp

\* See HotReload: in the end the configuration is what the file says.
ConfigFollowsFile == Reload!ConfigFollowsFile

\* See NatsQueue: a message is handled once for each subject and group, and a request that is
\* answered has been handled.
HandledOnceThenAcked == Queue!HandledOnceThenAcked

\* See FallbackCache: copies that a slow reader puts back do not stay.
StaleCopiesExpire == Cache!StaleCopiesExpire

\* See RotatingFile: a rotation loses no line, and the file stays within its size but for
\* what failed writes leave.
RotationKeepsLines == LogFile!RotationKeepsLines

\* See Versions: a call is served by the version it names.
VersionsHonoured == Api!VersionsHonoured
===============================================================================
