---------------------------- MODULE ShardedCache ----------------------------
(***************************************************************************)
(* Cache of pkg/client/client.go: Set, Get, Delete and evictOldest on one  *)
(* shard. A key always hashes to the same shard and shards share nothing,  *)
(* so one shard shows all there is to see of a key.                        *)
(*                                                                         *)
(* Items are pointers: a Get that found an item goes on with it after the  *)
(* read lock is released, when the item may have been replaced or removed. *)
(* Get updates AccessTime and purges an expired key on the strength of     *)
(* that old pointer. Set holds the write lock from the insertion to the    *)
(* eviction, but a Get past its lookup needs no lock to touch an item in   *)
(* between, so the scan of evictOldest is taken read by read. (Comparing   *)
(* two clock readings compares one machine word of each, so a read of an   *)
(* AccessTime that is being written sees the old or the new time.) The     *)
(* clock moves on between the clock readings of one Set (time.Now has      *)
(* nanosecond resolution).                                                 *)
(***************************************************************************)
EXTENDS Integers, FiniteSets

CONSTANTS
  Key,        \* the keys of this shard
  Goroutine,  \* goroutines using the cache
  Cap,        \* maxSize / cacheShardCount
  ItemTTL,    \* ticks an item lives
  MaxSets,    \* bound: items created
  MaxTime,    \* bound: ticks of the clock
  Nil         \* no item, no key

ASSUME CacheConstants ==
  /\ Cap \in Nat /\ ItemTTL \in Nat /\ MaxSets \in Nat /\ MaxTime \in Nat
  /\ IsFiniteSet(Key) /\ Nil \notin Key /\ Nil \notin Nat

Item == 1..MaxSets

VARIABLES
  items,   \* shard.items: Key -> item or Nil
  count,   \* shard.count
  access,  \* Item -> AccessTime
  expire,  \* Item -> ExpireTime
  sets,    \* items created so far; they are numbered
  now,     \* the clock
  step,    \* Goroutine -> next step
  key,     \* Goroutine -> argument of its call
  found,   \* Goroutine -> item its Get found
  toScan,  \* evictOldest: keys its loop has still to visit
  oldest,  \* evictOldest: oldestKey, Nil for ""
  oldestTime,  \* evictOldest: oldestTime
  quiet    \* history: no item was touched since evictOldest began

shardVars == <<items, count, access, expire, sets, now, step, key, found, toScan,
               oldest, oldestTime, quiet>>
eviction == <<toScan, oldest, oldestTime, quiet>>

Keys == {k \in Key : items[k] # Nil}
Evicting == {c \in Goroutine : step[c] \in {"evict", "take"}}
Locked == Evicting # {}
ItemExpired(i) == now > expire[i]

ShardTypeOK ==
  /\ items \in [Key -> 1..sets \cup {Nil}]
  /\ count \in Int
  /\ access \in [Item -> 0..MaxTime] /\ expire \in [Item -> 0..MaxTime + ItemTTL]
  /\ sets \in 0..MaxSets /\ now \in 0..MaxTime
  /\ step \in [Goroutine -> {"idle", "found", "purge", "evict", "take"}]
  /\ key \in [Goroutine -> Key \cup {Nil}]
  /\ found \in [Goroutine -> 1..sets \cup {Nil}]
  /\ toScan \in SUBSET Keys /\ oldest \in Keys \cup {Nil}
  /\ oldestTime \in 0..MaxTime /\ quiet \in BOOLEAN
  /\ Cardinality(Evicting) <= 1
  /\ \A j, k \in Keys : items[j] = items[k] => j = k

ShardInit ==
  /\ items = [k \in Key |-> Nil] /\ count = 0
  /\ access = [i \in Item |-> 0] /\ expire = [i \in Item |-> 0]
  /\ sets = 0 /\ now = 0
  /\ step = [c \in Goroutine |-> "idle"]
  /\ key = [c \in Goroutine |-> Nil] /\ found = [c \in Goroutine |-> Nil]
  /\ toScan = {} /\ oldest = Nil /\ oldestTime = 0 /\ quiet = TRUE

Return(c) ==
  /\ step' = [step EXCEPT ![c] = "idle"]
  /\ key' = [key EXCEPT ![c] = Nil]
  /\ found' = [found EXCEPT ![c] = Nil]

(***************************************************************************)
(* Set                                                                     *)
(***************************************************************************)

\* What Set does under the lock: the new item, the count (even when the key was
\* there already), and evictOldest if the shard is too full now.
Insert(c, k) ==
  /\ sets < MaxSets /\ now < MaxTime
  /\ sets' = sets + 1
  /\ items' = [items EXCEPT ![k] = sets']
  /\ count' = count + 1
  /\ access' = [access EXCEPT ![sets'] = now]
  /\ expire' = [expire EXCEPT ![sets'] = now + ItemTTL]
  /\ now' = now + 1
  /\ LET full == {j \in Key : items'[j] # Nil}
     IN  IF Cardinality(full) > Cap
         THEN /\ step' = [step EXCEPT ![c] = "evict"]
              /\ toScan' = full /\ oldestTime' = now'
              /\ UNCHANGED <<key, found, oldest, quiet>>
         ELSE UNCHANGED <<step, key, found, eviction>>

SetInsert(c, k) == step[c] = "idle" /\ ~Locked /\ Insert(c, k)

\* Mutant: every item is taken for older than the last.
EvictCompareAlways(c, k) ==
  /\ step[c] = "evict" /\ k \in toScan
  /\ toScan' = toScan \ {k}
  /\ oldest' = k
  /\ step' = [step EXCEPT ![c] = "take"]
  /\ UNCHANGED <<items, count, access, expire, sets, now, key, found, oldestTime,
                 quiet>>

\* The loop visits the keys in any order and compares the item's AccessTime.
EvictCompare(c, k) ==
  /\ step[c] = "evict" /\ k \in toScan
  /\ toScan' = toScan \ {k}
  /\ IF access[items[k]] < oldestTime
     THEN oldest' = k /\ step' = [step EXCEPT ![c] = "take"]
     ELSE UNCHANGED <<oldest, step>>
  /\ UNCHANGED <<items, count, access, expire, sets, now, key, found, oldestTime,
                 quiet>>

\* It reads the AccessTime again to remember it.
EvictTake(c) ==
  /\ step[c] = "take"
  /\ oldestTime' = access[items[oldest]]
  /\ step' = [step EXCEPT ![c] = "evict"]
  /\ UNCHANGED <<items, count, access, expire, sets, now, key, found, toScan,
                 oldest, quiet>>

EvictReset ==
  toScan' = {} /\ oldest' = Nil /\ oldestTime' = 0 /\ quiet' = TRUE

\* Mutant: eviction takes an item down from the count only.
EvictCountOnly(c) ==
  /\ step[c] = "evict" /\ toScan = {}
  /\ count' = count - 1
  /\ Return(c) /\ EvictReset
  /\ UNCHANGED <<items, access, expire, sets, now>>

\* After the loop: oldestKey goes, if there is one, and Set returns.
EvictOldest(c) ==
  /\ step[c] = "evict" /\ toScan = {}
  /\ IF oldest = Nil
     THEN UNCHANGED <<items, count>>
     ELSE /\ items' = [items EXCEPT ![oldest] = Nil]
          /\ count' = count - 1
  /\ Return(c) /\ EvictReset
  /\ UNCHANGED <<access, expire, sets, now>>

(***************************************************************************)
(* Get and Delete                                                          *)
(***************************************************************************)

\* The lookup under the read lock; a miss returns at once.
GetLookup(c, k) ==
  /\ step[c] = "idle" /\ ~Locked
  /\ items[k] # Nil
  /\ step' = [step EXCEPT ![c] = "found"]
  /\ key' = [key EXCEPT ![c] = k]
  /\ found' = [found EXCEPT ![c] = items[k]]
  /\ UNCHANGED <<items, count, access, expire, sets, now, eviction>>

\* A live item: its AccessTime is stored with no lock and Get returns it.
GetTouch(c) ==
  /\ step[c] = "found" /\ ~ItemExpired(found[c])
  /\ access' = [access EXCEPT ![found[c]] = now]
  /\ quiet' = ~Locked
  /\ Return(c)
  /\ UNCHANGED <<items, count, expire, sets, now, toScan, oldest, oldestTime>>

\* An expired item: go for the write lock.
GetExpired(c) ==
  /\ step[c] = "found" /\ ItemExpired(found[c])
  /\ step' = [step EXCEPT ![c] = "purge"]
  /\ UNCHANGED <<items, count, access, expire, sets, now, key, found, eviction>>

\* The key is deleted, whatever it maps to by now, and counted down even if
\* it is gone already.
GetPurge(c) ==
  /\ step[c] = "purge" /\ ~Locked
  /\ items' = [items EXCEPT ![key[c]] = Nil]
  /\ count' = count - 1
  /\ Return(c)
  /\ UNCHANGED <<access, expire, sets, now, eviction>>

Delete(k) ==
  /\ ~Locked
  /\ items[k] # Nil
  /\ items' = [items EXCEPT ![k] = Nil]
  /\ count' = count - 1
  /\ UNCHANGED <<access, expire, sets, now, step, key, found, eviction>>

ShardTick ==
  /\ now < MaxTime
  /\ now' = now + 1
  /\ UNCHANGED <<items, count, access, expire, sets, step, key, found, eviction>>

ShardNext ==
  \/ \E c \in Goroutine :
       \/ EvictTake(c) \/ EvictOldest(c)
       \/ GetTouch(c) \/ GetExpired(c) \/ GetPurge(c)
       \/ \E k \in Key : SetInsert(c, k) \/ EvictCompare(c, k) \/ GetLookup(c, k)
  \/ \E k \in Key : Delete(k)
  \/ ShardTick

ShardSpec == ShardInit /\ [][ShardNext]_shardVars

(***************************************************************************)
(* Properties                                                              *)
(***************************************************************************)

\* Whatever the unlocked touches do, a shard at rest holds at most its share
\* of maxSize: evictOldest always finds a victim in a shard that is too full,
\* for no Get under way can touch the item Set has just inserted.
ShardWithinCapacity ==
  Cardinality(Keys) <= IF Locked THEN Cap + 1 ELSE Cap

VictimIsLeastRecent ==
  \A k, j \in Keys :
    items'[k] = Nil /\ items'[j] # Nil => access[items[k]] <= access[items[j]]

\* The item a Set pushes out was not used after any item that stays, provided
\* no Get touched an item while evictOldest was looking for it.
QuietEvictionIsLRU == [][Locked /\ ~Locked' /\ quiet => VictimIsLeastRecent]_shardVars
=============================================================================
