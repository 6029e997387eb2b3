-------------------------- MODULE ShardedCache_proofs --------------------------
(***************************************************************************)
(* Proofs that a shard of the client's cache stays within its capacity and *)
(* evicts in order, for any number of keys and of goroutines.              *)
(***************************************************************************)
EXTENDS ShardedCache, FiniteSetTheorems, TLAPS

Steps == {"idle", "found", "purge", "evict", "take"}

CacheTypeOK ==
  /\ items \in [Key -> 1..sets \cup {Nil}]
  /\ access \in [Item -> Nat]
  /\ sets \in 0..MaxSets /\ now \in Nat
  /\ step \in [Goroutine -> Steps]
  /\ key \in [Goroutine -> Key \cup {Nil}]
  /\ found \in [Goroutine -> 1..sets \cup {Nil}]
  /\ oldestTime \in Nat

\* The lock has one holder.
OneEvicts == \A c, d \in Evicting : c = d

\* What a scan has seen and has still to see is in the shard.
ScanOfShard ==
  /\ ~Locked => oldest = Nil
  /\ Locked => toScan \subseteq Keys /\ oldest \in Keys \cup {Nil}
  /\ \A c \in Goroutine : step[c] = "take" => oldest # Nil

\* While the shard is locked nobody can touch the newest item, which is older
\* than the time the scan starts from: the scan ends with a victim.
NewestIsCandidate ==
  Locked => /\ sets \in Item
            /\ \A c \in Goroutine : step[c] = "found" => found[c] # sets
            /\ oldest = Nil => /\ access[sets] < oldestTime
                               /\ \E k \in toScan : items[k] = sets

CacheInv ==
  CacheTypeOK /\ OneEvicts /\ ScanOfShard /\ NewestIsCandidate /\ ShardWithinCapacity

LEMMA KeysFinite == IsFiniteSet(Keys) /\ IsFiniteSet(Keys')
BY FS_Subset, CacheConstants DEF Keys

\* What the invariant says of the shard's size after a step that moves no item.
LEMMA SizeKept ==
  ASSUME ShardWithinCapacity, UNCHANGED items, Locked' <=> Locked
  PROVE  ShardWithinCapacity' /\ Keys' = Keys
<1>1. Keys' = Keys
  BY DEF Keys
<1> QED
  BY <1>1 DEF ShardWithinCapacity

\* Without the lock a removal keeps the shard within its capacity.
LEMMA RemovalKeeps ==
  ASSUME CacheInv, ~Locked, NEW k \in Key,
         items' = [items EXCEPT ![k] = Nil], UNCHANGED <<sets, oldest>>,
         Evicting' = {}, \A c \in Goroutine : step'[c] # "take"
  PROVE  ShardWithinCapacity' /\ OneEvicts' /\ ScanOfShard' /\ NewestIsCandidate'
<1>1. Keys' \subseteq Keys
  BY DEF Keys, CacheInv, CacheTypeOK
<1>2. Cardinality(Keys') <= Cardinality(Keys)
  BY <1>1, KeysFinite, FS_Subset
<1>3. Cardinality(Keys) <= Cap
  BY DEF CacheInv, ShardWithinCapacity
<1>4. Cardinality(Keys') \in Nat /\ Cardinality(Keys) \in Nat /\ Cap \in Nat
  BY KeysFinite, FS_CardinalityType, CacheConstants
<1>5. ~Locked'
  BY DEF Locked
<1> QED
  BY <1>2, <1>3, <1>4, <1>5
     DEF ShardWithinCapacity, OneEvicts, ScanOfShard, NewestIsCandidate, CacheInv

LEMMA SetInsertStep ==
  ASSUME CacheInv, NEW c \in Goroutine, NEW k \in Key, SetInsert(c, k)
  PROVE  CacheInv'
<1> DEFINE full == {j \in Key : items'[j] # Nil}
<1>1. /\ step[c] = "idle" /\ ~Locked /\ Evicting = {}
      /\ sets < MaxSets /\ sets' = sets + 1 /\ now' = now + 1
      /\ items' = [items EXCEPT ![k] = sets']
      /\ access' = [access EXCEPT ![sets'] = now]
      /\ UNCHANGED <<key, found, oldest>>
  BY DEF SetInsert, Insert, Locked, eviction
<1>2. /\ sets' \in Item /\ sets' \in 0..MaxSets /\ sets' # Nil
      /\ 1..sets \subseteq 1..sets' /\ sets' \in 1..sets' /\ now' \in Nat
  BY <1>1, CacheConstants DEF CacheInv, CacheTypeOK, Item
<1>3. Keys' = Keys \cup {k} /\ full = Keys'
  BY <1>1, <1>2 DEF Keys, CacheInv, CacheTypeOK
<1>4. Cardinality(Keys) <= Cap /\ Cap \in Nat /\ Cardinality(Keys) \in Nat
  BY <1>1, KeysFinite, FS_CardinalityType, CacheConstants DEF CacheInv, ShardWithinCapacity
<1>5. Cardinality(Keys') <= Cap + 1 /\ Cardinality(Keys') \in Nat
  BY SMTT(30), <1>3, <1>4, KeysFinite, FS_AddElement, FS_CardinalityType
<1>6. \A d \in Goroutine : d \notin Evicting /\ step[d] # "take" /\ found[d] # sets'
  <2>1. \A d \in Goroutine : found[d] \in 1..sets \cup {Nil} /\ sets' \notin 1..sets
    BY <1>1 DEF CacheInv, CacheTypeOK
  <2> QED
    BY <1>1, <1>2, <2>1 DEF Evicting
<1>7. oldest' = Nil
  BY <1>1 DEF CacheInv, ScanOfShard
<1>8. /\ items' \in [Key -> 1..sets' \cup {Nil}]
      /\ found' \in [Goroutine -> 1..sets' \cup {Nil}]
      /\ access' \in [Item -> Nat] /\ access'[sets'] = now
  BY <1>1, <1>2 DEF CacheInv, CacheTypeOK
<1>9. CASE Cardinality(full) > Cap
  <2>1. step' = [step EXCEPT ![c] = "evict"] /\ toScan' = full /\ oldestTime' = now'
    BY <1>9 DEF SetInsert, Insert
  <2>2. Evicting' = {c}
    BY <1>6, <2>1 DEF Evicting, CacheInv, CacheTypeOK
  <2>3. CacheTypeOK'
    BY <1>1, <1>2, <1>8, <2>1 DEF CacheInv, CacheTypeOK, Steps
  <2>4. OneEvicts' /\ Locked'
    BY <2>2 DEF OneEvicts, Locked
  <2>5. ScanOfShard'
    BY <1>3, <1>6, <1>7, <2>1, <2>4 DEF ScanOfShard, CacheInv, CacheTypeOK
  <2>6. NewestIsCandidate'
    <3>1. items'[k] = sets' /\ k \in toScan'
      BY <1>1, <1>3, <2>1 DEF CacheInv, CacheTypeOK
    <3>2. access'[sets'] < oldestTime'
      BY <1>1, <1>8, <2>1 DEF CacheInv, CacheTypeOK
    <3>3. \A d \in Goroutine : found'[d] # sets'
      BY <1>1, <1>6
    <3> QED
      BY <1>2, <3>1, <3>2, <3>3 DEF NewestIsCandidate
  <2>7. ShardWithinCapacity'
    BY <1>5, <2>4 DEF ShardWithinCapacity
  <2> QED
    BY <2>3, <2>4, <2>5, <2>6, <2>7 DEF CacheInv
<1>10. CASE ~(Cardinality(full) > Cap)
  <2>1. UNCHANGED <<step, eviction>>
    BY <1>10 DEF SetInsert, Insert
  <2>2. Evicting' = {} /\ ~Locked'
    BY <1>1, <2>1 DEF Evicting, Locked
  <2>3. CacheTypeOK'
    BY <1>1, <1>2, <1>8, <2>1 DEF CacheInv, CacheTypeOK, eviction
  <2>4. Cardinality(Keys') <= Cap
    BY <1>3, <1>4, <1>5, <1>10
  <2>5. OneEvicts' /\ ScanOfShard' /\ NewestIsCandidate' /\ ShardWithinCapacity'
    BY <1>6, <1>7, <2>1, <2>2, <2>4
       DEF OneEvicts, ScanOfShard, NewestIsCandidate, ShardWithinCapacity
  <2> QED
    BY <2>3, <2>5 DEF CacheInv
<1> QED
  BY <1>9, <1>10

LEMMA EvictCompareStep ==
  ASSUME CacheInv, NEW c \in Goroutine, NEW k \in Key, EvictCompare(c, k)
  PROVE  CacheInv'
<1>1. /\ step[c] = "evict" /\ k \in toScan /\ toScan' = toScan \ {k}
      /\ UNCHANGED <<items, access, sets, now, key, found, oldestTime>>
  BY DEF EvictCompare
<1>2. step' = step \/ step' = [step EXCEPT ![c] = "take"]
  BY DEF EvictCompare
<1>3. Evicting' = Evicting /\ Locked /\ Locked'
  BY <1>1, <1>2 DEF Evicting, Locked, CacheInv, CacheTypeOK
<1>4. Keys' = Keys /\ k \in Keys
  BY <1>1, <1>3 DEF Keys, CacheInv, ScanOfShard
<1>5. CacheTypeOK' /\ OneEvicts'
  BY <1>1, <1>2, <1>3 DEF CacheInv, CacheTypeOK, OneEvicts, Steps
<1>6. ScanOfShard'
  <2>1. CASE access[items[k]] < oldestTime
    <3>1. oldest' = k /\ k # Nil
      BY <1>4, <2>1, CacheConstants DEF EvictCompare
    <3> QED
      BY <1>1, <1>3, <1>4, <3>1 DEF CacheInv, ScanOfShard
  <2>2. CASE ~(access[items[k]] < oldestTime)
    BY <1>1, <1>3, <1>4, <2>2 DEF EvictCompare, CacheInv, ScanOfShard
  <2> QED
    BY <2>1, <2>2
<1>7. NewestIsCandidate'
  <2>1. \A d \in Goroutine : step'[d] = "found" => step[d] = "found"
    BY <1>2 DEF CacheInv, CacheTypeOK
  <2>2. ASSUME oldest' = Nil
        PROVE  access[sets] < oldestTime /\ \E j \in toScan' : items[j] = sets
    <3>1. ~(access[items[k]] < oldestTime) /\ oldest = Nil
      BY <1>4, <2>2, CacheConstants DEF EvictCompare, Keys
    <3>2. access[sets] < oldestTime /\ \E j \in toScan : items[j] = sets
      BY <1>3, <3>1 DEF CacheInv, NewestIsCandidate
    <3> QED
      BY <1>1, <3>1, <3>2
  <2> QED
    BY <1>1, <1>3, <2>1, <2>2 DEF CacheInv, NewestIsCandidate
<1>8. ShardWithinCapacity'
  BY <1>1, <1>3, SizeKept DEF CacheInv
<1> QED
  BY <1>5, <1>6, <1>7, <1>8 DEF CacheInv

LEMMA EvictTakeStep ==
  ASSUME CacheInv, NEW c \in Goroutine, EvictTake(c)
  PROVE  CacheInv'
<1>1. /\ step[c] = "take" /\ oldestTime' = access[items[oldest]]
      /\ step' = [step EXCEPT ![c] = "evict"]
      /\ UNCHANGED <<items, access, sets, now, key, found, toScan, oldest>>
  BY DEF EvictTake
<1>2. Evicting' = Evicting /\ Locked /\ Locked'
  BY <1>1 DEF Evicting, Locked, CacheInv, CacheTypeOK
<1>3. oldest \in Keys /\ oldest # Nil
  BY <1>1, <1>2 DEF CacheInv, ScanOfShard
<1>4. access[items[oldest]] \in Nat
  <2>1. items[oldest] \in 1..sets
    BY <1>3 DEF Keys, CacheInv, CacheTypeOK
  <2>2. items[oldest] \in Item
    BY <2>1, CacheConstants DEF CacheInv, CacheTypeOK, Item
  <2> QED
    BY <2>2 DEF CacheInv, CacheTypeOK
<1>5. CacheTypeOK' /\ OneEvicts'
  BY <1>1, <1>2, <1>4 DEF CacheInv, CacheTypeOK, OneEvicts, Steps
<1>6. Keys' = Keys
  BY <1>1 DEF Keys
<1>7. ScanOfShard'
  BY <1>1, <1>2, <1>3, <1>6 DEF CacheInv, ScanOfShard
<1>8. NewestIsCandidate'
  BY <1>1, <1>2, <1>3 DEF CacheInv, CacheTypeOK, NewestIsCandidate
<1>9. ShardWithinCapacity'
  BY <1>1, <1>2, SizeKept DEF CacheInv
<1> QED
  BY <1>5, <1>7, <1>8, <1>9 DEF CacheInv

LEMMA EvictOldestStep ==
  ASSUME CacheInv, NEW c \in Goroutine, EvictOldest(c)
  PROVE  CacheInv'
<1>1. /\ step[c] = "evict" /\ toScan = {} /\ step' = [step EXCEPT ![c] = "idle"]
      /\ UNCHANGED <<access, sets, now>> /\ oldest' = Nil /\ oldestTime' = 0
      /\ key' = [key EXCEPT ![c] = Nil] /\ found' = [found EXCEPT ![c] = Nil]
  BY DEF EvictOldest, Return, EvictReset
<1>2. c \in Evicting /\ Locked
  BY <1>1 DEF Evicting, Locked
<1>3. Evicting' = {} /\ ~Locked'
  <2>1. Evicting = {c}
    BY <1>2 DEF CacheInv, OneEvicts
  <2>2. Evicting' = Evicting \ {c}
    BY <1>1 DEF Evicting, CacheInv, CacheTypeOK
  <2> QED
    BY <2>1, <2>2 DEF Locked
<1>4. oldest \in Keys /\ oldest # Nil
  BY <1>1, <1>2 DEF CacheInv, ScanOfShard, NewestIsCandidate
<1>5. items' = [items EXCEPT ![oldest] = Nil] /\ oldest \in Key
  BY <1>4 DEF EvictOldest, Keys
<1>6. Keys' = Keys \ {oldest}
  BY <1>5 DEF Keys, CacheInv, CacheTypeOK
<1>7. CacheTypeOK'
  BY <1>1, <1>5 DEF CacheInv, CacheTypeOK, Steps
<1>8. Cardinality(Keys') = Cardinality(Keys) - 1
  BY <1>4, <1>6, KeysFinite, FS_RemoveElement
<1>9. Cardinality(Keys) <= Cap + 1 /\ Cardinality(Keys) \in Nat /\ Cap \in Nat
  BY <1>2, KeysFinite, FS_CardinalityType, CacheConstants DEF CacheInv, ShardWithinCapacity
<1>10. ShardWithinCapacity'
  BY <1>3, <1>8, <1>9 DEF ShardWithinCapacity
<1>11. \A d \in Goroutine : step'[d] # "take"
  BY <1>3 DEF Evicting
<1>12. OneEvicts' /\ ScanOfShard' /\ NewestIsCandidate'
  BY <1>1, <1>3, <1>11 DEF OneEvicts, ScanOfShard, NewestIsCandidate
<1> QED
  BY <1>7, <1>10, <1>12 DEF CacheInv

\* Steps of Get that leave the shard alone, and the clock.
LEMMA RestSteps ==
  ASSUME CacheInv,
         \/ \E c \in Goroutine :
              \/ GetTouch(c) \/ GetExpired(c)
              \/ \E k \in Key : GetLookup(c, k)
         \/ ShardTick \/ UNCHANGED shardVars
  PROVE  CacheInv'
<1> USE DEF shardVars, eviction
<1>1. UNCHANGED <<items, sets, toScan, oldest, oldestTime>>
  BY DEF GetLookup, GetTouch, GetExpired, ShardTick
<1>2. /\ now' \in Nat /\ step' \in [Goroutine -> Steps]
      /\ key' \in [Goroutine -> Key \cup {Nil}]
      /\ found' \in [Goroutine -> 1..sets \cup {Nil}]
      /\ access' \in [Item -> Nat]
  BY DEF GetLookup, GetTouch, GetExpired, ShardTick, Return, CacheInv, CacheTypeOK, Steps
<1>3. CacheTypeOK'
  BY <1>1, <1>2 DEF CacheInv, CacheTypeOK
<1>4. \A d \in Goroutine :
        /\ step'[d] \in {"evict", "take"} <=> step[d] \in {"evict", "take"}
        /\ step'[d] = "take" <=> step[d] = "take"
  BY DEF GetLookup, GetTouch, GetExpired, ShardTick, Return, CacheInv, CacheTypeOK
<1>5. Evicting' = Evicting /\ (Locked' <=> Locked)
  BY <1>4 DEF Evicting, Locked
<1>6. Keys' = Keys
  BY <1>1 DEF Keys
<1>7. OneEvicts' /\ ScanOfShard' /\ ShardWithinCapacity'
  BY <1>1, <1>4, <1>5, <1>6, SizeKept DEF CacheInv, OneEvicts, ScanOfShard
<1>8. NewestIsCandidate'
  <2> SUFFICES ASSUME Locked
               PROVE  /\ access'[sets] = access[sets]
                      /\ \A d \in Goroutine : step'[d] = "found" => found'[d] # sets
    BY <1>1, <1>5 DEF CacheInv, NewestIsCandidate
  <2>1. \A c \in Goroutine, k \in Key : ~GetLookup(c, k)
    BY DEF GetLookup
  <2>2. sets \in Item /\ \A d \in Goroutine : step[d] = "found" => found[d] # sets
    BY DEF CacheInv, NewestIsCandidate
  <2>3. access'[sets] = access[sets]
    BY <2>1, <2>2 DEF GetTouch, GetExpired, ShardTick, CacheInv, CacheTypeOK
  <2>4. \A d \in Goroutine : step'[d] = "found" => step[d] = "found" /\ found'[d] = found[d]
    BY <2>1 DEF GetTouch, GetExpired, ShardTick, Return, CacheInv, CacheTypeOK
  <2> QED
    BY <2>2, <2>3, <2>4
<1> QED
  BY <1>3, <1>7, <1>8 DEF CacheInv

LEMMA PurgeStep ==
  ASSUME CacheInv, NEW c \in Goroutine, GetPurge(c)
  PROVE  CacheInv'
<1>1. /\ step[c] = "purge" /\ ~Locked /\ items' = [items EXCEPT ![key[c]] = Nil]
      /\ step' = [step EXCEPT ![c] = "idle"]
      /\ key' = [key EXCEPT ![c] = Nil] /\ found' = [found EXCEPT ![c] = Nil]
      /\ UNCHANGED <<access, sets, now, toScan, oldest, oldestTime>>
  BY DEF GetPurge, Return, eviction
<1>2. Evicting' = {} /\ \A d \in Goroutine : step'[d] # "take"
  BY <1>1 DEF Locked, Evicting, CacheInv, CacheTypeOK
<1>3. CacheTypeOK'
  BY <1>1 DEF CacheInv, CacheTypeOK, Steps
<1>4. CASE key[c] \in Key
  BY <1>1, <1>2, <1>3, <1>4, RemovalKeeps DEF CacheInv
<1>5. CASE key[c] \notin Key
  <2>1. items' = items /\ ~Locked'
    BY <1>1, <1>2, <1>5 DEF CacheInv, CacheTypeOK, Locked
  <2>2. ShardWithinCapacity'
    BY <1>1, <2>1, SizeKept DEF CacheInv
  <2> QED
    BY <1>1, <1>2, <1>3, <2>1, <2>2
       DEF CacheInv, OneEvicts, ScanOfShard, NewestIsCandidate
<1> QED
  BY <1>4, <1>5

LEMMA DeleteStep ==
  ASSUME CacheInv, NEW k \in Key, Delete(k)
  PROVE  CacheInv'
<1>1. /\ ~Locked /\ items' = [items EXCEPT ![k] = Nil]
      /\ UNCHANGED <<access, sets, now, step, key, found, toScan, oldest, oldestTime>>
  BY DEF Delete, eviction
<1>2. Evicting' = {} /\ \A d \in Goroutine : step'[d] # "take"
  BY <1>1 DEF Locked, Evicting
<1>3. CacheTypeOK'
  BY <1>1 DEF CacheInv, CacheTypeOK
<1> QED
  BY <1>1, <1>2, <1>3, RemovalKeeps DEF CacheInv

LEMMA CacheInvHolds == ShardSpec => []CacheInv
<1>1. ShardInit => CacheInv
  <2> SUFFICES ASSUME ShardInit PROVE CacheInv
    OBVIOUS
  <2>1. Keys = {} /\ Evicting = {} /\ ~Locked
    BY DEF ShardInit, Keys, Evicting, Locked
  <2>2. CacheTypeOK
    BY CacheConstants DEF ShardInit, CacheTypeOK, Steps
  <2>3. Cardinality(Keys) = 0
    BY <2>1, FS_EmptySet
  <2>4. ShardWithinCapacity
    BY <2>1, <2>3, CacheConstants DEF ShardWithinCapacity
  <2> QED
    BY <2>1, <2>2, <2>4 DEF ShardInit, CacheInv, OneEvicts, ScanOfShard, NewestIsCandidate
<1>2. CacheInv /\ [ShardNext]_shardVars => CacheInv'
  <2> SUFFICES ASSUME CacheInv, [ShardNext]_shardVars PROVE CacheInv'
    OBVIOUS
  <2>1. ASSUME NEW c \in Goroutine, EvictTake(c) \/ EvictOldest(c) \/ GetPurge(c)
        PROVE  CacheInv'
    BY <2>1, EvictTakeStep, EvictOldestStep, PurgeStep
  <2>2. ASSUME NEW c \in Goroutine, NEW k \in Key,
               SetInsert(c, k) \/ EvictCompare(c, k) \/ GetLookup(c, k)
        PROVE  CacheInv'
    BY <2>2, SetInsertStep, EvictCompareStep, RestSteps
  <2>3. ASSUME NEW k \in Key, Delete(k) PROVE CacheInv'
    BY <2>3, DeleteStep
  <2>4. CASE \E c \in Goroutine : GetTouch(c) \/ GetExpired(c)
    BY <2>4, RestSteps
  <2>5. CASE ShardTick \/ UNCHANGED shardVars
    BY <2>5, RestSteps
  <2> QED
    BY <2>1, <2>2, <2>3, <2>4, <2>5 DEF ShardNext
<1> QED
  BY <1>1, <1>2, PTL DEF ShardSpec

\* A shard at rest never holds more items than its share of maxSize, and one more
\* under the lock of Set, whatever Gets under way do meanwhile (Cache.Set and
\* evictOldest).
THEOREM CapacityHolds == ShardSpec => []ShardWithinCapacity
<1>1. CacheInv => ShardWithinCapacity
  BY DEF CacheInv
<1> QED
  BY <1>1, CacheInvHolds, PTL

(***************************************************************************)
(* The order of evictions                                                  *)
(***************************************************************************)

\* As long as nobody touches an item, what the scan holds for the oldest was used
\* before all it has seen, and before the time it compares with.
ScanInv ==
  Locked /\ quiet =>
    /\ oldest # Nil => \A j \in Keys \ toScan : access[items[oldest]] <= access[items[j]]
    /\ oldest = Nil => \A j \in Keys \ toScan : oldestTime <= access[items[j]]
    /\ oldest # Nil /\ (\E c \in Goroutine : step[c] = "evict")
         => oldestTime = access[items[oldest]]

LEMMA AccessNat == ASSUME CacheInv, NEW k \in Keys PROVE access[items[k]] \in Nat
<1>1. items[k] \in 1..sets
  BY DEF Keys, CacheInv, CacheTypeOK
<1>2. items[k] \in Item
  BY <1>1, CacheConstants DEF CacheInv, CacheTypeOK, Item
<1> QED
  BY <1>2 DEF CacheInv, CacheTypeOK

\* The lock is given back by evictOldest alone.
LEMMA OnlyEvictOldestUnlocks ==
  ASSUME CacheInv, ShardNext, Locked, ~Locked'
  PROVE  \E c \in Goroutine : EvictOldest(c)
<1>1. PICK d \in Goroutine : step[d] \in {"evict", "take"}
  BY DEF Locked, Evicting
<1>2. step'[d] \notin {"evict", "take"}
  BY DEF Locked, Evicting
<1> QED
  BY <1>1, <1>2
     DEF ShardNext, SetInsert, EvictCompare, EvictTake, GetLookup, GetTouch, GetExpired,
         GetPurge, Delete, ShardTick, Return, CacheInv, CacheTypeOK

LEMMA OneEvictionEnds ==
  ASSUME CacheInv, NEW c \in Goroutine, EvictOldest(c) PROVE ~Locked'
<1>1. step[c] = "evict" /\ step' = [step EXCEPT ![c] = "idle"]
  BY DEF EvictOldest, Return
<1>2. Evicting = {c}
  BY <1>1 DEF CacheInv, OneEvicts, Evicting
<1> QED
  BY <1>1, <1>2 DEF Locked, Evicting, CacheInv, CacheTypeOK

LEMMA ScanCompareStep ==
  ASSUME CacheInv, ScanInv, NEW c \in Goroutine, NEW k \in Key, EvictCompare(c, k)
  PROVE  ScanInv'
<1> SUFFICES ASSUME quiet PROVE ScanInv'
  BY DEF ScanInv, EvictCompare
<1>1. /\ step[c] = "evict" /\ k \in toScan /\ toScan' = toScan \ {k}
      /\ UNCHANGED <<items, access, oldestTime, quiet>>
  BY DEF EvictCompare
<1>2. c \in Evicting /\ Locked
  BY <1>1 DEF Evicting, Locked
<1>3. Keys' = Keys /\ k \in Keys /\ Keys' \ toScan' = (Keys \ toScan) \cup {k}
  BY <1>1, <1>2 DEF Keys, CacheInv, ScanOfShard
<1>4. oldestTime \in Nat /\ \A j \in Keys : access[items[j]] \in Nat
  BY AccessNat DEF CacheInv, CacheTypeOK
<1>5. oldest # Nil => oldest \in Keys /\ oldestTime = access[items[oldest]]
  BY <1>1, <1>2 DEF CacheInv, ScanOfShard, ScanInv
<1>6. \A j \in Keys \ toScan : oldestTime <= access[items[j]]
  BY <1>2, <1>5 DEF ScanInv
<1>7. CASE access[items[k]] < oldestTime
  <2>1. oldest' = k /\ k # Nil /\ step' = [step EXCEPT ![c] = "take"]
    BY <1>3, <1>7, CacheConstants DEF EvictCompare
  <2>2. \A d \in Goroutine : step'[d] # "evict"
    <3>1. ASSUME NEW d \in Goroutine, d # c PROVE step[d] # "evict"
      BY <1>2, <3>1 DEF CacheInv, OneEvicts, Evicting
    <3> QED
      BY <2>1, <3>1 DEF CacheInv, CacheTypeOK
  <2>3. \A j \in Keys' \ toScan' : access[items[k]] <= access[items[j]]
    BY <1>3, <1>4, <1>6, <1>7
  <2> QED
    BY <1>1, <2>1, <2>2, <2>3 DEF ScanInv
<1>8. CASE ~(access[items[k]] < oldestTime)
  <2>1. oldest' = oldest /\ step' = step
    BY <1>8 DEF EvictCompare
  <2>2. \A j \in Keys' \ toScan' : oldestTime <= access[items[j]]
    BY <1>3, <1>4, <1>6, <1>8
  <2> QED
    BY <1>1, <1>5, <2>1, <2>2 DEF ScanInv
<1> QED
  BY <1>7, <1>8

LEMMA ScanOtherSteps ==
  ASSUME CacheInv, ScanInv,
         \/ \E c \in Goroutine :
              \/ EvictTake(c) \/ EvictOldest(c)
              \/ GetTouch(c) \/ GetExpired(c) \/ GetPurge(c)
              \/ \E k \in Key : SetInsert(c, k) \/ GetLookup(c, k)
         \/ \E k \in Key : Delete(k)
         \/ ShardTick \/ UNCHANGED shardVars
  PROVE  ScanInv'
<1>1. CASE \E c \in Goroutine : EvictTake(c)
  <2>1. /\ UNCHANGED <<items, access, toScan, oldest, quiet>>
        /\ oldestTime' = access[items[oldest]] /\ Locked /\ oldest # Nil
    BY <1>1 DEF EvictTake, Locked, Evicting, CacheInv, ScanOfShard
  <2>2. Keys' = Keys
    BY <2>1 DEF Keys
  <2> QED
    BY <2>1, <2>2 DEF ScanInv
<1>2. CASE \E c \in Goroutine : EvictOldest(c)
  <2>1. ~Locked'
    BY <1>2, OneEvictionEnds
  <2> QED
    BY <2>1 DEF ScanInv
<1>3. CASE \E c \in Goroutine, k \in Key : SetInsert(c, k)
  <2>1. PICK c \in Goroutine, k \in Key : SetInsert(c, k)
    BY <1>3
  <2>2. oldest' = Nil
    BY <2>1 DEF SetInsert, Insert, CacheInv, ScanOfShard, eviction
  <2>3. CASE toScan' = Keys'
    BY <2>2, <2>3 DEF ScanInv
  <2>4. CASE UNCHANGED step
    BY <2>1, <2>4 DEF SetInsert, Locked, Evicting, ScanInv
  <2> QED
    BY <2>1, <2>3, <2>4 DEF SetInsert, Insert, Keys
<1>4. CASE \/ \E k \in Key : Delete(k)
           \/ \E c \in Goroutine : GetPurge(c)
  <2>1. ~Locked /\ \A d \in Goroutine : step'[d] \in {step[d], "idle"}
    BY <1>4 DEF Delete, GetPurge, Return, CacheInv, CacheTypeOK
  <2> QED
    BY <2>1 DEF Locked, Evicting, ScanInv
<1>5. CASE \E c \in Goroutine : GetTouch(c)
  <2>1. quiet' = ~Locked /\ \A d \in Goroutine : step'[d] \in {step[d], "idle"}
    BY <1>5 DEF GetTouch, Return, CacheInv, CacheTypeOK
  <2> QED
    BY <2>1 DEF Locked, Evicting, ScanInv
<1>6. CASE \/ \E c \in Goroutine : GetExpired(c) \/ \E k \in Key : GetLookup(c, k)
           \/ ShardTick \/ UNCHANGED shardVars
  <2>1. UNCHANGED <<items, access, toScan, oldest, oldestTime, quiet>>
    BY <1>6 DEF GetExpired, GetLookup, ShardTick, shardVars, eviction
  <2>2. \A d \in Goroutine : step'[d] = step[d] \/ {step[d], step'[d]} \cap {"evict", "take"} = {}
    BY <1>6 DEF GetExpired, GetLookup, ShardTick, shardVars, CacheInv, CacheTypeOK
  <2>3. Keys' = Keys /\ (Locked' <=> Locked)
    BY <2>1, <2>2 DEF Keys, Locked, Evicting
  <2> QED
    BY <2>1, <2>2, <2>3 DEF ScanInv
<1> QED
  BY <1>1, <1>2, <1>3, <1>4, <1>5, <1>6

\* What a Set pushes out was not used after any item that stays, unless a Get
\* touched an item during the scan (Cache.evictOldest).
THEOREM EvictionIsLRU == ShardSpec => QuietEvictionIsLRU
<1>1. ShardInit => ScanInv
  BY DEF ShardInit, Locked, Evicting, ScanInv
<1>2. CacheInv /\ ScanInv /\ [ShardNext]_shardVars => ScanInv'
  BY ScanCompareStep, ScanOtherSteps DEF ShardNext
<1>3. CacheInv /\ ScanInv /\ [ShardNext]_shardVars
        => [Locked /\ ~Locked' /\ quiet => VictimIsLeastRecent]_shardVars
  <2> SUFFICES ASSUME CacheInv, ScanInv, ShardNext, Locked, ~Locked', quiet
               PROVE  VictimIsLeastRecent
    OBVIOUS
  <2>1. PICK c \in Goroutine : EvictOldest(c)
    BY OnlyEvictOldestUnlocks
  <2>2. toScan = {} /\ items' \in {items, [items EXCEPT ![oldest] = Nil]}
    BY <2>1 DEF EvictOldest
  <2>3. oldest \in Keys
    BY <2>2 DEF CacheInv, ScanOfShard, NewestIsCandidate
  <2>4. \A k \in Keys : items'[k] = Nil => k = oldest
    BY <2>2, <2>3 DEF Keys, CacheInv, CacheTypeOK
  <2>5. \A j \in Keys : access[items[oldest]] <= access[items[j]]
    BY <2>2, <2>3, CacheConstants DEF ScanInv, Keys
  <2> QED
    BY <2>4, <2>5 DEF VictimIsLeastRecent
<1> QED
  BY <1>1, <1>2, <1>3, CacheInvHolds, PTL DEF ShardSpec, QuietEvictionIsLRU
===============================================================================
