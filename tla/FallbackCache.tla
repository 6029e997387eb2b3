----------------------------- MODULE FallbackCache -----------------------------
(***************************************************************************)
(* CacheManager and RedisCache of pkg/cache/cache.go: GetWithFallback asks *)
(* the primary cache, then the secondary, and stores what the secondary    *)
(* answered in the primary. It takes no lock, so that other calls fall     *)
(* between its three steps. The application changes both caches through    *)
(* their own methods: those of the secondary here, and Delete of the       *)
(* primary.                                                                *)
(*                                                                         *)
(* The two Redis servers are external: each call is one step of them, may  *)
(* fail, and keys expire. Ages and times to live are in ticks; one beyond  *)
(* DefaultTTL stands for a key that never expires. The counters of         *)
(* GetStats, which no code reads back, are left out.                       *)
(***************************************************************************)
EXTENDS Integers, FiniteSets

CONSTANTS
  Reader,         \* goroutines in GetWithFallback
  Key,            \* cache keys
  ConfiguredTTL,  \* cache.default_ttl of the configuration, in ticks
  Hour,           \* the default of NewRedisCache
  MaxWrites       \* bound: values written to the secondary

\* NewRedisCache
DefaultTTL == IF ConfiguredTTL <= 0 THEN Hour ELSE ConfiguredTTL

Forever == DefaultTTL + 1

\* Values are numbered in the order they are written; 0 is none.
Value == 0..MaxWrites

VARIABLES
  primary,    \* Key -> value
  expires,    \* Key -> ticks until primary's value goes, or Forever
  secondary,  \* Key -> value
  left,       \* Key -> ticks until secondary's value goes, or Forever
  writes,     \* values written
  pc,         \* Reader -> where its GetWithFallback is
  key,        \* Reader -> its key
  data        \* Reader -> what it has read

vars == <<primary, expires, secondary, left, writes, pc, key, data>>
caches == <<primary, expires, secondary, left, writes>>

TypeOK ==
  /\ primary \in [Key -> Value] /\ secondary \in [Key -> Value]
  /\ expires \in [Key -> 0..Forever] /\ left \in [Key -> 0..Forever]
  /\ writes \in Value
  /\ pc \in [Reader -> {"idle", "primary", "secondary", "set"}]
  /\ key \in [Reader -> Key] /\ data \in [Reader -> Value]

Init ==
  /\ primary = [k \in Key |-> 0] /\ expires = [k \in Key |-> 0]
  /\ secondary = [k \in Key |-> 0] /\ left = [k \in Key |-> 0]
  /\ writes = 0
  /\ pc = [r \in Reader |-> "idle"] /\ key \in [Reader -> Key]
  /\ data = [r \in Reader |-> 0]

\* Mutant: a ttl of 0 is passed on to Redis, for which it means no expiry.
LifetimeKept(ttl) == IF ttl = 0 THEN Forever ELSE ttl

\* RedisCache.Set
Lifetime(ttl) == IF ttl = 0 THEN DefaultTTL ELSE ttl

(***************************************************************************)
(* GetWithFallback                                                         *)
(***************************************************************************)

Goto(r, step) == pc' = [pc EXCEPT ![r] = step]

Call(r, k) ==
  /\ pc[r] = "idle"
  /\ key' = [key EXCEPT ![r] = k]
  /\ data' = [data EXCEPT ![r] = 0]
  /\ Goto(r, "primary")
  /\ UNCHANGED caches

\* Any error of the primary, not only a missing key, leads to the secondary.
GetPrimary(r) ==
  /\ pc[r] = "primary"
  /\ \/ /\ primary[key[r]] # 0
        /\ data' = [data EXCEPT ![r] = primary[key[r]]]
        /\ Goto(r, "idle")
     \/ Goto(r, "secondary") /\ UNCHANGED data
  /\ UNCHANGED <<key, caches>>

GetSecondary(r) ==
  /\ pc[r] = "secondary"
  /\ \/ /\ secondary[key[r]] # 0
        /\ data' = [data EXCEPT ![r] = secondary[key[r]]]
        /\ Goto(r, "set")
     \/ Goto(r, "idle") /\ UNCHANGED data
  /\ UNCHANGED <<key, caches>>

\* The copy is stored with ttl 0; whether that worked is not looked at.
SetPrimary(r) ==
  /\ pc[r] = "set"
  /\ \/ /\ primary' = [primary EXCEPT ![key[r]] = data[r]]
        /\ expires' = [expires EXCEPT ![key[r]] = Lifetime(0)]
     \/ UNCHANGED <<primary, expires>>
  /\ Goto(r, "idle")
  /\ UNCHANGED <<secondary, left, writes, key, data>>

(***************************************************************************)
(* The application and the clock                                           *)
(***************************************************************************)

Write(k, lifetime) ==
  /\ writes < MaxWrites
  /\ writes' = writes + 1
  /\ secondary' = [secondary EXCEPT ![k] = writes']
  /\ left' = [left EXCEPT ![k] = lifetime]
  /\ UNCHANGED <<primary, expires, pc, key, data>>

SetSecondary(k, ttl) == Write(k, Lifetime(ttl))

\* INCRBY gives no lifetime to a key it makes and keeps that of another.
Increment(k) == Write(k, IF secondary[k] = 0 THEN Forever ELSE left[k])

DeleteSecondary(k) ==
  /\ secondary[k] # 0
  /\ secondary' = [secondary EXCEPT ![k] = 0]
  /\ left' = [left EXCEPT ![k] = 0]
  /\ UNCHANGED <<primary, expires, writes, pc, key, data>>

DeletePrimary(k) ==
  /\ primary[k] # 0
  /\ primary' = [primary EXCEPT ![k] = 0]
  /\ expires' = [expires EXCEPT ![k] = 0]
  /\ UNCHANGED <<secondary, left, writes, pc, key, data>>

Shorter(ticks) == IF ticks \in {0, Forever} THEN ticks ELSE ticks - 1

\* A tick of the clock; Redis drops what has expired.
Tick ==
  /\ expires' = [k \in Key |-> Shorter(expires[k])]
  /\ left' = [k \in Key |-> Shorter(left[k])]
  /\ primary' = [k \in Key |-> IF expires'[k] = 0 THEN 0 ELSE primary[k]]
  /\ secondary' = [k \in Key |-> IF left'[k] = 0 THEN 0 ELSE secondary[k]]
  /\ UNCHANGED <<writes, pc, key, data>>

ReaderStep(r) == GetPrimary(r) \/ GetSecondary(r) \/ SetPrimary(r)

Next ==
  \/ \E r \in Reader : ReaderStep(r) \/ \E k \in Key : Call(r, k)
  \/ \E k \in Key :
       \/ \E ttl \in 0..DefaultTTL : SetSecondary(k, ttl)
       \/ Increment(k) \/ DeleteSecondary(k) \/ DeletePrimary(k)
  \/ Tick

Spec == Init /\ [][Next]_vars

\* Calls end, and time passes.
FairSpec == Spec /\ WF_vars(Tick) /\ \A r \in Reader : WF_vars(ReaderStep(r))

(***************************************************************************)
(* Properties                                                              *)
(***************************************************************************)

\* A slow reader may put a value back into the primary that was deleted or
\* written anew meanwhile; but no such copy stays: once the secondary is left
\* alone the primary ends up with nothing else than what the secondary has.
StaleCopiesExpire ==
  \A k \in Key : <>[](primary[k] \in {0, secondary[k]})
===============================================================================
