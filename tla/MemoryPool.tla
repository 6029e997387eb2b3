----------------------------- MODULE MemoryPool -----------------------------
(***************************************************************************)
(* MemoryPool of pkg/server/server.go: 4 KB buffers kept in a sync.Pool,   *)
(* and buffers of other sizes made for one use. Each user gets a buffer,   *)
(* writes to it and puts it back; Put clears it before it goes into the    *)
(* pool, with no lock, and counts it out after that. Sizes are in KB. The  *)
(* counters of hits and misses, which nothing reads, are left out.         *)
(***************************************************************************)
EXTENDS Integers, FiniteSets, FiniteSetsExt

CONSTANTS
  User,      \* goroutines
  Buffer,    \* the standard buffers that can exist
  SizeArgs,  \* bound: sizes asked for
  NoBuffer   \* none of them

ASSUME MemoryConstants == SizeArgs \subseteq Nat /\ NoBuffer \notin Buffer

Standard == 4
BufferSizes == {1, 4, 16, 64}

VARIABLES
  pooled,     \* standard buffers in the sync.Pool
  inUse,      \* standard buffers outside, made by New or taken from the pool
  buf,        \* User -> its standard buffer; NoBuffer: none, or one of another size
  length,     \* User -> the length of its buffer, 0 for none
  asked,      \* history: User -> the size it asked for
  step,       \* User -> where it is
  dirty,      \* standard buffers with somebody's data in them
  allocated   \* the counter

memoryVars == <<pooled, inUse, buf, length, asked, step, dirty, allocated>>

Counted == {u \in User : buf[u] # NoBuffer /\ step[u] # "got"}

MemoryTypeOK ==
  /\ pooled \in SUBSET Buffer /\ inUse \in SUBSET Buffer
  /\ buf \in [User -> Buffer \cup {NoBuffer}]
  /\ length \in [User -> Nat] /\ asked \in [User -> SizeArgs \cup {0}]
  /\ step \in [User -> {"idle", "got", "using", "cleared", "counting"}]
  /\ dirty \in SUBSET Buffer
  /\ allocated \in Int

MemoryInit ==
  /\ pooled = {} /\ inUse = {} /\ dirty = {} /\ allocated = 0
  /\ buf = [u \in User |-> NoBuffer]
  /\ length = [u \in User |-> 0] /\ asked = [u \in User |-> 0]
  /\ step = [u \in User |-> "idle"]

FindBestSize(size) ==
  LET fitting == {s \in BufferSizes : size <= s}
  IN  IF fitting = {} THEN size ELSE Min(fitting)

\* A buffer of the pool or a new one, as the pool of this processor has it.
Get(u) ==
  \E b \in Buffer \ inUse :
    /\ pooled' = pooled \ {b}
    /\ inUse' = inUse \cup {b}
    /\ buf' = [buf EXCEPT ![u] = b]
    /\ length' = [length EXCEPT ![u] = Standard]
    /\ step' = [step EXCEPT ![u] = "got"]

GetWithSize(u, size) ==
  /\ step[u] = "idle"
  /\ asked' = [asked EXCEPT ![u] = size]
  /\ IF FindBestSize(size) = Standard
     THEN Get(u)
     ELSE /\ length' = [length EXCEPT ![u] = FindBestSize(size)]
          /\ step' = [step EXCEPT ![u] = "using"]
          /\ UNCHANGED <<pooled, inUse, buf>>
  /\ UNCHANGED <<dirty, allocated>>

GetCounts(u) ==
  /\ step[u] = "got"
  /\ allocated' = allocated + 1
  /\ step' = [step EXCEPT ![u] = "using"]
  /\ UNCHANGED <<pooled, inUse, buf, length, asked, dirty>>

Write(u) ==
  /\ step[u] = "using" /\ buf[u] # NoBuffer
  /\ dirty' = dirty \cup {buf[u]}
  /\ UNCHANGED <<pooled, inUse, buf, length, asked, step, allocated>>

\* What is not of the standard length is left to the collector.
PutIgnored(u) ==
  /\ step[u] = "using" /\ length[u] # Standard
  /\ length' = [length EXCEPT ![u] = 0]
  /\ asked' = [asked EXCEPT ![u] = 0]
  /\ step' = [step EXCEPT ![u] = "idle"]
  /\ UNCHANGED <<pooled, inUse, buf, dirty, allocated>>

\* Mutant: the buffer is in the pool before it is cleared.
PutClearsLate(u) ==
  /\ step[u] = "using" /\ length[u] = Standard
  /\ pooled' = pooled \cup {buf[u]}
  /\ inUse' = inUse \ {buf[u]}
  /\ step' = [step EXCEPT ![u] = "cleared"]
  /\ UNCHANGED <<buf, length, asked, dirty, allocated>>

PutClears(u) ==
  /\ step[u] = "using" /\ length[u] = Standard
  /\ dirty' = dirty \ {buf[u]}
  /\ step' = [step EXCEPT ![u] = "cleared"]
  /\ UNCHANGED <<pooled, inUse, buf, length, asked, allocated>>

PutPools(u) ==
  /\ step[u] = "cleared"
  /\ pooled' = pooled \cup {buf[u]}
  /\ inUse' = inUse \ {buf[u]}
  /\ step' = [step EXCEPT ![u] = "counting"]
  /\ UNCHANGED <<buf, length, asked, dirty, allocated>>

PutCounts(u) ==
  /\ step[u] = "counting"
  /\ allocated' = allocated - 1
  /\ buf' = [buf EXCEPT ![u] = NoBuffer]
  /\ length' = [length EXCEPT ![u] = 0]
  /\ asked' = [asked EXCEPT ![u] = 0]
  /\ step' = [step EXCEPT ![u] = "idle"]
  /\ UNCHANGED <<pooled, inUse, dirty>>

\* The collector may empty a sync.Pool at any time.
Collect ==
  /\ pooled # {}
  /\ pooled' = {}
  /\ UNCHANGED <<inUse, buf, length, asked, step, dirty, allocated>>

MemoryNext ==
  \/ \E u \in User :
       \/ \E size \in SizeArgs : GetWithSize(u, size)
       \/ GetCounts(u) \/ Write(u) \/ PutIgnored(u)
       \/ PutClears(u) \/ PutPools(u) \/ PutCounts(u)
  \/ Collect

(***************************************************************************)
(* Properties                                                              *)
(***************************************************************************)

\* A buffer belongs to one user at a time, is as long as was asked for, and comes
\* without the data of the user before, though Put clears it with no lock; and the
\* counter tells how many standard buffers are out.
BuffersCleanAndAlone ==
  /\ \A u \in User : step[u] \in {"got", "using"} => length[u] >= asked[u]
  /\ \A u \in User : step[u] = "got" => buf[u] \notin dirty
  /\ \A u, v \in User :
       u # v /\ {step[u], step[v]} \subseteq {"got", "using", "cleared"} /\ buf[u] = buf[v]
         => buf[u] = NoBuffer
  /\ allocated = Cardinality(Counted)
===============================================================================
