---------------------------- MODULE GatewayLimiter ----------------------------
(***************************************************************************)
(* The gateway's rate limiter (pkg/gateway/middleware.go): a token bucket  *)
(* per client, refilled when the client asks, and a clean-up that forgets  *)
(* the clients that have not asked for two windows. Allow is one step, it  *)
(* holds the mutex.                                                        *)
(*                                                                         *)
(* The window has Window ticks, in each of which a bucket gains 1/Window   *)
(* of the limit; tokens are counted in Window-ths, so that a tick gains    *)
(* Limit of them, a request takes Window and a bucket holds Limit * Window.*)
(***************************************************************************)
EXTENDS Integers, FiniteSets, FiniteSetsExt

CONSTANTS
  Peer,    \* clients, by the address getClientIP finds
  Limit,   \* config.RateLimit, requests per window
  Window   \* ticks in the window of one minute

ASSUME GatewayLimiterAssumption == Limit \in Nat \ {0} /\ Window \in Nat \ {0}

CleanupInterval == 5 * Window
Cutoff == 2 * Window
BucketSize == Limit * Window

\* Ages beyond every bound the code looks at are one.
MaxAge == CleanupInterval + 1

VARIABLES
  known,        \* the keys of clientLimiters
  tokens,       \* Peer -> tokens when they were last refilled
  lastRefill,   \* Peer -> ticks since then
  lastCleanup,  \* ticks since the last clean-up
  passed        \* history: Peer -> what its requests took beyond its refill

limiterVars == <<known, tokens, lastRefill, lastCleanup, passed>>

LimiterTypeOK ==
  /\ known \subseteq Peer
  /\ tokens \in [Peer -> 0..BucketSize]
  /\ lastRefill \in [Peer -> 0..MaxAge]
  /\ lastCleanup \in 0..MaxAge
  /\ passed \in [Peer -> Nat]

\* NewRateLimiter
LimiterInit ==
  /\ known = {}
  /\ tokens = [p \in Peer |-> BucketSize]
  /\ lastRefill = [p \in Peer |-> 0]
  /\ lastCleanup = 0
  /\ passed = [p \in Peer |-> 0]

\* Mutant: the clean-up forgets every client that has not asked this very tick.
ForgottenEarly == {p \in known : lastRefill[p] > 0}

\* cleanup, called by Allow when the interval is over.
Forgotten == {p \in known : lastCleanup > CleanupInterval /\ lastRefill[p] > Cutoff}

\* A client that is not known, or no longer, starts with a full bucket.
Refilled(p) ==
  IF p \in known \ Forgotten
  THEN Min({tokens[p] + lastRefill[p] * Limit, BucketSize})
  ELSE BucketSize

Admitted(p) == Refilled(p) >= Window

\* rateLimitMiddleware passes the request on or answers 429.
Allow(p) ==
  /\ known' = (known \ Forgotten) \cup {p}
  /\ lastCleanup' = IF lastCleanup > CleanupInterval THEN 0 ELSE lastCleanup
  /\ lastRefill' = [lastRefill EXCEPT ![p] = 0]
  /\ tokens' = [tokens EXCEPT ![p] = Refilled(p) - (IF Admitted(p) THEN Window ELSE 0)]
  /\ passed' = [passed EXCEPT ![p] = @ + (IF Admitted(p) THEN Window ELSE 0)]

Later(age) == Min({age + 1, MaxAge})

LimiterTick ==
  /\ lastRefill' = [p \in Peer |-> Later(lastRefill[p])]
  /\ lastCleanup' = Later(lastCleanup)
  /\ passed' = [p \in Peer |-> Max({passed[p] - Limit, 0})]
  /\ UNCHANGED <<known, tokens>>

LimiterNext == LimiterTick \/ \E p \in Peer : Allow(p)

LimiterSpec == LimiterInit /\ [][LimiterNext]_limiterVars

(***************************************************************************)
(* Properties                                                              *)
(***************************************************************************)

\* Over any stretch of time a client is admitted at most Limit requests and
\* what the stretch refills: forgetting it and starting it again with a full
\* bucket gives it nothing it would not have had.
ClientRateBounded == \A p \in Peer : passed[p] <= BucketSize
===============================================================================
