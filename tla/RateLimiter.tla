---------------------------- MODULE RateLimiter ----------------------------
(***************************************************************************)
(* RateLimiter of pkg/server/server.go: the token bucket that admits the   *)
(* requests of a server. Allow holds the mutex throughout, so a call is    *)
(* one step.                                                               *)
(*                                                                         *)
(* A tick of the clock is 1/Grain of a second, and tokens are counted in   *)
(* units of 1/Grain of a token: the limit is Limit tokens a second, so a   *)
(* tick earns Limit units and a request costs Grain of them. What time has *)
(* earned is added when Allow is called, as elapsed * refillRate is.       *)
(***************************************************************************)
EXTENDS Integers

CONSTANTS
  Limit,  \* limit, refillRate and bucketSize: tokens, per second
  Grain   \* ticks per second, units per token

ASSUME LimiterAssumption == Limit \in Nat /\ Grain \in Nat \ {0}

VARIABLES
  tokens,  \* units in the bucket
  earned,  \* units earned since lastRefill; more than a bucket makes no difference
  answer,  \* what Allow last answered: "none", "allowed" or "refused"
  excess   \* history: the most units taken in an interval that ends now, less
           \* what the interval earned, over all intervals

limiterVars == <<tokens, earned, answer, excess>>

Bucket == Limit * Grain
AtMost(n, max) == IF n <= max THEN n ELSE max
AtLeast(n, min) == IF n >= min THEN n ELSE min

LimiterTypeOK ==
  /\ tokens \in 0..Bucket /\ earned \in 0..Bucket
  /\ answer \in {"none", "allowed", "refused"}
  /\ excess \in Nat

LimiterInit ==
  /\ tokens = Bucket /\ earned = 0
  /\ answer = "none"
  /\ excess = 0

\* Refilled by what was earned, the bucket gives a token if it has one.
Take(refilled) ==
  IF refilled >= Grain
  THEN tokens' = refilled - Grain /\ answer' = "allowed" /\ excess' = excess + Grain
  ELSE tokens' = refilled /\ answer' = "refused" /\ UNCHANGED excess

\* Mutant: lastRefill is not moved.
AllowTwice ==
  Take(AtMost(tokens + earned, Bucket)) /\ UNCHANGED earned

\* Mutant: only whole tokens are added.
AllowWhole ==
  Take(AtMost(tokens + (earned \div Grain) * Grain, Bucket)) /\ earned' = 0

Allow == Take(AtMost(tokens + earned, Bucket)) /\ earned' = 0

LimiterTick ==
  /\ earned' = AtMost(earned + Limit, Bucket)
  /\ excess' = AtLeast(excess - Limit, 0)
  /\ UNCHANGED <<tokens, answer>>

LimiterNext == Allow \/ LimiterTick

LimiterSpec == LimiterInit /\ [][LimiterNext]_limiterVars

(***************************************************************************)
(* Properties                                                              *)
(***************************************************************************)

\* In no interval, however it is chosen, does the server admit more requests
\* than a full bucket and what the interval earned: bursts do not add up.
RateBounded == excess <= Bucket

\* A client that keeps asking is let through some day, however often it asks:
\* the fractions of a token earned between two calls are not lost.
AskersAdmitted == answer = "refused" ~> answer = "allowed"
===============================================================================
