---------------------------- MODULE CircuitBreaker ----------------------------
(***************************************************************************)
(* CircuitBreaker of pkg/client/client.go. Its mutex makes each of the     *)
(* three methods one step. IsAllowed takes only the read lock although it  *)
(* may store StateHalfOpen: two overlapping calls can only store the same  *)
(* value, and RecordFailure and RecordSuccess are kept out, so one step    *)
(* per call still covers every outcome.                                    *)
(*                                                                         *)
(* Time is the time since the last recorded failure, counted in ticks and  *)
(* no further than the breaker can tell: it compares it with its timeout.  *)
(***************************************************************************)
EXTENDS Naturals

CONSTANTS
  Threshold,  \* failures that open the breaker
  Timeout     \* ticks an open breaker refuses for

ASSUME ThresholdAssumption == Threshold \in Nat \ {0}
ASSUME TimeoutAssumption == Timeout \in Nat

VARIABLES
  cbState,       \* cb.state
  failureCount,  \* cb.failureCount
  sinceFailure   \* time.Since(cb.lastFailure), at most Timeout + 1

cbVars == <<cbState, failureCount, sinceFailure>>

CircuitState == {"closed", "open", "halfOpen"}

BreakerTypeOK ==
  /\ cbState \in CircuitState
  /\ failureCount \in Nat
  /\ sinceFailure \in 0..Timeout + 1

\* lastFailure starts at the zero time: long ago.
BreakerInit ==
  /\ cbState = "closed"
  /\ failureCount = 0
  /\ sinceFailure = Timeout + 1

Elapsed == sinceFailure > Timeout

\* IsAllowed returns true; an open breaker whose timeout is over becomes
\* half-open.
IsAllowed ==
  /\ cbState \in {"closed", "halfOpen"} \/ Elapsed
  /\ cbState' = IF cbState = "open" THEN "halfOpen" ELSE cbState
  /\ UNCHANGED <<failureCount, sinceFailure>>

\* IsAllowed returns false.
IsRefused ==
  /\ cbState = "open" /\ ~Elapsed
  /\ UNCHANGED cbVars

\* Mutant: a failure in the half-open state does not open the breaker again.
RecordFailureStaysHalfOpen ==
  /\ failureCount' = failureCount + 1
  /\ sinceFailure' = 0
  /\ cbState' = IF cbState = "closed" /\ failureCount + 1 >= Threshold
                THEN "open" ELSE cbState

\* Recorded whatever the state: a late failure restarts the timeout of a
\* breaker that is already open.
RecordFailure ==
  /\ failureCount' = failureCount + 1
  /\ sinceFailure' = 0
  /\ cbState' = IF \/ cbState = "closed" /\ failureCount + 1 >= Threshold
                   \/ cbState = "halfOpen"
                THEN "open" ELSE cbState

\* Mutant: a success is counted and changes nothing.
RecordSuccessIgnored == UNCHANGED cbVars

\* Only the half-open state reacts; a closed breaker keeps its failures.
RecordSuccess ==
  /\ cbState' = IF cbState = "halfOpen" THEN "closed" ELSE cbState
  /\ failureCount' = IF cbState = "halfOpen" THEN 0 ELSE failureCount
  /\ UNCHANGED sinceFailure

\* One tick of the clock.
Older(age, limit) == IF age > limit THEN age ELSE age + 1
BreakerTick == sinceFailure' = Older(sinceFailure, Timeout)

(***************************************************************************)
(* Properties                                                              *)
(***************************************************************************)

\* The breaker lets everything through exactly while it has counted fewer
\* failures than the threshold, whatever late results RecordFailure and
\* RecordSuccess receive in whatever state.
ClosedBelowThreshold == cbState = "closed" <=> failureCount < Threshold

\* A half-open breaker has seen no failure for the whole timeout: a failure,
\* even a late one of a request admitted long before, opens it again and
\* restarts the timeout.
HalfOpenAfterTimeout == cbState = "halfOpen" => Elapsed
===============================================================================
