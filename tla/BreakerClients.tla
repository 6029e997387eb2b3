---------------------------- MODULE BreakerClients ----------------------------
(***************************************************************************)
(* Requests sharing one CircuitBreaker in the way its three methods are    *)
(* meant to be used: ask IsAllowed, do the work, report the result. The    *)
(* requests overlap, so a result may arrive in a state of the breaker      *)
(* other than the one that admitted the request.                           *)
(***************************************************************************)
EXTENDS CircuitBreaker, FiniteSets

CONSTANTS
  Caller,       \* overlapping requests
  MaxFailures   \* bound: failures the environment may still produce

ASSUME MaxFailuresAssumption == MaxFailures \in Nat

VARIABLES
  pc,      \* Caller -> "idle" or "admitted"
  probes   \* history: requests in flight that a half-open breaker admitted

vars == <<cbVars, pc, probes>>

TypeOK ==
  /\ BreakerTypeOK
  /\ failureCount <= MaxFailures
  /\ pc \in [Caller -> {"idle", "admitted"}]
  /\ probes \in SUBSET {c \in Caller : pc[c] = "admitted"}

Init ==
  /\ BreakerInit
  /\ pc = [c \in Caller |-> "idle"]
  /\ probes = {}

Admit(c) ==
  /\ pc[c] = "idle"
  /\ IsAllowed
  /\ pc' = [pc EXCEPT ![c] = "admitted"]
  /\ probes' = IF cbState' = "halfOpen" THEN probes \cup {c} ELSE probes

Refuse(c) ==
  /\ pc[c] = "idle"
  /\ IsRefused
  /\ UNCHANGED <<pc, probes>>

Fail(c) ==
  /\ pc[c] = "admitted"
  /\ failureCount < MaxFailures
  /\ RecordFailure
  /\ pc' = [pc EXCEPT ![c] = "idle"]
  /\ probes' = probes \ {c}

Succeed(c) ==
  /\ pc[c] = "admitted"
  /\ RecordSuccess
  /\ pc' = [pc EXCEPT ![c] = "idle"]
  /\ probes' = probes \ {c}

Tick ==
  /\ BreakerTick
  /\ UNCHANGED <<cbState, failureCount, pc, probes>>

Next ==
  \/ \E c \in Caller : Admit(c) \/ Refuse(c) \/ Fail(c) \/ Succeed(c)
  \/ Tick

Spec == Init /\ [][Next]_vars

\* Time passes, requests end, and callers keep asking.
FairSpec ==
  /\ Spec
  /\ WF_vars(Tick)
  /\ \A c \in Caller : WF_vars(Admit(c)) /\ WF_vars(Fail(c) \/ Succeed(c))

(***************************************************************************)
(* Properties                                                              *)
(***************************************************************************)

\* A breaker whose callers report every result recovers once the failures
\* stop: RecordSuccess of a probe closes it.
ReportingCallersRecover == cbState # "closed" ~> cbState = "closed"
===============================================================================
