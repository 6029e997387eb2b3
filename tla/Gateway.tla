-------------------------------- MODULE Gateway --------------------------------
(***************************************************************************)
(* Around the requests of the gateway: the leases of the services in etcd  *)
(* (pkg/registry/etcd.go), the client manager, the limiter of the HTTP     *)
(* middleware and the life of the process. Registry and manager meet in    *)
(* the channel of a watch alone, whose lists and end ClientManager lets    *)
(* come at any time, as EtcdWatch produces them; the limiter and the life  *)
(* of the process share no state with the rest. So one behaviour is a      *)
(* behaviour of one part.                                                  *)
(***************************************************************************)
EXTENDS EtcdLeases, GatewayLimiter, ClientManager

CONSTANTS
  Request  \* of GatewayProcess

VARIABLES
  part,  \* the part that is observed
  \* of GatewayProcess
  main, starter, registry, tracer, manager, server, handling, status

processVars == <<main, starter, registry, tracer, manager, server, handling, status>>
gatewayVars == <<vars, limiterVars, managerVars, processVars, part>>

Process == INSTANCE GatewayProcess

GatewayInit ==
  /\ part \in {"leases", "manager", "limiter", "process"}
  /\ Init /\ LimiterInit /\ ManagerInit /\ Process!Init

LeasesPart ==
  /\ part = "leases" /\ Next
  /\ UNCHANGED <<limiterVars, managerVars, processVars, part>>

ManagerPart ==
  /\ part = "manager" /\ ManagerNext
  /\ UNCHANGED <<vars, limiterVars, processVars, part>>

LimiterPart ==
  /\ part = "limiter" /\ LimiterNext
  /\ UNCHANGED <<vars, managerVars, processVars, part>>

ProcessPart ==
  /\ part = "process" /\ Process!Next
  /\ UNCHANGED <<vars, limiterVars, managerVars, part>>

GatewayNext == LeasesPart \/ ManagerPart \/ LimiterPart \/ ProcessPart

\* The fairness of the parts. At rest the leases and the manager have nothing to be
\* fair about.
GatewaySpec ==
  /\ GatewayInit /\ [][GatewayNext]_gatewayVars
  /\ Fairness /\ ManagerFairness
  /\ WF_processVars(part = "process" /\ Process!MainStep)

(***************************************************************************)
(* Properties of the parts                                                 *)
(***************************************************************************)

\* See GatewayProcess: handlers run only while the client manager is up.
RequestsHaveClients == Process!RequestsHaveClients

\* See GatewayProcess: a signal ends the process, cleanly if with status 0.
SignalEndsProcess == Process!SignalEndsProcess
===============================================================================
