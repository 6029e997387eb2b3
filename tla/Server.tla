-------------------------------- MODULE Server --------------------------------
(***************************************************************************)
(* The parts of a gRPC server, pkg/server/server.go: its task processor,   *)
(* its limiter, its pool of buffers, and its life with the requests in its *)
(* interceptors and the health checker. They share no state: the processor *)
(* meets the server's life only in Stop, which GrpcServer has as closing   *)
(* the queue; the limiter has a mutex of its own, and its answer is a      *)
(* choice in GrpcServer; the pool of buffers is used by handlers. So one   *)
(* behaviour is a behaviour of one part.                                   *)
(***************************************************************************)
EXTENDS AsyncProcessor, RateLimiter, MemoryPool

CONSTANTS
  Call, Service, Check, MaxStarts, MaxStops  \* of GrpcServer

VARIABLES
  part,  \* the part that is observed
  \* of GrpcServer
  opts, process, registered, serve, served, starting, starts, stops, stopping, kind,
  place, outcome, active, sapRunning, queueOpen, hcRunning, stopOpen, checker, checks,
  checked

grpcVars == <<opts, process, registered, serve, served, starting, starts, stops,
              stopping, kind, place, outcome, active, sapRunning, queueOpen, hcRunning,
              stopOpen, checker, checks, checked>>
serverVars == <<vars, limiterVars, memoryVars, grpcVars, part>>

Grpc == INSTANCE GrpcServer

\* The parts that are not observed start in one state each, and stay there.
ServerInit ==
  /\ part \in {"tasks", "limiter", "memory", "grpc"}
  /\ Init /\ LimiterInit /\ MemoryInit /\ Grpc!GrpcInit
  /\ part # "grpc" =>
       /\ opts = [trace |-> FALSE, metrics |-> FALSE, async |-> FALSE, health |-> FALSE,
                  limit |-> FALSE]
       /\ kind = [c \in Call |-> "unary"]

TasksPart == part = "tasks" /\ Next /\ UNCHANGED <<limiterVars, memoryVars, grpcVars, part>>
LimiterPart ==
  part = "limiter" /\ LimiterNext /\ UNCHANGED <<vars, memoryVars, grpcVars, part>>
MemoryPart ==
  part = "memory" /\ MemoryNext /\ UNCHANGED <<vars, limiterVars, grpcVars, part>>
GrpcPart ==
  part = "grpc" /\ Grpc!GrpcNext /\ UNCHANGED <<vars, limiterVars, memoryVars, part>>

ServerNext == TasksPart \/ LimiterPart \/ MemoryPart \/ GrpcPart

\* The fairness of the parts: goroutines run on, and for the limiter time passes and
\* a client keeps asking. At rest the server has nothing to be fair about.
ServerSpec ==
  /\ ServerInit /\ [][ServerNext]_serverVars
  /\ WF_vars(part = "tasks" /\ Start)
  /\ WF_vars(part = "tasks" /\ RegisterHandlerEnd)
  /\ \A w \in Worker : WF_vars(part = "tasks" /\ WorkerStep(w))
  /\ \A t \in Task : WF_vars(part = "tasks" /\ call[t] = "send" /\ SubmitStep(t))
  /\ WF_limiterVars(part = "limiter" /\ LimiterTick)
  /\ WF_limiterVars(part = "limiter" /\ Allow)
  /\ Grpc!GrpcFairness

(***************************************************************************)
(* Properties of the parts                                                 *)
(***************************************************************************)

\* See AsyncProcessor: accepted tasks are finished, and after Stop the workers end.
DrainsAndEnds == AcceptedTasksFinish /\ WorkersExitAfterStop

\* See GrpcServer: the process ends only by what its callers do.
EndsOnlyByCallers == Grpc!EndsOnlyByCallers

\* See GrpcServer: a registered check is run until the server stops.
ChecksRunUntilStop == Grpc!ChecksRunUntilStop
===============================================================================
