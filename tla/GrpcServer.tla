----------------------------- MODULE GrpcServer -----------------------------
(***************************************************************************)
(* Server of pkg/server/server.go: New with its chain of interceptors,     *)
(* RegisterService, Start and Stop, requests on their way through the      *)
(* chain, and the goroutine of the health checker. (The token bucket is in *)
(* RateLimiter, the buffers in MemoryPool, the task processor in           *)
(* AsyncProcessor.) grpc.Server is external: it admits requests while it   *)
(* serves, GracefulStop waits for those it admitted, and registering a     *)
(* service twice, or once it serves, ends the process.                     *)
(*                                                                         *)
(* chainUnaryServer and chainStreamServer give the innermost interceptor   *)
(* a nil next instead of the handler they were called with. The outer      *)
(* interceptors only pass the request on; the innermost one calls nil.     *)
(***************************************************************************)
EXTENDS Integers, Sequences

CONSTANTS
  Call,       \* requests
  Service,    \* services a program registers
  Check,      \* health checks it registers
  MaxStarts,  \* bound: calls of Start
  MaxStops    \* bound: calls of Stop

VARIABLES
  opts,        \* Options: which interceptors New adds, and the limit
  process,     \* "up", "exited" (log.Fatal) or "panicked"
  registered,  \* services in the grpc.Server, reflection's among them
  serve,       \* the grpc.Server: "new", "serving" or "stopped"
  served,      \* Serve has been called
  starting,    \* goroutines of Start that have not called Serve yet
  starts,      \* calls of Start so far
  stops,       \* calls of Stop so far
  stopping,    \* where Stop is, holding s.mu: "no" (not called), "waits" in
               \* GracefulStop, at the "processor" or at the "checker"
  kind,        \* Call -> "unary" or "stream"
  place,       \* Call -> interceptors it has entered; 0: not arrived
  outcome,     \* Call -> "none", "refused" or "lost"
  active,      \* activeConnections
  sapRunning,  \* ServerAsyncProcessor.running
  queueOpen,   \* its queue is open
  hcRunning,   \* HealthChecker.running
  stopOpen,    \* HealthChecker.stopChan is open
  checker,     \* the health checker's goroutine: "none", "running" or "ended"
  checks,      \* HealthChecker.checks
  checked      \* history: checks that have been started

grpcVars == <<opts, process, registered, serve, served, starting, starts, stops,
              stopping, kind, place, outcome, active, sapRunning, queueOpen, hcRunning,
              stopOpen, checker, checks, checked>>
requestVars == <<kind, place, outcome, active>>
lifeVars == <<registered, serve, served, starting, starts, stops, stopping,
              sapRunning, queueOpen, hcRunning, stopOpen, checker, checks, checked>>
healthVars == <<checks, checked>>
stopVars == <<sapRunning, queueOpen, hcRunning, stopOpen>>

Options == [trace : BOOLEAN, metrics : BOOLEAN, async : BOOLEAN, health : BOOLEAN,
            limit : BOOLEAN]

Reflection == "reflection"

\* The interceptors in the order New appends them.
Chain ==
  (IF opts.trace THEN <<"trace">> ELSE <<>>) \o <<"limit", "timeout">>
    \o (IF opts.metrics THEN <<"metrics">> ELSE <<>>)

InChain(c) == place[c] > 0 /\ outcome[c] = "none"
Up == process = "up"
\* s.mu is free.
Free == Up /\ stopping = "no"

GrpcTypeOK ==
  /\ opts \in Options
  /\ process \in {"up", "exited", "panicked"}
  /\ registered \in SUBSET (Service \cup {Reflection})
  /\ serve \in {"new", "serving", "stopped"} /\ served \in BOOLEAN
  /\ starting \in 0..starts /\ starts \in 0..MaxStarts /\ stops \in 0..MaxStops
  /\ stopping \in {"no", "waits", "processor", "checker"}
  /\ kind \in [Call -> {"unary", "stream"}] /\ place \in [Call -> 0..4]
  /\ outcome \in [Call -> {"none", "refused", "lost"}]
  /\ active \in Int
  /\ {sapRunning, queueOpen, hcRunning, stopOpen} \subseteq BOOLEAN
  /\ checker \in {"none", "running", "ended"}
  /\ checks \in SUBSET Check /\ checked \in SUBSET checks

\* New; with RateLimit 0 the bucket has no room for a token.
GrpcInit ==
  /\ opts \in Options
  /\ process = "up" /\ registered = {}
  /\ serve = "new" /\ served = FALSE
  /\ starting = 0 /\ starts = 0 /\ stops = 0 /\ stopping = "no"
  /\ kind \in [Call -> {"unary", "stream"}]
  /\ place = [c \in Call |-> 0] /\ outcome = [c \in Call |-> "none"] /\ active = 0
  /\ sapRunning = opts.async /\ queueOpen = TRUE
  /\ hcRunning = opts.health /\ stopOpen = TRUE
  /\ checker = IF opts.health THEN "running" ELSE "none"
  /\ checks = {} /\ checked = {}

(***************************************************************************)
(* RegisterService, Start and Stop                                         *)
(***************************************************************************)

\* grpc.Server.RegisterService.
Register(s) ==
  IF served \/ s \in registered
  THEN process' = "exited" /\ UNCHANGED registered
  ELSE registered' = registered \cup {s} /\ UNCHANGED process

\* A program registers each of its services once.
RegisterService(s) ==
  /\ Free /\ s \notin registered
  /\ Register(s)
  /\ UNCHANGED <<opts, healthVars, requestVars, serve, served, starting, starts, stops, stopping,
                 stopVars, checker>>

\* reflection.Register comes first, so that a second Start, even after one that
\* could not listen, registers it again.
Start ==
  /\ Free /\ starts < MaxStarts
  /\ starts' = starts + 1
  /\ Register(Reflection)
  /\ IF process' = "up"
     THEN starting' \in {starting, starting + 1}
     ELSE UNCHANGED starting
  /\ UNCHANGED <<opts, healthVars, requestVars, serve, served, stops, stopping, stopVars, checker>>

\* The goroutine calls Serve, which returns at once on a stopped server.
Serve ==
  /\ Up /\ starting > 0
  /\ starting' = starting - 1
  /\ served' = TRUE
  /\ serve' = IF serve = "stopped" THEN serve ELSE "serving"
  /\ UNCHANGED <<opts, process, healthVars, requestVars, registered, starts, stops, stopping,
                 stopVars, checker>>

\* Stop takes s.mu and enters GracefulStop.
StopBegins ==
  /\ Free /\ stops < MaxStops
  /\ stops' = stops + 1
  /\ stopping' = "waits"
  /\ serve' = "stopped"
  /\ UNCHANGED <<opts, process, healthVars, requestVars, registered, served, starting,
                 starts, stopVars, checker>>

\* GracefulStop returns when no request is left.
StopEnds ==
  /\ Up /\ stopping = "waits"
  /\ \A c \in Call : ~InChain(c)
  /\ stopping' = "processor"
  /\ UNCHANGED <<opts, process, healthVars, requestVars, registered, serve, served,
                 starting, starts, stops, stopVars, checker>>

\* close of a channel, which panics if it is closed already.
Close(open) ==
  IF open THEN open' = FALSE /\ UNCHANGED process
          ELSE process' = "panicked" /\ UNCHANGED open

\* ServerAsyncProcessor.Stop
StopProcessor ==
  /\ Up /\ stopping = "processor"
  /\ stopping' = "checker"
  /\ IF opts.async /\ sapRunning
     THEN sapRunning' = FALSE /\ Close(queueOpen)
     ELSE UNCHANGED <<process, sapRunning, queueOpen>>
  /\ UNCHANGED <<opts, healthVars, requestVars, registered, serve, served, starting,
                 starts, stops, hcRunning, stopOpen, checker>>

\* Mutant: HealthChecker.Stop does not look at running.
StopCheckerUnguarded ==
  /\ Up /\ stopping = "checker"
  /\ stopping' = "no"
  /\ IF opts.health
     THEN hcRunning' = FALSE /\ Close(stopOpen)
     ELSE UNCHANGED <<process, hcRunning, stopOpen>>
  /\ UNCHANGED <<opts, healthVars, requestVars, registered, serve, served, starting,
                 starts, stops, sapRunning, queueOpen, checker>>

\* HealthChecker.Stop; after it Stop returns.
StopChecker ==
  /\ Up /\ stopping = "checker"
  /\ stopping' = "no"
  /\ IF opts.health /\ hcRunning
     THEN hcRunning' = FALSE /\ Close(stopOpen)
     ELSE UNCHANGED <<process, hcRunning, stopOpen>>
  /\ UNCHANGED <<opts, healthVars, requestVars, registered, serve, served, starting,
                 starts, stops, sapRunning, queueOpen, checker>>

StopStep == StopEnds \/ StopProcessor \/ StopChecker

RegisterCheck(k) ==
  /\ Up /\ opts.health /\ k \notin checks
  /\ checks' = checks \cup {k}
  /\ UNCHANGED <<opts, process, requestVars, registered, serve, served, starting,
                 starts, stops, stopping, stopVars, checker, checked>>

\* Mutant: the copy of the checks is only made once.
RunChecksFirst ==
  /\ Up /\ checker = "running" /\ checked = {}
  /\ checked' = checks
  /\ UNCHANGED <<opts, process, requestVars, registered, serve, served, starting,
                 starts, stops, stopping, stopVars, checker, checks>>

\* The select of run takes a tick, even if stopChan is closed by now: runChecks
\* copies the checks and starts a goroutine for each.
RunChecks ==
  /\ Up /\ checker = "running"
  /\ checked' = checks
  /\ UNCHANGED <<opts, process, requestVars, registered, serve, served, starting,
                 starts, stops, stopping, stopVars, checker, checks>>

\* The select of run takes the Done case.
CheckerEnds ==
  /\ Up /\ checker = "running" /\ ~stopOpen
  /\ checker' = "ended"
  /\ UNCHANGED <<opts, process, healthVars, requestVars, registered, serve, served, starting, starts,
                 stops, stopping, stopVars>>

(***************************************************************************)
(* Requests                                                                *)
(***************************************************************************)

Arrive(c) ==
  /\ Up /\ serve = "serving" /\ place[c] = 0
  /\ place' = [place EXCEPT ![c] = 1]
  /\ UNCHANGED <<opts, process, kind, outcome, active, lifeVars>>

\* The interceptor calls next: the one after it, or nil.
CallNext(c) ==
  IF place[c] < Len(Chain)
  THEN /\ place' = [place EXCEPT ![c] = @ + 1]
       /\ UNCHANGED <<process, outcome>>
  ELSE /\ process' = "panicked"
       /\ outcome' = [outcome EXCEPT ![c] = "lost"]
       /\ UNCHANGED place

At(c, interceptor) == Up /\ InChain(c) /\ Chain[place[c]] = interceptor

\* Allow may find a token, or not; there is never one if the limit is 0.
LimitAllows(c) ==
  /\ At(c, "limit") /\ opts.limit
  /\ CallNext(c)
  /\ UNCHANGED <<opts, kind, active, lifeVars>>

LimitRefuses(c) ==
  /\ At(c, "limit")
  /\ outcome' = [outcome EXCEPT ![c] = "refused"]
  /\ UNCHANGED <<opts, process, kind, place, active, lifeVars>>

\* The trace interceptors open a span for the rest of the request.
Trace(c) ==
  /\ At(c, "trace") /\ kind[c] = "unary"
  /\ CallNext(c)
  /\ UNCHANGED <<opts, kind, active, lifeVars>>

TraceStream(c) ==
  /\ At(c, "trace") /\ kind[c] = "stream"
  /\ CallNext(c)
  /\ UNCHANGED <<opts, kind, active, lifeVars>>

\* The context or the stream is wrapped in one with a deadline.
SetTimeout(c) ==
  /\ At(c, "timeout")
  /\ CallNext(c)
  /\ UNCHANGED <<opts, kind, active, lifeVars>>

\* The metrics interceptor counts the request in, and out again when its next
\* returns or panics.
Measure(c) ==
  /\ At(c, "metrics")
  /\ CallNext(c)
  /\ active' = IF process' = "up" THEN active + 1 ELSE active
  /\ UNCHANGED <<opts, kind, lifeVars>>

Intercept(c) ==
  LimitAllows(c) \/ LimitRefuses(c) \/ Trace(c) \/ TraceStream(c) \/ SetTimeout(c)
    \/ Measure(c)

GrpcNext ==
  \/ \E s \in Service : RegisterService(s)
  \/ Start \/ Serve \/ StopBegins \/ StopStep
  \/ \E k \in Check : RegisterCheck(k)
  \/ RunChecks \/ CheckerEnds
  \/ \E c \in Call : Arrive(c) \/ Intercept(c)

GrpcSpec == GrpcInit /\ [][GrpcNext]_grpcVars

\* Requests and goroutines go on, and so does a Stop under way. Select chooses at
\* random between the ticker and the closed channel.
GrpcFairness ==
  /\ WF_grpcVars(StopStep) /\ WF_grpcVars(Serve)
  /\ WF_grpcVars(RunChecks) /\ SF_grpcVars(CheckerEnds)
  /\ \A c \in Call : WF_grpcVars(Intercept(c))

(***************************************************************************)
(* Properties                                                              *)
(***************************************************************************)

\* Stopping and starting in any order and more than once, with requests and health
\* checks under way, closes neither the task queue nor the health checker's channel
\* twice: the process ends only by an admitted request that meets the nil handler, or
\* by registering with a server that was started before.
EndsOnlyByCallers ==
  /\ process = "panicked" => \E c \in Call : outcome[c] = "lost"
  /\ process = "exited" => starts > 0

\* Every registered health check is run while the server lives; and Stop returns,
\* though it waits for requests with s.mu held, and ends the checks.
ChecksRunUntilStop ==
  /\ checks # {} ~> checks \subseteq checked \/ stops > 0 \/ ~Up
  /\ stops > 0 ~> ~Up \/ (stopping = "no" /\ checker # "running")

\* What the chain of interceptors is for: a request they admit reaches its handler.
AdmittedRequestsHandled == \A c \in Call : outcome[c] # "lost"
===============================================================================
