---------------------------- MODULE GatewayProcess ----------------------------
(***************************************************************************)
(* The gateway's process: main of cmd/gateway/main.go, the goroutine it    *)
(* starts the gateway in, and Gateway.Start and Stop of pkg/gateway/       *)
(* gateway.go with the client manager and the HTTP server between them.    *)
(*                                                                         *)
(* net/http is external: a request runs in a goroutine of its own,         *)
(* Shutdown ends the listening at once, then waits for the handlers or for *)
(* its context. The end of the process, by return, exit or Fatalf, ends    *)
(* every goroutine.                                                        *)
(***************************************************************************)
EXTENDS Naturals, FiniteSets

CONSTANTS
  Request  \* requests that may arrive

VARIABLES
  main,      \* where main is
  starter,   \* where the goroutine of Gateway.Start is
  registry,  \* "none", "open" or "closed"
  tracer,    \* the tracer is running
  manager,   \* the client manager: "none", "up" or "stopped"
  server,    \* the HTTP server: "new", "listening" or "shut"
  handling,  \* requests in their handlers
  status     \* exit status once the process has ended

vars == <<main, starter, registry, tracer, manager, server, handling, status>>

Running == main # "ended"

TypeOK ==
  /\ main \in {"setup", "wait", "shutdown", "stop", "deferred", "ended"}
  /\ starter \in {"none", "manager", "listen", "serve", "returned"}
  /\ registry \in {"none", "open", "closed"} /\ tracer \in BOOLEAN
  /\ manager \in {"none", "up", "stopped"}
  /\ server \in {"new", "listening", "shut"}
  /\ handling \subseteq Request
  /\ status \in 0..1

Init ==
  /\ main = "setup" /\ starter = "none"
  /\ registry = "none" /\ tracer = FALSE
  /\ manager = "none" /\ server = "new"
  /\ handling = {} /\ status = 0

\* os.Exit and Fatalf run no deferred call.
Exit(code) ==
  /\ main' = "ended" /\ status' = code
  /\ starter' = "none" /\ handling' = {}
  /\ UNCHANGED <<registry, tracer, manager, server>>

(***************************************************************************)
(* main                                                                    *)
(***************************************************************************)

\* Configuration, logger, registry, authentication, metrics server or gateway
\* cannot be set up, or a signal comes before anyone listens for it.
SetupFails == main = "setup" /\ Exit(1)

\* Without a tracer the process goes on.
Setup ==
  /\ main = "setup"
  /\ main' = "wait" /\ starter' = "manager"
  /\ registry' = "open" /\ tracer' \in BOOLEAN
  /\ UNCHANGED <<manager, server, handling, status>>

\* Mutant: Stop stops the client manager before it shuts the server down.
SignalStopsManager ==
  /\ main = "wait"
  /\ main' = "shutdown"
  /\ server' = "shut" /\ manager' = "stopped"
  /\ UNCHANGED <<starter, registry, tracer, handling, status>>

\* waitForShutdown calls Stop, which calls Shutdown.
Signal ==
  /\ main = "wait"
  /\ main' = "shutdown"
  /\ server' = "shut"
  /\ UNCHANGED <<starter, registry, tracer, manager, handling, status>>

\* Mutant: the context of Stop has no deadline.
ShutdownWaits == FALSE

\* The 30 seconds of the context are over: Stop returns the error before it
\* comes to the client manager, and main exits.
ShutdownTimesOut ==
  main = "shutdown" /\ handling # {} /\ Exit(1)

ShutdownEnds ==
  /\ main = "shutdown" /\ handling = {}
  /\ main' = "stop"
  /\ UNCHANGED <<starter, registry, tracer, manager, server, handling, status>>

StopManager ==
  /\ main = "stop"
  /\ main' = "deferred" /\ manager' = "stopped"
  /\ UNCHANGED <<starter, registry, tracer, server, handling, status>>

\* The deferred calls close the registry and shut the tracer down.
Return ==
  /\ main = "deferred"
  /\ main' = "ended" /\ starter' = "none" /\ handling' = {}
  /\ registry' = "closed" /\ tracer' = FALSE
  /\ UNCHANGED <<manager, server, status>>

(***************************************************************************)
(* Gateway.Start                                                           *)
(***************************************************************************)

\* The client manager does not start, or the port cannot be had: Fatalf.
StartFails ==
  /\ \/ starter = "manager"
     \/ starter = "listen" /\ server = "new"
  /\ Exit(1)

\* Also when Stop has come first: what it stopped is then up again.
ManagerStarts ==
  /\ starter = "manager"
  /\ starter' = "listen" /\ manager' = "up"
  /\ UNCHANGED <<main, registry, tracer, server, handling, status>>

\* ListenAndServe; after Shutdown it returns ErrServerClosed, which is no error.
Listen ==
  /\ starter = "listen"
  /\ IF server = "shut"
     THEN starter' = "returned" /\ UNCHANGED server
     ELSE starter' = "serve" /\ server' = "listening"
  /\ UNCHANGED <<main, registry, tracer, manager, handling, status>>

ServeEnds ==
  /\ starter = "serve" /\ server = "shut"
  /\ starter' = "returned"
  /\ UNCHANGED <<main, registry, tracer, manager, server, handling, status>>

Arrive(r) ==
  /\ Running /\ server = "listening"
  /\ handling' = handling \cup {r}
  /\ UNCHANGED <<main, starter, registry, tracer, manager, server, status>>

Answer(r) ==
  /\ r \in handling
  /\ handling' = handling \ {r}
  /\ UNCHANGED <<main, starter, registry, tracer, manager, server, status>>

MainStep ==
  SetupFails \/ Setup \/ ShutdownTimesOut \/ ShutdownEnds \/ StopManager \/ Return

Next ==
  \/ MainStep \/ Signal
  \/ StartFails \/ ManagerStarts \/ Listen \/ ServeEnds
  \/ \E r \in Request : Arrive(r) \/ Answer(r)

Spec == Init /\ [][Next]_vars

\* main runs, and time does; nothing is asked of the handlers.
FairSpec == Spec /\ WF_vars(MainStep)

(***************************************************************************)
(* Properties                                                              *)
(***************************************************************************)

\* Whenever a handler runs, the client manager it calls through has been
\* started and not been stopped: no request comes too early, and a shutdown
\* leaves the connections alone until the last one is answered.
RequestsHaveClients == handling # {} => manager = "up"

\* A signal ends the process, whatever the handlers do; and with status 0 only
\* after the client manager was stopped (a Start that is still running may bring it
\* up again) and the registry closed.
SignalEndsProcess ==
  /\ main = "shutdown" ~> ~Running
  /\ [](~Running /\ status = 0 => manager # "none" /\ registry = "closed")
===============================================================================
