----------------------------- MODULE ProgramStart -----------------------------
(***************************************************************************)
(* The programs under cmd/ and examples/ from the start of main on: each   *)
(* is a sequence of steps that goes on or ends the process. In the         *)
(* services the server starts in a goroutine of its own. The gateway is    *)
(* GatewayProcess once it has its registry, and a client is not followed   *)
(* beyond that.                                                            *)
(***************************************************************************)
EXTENDS Configuration, Sequences

CONSTANTS
  Unreadable,   \* the contents of a file that ReadInConfig refuses
  Files,        \* bound: configs/app.yaml as it may be
  Environments  \* bound: the environments a program may be started in

VARIABLES
  program,     \* which one
  file, env,   \* its configuration file and its environment
  todo,        \* steps of main that are left
  server,      \* its gRPC server: "off", "starting" or "listening"
  port,        \* who listens on the server's address: "nobody", "server", "main" or "other"
  registered,  \* the service is registered
  state        \* "starting", "running" or "exited"

vars == <<program, file, env, todo, server, port, registered, state>>

UserService == <<"config", "logger", "tracer", "registry", "server", "listen", "register">>
OrderService == <<"config", "logger", "tracer", "registry", "server", "listen", "register">>
ExampleServer == <<"config", "logger", "tracer", "serve", "registry", "register">>
ExampleUser == <<"config", "logger", "tracer", "serve", "registry", "register">>
ExampleOrder == <<"config", "logger", "tracer", "serve", "registry", "register">>
Client == <<"config", "logger", "tracer", "registry">>
ExampleClient == <<"config", "logger", "tracer", "registry">>
Gateway == <<"config", "logger", "try tracer", "registry">>

Steps == [user |-> UserService, order |-> OrderService, exampleServer |-> ExampleServer,
          exampleUser |-> ExampleUser, exampleOrder |-> ExampleOrder, client |-> Client,
          exampleClient |-> ExampleClient, gateway |-> Gateway]

config == AppConfig(file, env)

TypeOK ==
  /\ program \in DOMAIN Steps /\ file \in Source \cup {Unreadable} /\ env \in Source
  /\ server \in {"off", "starting", "listening"}
  /\ port \in {"nobody", "server", "main", "other"}
  /\ registered \in BOOLEAN /\ state \in {"starting", "running", "exited"}

Init ==
  /\ program \in DOMAIN Steps /\ file \in Files /\ env \in Environments
  /\ todo = Steps[program] /\ server = "off" /\ port \in {"nobody", "other"}
  /\ registered = FALSE /\ state = "starting"

(***************************************************************************)
(* The steps of main                                                       *)
(***************************************************************************)

\* The next step is s: main goes on if ok, and otherwise exits.
Step(s, ok) ==
  /\ state = "starting" /\ todo # <<>> /\ Head(todo) = s
  /\ todo' = Tail(todo)
  /\ state' = CASE ~ok -> "exited"
                [] ok /\ Tail(todo) = <<>> -> "running"
                [] ok /\ Tail(todo) # <<>> -> "starting"
  /\ UNCHANGED <<program, file, env>>

\* LoadFromFile and the getters of the sections, which decode all of it.
LoadConfig ==
  /\ Step("config", file # Unreadable /\ ~UnmarshalFails(file, env))
  /\ UNCHANGED <<server, port, registered>>

\* buildWriteSyncer: where the log goes.
CanWriteLog ==
  \/ config["log.output"] \in {Good, Default}
  \/ config["log.output"] = ToFile /\ config["log.filename"] # Zero

NewLogger ==
  /\ Step("logger", config["log.level"] \in {Good, Default} /\ CanWriteLog)
  /\ UNCHANGED <<server, port, registered>>

\* validateConfig and createExporters: there must be an exporter.
CanTrace ==
  /\ config["trace.sample_rate"] \in {Good, Default}
  /\ config["trace.enable_console"] = Good \/ config["trace.jaeger_endpoint"] # Zero

\* The gateway does without a tracer.
NewTracer ==
  /\ Step("tracer", CanTrace) \/ Step("try tracer", TRUE)
  /\ UNCHANGED <<server, port, registered>>

\* fmt.Sscanf reads a string with one of these verbs, and fails for any other.
StringVerbs == {"s", "v", "q", "x", "X"}

\* splitHostPort uses the format "%[^:]:%d", as C's sscanf would take it.
SplitHostPortFails(addr) == "[" \notin StringVerbs \/ addr # Good

\* NewNacosRegistry. The gateway chooses by registry.type, which is nacos in
\* configs/app.yaml; GatewayProcess has it with etcd. The errors of creating the
\* client, and of the call in Register, come after the parser and are never met.
NewNacosRegistry ==
  /\ Step("registry", ~SplitHostPortFails(config["nacos.server_addr"]))
  /\ UNCHANGED <<server, port, registered>>

\* go srv.Start()
StartServer ==
  /\ Step("server", TRUE)
  /\ server' = "starting"
  /\ UNCHANGED <<port, registered>>

\* Server.Start, called by main itself.
Serve ==
  /\ Step("serve", port = "nobody")
  /\ IF port = "nobody" THEN server' = "listening" /\ port' = "server"
                        ELSE UNCHANGED <<server, port>>
  /\ UNCHANGED registered

\* main listens too, on the address of the server.
Listen ==
  /\ Step("listen", port = "nobody")
  /\ port' = IF port = "nobody" THEN "main" ELSE port
  /\ UNCHANGED <<server, registered>>

\* NacosRegistry.Register splits the address of the service with the same function.
Register ==
  /\ Step("register", ~SplitHostPortFails(Good))
  /\ registered' = ~SplitHostPortFails(Good)
  /\ UNCHANGED <<server, port>>

\* The goroutine of the server: if it cannot listen, the process exits.
ServerStarts ==
  /\ server = "starting" /\ state # "exited"
  /\ IF port = "nobody"
     THEN server' = "listening" /\ port' = "server" /\ UNCHANGED state
     ELSE state' = "exited" /\ UNCHANGED <<server, port>>
  /\ UNCHANGED <<program, file, env, todo, registered>>

Next ==
  \/ LoadConfig \/ NewLogger \/ NewTracer \/ NewNacosRegistry
  \/ StartServer \/ Serve \/ Listen \/ Register
  \/ ServerStarts

\* main and the goroutine both run.
Spec == Init /\ [][Next]_vars /\ WF_vars(Next)

(***************************************************************************)
(* Properties                                                              *)
(***************************************************************************)

\* What a program may ask of those who run it: a configuration as it should be.
Configured ==
  /\ file # Unreadable /\ port # "other"
  /\ \A k \in Key : file[k] \in {Good, Absent} /\ env[k] \in {Good, Absent}
  /\ file["nacos.server_addr"] = Good /\ file["trace.enable_console"] = Good

\* A service registers when it starts.
ServicesRegister ==
  Configured /\ program \in {"user", "order"} ~> registered
===============================================================================
