----------------------------- MODULE ClientManager -----------------------------
(***************************************************************************)
(* The gateway's RPC client manager (pkg/gateway/client_manager.go): Start *)
(* dials every service and starts a watch goroutine for it, Stop ends the  *)
(* goroutines and closes the connections, updates replace a service's      *)
(* connections, and getServiceClient hands them out in turn.               *)
(*                                                                         *)
(* A list of instances is abstracted to its length, a connection is a      *)
(* number. The registry's watch channel (capacity 1) is external; it ends  *)
(* when the registry's own watch breaks, as EtcdWatch!Return does.         *)
(* initServiceClient dials before it locks cm.mu; the connections are its  *)
(* own until it stores them, so dialling and storing are one step.         *)
(***************************************************************************)
EXTENDS Naturals, Sequences, FiniteSets, Functions

CONSTANTS
  Services,      \* the services in the order Start initialises them
  MaxInstances,  \* bound: instances of a service
  MaxConns,      \* bound: connections ever dialled
  MaxCalls       \* bound: calls of getServiceClient between two updates

ServiceName == Range(Services)

\* Start has at least one service to dial, and none of them twice.
ASSUME ManagerConstants ==
  /\ Services \in Seq(ServiceName) \ {<<>>} /\ IsInjective(Services)
  /\ MaxInstances \in Nat \ {0} /\ MaxConns \in Nat /\ MaxCalls \in Nat

Conn == 1..MaxConns
SeqUpTo(S, n) == UNION {[1..k -> S] : k \in 0..n}

VARIABLES
  start,    \* where Start is
  at,       \* the service it is at
  stop,     \* where Stop is
  clients,  \* the services in cm.clients
  conns,    \* ServiceName -> ServiceClient.Connections (and .Clients)
  idx,      \* ServiceName -> CurrentIdx
  healthy,  \* ServiceName -> healthy
  watchCh,  \* ServiceName -> lists in the watch channel
  ended,    \* the services whose watch channel is closed
  watcher,  \* ServiceName -> where its watch goroutine is
  list,     \* ServiceName -> what the goroutine received: a list, or <<>> for nil
  dialled,  \* connections dialled so far
  open,     \* connections not closed
  handed    \* history: ServiceName -> connections handed out since the last update

managerVars == <<start, at, stop, clients, conns, idx, healthy, watchCh, ended,
          watcher, list, dialled, open, handed>>
client == <<clients, conns, idx, healthy, dialled, open, handed>>

ManagerTypeOK ==
  /\ start \in {"init", "watch", "started", "failed"}
  /\ at \in 1..Len(Services) + 1
  /\ stop \in {"no", "signalled", "done"}
  /\ clients \in SUBSET ServiceName
  /\ conns \in [ServiceName -> SeqUpTo(Conn, MaxInstances)]
  /\ idx \in [ServiceName -> 0..MaxInstances - 1]
  /\ healthy \in [ServiceName -> BOOLEAN]
  /\ watchCh \in [ServiceName -> SeqUpTo(0..MaxInstances, 1)]
  /\ ended \in SUBSET ServiceName
  /\ watcher \in [ServiceName -> {"none", "select", "update", "ended"}]
  /\ list \in [ServiceName -> SeqUpTo(0..MaxInstances, 1)]
  /\ dialled \in 0..MaxConns
  /\ open \in SUBSET Conn
  /\ handed \in [ServiceName -> SeqUpTo(Conn, MaxCalls)]

ManagerInit ==
  /\ start = "init" /\ at = 1 /\ stop = "no"
  /\ clients = {}
  /\ conns = [s \in ServiceName |-> <<>>]
  /\ idx = [s \in ServiceName |-> 0]
  /\ healthy = [s \in ServiceName |-> FALSE]
  /\ watchCh = [s \in ServiceName |-> <<>>]
  /\ ended = {}
  /\ watcher = [s \in ServiceName |-> "none"]
  /\ list = [s \in ServiceName |-> <<>>]
  /\ dialled = 0
  /\ open = {}
  /\ handed = [s \in ServiceName |-> <<>>]

\* n new connections for s replace the ones it had, which the caller closes or
\* keeps.
Dial(s, n, closed) ==
  /\ dialled + n <= MaxConns
  /\ dialled' = dialled + n
  /\ conns' = [conns EXCEPT ![s] = [i \in 1..n |-> dialled + i]]
  /\ open' = (open \ closed) \cup (dialled + 1..dialled + n)
  /\ idx' = [idx EXCEPT ![s] = 0]
  /\ healthy' = [healthy EXCEPT ![s] = n > 0]
  /\ handed' = [handed EXCEPT ![s] = <<>>]

(***************************************************************************)
(* Start                                                                   *)
(***************************************************************************)

\* At least one instance was found and one connection dialled.
InitServiceClient(n) ==
  /\ start = "init" /\ n > 0
  /\ Dial(Services[at], n, {})
  /\ clients' = clients \cup {Services[at]}
  /\ start' = "watch"
  /\ UNCHANGED <<at, stop, watchCh, ended, watcher, list>>

\* Discover failed or found nothing, no connection could be dialled, or Watch
\* failed: Start returns and leaves what it made.
StartFails ==
  /\ start \in {"init", "watch"}
  /\ start' = "failed"
  /\ UNCHANGED <<at, stop, watchCh, ended, watcher, list, client>>

\* The registry's Watch has put a first list in the channel; the goroutine
\* starts and Start goes on with the next service.
WatchService(n) ==
  /\ start = "watch"
  /\ watchCh' = [watchCh EXCEPT ![Services[at]] = <<n>>]
  /\ watcher' = [watcher EXCEPT ![Services[at]] = "select"]
  /\ at' = at + 1
  /\ start' = IF at = Len(Services) THEN "started" ELSE "init"
  /\ UNCHANGED <<stop, ended, list, client>>

(***************************************************************************)
(* The watch goroutine                                                     *)
(***************************************************************************)

\* A list, or nil at once from a closed channel.
WatchReceive(s) ==
  /\ watcher[s] = "select"
  /\ watchCh[s] # <<>> \/ s \in ended
  /\ list' = [list EXCEPT ![s] = watchCh[s]]
  /\ watchCh' = [watchCh EXCEPT ![s] = <<>>]
  /\ watcher' = [watcher EXCEPT ![s] = "update"]
  /\ UNCHANGED <<start, at, stop, ended, client>>

\* The length of the list received; nil has none.
Instances(s) == IF list[s] = <<>> THEN 0 ELSE Head(list[s])

\* Mutant: the old connections are dropped without being closed.
UpdateKeepsOpen(s, n) ==
  /\ watcher[s] = "update" /\ n <= Instances(s)
  /\ Dial(s, n, {})
  /\ watcher' = [watcher EXCEPT ![s] = "select"]
  /\ UNCHANGED <<start, at, stop, clients, watchCh, ended, list>>

\* Under cm.mu: close the connections, dial the instances of the list, of which
\* n succeed.
UpdateServiceClient(s, n) ==
  /\ watcher[s] = "update" /\ n <= Instances(s)
  /\ Dial(s, n, Range(conns[s]))
  /\ watcher' = [watcher EXCEPT ![s] = "select"]
  /\ UNCHANGED <<start, at, stop, clients, watchCh, ended, list>>

\* Mutant: the goroutine looks at stopCh only while it has no list.
WatchStopsIdle(s) ==
  /\ watcher[s] = "select" /\ stop # "no"
  /\ watchCh[s] = <<>> /\ s \notin ended
  /\ watcher' = [watcher EXCEPT ![s] = "ended"]
  /\ UNCHANGED <<start, at, stop, watchCh, ended, list, client>>

\* stopCh or the context is done.
WatchStops(s) ==
  /\ watcher[s] = "select" /\ stop # "no"
  /\ watcher' = [watcher EXCEPT ![s] = "ended"]
  /\ UNCHANGED <<start, at, stop, watchCh, ended, list, client>>

(***************************************************************************)
(* Stop                                                                    *)
(***************************************************************************)

\* close(stopCh), and the watch contexts are cancelled. The gateway calls it on
\* a signal, which can come while Start is still running.
StopSignal ==
  /\ stop = "no"
  /\ stop' = "signalled"
  /\ UNCHANGED <<start, at, watchCh, ended, watcher, list, client>>

\* Under cm.mu every connection of cm.clients is closed.
StopClose ==
  /\ stop = "signalled"
  /\ stop' = "done"
  /\ open' = open \ UNION {Range(conns[s]) : s \in clients}
  /\ UNCHANGED <<start, at, watchCh, ended, watcher, list, clients, conns, idx,
                 healthy, dialled, handed>>

(***************************************************************************)
(* Requests and the registry                                               *)
(***************************************************************************)

\* Mutant: the index wraps one too late.
GetServiceClientLateWrap(s) ==
  /\ start = "started" /\ stop = "no"
  /\ healthy[s] /\ Len(handed[s]) < MaxCalls
  /\ handed' = [handed EXCEPT ![s] = Append(@, conns[s][(idx[s] % Len(conns[s])) + 1])]
  /\ idx' = [idx EXCEPT ![s] = (@ + 1) % (Len(conns[s]) + 1)]
  /\ UNCHANGED <<start, at, stop, clients, conns, healthy, watchCh, ended,
                 watcher, list, dialled, open>>

\* The HTTP server, which runs between Start and Stop, hands out the next client.
GetServiceClient(s) ==
  /\ start = "started" /\ stop = "no"
  /\ healthy[s] /\ Len(handed[s]) < MaxCalls
  /\ handed' = [handed EXCEPT ![s] = Append(@, conns[s][idx[s] + 1])]
  /\ idx' = [idx EXCEPT ![s] = (@ + 1) % Len(conns[s])]
  /\ UNCHANGED <<start, at, stop, clients, conns, healthy, watchCh, ended,
                 watcher, list, dialled, open>>

\* The registry sends a new list.
Publish(s, n) ==
  /\ watcher[s] # "none" /\ s \notin ended /\ watchCh[s] = <<>>
  /\ watchCh' = [watchCh EXCEPT ![s] = <<n>>]
  /\ UNCHANGED <<start, at, stop, ended, watcher, list, client>>

\* The registry's watch breaks or its context is cancelled: the channel closes.
WatchEnds(s) ==
  /\ watcher[s] # "none" /\ s \notin ended
  /\ ended' = ended \cup {s}
  /\ UNCHANGED <<start, at, stop, watchCh, watcher, list, client>>

ManagerNext ==
  \/ StartFails \/ StopSignal \/ StopClose
  \/ \E n \in 0..MaxInstances :
       \/ InitServiceClient(n) \/ WatchService(n)
       \/ \E s \in ServiceName : UpdateServiceClient(s, n) \/ Publish(s, n)
  \/ \E s \in ServiceName :
       WatchReceive(s) \/ WatchStops(s) \/ GetServiceClient(s) \/ WatchEnds(s)

ManagerSpec == ManagerInit /\ [][ManagerNext]_managerVars

\* The watch goroutines run; select chooses at random among its ready cases.
ManagerFairness ==
  \A s \in ServiceName :
    /\ WF_managerVars(\E n \in 0..MaxInstances : UpdateServiceClient(s, n))
    /\ WF_managerVars(WatchReceive(s))
    /\ SF_managerVars(WatchStops(s))

ManagerFairSpec == ManagerSpec /\ ManagerFairness

(***************************************************************************)
(* Properties                                                              *)
(***************************************************************************)

\* A healthy service has a client at CurrentIdx, so that getServiceClient never
\* indexes out of range, whatever updates come between requests.
IndexInRange == \A s \in ServiceName : healthy[s] => idx[s] < Len(conns[s])

\* Until Stop the open connections are exactly those the manager hands out: an
\* update neither leaks a connection nor leaves a closed one behind.
NoConnectionLeaks ==
  stop = "no" => open = UNION {Range(conns[s]) : s \in ServiceName}

\* Between two updates no connection is handed out twice more than another.
RequestsAreShared ==
  \A s \in ServiceName : \A c, d \in Range(conns[s]) :
    LET Times(x) == Cardinality({i \in DOMAIN handed[s] : handed[s][i] = x})
    IN  Times(c) <= Times(d) + 1

\* After Stop every watch goroutine ends, though a closed watch channel keeps
\* its select busy.
WatchersEnd ==
  \A s \in ServiceName :
    (stop # "no" /\ watcher[s] # "none") ~> (watcher[s] = "ended")

\* A service loses its last connection only to a list the registry sent, never
\* because the watch broke.
OnlyListsTakeDown ==
  [][\A s \in ServiceName : healthy[s] /\ ~healthy'[s] => list[s] # <<>>]_managerVars
===============================================================================
