----------------------------- MODULE GatewayCalls -----------------------------
(***************************************************************************)
(* What the gateway's HTTP handlers have in common (pkg/gateway/           *)
(* handlers.go): a request is parsed and validated, a client is taken from *)
(* the ClientManager, one gRPC call is made with a deadline of 30 seconds, *)
(* and its result becomes a status code. UserRequests and OrderRequests    *)
(* add the handlers and the services behind them.                          *)
(*                                                                         *)
(* The service is the process the call goes to; its handlers run           *)
(* concurrently and look at no context, so they work on after the gateway  *)
(* has given up. The interceptors of pkg/server are not part of this       *)
(* model.                                                                  *)
(***************************************************************************)
EXTENDS Integers, Sequences, FiniteSets

CONSTANTS
  Req,       \* HTTP requests
  MaxId,     \* bound: the greatest ID a request names
  Limit,     \* the integers a page is computed with are -Limit..Limit-1 (2^31 in the code)
  MaxSize,   \* greatest page size a service accepts (100 in the code)
  DefaultSize, \* page size when none is given (10 in the code)
  PageArgs,  \* <<page, page_size>> of the list requests
  Blank,     \* a field left empty
  None       \* no data

ASSUME GatewayConstants ==
  /\ MaxId \in Nat /\ Limit \in Nat \ {0}
  /\ MaxSize \in 1..(Limit - 1) /\ DefaultSize \in 1..MaxSize
  /\ PageArgs \subseteq (-Limit..(Limit - 1)) \X (-Limit..(Limit - 1))
  /\ Blank \notin Req

\* A page and the list it is cut from fit the integers together: that takes 2^30
\* objects in the code.
ASSUME RequestsAreFew == IsFiniteSet(Req) /\ 2 * Cardinality(Req) <= Limit

VARIABLES
  pc,      \* Req -> where the gateway's handler is
  call,    \* Req -> the gRPC request
  rpc,     \* Req -> where the service's handler is
  reply,   \* Req -> the gRPC response: an error, or its data
  answer,  \* Req -> the HTTP response
  up       \* the service runs

gatewayVars == <<pc, call, rpc, reply, answer, up>>

Id == 0..MaxId  \* the routes admit [0-9]+
Lists == {"ListUsers", "ListOrders", "GetOrdersByUser"}

\* Their parameters always parse: a default takes the place of a bad one.
Lenient == {"ListUsers", "ListOrders"}

GatewayTypeOK ==
  /\ pc \in [Req -> {"idle", "calling", "answered"}]
  /\ rpc \in [Req -> {"none", "sent", "writing", "replied"}]
  /\ \A r \in Req : pc[r] = "answered" =>
       answer[r].status \in {200, 201, 400, 404, 500, 503}
  /\ \A r \in Req : (rpc[r] = "none") <=> (call[r] = None)
  /\ up \in BOOLEAN

GatewayInit ==
  /\ pc = [r \in Req |-> "idle"]
  /\ call = [r \in Req |-> None]
  /\ rpc = [r \in Req |-> "none"]
  /\ reply = [r \in Req |-> None]
  /\ answer = [r \in Req |-> None]
  /\ up = TRUE

(***************************************************************************)
(* The gateway                                                             *)
(***************************************************************************)

\* sendResponse, sendError
Respond(r, status, data) ==
  /\ pc' = [pc EXCEPT ![r] = "answered"]
  /\ answer' = [answer EXCEPT ![r] = [status |-> status, data |-> data]]

Call(r, request) ==
  /\ call' = [call EXCEPT ![r] = request]
  /\ rpc' = [rpc EXCEPT ![r] = "sent"]

\* A request that does not parse, or does not pass the RequestValidator. Which
\* ones these are is left open; the service checks what it needs to again.
BadRequest(r, request) ==
  /\ request.op \notin Lenient /\ Respond(r, 400, None)
  /\ UNCHANGED <<call, rpc>>

\* The manager has no healthy client of the service.
Unavailable(r) == Respond(r, 503, None) /\ UNCHANGED <<call, rpc>>

\* A handler up to its call.
Handle(r, request) ==
  /\ pc[r] = "idle"
  /\ \/ BadRequest(r, request)
     \/ Unavailable(r)
     \/ /\ Call(r, request)
        /\ pc' = [pc EXCEPT ![r] = "calling"]
        /\ UNCHANGED answer
  /\ UNCHANGED <<reply, up>>

\* Every error of a Get is taken for a missing object.
ErrorStatus(op) == IF op \in {"GetUser", "GetOrder"} THEN 404 ELSE 500
OkStatus(op) == IF op \in {"CreateUser", "CreateOrder"} THEN 201 ELSE 200

\* The call returns what the service replied.
Answer(r) ==
  /\ pc[r] = "calling" /\ rpc[r] = "replied"
  /\ \/ ~reply[r].ok /\ Respond(r, ErrorStatus(call[r].op), None)
     \/ reply[r].ok /\ Respond(r, OkStatus(call[r].op), reply[r].data)
  /\ reply' = [reply EXCEPT ![r] = None]
  /\ UNCHANGED <<call, rpc, up>>

\* The 30 seconds are over, or the connection breaks. The service may not know:
\* a call on its way is still served, one being served goes on.
Deadline(r) ==
  /\ pc[r] = "calling"
  /\ Respond(r, ErrorStatus(call[r].op), None)
  /\ reply' = [reply EXCEPT ![r] = None]
  /\ UNCHANGED <<call, rpc, up>>

(***************************************************************************)
(* The service's side of a call                                            *)
(***************************************************************************)

Serving(r, op, at) == up /\ rpc[r] = at /\ call[r].op = op

\* The handler returns; its reply is lost if the gateway has given up.
Reply(r, ok, data) ==
  /\ rpc' = [rpc EXCEPT ![r] = "replied"]
  /\ reply' = IF pc[r] = "calling" THEN [reply EXCEPT ![r] = [ok |-> ok, data |-> data]]
              ELSE reply
  /\ UNCHANGED <<pc, call, answer, up>>

\* A gRPC error: InvalidArgument or Internal.
Fails(r) == Reply(r, FALSE, None)

\* A response; with no data its message says what was the matter.
Replies(r, data) == Reply(r, TRUE, data)

\* The service's check passed; the repository comes next.
GoesOn(r) ==
  /\ rpc' = [rpc EXCEPT ![r] = "writing"]
  /\ UNCHANGED <<pc, call, reply, answer, up>>

(***************************************************************************)
(* Pages                                                                   *)
(***************************************************************************)

Wrap(n) == ((n + Limit) % (2 * Limit)) - Limit

\* The gRPC handlers' defaults.
PageOf(args) == IF args[1] <= 0 THEN 1 ELSE args[1]
SizeOf(args) == IF args[2] <= 0 THEN DefaultSize ELSE args[2]

\* Mutant: the page is not cut off at the end of the list.
PageBoundsUncut(total, page, size) ==
  LET start == Wrap((page - 1) * size)
  IN IF start >= total THEN <<0, 0>> ELSE <<start, Wrap(start + size)>>

\* The bounds of the slice that List returns.
PageBounds(total, page, size) ==
  LET start == Wrap((page - 1) * size)
      end == Wrap(start + size)
  IN IF start >= total THEN <<0, 0>>
     ELSE <<start, IF end > total THEN total ELSE end>>

\* List: the repository walks a map, so that the elements of a page are any of the
\* list; they are left out. A slice out of bounds panics, and nothing recovers.
ReplyWithPage(r, matching) ==
  LET total == Cardinality(matching)
      bounds == PageBounds(total, PageOf(call[r].page), SizeOf(call[r].page))
  IN IF 0 <= bounds[1] /\ bounds[1] <= bounds[2] /\ bounds[2] <= total
     THEN Replies(r, None)
     ELSE up' = FALSE /\ UNCHANGED <<pc, call, rpc, reply, answer>>

(***************************************************************************)
(* Properties                                                              *)
(***************************************************************************)

\* The offset of the page a call asks for does not fit the integers.
Overflows(r) ==
  /\ call[r].op \in Lists
  /\ (PageOf(call[r].page) - 1) * SizeOf(call[r].page) >= Limit

\* A service panics over a list only when the offset of the page overflows: every
\* other page is cut to the list, whatever was deleted meanwhile.
OverflowAloneCrashes == ~up => \E r \in Req : rpc[r] = "sent" /\ Overflows(r)
===============================================================================
