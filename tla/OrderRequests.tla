---------------------------- MODULE OrderRequests ----------------------------
(***************************************************************************)
(* Requests about orders, from the gateway's handlers (pkg/gateway/        *)
(* handlers.go) through the gRPC handlers and the service (internal/order/ *)
(* handler, internal/order/service) to the in-memory repository            *)
(* (internal/order/repository/order_repository.go) and back.               *)
(*                                                                         *)
(* Of an order's fields the model keeps its user, its amount (0 or 1), its *)
(* status and its description; a description is named after the request    *)
(* that writes it, which each update does. Nothing checks that the user    *)
(* exists.                                                                 *)
(***************************************************************************)
EXTENDS GatewayCalls

CONSTANTS
  Customer,  \* positive user IDs
  Status,    \* valid order statuses
  Pending,   \* the status of a new order
  BadStatus  \* a string that is no status

ASSUME OrderConstants == Pending \in Status /\ BadStatus \notin Status

VARIABLES
  orders,      \* ID -> the contents its object has had; the last one is current
  liveOrders,  \* IDs in the map r.orders
  nextOrderID

orderVars == <<orders, liveOrders, nextOrderID>>

OrderId == 1..Cardinality(Req)

OrderTypeOK ==
  /\ orders \in [OrderId -> Seq([user : Customer, amount : {0, 1},
                                 status : Status \cup {BadStatus}, description : Req])]
  /\ nextOrderID \in Nat \ {0}
  /\ liveOrders \subseteq 1..(nextOrderID - 1)

OrderInit ==
  /\ orders = [i \in OrderId |-> <<>>]
  /\ liveOrders = {}
  /\ nextOrderID = 1

Order(i) == orders[i][Len(orders[i])]

\* History, kept with a call: what the call must at least see. -1 stands for
\* an order that was deleted, 0 for one that did not exist yet.
OrderSeen(i) ==
  IF i \in liveOrders THEN Len(orders[i]) ELSE IF i \in 1..(nextOrderID - 1) THEN -1 ELSE 0

(***************************************************************************)
(* The gateway's handlers                                                  *)
(***************************************************************************)

\* The gateway demands a positive amount, but leaves the items to the service.
HandleCreateOrder(r) ==
  \E u \in Customer, items \in BOOLEAN :
    Handle(r, [op |-> "CreateOrder", user |-> u, items |-> items])

HandleGetOrder(r) ==
  \E i \in Id : Handle(r, [op |-> "GetOrder", id |-> i, seen |-> OrderSeen(i)])

\* Amount 0 is one that was left out. ID 0 is refused with any fields.
HandleUpdateOrder(r) ==
  \E i \in Id, a \in {0, 1}, s \in Status \cup {BadStatus, Blank} :
    /\ i = 0 => a = 0 /\ s = Blank
    /\ Handle(r, [op |-> "UpdateOrder", id |-> i, seen |-> OrderSeen(i),
                  amount |-> a, status |-> s])

HandleDeleteOrder(r) == \E i \in Id : Handle(r, [op |-> "DeleteOrder", id |-> i])

\* A blank user is none, or one that does not parse; both list all orders.
HandleListOrders(r) ==
  \E u \in Customer \cup {Blank}, args \in PageArgs :
    Handle(r, [op |-> "ListOrders", user |-> u, page |-> args])

HandleGetOrdersByUser(r) ==
  \E u \in Customer \cup {Blank}, args \in PageArgs :
    Handle(r, [op |-> "GetOrdersByUser", user |-> u, page |-> args])

(***************************************************************************)
(* The service and its repository                                          *)
(***************************************************************************)

\* The order that memoryOrderRepository.Create stores.
NewOrder(r) ==
  [user |-> call[r].user, amount |-> 1, status |-> Pending, description |-> r]

\* orderService.CreateOrder; what it returns is a copy.
CreateOrder(r) ==
  /\ Serving(r, "CreateOrder", "sent")
  /\ \/ /\ ~call[r].items /\ Fails(r)
        /\ UNCHANGED orderVars
     \/ /\ call[r].items /\ Replies(r, NewOrder(r))
        /\ orders' = [orders EXCEPT ![nextOrderID] = <<NewOrder(r)>>]
        /\ liveOrders' = liveOrders \cup {nextOrderID}
        /\ nextOrderID' = nextOrderID + 1

\* orderService.GetOrder: GetByID copies the order under the lock.
GetOrder(r) ==
  /\ Serving(r, "GetOrder", "sent")
  /\ \/ call[r].id = 0 /\ Fails(r)
     \/ call[r].id \notin liveOrders \cup {0} /\ Replies(r, None)
     \/ call[r].id \in liveOrders /\ Replies(r, Order(call[r].id))
  /\ UNCHANGED orderVars

\* validateUpdateOrderRequest; ID 0 stands for a negative amount, too.
ValidUpdate(r) == call[r].id # 0 /\ call[r].status # BadStatus

\* orderService.UpdateOrder up to the repository: every status is allowed after
\* every other.
UpdateOrder(r) ==
  /\ Serving(r, "UpdateOrder", "sent")
  /\ \/ ~ValidUpdate(r) /\ Fails(r)
     \/ ValidUpdate(r) /\ call[r].id \notin liveOrders /\ Replies(r, None)
     \/ ValidUpdate(r) /\ call[r].id \in liveOrders /\ GoesOn(r)
  /\ UNCHANGED orderVars

\* Mutant: the amount is written whenever it is valid, a missing one as 0.
ChangedOrderZero(r) ==
  LET old == Order(call[r].id) IN
  [old EXCEPT !.amount = call[r].amount,
              !.status = IF call[r].status = Blank THEN @ ELSE call[r].status,
              !.description = r]

\* The order after the update r asks for: fields left out stay as they are.
ChangedOrder(r) ==
  LET old == Order(call[r].id) IN
  [old EXCEPT !.amount = IF call[r].amount = 0 THEN @ ELSE call[r].amount,
              !.status = IF call[r].status = Blank THEN @ ELSE call[r].status,
              !.description = r]

\* memoryOrderRepository.Update. An order deleted since the check is an internal
\* error.
StoreOrder(r) ==
  LET i == call[r].id
  IN /\ Serving(r, "UpdateOrder", "writing")
     /\ \/ i \notin liveOrders /\ Fails(r) /\ UNCHANGED orders
        \/ /\ i \in liveOrders /\ Replies(r, ChangedOrder(r))
           /\ orders' = [orders EXCEPT ![i] = Append(@, ChangedOrder(r))]
     /\ UNCHANGED <<liveOrders, nextOrderID>>

\* orderService.DeleteOrder and memoryOrderRepository.Delete. Whether there was such
\* an order is a field of the response, left out.
DeleteOrder(r) ==
  /\ Serving(r, "DeleteOrder", "sent")
  /\ \/ call[r].id = 0 /\ Fails(r)
     \/ call[r].id # 0 /\ Replies(r, None)
  /\ liveOrders' = liveOrders \ {call[r].id}
  /\ UNCHANGED <<orders, nextOrderID>>

OrdersOf(user) == {i \in liveOrders : user = Blank \/ Order(i).user = user}

\* orderService.ListOrders and memoryOrderRepository.List; the status filter is
\* left out.
ListOrders(r) ==
  /\ Serving(r, "ListOrders", "sent")
  /\ \/ SizeOf(call[r].page) > MaxSize /\ Fails(r) /\ UNCHANGED up
     \/ SizeOf(call[r].page) <= MaxSize /\ ReplyWithPage(r, OrdersOf(call[r].user))
  /\ UNCHANGED orderVars

\* orderService.GetOrdersByUser: the size of a page is not limited here.
GetOrdersByUser(r) ==
  /\ Serving(r, "GetOrdersByUser", "sent")
  /\ \/ call[r].user = Blank /\ Fails(r) /\ UNCHANGED up
     \/ call[r].user # Blank /\ ReplyWithPage(r, OrdersOf(call[r].user))
  /\ UNCHANGED orderVars

HandleOrders(r) ==
  /\ \/ HandleCreateOrder(r) \/ HandleGetOrder(r) \/ HandleUpdateOrder(r)
     \/ HandleDeleteOrder(r) \/ HandleListOrders(r) \/ HandleGetOrdersByUser(r)
  /\ UNCHANGED orderVars

ServeOrders(r) ==
  \/ CreateOrder(r) \/ GetOrder(r) \/ UpdateOrder(r) \/ StoreOrder(r)
  \/ DeleteOrder(r) \/ ListOrders(r) \/ GetOrdersByUser(r)

(***************************************************************************)
(* Properties                                                              *)
(***************************************************************************)

\* What a get or an update of an order answers is what the order was at one moment
\* between the request and the answer; an order that was there all the time is
\* found.
OrderAnswersFresh ==
  \A r \in Req :
    /\ rpc[r] = "replied" /\ call[r].op \in {"GetOrder", "UpdateOrder"}
    /\ answer[r] # None /\ answer[r].status = 200
    => LET i == call[r].id IN
       \/ answer[r].data = None /\ (call[r].seen = 0 \/ i \notin liveOrders)
       \/ /\ call[r].seen >= 0
          /\ \E k \in 1..Len(orders[i]) :
               k >= call[r].seen /\ orders[i][k] = answer[r].data

\* Every order has a positive amount and a valid status. The gateway checks the
\* amount of a new order only, the service admits an amount of 0 and an empty
\* status in an update, and the repository must not store them.
OrdersStayValid ==
  \A i \in liveOrders : Order(i).amount > 0 /\ Order(i).status \in Status
===============================================================================
