------------------------------- MODULE Requests -------------------------------
(***************************************************************************)
(* The gateway with the two services behind it. The services share nothing *)
(* but the gateway, whose handlers keep no state between them, so that in  *)
(* one behaviour all requests go to the same one.                          *)
(***************************************************************************)
EXTENDS UserRequests, OrderRequests

VARIABLE service  \* the service the requests go to

vars == <<gatewayVars, userVars, orderVars, service>>

TypeOK ==
  /\ GatewayTypeOK /\ UserTypeOK /\ OrderTypeOK
  /\ service \in {"user", "order"}

Init ==
  /\ GatewayInit /\ UserInit /\ OrderInit
  /\ service = "user" \/ (service = "order" /\ repo = "memory")

UserStep(r) ==
  /\ service = "user"
  /\ HandleUsers(r) \/ ServeUsers(r)
  /\ UNCHANGED <<orderVars, service>>

OrderStep(r) ==
  /\ service = "order"
  /\ HandleOrders(r) \/ ServeOrders(r)
  /\ UNCHANGED <<userVars, service>>

Finish(r) ==
  /\ Answer(r) \/ Deadline(r)
  /\ UNCHANGED <<userVars, orderVars, service>>

Next == \E r \in Req : UserStep(r) \/ OrderStep(r) \/ Finish(r)

Spec == Init /\ [][Next]_vars

(***************************************************************************)
(* Properties                                                              *)
(***************************************************************************)

\* A deleted user or order does not come back: not by an update that had found it
\* before, nor as another object under the same ID.
DeletedStaysDeleted ==
  [][/\ \A i \in UserId : i < nextUserID /\ i \notin liveUsers => i \notin liveUsers'
     /\ \A i \in OrderId : i < nextOrderID /\ i \notin liveOrders => i \notin liveOrders'
    ]_vars

\* What a get or an update answers is a state the object had between the request
\* and the answer, though others update and delete it meanwhile.
AnswersFresh == UserAnswersFresh /\ OrderAnswersFresh

\* No sequence of updates leaves a stored object incomplete or invalid.
ObjectsStayValid == UsersStayComplete /\ OrdersStayValid
===============================================================================
