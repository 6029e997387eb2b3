---------------------------- MODULE Requests_proofs ----------------------------
(***************************************************************************)
(* What the services promise for every set of requests, names and          *)
(* customers, and every bound on IDs and pages: no object comes back, what *)
(* is answered was so, names are unique until an update renames, objects   *)
(* stay valid, and only a page that overflows crashes a service.           *)
(***************************************************************************)
EXTENDS Requests, FiniteSetTheorems, TLAPS

(***************************************************************************)
(* Calls                                                                   *)
(***************************************************************************)

UserReads == {"GetUser", "UpdateUser"}
OrderReads == {"GetOrder", "UpdateOrder"}

\* What the services rely on in a call, by its operation.
CallOK(c) ==
  /\ c.op = "CreateUser" => c.username \in Name
  /\ c.op = "UpdateUser" => c.username \in Name \cup {Blank} /\ c.email \in Req \cup {Blank}
  /\ c.op = "CreateOrder" => c.user \in Customer
  /\ c.op = "UpdateOrder" => c.amount \in {0, 1} /\ c.status \in Status \cup {BadStatus, Blank}
  /\ c.op \in UserReads \cup OrderReads => c.id \in Id
  /\ c.op \in Lists => c.page \in PageArgs

\* What a call must at least see was looked up when it was made.
SeenNow(c) ==
  /\ c.op \in UserReads => c.seen = UserSeen(c.id)
  /\ c.op \in OrderReads => c.seen = OrderSeen(c.id)

\* A call is made once. A gateway that gave up on one that is still served has not
\* answered with what it says.
GatewayInv ==
  /\ pc \in [Req -> {"idle", "calling", "answered"}]
  /\ rpc \in [Req -> {"none", "sent", "writing", "replied"}]
  /\ DOMAIN call = Req /\ DOMAIN reply = Req /\ DOMAIN answer = Req
  /\ \A r \in Req :
       /\ pc[r] = "idle" => rpc[r] = "none"
       /\ rpc[r] # "none" => CallOK(call[r])
       /\ pc[r] # "answered" => answer[r] = None
       /\ pc[r] = "answered" /\ rpc[r] \in {"sent", "writing"} => answer[r].status # 200

\* The steps of the system, by what they do to a call.
HandlerStep(q) ==
  /\ \E c : CallOK(c) /\ SeenNow(c) /\ Handle(q, c)
  /\ UNCHANGED <<userVars, orderVars>>
GatewayStep(q) == (Answer(q) \/ Deadline(q)) /\ UNCHANGED <<userVars, orderVars>>
UserServiceStep(q) == ServeUsers(q) /\ UNCHANGED orderVars
OrderServiceStep(q) == ServeOrders(q) /\ UNCHANGED userVars

\* What a service's step does to its call, whatever the operation.
Served(q) ==
  /\ up /\ rpc[q] \in {"sent", "writing"}
  /\ \/ \E ok \in BOOLEAN : \E data : Reply(q, ok, data)
     \/ GoesOn(q)
     \/ up' = FALSE /\ UNCHANGED <<pc, call, rpc, reply, answer>>

\* It changes no other call, and none in what it asks for.
LEMMA ServedCall ==
  ASSUME GatewayInv, NEW q \in Req, Served(q)
  PROVE  /\ call' = call /\ rpc[q] \in {"sent", "writing"}
         /\ \A r \in Req : r # q => rpc'[r] = rpc[r]
         /\ GoesOn(q) \/ rpc'[q] = "replied" \/ rpc' = rpc
<1>1. rpc \in [Req -> {"none", "sent", "writing", "replied"}]
  BY DEF GatewayInv
<1>2. CASE \E ok \in BOOLEAN : \E data : Reply(q, ok, data)
  BY <1>1, <1>2 DEF Served, Reply
<1>3. CASE GoesOn(q)
  BY <1>1, <1>3 DEF Served, GoesOn
<1>4. CASE up' = FALSE /\ UNCHANGED <<pc, call, rpc, reply, answer>>
  BY <1>4 DEF Served
<1> QED
  BY <1>2, <1>3, <1>4 DEF Served

\* The handlers of the gateway make such calls.
LEMMA HandlersAreTyped ==
  ASSUME NEW q \in Req, HandleUsers(q) \/ HandleOrders(q)
  PROVE  \E c : CallOK(c) /\ SeenNow(c) /\ Handle(q, c)
<1> USE DEF CallOK, SeenNow, UserReads, OrderReads, Lists
<1>1. CASE HandleCreateUser(q)
  BY <1>1 DEF HandleCreateUser
<1>2. CASE HandleGetUser(q)
  BY <1>2 DEF HandleGetUser
<1>3. CASE HandleUpdateUser(q)
  BY <1>3 DEF HandleUpdateUser
<1>4. CASE HandleDeleteUser(q)
  BY <1>4 DEF HandleDeleteUser
<1>5. CASE HandleListUsers(q)
  BY <1>5 DEF HandleListUsers
<1>6. CASE HandleCreateOrder(q)
  BY <1>6 DEF HandleCreateOrder
<1>7. CASE HandleGetOrder(q)
  BY <1>7 DEF HandleGetOrder
<1>8. CASE HandleUpdateOrder(q)
  BY <1>8 DEF HandleUpdateOrder
<1>9. CASE HandleDeleteOrder(q)
  BY <1>9 DEF HandleDeleteOrder
<1>10. CASE HandleListOrders(q)
  BY <1>10 DEF HandleListOrders
<1>11. CASE HandleGetOrdersByUser(q)
  BY <1>11 DEF HandleGetOrdersByUser
<1> QED
  BY <1>1, <1>2, <1>3, <1>4, <1>5, <1>6, <1>7, <1>8, <1>9, <1>10, <1>11
     DEF HandleUsers, HandleOrders

LEMMA StepsOfCalls ==
  ASSUME [Next]_vars
  PROVE  \/ \E q \in Req :
              \/ HandlerStep(q) \/ GatewayStep(q)
              \/ UserServiceStep(q) \/ OrderServiceStep(q)
         \/ UNCHANGED vars
<1>1. ASSUME NEW q \in Req, UserStep(q) PROVE HandlerStep(q) \/ UserServiceStep(q)
  BY <1>1, HandlersAreTyped DEF UserStep, HandlerStep, UserServiceStep, HandleUsers
<1>2. ASSUME NEW q \in Req, OrderStep(q) PROVE HandlerStep(q) \/ OrderServiceStep(q)
  BY <1>2, HandlersAreTyped DEF OrderStep, HandlerStep, OrderServiceStep, HandleOrders
<1>3. ASSUME NEW q \in Req, Finish(q) PROVE GatewayStep(q)
  BY <1>3 DEF Finish, GatewayStep
<1> QED
  BY <1>1, <1>2, <1>3 DEF Next

LEMMA ServicesServe ==
  ASSUME NEW q \in Req, GatewayInv, ServeUsers(q) \/ ServeOrders(q)
  PROVE  Served(q)
<1> USE DEF Served, Serving, Fails, Replies
<1>0. ASSUME NEW matching, up, rpc[q] = "sent", ReplyWithPage(q, matching) PROVE Served(q)
  BY <1>0 DEF ReplyWithPage
<1>1. CASE CreateUser(q) \/ Create(q) \/ GetUser(q)
  BY <1>1 DEF CreateUser, Create, GetUser
<1>2. CASE UpdateUser(q) \/ Update(q) \/ DeleteUser(q)
  BY <1>2 DEF UpdateUser, Update, DeleteUser
<1>3. CASE CreateRow(q) \/ UpdateRow(q)
  BY <1>3 DEF CreateRow, UpdateRow
<1>4. CASE ListCount(q) \/ ListSelect(q) \/ NotImplemented(q) \/ QueryFails(q)
  BY <1>4 DEF ListCount, ListSelect, NotImplemented, QueryFails
<1>5. CASE ListUsers(q) \/ ListOrders(q) \/ GetOrdersByUser(q)
  BY <1>0, <1>5 DEF ListUsers, ListOrders, GetOrdersByUser
<1>6. CASE CreateOrder(q) \/ GetOrder(q) \/ DeleteOrder(q)
  BY <1>6 DEF CreateOrder, GetOrder, DeleteOrder
<1>7. CASE UpdateOrder(q) \/ StoreOrder(q)
  BY <1>7 DEF UpdateOrder, StoreOrder
<1> QED
  BY <1>1, <1>2, <1>3, <1>4, <1>5, <1>6, <1>7 DEF ServeUsers, ServeOrders

LEMMA GatewayInvStep == GatewayInv /\ [Next]_vars => GatewayInv'
<1> SUFFICES ASSUME GatewayInv, [Next]_vars PROVE GatewayInv'
  OBVIOUS
<1>1. ASSUME NEW q \in Req, NEW c, CallOK(c), Handle(q, c) PROVE GatewayInv'
  BY <1>1 DEF GatewayInv, Handle, BadRequest, Unavailable, Call, Respond
<1>2. ASSUME NEW q \in Req, NEW status, NEW data, Respond(q, status, data),
             status # 200 \/ rpc[q] = "replied", pc[q] = "calling",
             reply' = [reply EXCEPT ![q] = None], UNCHANGED <<call, rpc, up>>
      PROVE  GatewayInv'
  BY <1>2 DEF GatewayInv, Respond
<1>5. ASSUME NEW q \in Req, Answer(q) \/ Deadline(q) PROVE GatewayInv'
  <2>1. ErrorStatus(call[q].op) # 200
    BY DEF ErrorStatus
  <2>2. CASE Deadline(q)
    BY <1>2, <2>1, <2>2 DEF Deadline
  <2>3. CASE Answer(q)
    <3>1. PICK status, data : Respond(q, status, data)
      BY <2>3 DEF Answer
    <3> QED
      BY <1>2, <2>3, <3>1 DEF Answer
  <2> QED
    BY <1>5, <2>2, <2>3
<1>3. ASSUME NEW q \in Req, Served(q) PROVE GatewayInv'
  <2>1. ASSUME NEW ok, NEW data, Reply(q, ok, data) PROVE GatewayInv'
    <3>1. DOMAIN reply' = Req
      BY <2>1 DEF GatewayInv, Reply
    <3> QED
      BY <1>3, <2>1, <3>1 DEF GatewayInv, Reply, Served
  <2>2. CASE GoesOn(q)
    BY <1>3, <2>2 DEF GatewayInv, GoesOn, Served
  <2>3. CASE UNCHANGED <<pc, call, rpc, reply, answer>>
    BY <2>3 DEF GatewayInv
  <2> QED
    BY <1>3, <2>1, <2>2, <2>3 DEF Served
<1>4. CASE UNCHANGED vars
  BY <1>4 DEF vars, gatewayVars, GatewayInv
<1> QED
  BY <1>1, <1>3, <1>4, <1>5, StepsOfCalls, ServicesServe
     DEF HandlerStep, GatewayStep, UserServiceStep, OrderServiceStep

(***************************************************************************)
(* Users                                                                   *)
(***************************************************************************)

UserRow == [username : Name \cup {Blank}, email : Req \cup {Blank}]

\* The calls that have created a user, or failed to.
UserCreations == {r \in Req : rpc[r] = "replied" /\ call[r].op = "CreateUser"}

\* There are no more users than such calls, so that the IDs suffice.
UserData ==
  /\ repo \in {"memory", "mysql", "postgres"}
  /\ users \in [UserId -> Seq(UserRow)]
  /\ nextUserID \in Nat \ {0} /\ liveUsers \subseteq 1..(nextUserID - 1)
  /\ nextUserID - 1 <= Cardinality(UserCreations)
  /\ \A i \in 1..(nextUserID - 1) : i \in UserId /\ Len(users[i]) >= 1

\* What a step does to the users, and what it has found out before.
UserAdded(q) ==
  /\ rpc[q] = "writing" /\ rpc' = [rpc EXCEPT ![q] = "replied"] /\ call[q].op = "CreateUser"
  /\ call' = call
  /\ ~Taken(call[q].username)
  /\ AddUser(q)
UserSet(q) ==
  /\ \E i \in liveUsers, new \in UserRow :
       /\ SetUser(i, new)
       /\ \/ /\ repo = "memory" /\ new.username \in Name \cup {User(i).username}
             /\ new.email \in Req \cup {User(i).email}
          \/ repo = "mysql" /\ ~Refused(i, new)
  /\ UNCHANGED <<liveUsers, nextUserID>>
UserDropped == liveUsers' \subseteq liveUsers /\ UNCHANGED <<users, nextUserID>>
UserChange ==
  /\ (\E q \in Req : UserAdded(q) \/ UserSet(q)) \/ UserDropped
  /\ UNCHANGED repo

LEMMA CurrentUser ==
  ASSUME UserData, NEW i \in liveUsers
  PROVE  i \in UserId /\ users[i] \in Seq(UserRow) /\ Len(users[i]) \in Nat \ {0}
         /\ User(i) \in UserRow
BY DEF UserData, User

LEMMA UserChanges ==
  ASSUME UserData, GatewayInv, NEW q \in Req, ServeUsers(q)
  PROVE  UserChange
<1> USE DEF UserChange, UserDropped, userVars, Serving
<1>1. CASE CreateUser(q) \/ GetUser(q) \/ UpdateUser(q) \/ DeleteUser(q) \/ ListUsers(q)
  BY <1>1 DEF CreateUser, GetUser, UpdateUser, DeleteUser, ListUsers
<1>2. CASE ListCount(q) \/ ListSelect(q) \/ NotImplemented(q) \/ QueryFails(q)
  BY <1>2 DEF ListCount, ListSelect, NotImplemented, QueryFails
<1>3. CASE Create(q)
  BY <1>3 DEF Create, UserAdded, Fails, Replies, Reply
<1>4. CASE CreateRow(q)
  <2>1. CASE Refused(0, [username |-> call[q].username, email |-> q])
    BY <1>4, <2>1 DEF CreateRow
  <2>2. CASE ~Refused(0, [username |-> call[q].username, email |-> q])
    <3>1. ~Taken(call[q].username)
      BY <2>2 DEF Refused, Taken, UserData
    <3> QED
      BY <1>4, <2>2, <3>1 DEF CreateRow, UserAdded, Fails, Replies, Reply
  <2> QED
    BY <2>1, <2>2
<1>5. CASE Update(q)
  <2>1. CASE call[q].id \notin liveUsers
    BY <1>5, <2>1 DEF Update
  <2>2. CASE call[q].id \in liveUsers
    <3>1. CallOK(call[q])
      BY <1>5 DEF Update, GatewayInv
    <3>2. User(call[q].id) \in UserRow
      BY <2>2, CurrentUser
    <3>3. /\ ChangedUser(q) \in UserRow
          /\ ChangedUser(q).username \in Name \cup {User(call[q].id).username}
          /\ ChangedUser(q).email \in Req \cup {User(call[q].id).email}
      BY <1>5, <3>1, <3>2 DEF ChangedUser, CallOK, UserRow, Update
    <3> QED
      BY <1>5, <2>2, <3>3 DEF Update, UserSet
  <2> QED
    BY <2>1, <2>2
<1>6. CASE UpdateRow(q)
  <2> DEFINE row == [username |-> call[q].username, email |-> call[q].email]
  <2>1. CASE call[q].id \notin liveUsers \/ Refused(call[q].id, row)
    BY <1>6, <2>1 DEF UpdateRow
  <2>2. CASE call[q].id \in liveUsers /\ ~Refused(call[q].id, row)
    <3>1. CallOK(call[q])
      BY <1>6 DEF UpdateRow, GatewayInv
    <3>2. row \in UserRow
      BY <1>6, <3>1 DEF CallOK, UserRow, UpdateRow
    <3> QED
      BY <1>6, <2>2, <3>2 DEF UpdateRow, UserSet
  <2> QED
    BY <2>1, <2>2
<1> QED
  BY <1>1, <1>2, <1>3, <1>4, <1>5, <1>6 DEF ServeUsers

\* Whatever step is taken, the users change that way, and a creation is never undone.
LEMMA UserSteps ==
  ASSUME UserData, GatewayInv, [Next]_vars
  PROVE  UserChange /\ UserCreations \subseteq UserCreations'
<1>1. CASE UNCHANGED <<userVars, rpc, call>>
  BY <1>1 DEF userVars, UserChange, UserDropped, UserCreations
<1>2. ASSUME NEW q \in Req, HandlerStep(q) PROVE UserChange /\ UserCreations \subseteq UserCreations'
  <2>1. UserChange
    BY <1>2 DEF HandlerStep, userVars, UserChange, UserDropped
  <2> QED
    BY <1>2, <2>1 DEF HandlerStep, Handle, BadRequest, Unavailable, Call, Respond, GatewayInv,
       UserCreations
<1>3. ASSUME NEW q \in Req, GatewayStep(q) PROVE UNCHANGED <<userVars, rpc, call>>
  BY <1>3 DEF GatewayStep, Answer, Deadline
<1>4. ASSUME NEW q \in Req, UserServiceStep(q) \/ OrderServiceStep(q)
      PROVE  UserChange /\ UserCreations \subseteq UserCreations'
  <2>1. Served(q)
    BY <1>4, ServicesServe DEF UserServiceStep, OrderServiceStep
  <2>2. UserCreations \subseteq UserCreations'
    <3>1. /\ rpc[q] # "replied" /\ call' = call
          /\ \A r \in Req : r # q => rpc'[r] = rpc[r]
      BY <2>1, ServedCall
    <3> QED
      BY <3>1 DEF UserCreations
  <2>3. CASE UserServiceStep(q)
    BY <2>2, <2>3, UserChanges DEF UserServiceStep
  <2>4. CASE OrderServiceStep(q)
    BY <2>2, <2>4 DEF OrderServiceStep, userVars, UserChange, UserDropped
  <2> QED
    BY <1>4, <2>3, <2>4
<1>5. CASE UNCHANGED vars
  BY <1>1, <1>5 DEF vars, gatewayVars
<1> QED
  BY <1>1, <1>2, <1>3, <1>4, <1>5, StepsOfCalls

\* There is an ID left for the user of a creation that is being served.
LEMMA UserIdsSuffice ==
  ASSUME UserData, GatewayInv, UserCreations \subseteq UserCreations'
  PROVE  /\ nextUserID - 1 <= Cardinality(UserCreations')
         /\ \A q \in Req : UserAdded(q) =>
              nextUserID \in UserId /\ nextUserID <= Cardinality(UserCreations')
<1>1. IsFiniteSet(Req) /\ Cardinality(Req) \in Nat
  BY RequestsAreFew, FS_CardinalityType
<1>2. UserCreations \in SUBSET Req /\ UserCreations' \in SUBSET Req
  BY DEF UserCreations
<1>3. /\ IsFiniteSet(UserCreations) /\ IsFiniteSet(UserCreations')
      /\ Cardinality(UserCreations) \in Nat /\ Cardinality(UserCreations') \in Nat
      /\ Cardinality(UserCreations') <= Cardinality(Req)
  BY <1>1, <1>2, FS_Subset, FS_CardinalityType
<1>4. Cardinality(UserCreations) <= Cardinality(UserCreations')
  BY <1>3, FS_Subset
<1>5. ASSUME NEW q \in Req, UserAdded(q)
      PROVE  Cardinality(UserCreations) + 1 <= Cardinality(UserCreations')
  <2>1. q \notin UserCreations /\ UserCreations \cup {q} \in SUBSET UserCreations'
    BY <1>5 DEF UserAdded, UserCreations, GatewayInv
  <2>2. Cardinality(UserCreations \cup {q}) = Cardinality(UserCreations) + 1
    BY <1>3, <2>1, FS_AddElement
  <2> QED
    BY <1>3, <2>1, <2>2, FS_Subset
<1> QED
  BY <1>1, <1>3, <1>4, <1>5 DEF UserData, UserId

LEMMA UserDataStep == UserData /\ GatewayInv /\ [Next]_vars => UserData'
<1> SUFFICES ASSUME UserData, GatewayInv, [Next]_vars PROVE UserData'
  OBVIOUS
<1>1. UserChange /\ UserCreations \subseteq UserCreations'
  BY UserSteps
<1>2. Cardinality(UserCreations') \in Nat
  BY RequestsAreFew, FS_Subset, FS_CardinalityType DEF UserCreations
<1>3. ASSUME NEW q \in Req, UserAdded(q) PROVE UserData'
  <2>1. nextUserID \in UserId /\ nextUserID <= Cardinality(UserCreations')
    BY <1>1, <1>3, UserIdsSuffice
  <2>2. [username |-> call[q].username, email |-> q] \in UserRow
    BY <1>3 DEF UserAdded, GatewayInv, CallOK, UserRow
  <2>3. /\ users' \in [UserId -> Seq(UserRow)] /\ Len(users'[nextUserID]) = 1
        /\ \A i \in UserId : i # nextUserID => users'[i] = users[i]
    BY <1>3, <2>1, <2>2 DEF UserAdded, AddUser, UserData
  <2>4. repo' = repo
    BY <1>1 DEF UserChange
  <2> QED
    BY <1>2, <1>3, <2>1, <2>3, <2>4 DEF UserAdded, AddUser, UserData
<1>4. ASSUME NEW q \in Req, UserSet(q) PROVE UserData'
  <2>1. PICK i \in liveUsers, new \in UserRow : SetUser(i, new)
    BY <1>4 DEF UserSet
  <2>2. i \in UserId /\ Append(users[i], new) \in Seq(UserRow)
        /\ Len(Append(users[i], new)) >= 1
    BY <2>1, CurrentUser
  <2>3. /\ users' \in [UserId -> Seq(UserRow)] /\ Len(users'[i]) >= 1
        /\ \A j \in UserId : j # i => users'[j] = users[j]
    BY <2>1, <2>2 DEF SetUser, UserData
  <2>4. nextUserID - 1 <= Cardinality(UserCreations')
    BY <1>1, UserIdsSuffice
  <2> QED
    BY <1>1, <1>4, <2>3, <2>4 DEF UserSet, UserData, UserChange
<1>5. CASE UserDropped
  <2>1. nextUserID - 1 <= Cardinality(UserCreations')
    BY <1>1, UserIdsSuffice
  <2> QED
    BY <1>1, <1>5, <2>1 DEF UserDropped, UserData, UserChange
<1> QED
  BY <1>1, <1>3, <1>4, <1>5 DEF UserChange

\* What a user was, it was: IDs are given in order, contents only added, and a user that
\* is gone stays away.
LEMMA UsersGoForward ==
  ASSUME UserData, UserChange
  PROVE  /\ nextUserID' \in {nextUserID, nextUserID + 1}
         /\ \A i \in 1..(nextUserID - 1) :
              /\ Len(users'[i]) \in Nat /\ Len(users[i]) <= Len(users'[i])
              /\ \A k \in 1..Len(users[i]) : users'[i][k] = users[i][k]
              /\ i \notin liveUsers => i \notin liveUsers'
<1>1. ASSUME NEW q \in Req, UserAdded(q)
      PROVE  /\ nextUserID' = nextUserID + 1 /\ liveUsers' = liveUsers \cup {nextUserID}
             /\ \A i \in 1..(nextUserID - 1) : users'[i] = users[i]
  BY <1>1 DEF UserAdded, AddUser, UserData
<1>2. ASSUME NEW q \in Req, UserSet(q)
      PROVE  /\ UNCHANGED <<liveUsers, nextUserID>>
             /\ \E i \in liveUsers, new \in UserRow :
                  /\ users'[i] = Append(users[i], new)
                  /\ \A j \in 1..(nextUserID - 1) : j # i => users'[j] = users[j]
  BY <1>2, CurrentUser DEF UserSet, SetUser, UserData
<1>3. \A i \in 1..(nextUserID - 1) : users[i] \in Seq(UserRow)
  BY DEF UserData
<1>4. \A i \in liveUsers, new \in UserRow :
        /\ Len(Append(users[i], new)) = Len(users[i]) + 1
        /\ \A k \in 1..Len(users[i]) : Append(users[i], new)[k] = users[i][k]
  BY CurrentUser
<1>5. \A i \in 1..(nextUserID - 1) : Len(users[i]) \in Nat
  BY <1>3
<1>6. nextUserID \in Nat
  BY DEF UserData
<1>7. CASE \E q \in Req : UserAdded(q)
  BY <1>1, <1>5, <1>6, <1>7
<1>8. CASE \E q \in Req : UserSet(q)
  BY SMTT(30), <1>2, <1>4, <1>5, <1>8
<1>9. CASE UserDropped
  BY <1>5, <1>9 DEF UserDropped
<1> QED
  BY <1>7, <1>8, <1>9 DEF UserChange

LEMMA AddedUser ==
  ASSUME UserData, UserData', NEW q \in Req, UserAdded(q)
  PROVE  /\ liveUsers' = liveUsers \cup {nextUserID} /\ nextUserID \notin liveUsers
         /\ \A n : n = nextUserID => User(n)' = [username |-> call[q].username, email |-> q]
         /\ \A u \in liveUsers : User(u)' = User(u)
<1>1. nextUserID \in UserId
  BY DEF UserData, UserAdded, AddUser
<1>2. users'[nextUserID] = <<[username |-> call[q].username, email |-> q]>>
  BY <1>1 DEF UserAdded, AddUser, UserData
<1>3. \A n : n = nextUserID => User(n)' = [username |-> call[q].username, email |-> q]
  <2> SUFFICES ASSUME NEW n, n = nextUserID
               PROVE  User(n)' = [username |-> call[q].username, email |-> q]
    OBVIOUS
  <2>1. \A x : Len(<<x>>) = 1 /\ <<x>>[1] = x
    OBVIOUS
  <2>2. Len(users'[n]) = 1 /\ users'[n][1] = [username |-> call[q].username, email |-> q]
    BY <1>2, <2>1, Zenon
  <2>3. User(n)' = users'[n][Len(users'[n])]
    BY DEF User
  <2> QED
    BY <2>2, <2>3, Zenon
<1>4. nextUserID \notin liveUsers
  BY DEF UserData
<1>5. \A u \in liveUsers : User(u)' = User(u)
  BY <1>4, CurrentUser DEF UserAdded, AddUser, UserData, User
<1> QED
  BY <1>3, <1>4, <1>5 DEF UserAdded, AddUser

LEMMA SetUserRow ==
  ASSUME UserData, NEW n \in liveUsers, NEW new \in UserRow, SetUser(n, new)
  PROVE  /\ users'[n] = Append(users[n], new) /\ User(n)' = new
         /\ Len(users[n]) \in Nat \ {0} /\ Len(users'[n]) = Len(users[n]) + 1
         /\ users'[n][Len(users[n]) + 1] = new
         /\ \A k \in 1..Len(users[n]) : users'[n][k] = users[n][k]
         /\ \A u \in liveUsers \ {n} : User(u)' = User(u) /\ users'[u] = users[u]
<1>1. /\ users'[n] = Append(users[n], new)
      /\ \A u \in liveUsers \ {n} : users'[u] = users[u]
  BY CurrentUser DEF SetUser, UserData
<1>2. users[n] \in Seq(UserRow) /\ Len(users[n]) \in Nat \ {0}
  BY CurrentUser
<1> QED
  BY <1>1, <1>2 DEF User

\* Two users with one name need a rename: the creations and MySQL's table ask for the name
\* in the step that writes it.
LEMMA UniqueStep ==
  UserData /\ UniqueUnlessRenamed /\ UserChange /\ UserData' => UniqueUnlessRenamed'
<1> SUFFICES ASSUME UserData, UniqueUnlessRenamed, UserChange, UserData',
                    NEW i \in liveUsers', NEW j \in liveUsers', i # j,
                    User(i)'.username = User(j)'.username
             PROVE  repo' = "memory" /\ \E u \in {i, j} : \E k \in 1..Len(users'[u]) :
                      users'[u][k].username # users'[u][1].username
  BY DEF UniqueUnlessRenamed, User
<1>0. repo' = repo
  BY DEF UserChange
\* A rename stays in the user's history.
<1>1. ASSUME i \in liveUsers, j \in liveUsers, User(i).username = User(j).username
      PROVE  repo = "memory" /\ \E u \in {i, j} : \E k \in 1..Len(users'[u]) :
               users'[u][k].username # users'[u][1].username
  <2>1. PICK u \in {i, j} : repo = "memory" /\ \E k \in 1..Len(users[u]) :
               users[u][k].username # users[u][1].username
    BY <1>1 DEF UniqueUnlessRenamed
  <2>2. u \in 1..(nextUserID - 1) /\ Len(users[u]) \in Nat \ {0}
    BY <1>1, <2>1, CurrentUser DEF UserData
  <2>3. Len(users[u]) <= Len(users'[u]) /\ Len(users'[u]) \in Nat
        /\ \A k \in 1..Len(users[u]) : users'[u][k] = users[u][k]
    BY <2>2, UsersGoForward
  <2>4. PICK k \in 1..Len(users[u]) : users[u][k].username # users[u][1].username
    BY <2>1
  <2>5. k \in 1..Len(users'[u]) /\ users'[u][k] = users[u][k] /\ users'[u][1] = users[u][1]
    BY <2>2, <2>3
  <2> QED
    BY <2>1, <2>4, <2>5
<1>2. CASE UserDropped
  BY <1>0, <1>1, <1>2 DEF UserDropped, User
<1>3. ASSUME NEW q \in Req, UserAdded(q)
      PROVE  /\ i \in liveUsers /\ j \in liveUsers
             /\ User(i)' = User(i) /\ User(j)' = User(j)
  <2>1. /\ liveUsers' = liveUsers \cup {nextUserID} /\ nextUserID \notin liveUsers
        /\ \A n : n = nextUserID => User(n)'.username = call[q].username
        /\ \A u \in liveUsers : User(u)' = User(u)
    BY <1>3, AddedUser
  <2>2. \A u \in liveUsers : User(u).username # call[q].username
    BY <1>3 DEF UserAdded, Taken
  <2> QED
    BY <2>1, <2>2
<1>4. ASSUME NEW q \in Req, UserSet(q)
      PROVE  repo = "memory" /\ \E u \in {i, j} : \E k \in 1..Len(users'[u]) :
               users'[u][k].username # users'[u][1].username
  <2>1. PICK n \in liveUsers, new \in UserRow :
          SetUser(n, new) /\ (repo = "memory" \/ (repo = "mysql" /\ ~Refused(n, new)))
    BY <1>4 DEF UserSet
  <2>2. liveUsers' = liveUsers
    BY <1>4 DEF UserSet
  <2>3. User(n)' = new /\ \A u \in liveUsers \ {n} : User(u)' = User(u)
    BY <2>1, SetUserRow
  <2>4. CASE n \notin {i, j}
    BY <1>1, <2>2, <2>3, <2>4
  <2>5. CASE n \in {i, j}
    <3>1. PICK m \in {i, j} : m # n /\ m \in liveUsers /\ User(m).username = new.username
      BY <2>2, <2>3, <2>5
    <3>2. repo = "memory"
      BY <2>1, <3>1 DEF Refused
    <3>3. /\ Len(users[n]) \in Nat \ {0} /\ Len(users'[n]) = Len(users[n]) + 1
          /\ users'[n][Len(users[n]) + 1] = new
          /\ \A k \in 1..Len(users[n]) : users'[n][k] = users[n][k]
      BY <2>1, SetUserRow
    \* The new name is the first one: then it has it back, or never lost it.
    <3>4. CASE new.username # users[n][1].username
      BY SMTT(30), <2>5, <3>2, <3>3, <3>4
    <3>5. CASE new.username = users[n][1].username /\ User(n).username # new.username
      <4>1. users'[n][Len(users[n])].username # users'[n][1].username
        BY <3>3, <3>5 DEF User
      <4> QED
        BY <2>5, <3>2, <3>3, <4>1
    <3>6. CASE User(n).username = new.username
      BY <1>1, <2>5, <3>1, <3>6
    <3> QED
      BY <3>4, <3>5, <3>6
  <2> QED
    BY <2>4, <2>5
<1> QED
  BY <1>0, <1>1, <1>2, <1>3, <1>4 DEF UserChange

LEMMA CompleteStep ==
  UserData /\ GatewayInv /\ UsersStayComplete /\ UserChange /\ UserData' =>
    UsersStayComplete'
<1> SUFFICES ASSUME UserData, GatewayInv, UsersStayComplete, UserChange, UserData'
             PROVE  UsersStayComplete'
  OBVIOUS
<1> USE UserConstants, GatewayConstants DEF UsersStayComplete
<1>0. repo' = repo
  BY DEF UserChange
<1>1. CASE UserDropped
  BY <1>0, <1>1 DEF UserDropped, User
<1>2. ASSUME NEW q \in Req, UserAdded(q) PROVE UsersStayComplete'
  <2>1. CallOK(call[q]) /\ call[q].op = "CreateUser"
    BY <1>2 DEF UserAdded, GatewayInv
  <2>2. /\ liveUsers' = liveUsers \cup {nextUserID}
        /\ \A n : n = nextUserID => User(n)' = [username |-> call[q].username, email |-> q]
        /\ \A u \in liveUsers : User(u)' = User(u)
    BY <1>2, AddedUser
  <2>3. \A n : n = nextUserID => User(n)'.username # Blank /\ User(n)'.email # Blank
    BY <2>1, <2>2 DEF CallOK
  <2> QED
    BY <1>0, <2>2, <2>3
<1>3. ASSUME NEW q \in Req, UserSet(q) PROVE UsersStayComplete'
  <2>1. PICK n \in liveUsers, new \in UserRow :
          /\ SetUser(n, new)
          /\ \/ /\ repo = "memory" /\ new.username \in Name \cup {User(n).username}
                /\ new.email \in Req \cup {User(n).email}
             \/ repo = "mysql"
    BY <1>3 DEF UserSet
  <2>2. User(n)' = new /\ \A u \in liveUsers \ {n} : User(u)' = User(u)
    BY <2>1, SetUserRow
  <2> QED
    BY <1>0, <1>3, <2>1, <2>2 DEF UserSet
<1> QED
  BY <1>1, <1>2, <1>3 DEF UserChange

\* What may be said of the user a call names, given what it must at least see.
UserWas(c, data) ==
  \/ data = None /\ (c.seen = 0 \/ c.id \notin liveUsers)
  \/ /\ c.seen >= 0 /\ c.id \in 1..(nextUserID - 1)
     /\ \E k \in 1..Len(users[c.id]) : k >= c.seen /\ users[c.id][k] = data

\* The user a call names was there when it was made, or was not, or had been deleted.
UserKnown(c) ==
  \/ c.seen = 0
  \/ c.seen = -1 /\ c.id \in 1..(nextUserID - 1) /\ c.id \notin liveUsers
  \/ c.id \in 1..(nextUserID - 1) /\ c.seen \in 1..Len(users[c.id])

UserFresh ==
  \A r \in Req : rpc[r] # "none" /\ call[r].op \in UserReads =>
    /\ UserKnown(call[r])
    /\ rpc[r] = "replied" /\ pc[r] = "calling" /\ reply[r].ok => UserWas(call[r], reply[r].data)
    /\ rpc[r] = "replied" /\ pc[r] = "answered" /\ answer[r].status = 200 =>
         UserWas(call[r], answer[r].data)

\* What was so of a user stays so: of one that was there, its contents; of one that was
\* not to be found, that it is gone.
LEMMA UserKnowledgeStays ==
  ASSUME UserData, UserChange, NEW c, UserKnown(c)
  PROVE  UserKnown(c)' /\ \A data : UserWas(c, data) => UserWas(c, data)'
<1>1. /\ nextUserID' \in {nextUserID, nextUserID + 1} /\ nextUserID \in Nat
      /\ \A i \in 1..(nextUserID - 1) :
           /\ Len(users[i]) \in Nat /\ Len(users'[i]) \in Nat /\ Len(users[i]) <= Len(users'[i])
           /\ \A k \in 1..Len(users[i]) : users'[i][k] = users[i][k]
           /\ i \notin liveUsers => i \notin liveUsers'
  BY UsersGoForward DEF UserData
<1>2. UserKnown(c)'
  BY <1>1 DEF UserKnown
<1>3. ASSUME NEW data, UserWas(c, data) PROVE UserWas(c, data)'
  <2>1. CASE data = None /\ (c.seen = 0 \/ c.id \notin liveUsers)
    BY <1>1, <2>1 DEF UserKnown, UserWas
  <2>2. CASE c.id \in 1..(nextUserID - 1) /\ c.seen >= 0
             /\ \E k \in 1..Len(users[c.id]) : k >= c.seen /\ users[c.id][k] = data
    <3>1. PICK k \in 1..Len(users[c.id]) : k >= c.seen /\ users[c.id][k] = data
      BY <2>2
    <3>2. k \in 1..Len(users'[c.id]) /\ users'[c.id][k] = data
      BY SMTT(30), <1>1, <2>2, <3>1
    <3> QED
      BY <1>1, <2>2, <3>1, <3>2 DEF UserWas
  <2> QED
    BY <1>3, <2>1, <2>2 DEF UserWas
<1> QED
  BY <1>2, <1>3

\* What the service replies to a get or an update of a user is so when it replies.
LEMMA UserReplies ==
  ASSUME UserData, GatewayInv, UserFresh, NEW q \in Req, ServeUsers(q),
         call[q].op \in UserReads, rpc'[q] = "replied"
  PROVE  \E ok \in BOOLEAN : \E data : Reply(q, ok, data) /\ (ok => UserWas(call[q], data)')
<1> USE DEF Serving, UserReads
<1>1. UserKnown(call[q]) /\ rpc[q] \in {"sent", "writing"} /\ call' = call
  BY ServicesServe DEF UserFresh, Served, Reply, GoesOn, GatewayInv
<1>2. CASE Fails(q)
  BY <1>2 DEF Fails
<1>3. ASSUME Replies(q, None), call[q].id \notin liveUsers, UNCHANGED userVars
      PROVE  \E ok \in BOOLEAN : \E data : Reply(q, ok, data) /\ (ok => UserWas(call[q], data)')
  BY <1>1, <1>3 DEF Replies, UserWas, userVars
<1>4. ASSUME NEW data, Replies(q, data), call[q].id \in liveUsers, UNCHANGED nextUserID,
             users'[call[q].id][Len(users'[call[q].id])] = data,
             Len(users'[call[q].id]) \in {Len(users[call[q].id]), Len(users[call[q].id]) + 1}
      PROVE  \E ok \in BOOLEAN : \E d : Reply(q, ok, d) /\ (ok => UserWas(call[q], d)')
  <2>1. call[q].id \in 1..(nextUserID - 1) /\ Len(users[call[q].id]) \in Nat \ {0}
    BY <1>4, CurrentUser DEF UserData
  <2>2. call[q].seen \in 0..Len(users[call[q].id])
    BY <1>1, <1>4, <2>1 DEF UserKnown
  <2>3. \E k \in 1..Len(users'[call[q].id]) :
          k >= call[q].seen /\ users'[call[q].id][k] = data
    <3>1. Len(users'[call[q].id]) \in 1..Len(users'[call[q].id])
          /\ Len(users'[call[q].id]) >= call[q].seen
      <4> DEFINE n == Len(users[call[q].id])  m == Len(users'[call[q].id])  s == call[q].seen
      <4>1. n \in Nat \ {0} /\ m \in {n, n + 1} /\ s \in 0..n
        BY <1>4, <2>1, <2>2
      <4> HIDE DEF n, m, s
      <4>2. m \in 1..m /\ m >= s
        BY <4>1
      <4> QED
        BY <4>2 DEF m, s
    <3> QED
      BY <1>4, <3>1
  <2>4. UserWas(call[q], data)'
    BY SMTT(30), <1>1, <1>4, <2>1, <2>2, <2>3 DEF UserWas
  <2> QED
    BY <1>4, <2>4 DEF Replies
<1>5. CASE GetUser(q)
  BY <1>2, <1>3, <1>4, <1>5 DEF GetUser, User, userVars
<1>6. CASE UpdateUser(q)
  BY <1>1, <1>2, <1>3, <1>6 DEF UpdateUser, GoesOn, GatewayInv
<1>7. ASSUME NEW new \in UserRow, Replies(q, new), call[q].id \in liveUsers,
             SetUser(call[q].id, new), UNCHANGED nextUserID
      PROVE  \E ok \in BOOLEAN : \E d : Reply(q, ok, d) /\ (ok => UserWas(call[q], d)')
  BY <1>4, <1>7, SetUserRow
<1>8. CallOK(call[q])
  BY <1>1 DEF GatewayInv
<1>9. CASE Update(q)
  <2>1. CASE call[q].id \in liveUsers
    <3>1. User(call[q].id) \in UserRow
      BY <2>1, CurrentUser
    <3>2. ChangedUser(q) \in UserRow
      BY <1>8, <1>9, <3>1 DEF ChangedUser, CallOK, UserRow, Update
    <3> QED
      BY <1>2, <1>7, <1>9, <2>1, <3>2 DEF Update
  <2> QED
    BY <1>2, <1>9, <2>1 DEF Update
<1>10. CASE UpdateRow(q)
  <2>1. [username |-> call[q].username, email |-> call[q].email] \in UserRow
    BY <1>8, <1>10 DEF CallOK, UserRow, UpdateRow
  <2> QED
    BY <1>2, <1>7, <1>10, <2>1 DEF UpdateRow
<1>11. CASE NotImplemented(q) \/ QueryFails(q)
  BY <1>2, <1>11 DEF NotImplemented, QueryFails
<1> QED
  BY <1>5, <1>6, <1>9, <1>10, <1>11
     DEF ServeUsers, CreateUser, Create, CreateRow, DeleteUser, ListUsers, ListCount, ListSelect

\* What a step does to the other calls: nothing.
LEMMA OtherCalls ==
  ASSUME GatewayInv, NEW q \in Req, NEW r \in Req \ {q},
         \/ \E c : Handle(q, c)
         \/ Answer(q) \/ Deadline(q) \/ Served(q)
  PROVE  /\ pc'[r] = pc[r] /\ rpc'[r] = rpc[r] /\ call'[r] = call[r]
         /\ reply'[r] = reply[r] /\ answer'[r] = answer[r]
<1>1. ASSUME NEW c, Handle(q, c)
      PROVE  /\ pc'[r] = pc[r] /\ rpc'[r] = rpc[r] /\ call'[r] = call[r]
             /\ reply'[r] = reply[r] /\ answer'[r] = answer[r]
  BY <1>1 DEF Handle, BadRequest, Unavailable, Call, Respond, GatewayInv
<1>2. ASSUME Answer(q) \/ Deadline(q)
      PROVE  /\ pc'[r] = pc[r] /\ rpc'[r] = rpc[r] /\ call'[r] = call[r]
             /\ reply'[r] = reply[r] /\ answer'[r] = answer[r]
  BY <1>2 DEF Answer, Deadline, Respond, GatewayInv
<1>3. ASSUME Served(q)
      PROVE  /\ pc'[r] = pc[r] /\ rpc'[r] = rpc[r] /\ call'[r] = call[r]
             /\ reply'[r] = reply[r] /\ answer'[r] = answer[r]
  <2>1. ASSUME NEW ok, NEW data, Reply(q, ok, data)
        PROVE  rpc'[r] = rpc[r] /\ reply'[r] = reply[r] /\ UNCHANGED <<pc, call, answer>>
    BY <2>1 DEF Reply, GatewayInv
  <2>2. CASE GoesOn(q)
    BY <2>2 DEF GoesOn, GatewayInv
  <2> QED
    BY <1>3, <2>1, <2>2 DEF Served
<1> QED
  BY <1>1, <1>2, <1>3

\* A call that is made, and what the gateway makes of a reply.
LEMMA CallMade ==
  ASSUME GatewayInv, NEW q \in Req, NEW c, Handle(q, c)
  PROVE  rpc'[q] = "none" \/ (rpc'[q] = "sent" /\ call'[q] = c)
BY DEF Handle, BadRequest, Unavailable, Call, Respond, GatewayInv

LEMMA ReadAnswered ==
  ASSUME GatewayInv, NEW q \in Req, call[q].op \in UserReads \cup OrderReads,
         Answer(q) \/ Deadline(q)
  PROVE  /\ pc[q] = "calling" /\ pc'[q] = "answered" /\ UNCHANGED <<call, rpc>>
         /\ answer'[q].status = 200 =>
              rpc[q] = "replied" /\ reply[q].ok /\ answer'[q].data = reply[q].data
<1>1. ErrorStatus(call[q].op) # 200
  BY DEF ErrorStatus
<1>2. CASE Deadline(q)
  BY <1>1, <1>2 DEF Deadline, Respond, GatewayInv
<1>3. CASE Answer(q)
  <2>1. PICK status, data : Respond(q, status, data) /\
          (status = ErrorStatus(call[q].op) \/ (reply[q].ok /\ data = reply[q].data))
    BY <1>3 DEF Answer
  <2>2. answer'[q] = [status |-> status, data |-> data] /\ pc'[q] = "answered"
    BY <2>1 DEF Respond, GatewayInv
  <2> QED
    BY <1>1, <1>3, <2>1, <2>2 DEF Answer
<1> QED
  BY <1>2, <1>3

\* What a service's reply adds to its call.
LEMMA ReplyMade ==
  ASSUME GatewayInv, NEW q \in Req, NEW ok, NEW data, Reply(q, ok, data),
         rpc[q] \in {"sent", "writing"}
  PROVE  /\ UNCHANGED <<pc, call, answer>>
         /\ pc[q] = "calling" => reply'[q].ok = ok /\ reply'[q].data = data
         /\ pc[q] = "answered" => answer[q].status # 200
BY DEF Reply, GatewayInv

LEMMA UserFreshStep ==
  UserData /\ GatewayInv /\ UserFresh /\ [Next]_vars => UserFresh'
<1> SUFFICES ASSUME UserData, GatewayInv, UserFresh, [Next]_vars PROVE UserFresh'
  OBVIOUS
<1> DEFINE FreshCall(r) ==
      rpc[r] # "none" /\ call[r].op \in UserReads =>
        /\ UserKnown(call[r])
        /\ rpc[r] = "replied" /\ pc[r] = "calling" /\ reply[r].ok =>
             UserWas(call[r], reply[r].data)
        /\ rpc[r] = "replied" /\ pc[r] = "answered" /\ answer[r].status = 200 =>
             UserWas(call[r], answer[r].data)
<1>1. UserChange
  BY UserSteps
<1>2. ASSUME NEW r \in Req,
             pc'[r] = pc[r], rpc'[r] = rpc[r], call'[r] = call[r],
             reply'[r] = reply[r], answer'[r] = answer[r]
      PROVE  FreshCall(r)'
  BY <1>1, <1>2, UserKnowledgeStays DEF UserFresh
<1>3. ASSUME NEW q \in Req, HandlerStep(q) PROVE FreshCall(q)'
  <2>1. PICK c : SeenNow(c) /\ Handle(q, c)
    BY <1>3 DEF HandlerStep
  <2>2. c.op \in UserReads => UserKnown(c)
    <3>1. \A i \in liveUsers : i \in 1..(nextUserID - 1) /\ Len(users[i]) \in Nat \ {0}
      BY CurrentUser DEF UserData
    <3> QED
      BY <2>1, <3>1 DEF SeenNow, UserSeen, UserKnown
  <2>3. rpc'[q] = "none" \/ (rpc'[q] = "sent" /\ call'[q] = c)
    BY <2>1, CallMade
  <2> QED
    BY <1>1, <2>2, <2>3, UserKnowledgeStays
<1>4. ASSUME NEW q \in Req, GatewayStep(q) PROVE FreshCall(q)'
  <2>1. UNCHANGED <<call, rpc>>
    BY <1>4 DEF GatewayStep, Answer, Deadline
  <2>2. CASE rpc[q] # "none" /\ call[q].op \in UserReads
    <3>1. /\ pc[q] = "calling" /\ pc'[q] = "answered"
          /\ answer'[q].status = 200 =>
               rpc[q] = "replied" /\ reply[q].ok /\ answer'[q].data = reply[q].data
      BY <1>4, <2>2, ReadAnswered DEF GatewayStep
    <3>2. UserKnown(call[q]) /\ (answer'[q].status = 200 => UserWas(call[q], answer'[q].data))
      BY <2>2, <3>1 DEF UserFresh
    <3>3. UserKnown(call[q])' /\ \A d : UserWas(call[q], d) => UserWas(call[q], d)'
      <4>1. PICK c : c = call[q] /\ c = call'[q]
        BY <2>1
      <4>2. UserKnown(c)' /\ \A d : UserWas(c, d) => UserWas(c, d)'
        BY <1>1, <3>2, <4>1, UserKnowledgeStays
      <4>3. UserKnown(call[q])'
        BY <4>1, <4>2 DEF UserKnown
      <4>4. ASSUME NEW d, UserWas(call[q], d) PROVE UserWas(call[q], d)'
        BY <4>1, <4>2, <4>4 DEF UserWas
      <4> QED
        BY <4>3, <4>4
    <3> QED
      BY <2>1, <3>1, <3>2, <3>3
  <2> QED
    BY <2>1, <2>2
<1>5. ASSUME NEW q \in Req, UserServiceStep(q) \/ OrderServiceStep(q) PROVE FreshCall(q)'
  <2>1. Served(q)
    BY <1>5, ServicesServe DEF UserServiceStep, OrderServiceStep
  <2>2. rpc[q] \in {"sent", "writing"} /\ UNCHANGED call
    BY <2>1 DEF Served, Reply, GoesOn
  <2>3. CASE call[q].op \in UserReads /\ rpc'[q] = "replied"
    <3>1. PICK ok, data : ok \in BOOLEAN /\ Reply(q, ok, data) /\ (ok => UserWas(call[q], data)')
      <4>1. CASE UserServiceStep(q)
        BY <2>3, <4>1, UserReplies DEF UserServiceStep
      <4>2. CASE OrderServiceStep(q)
        BY <2>3, <4>2 DEF OrderServiceStep, ServeOrders, CreateOrder, GetOrder, UpdateOrder,
           StoreOrder, DeleteOrder, ListOrders, GetOrdersByUser, Serving, UserReads
      <4> QED
        BY <1>5, <4>1, <4>2
    <3> QED
      BY <1>1, <2>2, <2>3, <3>1, ReplyMade, UserKnowledgeStays DEF UserFresh
  <2>4. CASE call[q].op \notin UserReads \/ rpc'[q] # "replied"
    BY <1>1, <2>2, <2>4, UserKnowledgeStays DEF UserFresh
  <2> QED
    BY <2>3, <2>4
<1>6. CASE UNCHANGED vars
  BY <1>2, <1>6 DEF vars, gatewayVars, UserFresh
<1>7. ASSUME NEW q \in Req,
             HandlerStep(q) \/ GatewayStep(q) \/ UserServiceStep(q) \/ OrderServiceStep(q),
             NEW r \in Req \ {q}
      PROVE  FreshCall(r)'
  BY <1>2, <1>7, OtherCalls, ServicesServe
     DEF HandlerStep, GatewayStep, UserServiceStep, OrderServiceStep
<1>8. (\A r \in Req : FreshCall(r)') => UserFresh'
  BY DEF UserFresh
<1> HIDE DEF FreshCall
<1>9. ASSUME NEW q \in Req,
             HandlerStep(q) \/ GatewayStep(q) \/ UserServiceStep(q) \/ OrderServiceStep(q)
      PROVE  UserFresh'
  BY <1>3, <1>4, <1>5, <1>7, <1>8, <1>9
<1> QED
  BY <1>6, <1>9, StepsOfCalls

(***************************************************************************)
(* Orders                                                                  *)
(***************************************************************************)

\* Every content an order ever has is valid.
OrderRow == [user : Customer, amount : {1}, status : Status, description : Req]

OrderCreations == {r \in Req : rpc[r] = "replied" /\ call[r].op = "CreateOrder"}

OrderData ==
  /\ orders \in [OrderId -> Seq(OrderRow)]
  /\ nextOrderID \in Nat \ {0} /\ liveOrders \subseteq 1..(nextOrderID - 1)
  /\ nextOrderID - 1 <= Cardinality(OrderCreations)
  /\ \A i \in 1..(nextOrderID - 1) : i \in OrderId /\ Len(orders[i]) \in Nat \ {0}

\* What gets to the repository was validated.
UpdatesChecked ==
  \A r \in Req : rpc[r] = "writing" /\ call[r].op = "UpdateOrder" => call[r].status # BadStatus

OrderAdded(q) ==
  /\ rpc[q] = "sent" /\ rpc' = [rpc EXCEPT ![q] = "replied"] /\ call[q].op = "CreateOrder"
  /\ call' = call
  /\ orders' = [orders EXCEPT ![nextOrderID] = <<NewOrder(q)>>]
  /\ liveOrders' = liveOrders \cup {nextOrderID}
  /\ nextOrderID' = nextOrderID + 1
OrderSet ==
  /\ \E i \in liveOrders, new \in OrderRow : orders' = [orders EXCEPT ![i] = Append(@, new)]
  /\ UNCHANGED <<liveOrders, nextOrderID>>
OrderDropped == liveOrders' \subseteq liveOrders /\ UNCHANGED <<orders, nextOrderID>>
OrderChange == (\E q \in Req : OrderAdded(q)) \/ OrderSet \/ OrderDropped

LEMMA CurrentOrder ==
  ASSUME OrderData, NEW i \in liveOrders
  PROVE  i \in OrderId /\ orders[i] \in Seq(OrderRow) /\ Len(orders[i]) \in Nat \ {0}
         /\ Order(i) \in OrderRow
BY DEF OrderData, Order

LEMMA ChangedOrderValid ==
  ASSUME OrderData, GatewayInv, NEW q \in Req, rpc[q] # "none",
         call[q].op = "UpdateOrder", call[q].id \in liveOrders, call[q].status # BadStatus
  PROVE  ChangedOrder(q) \in OrderRow
<1>1. Order(call[q].id) \in OrderRow
  BY CurrentOrder
<1>2. call[q].amount \in {0, 1} /\ call[q].status \in Status \cup {Blank}
  BY DEF GatewayInv, CallOK
<1> QED
  BY <1>1, <1>2 DEF ChangedOrder, OrderRow

LEMMA OrderChanges ==
  ASSUME OrderData, GatewayInv, UpdatesChecked, NEW q \in Req, ServeOrders(q)
  PROVE  OrderChange
<1> USE DEF OrderChange, OrderDropped, orderVars, Serving
<1>1. CASE GetOrder(q) \/ UpdateOrder(q) \/ DeleteOrder(q)
  BY <1>1 DEF GetOrder, UpdateOrder, DeleteOrder
<1>2. CASE ListOrders(q) \/ GetOrdersByUser(q)
  BY <1>2 DEF ListOrders, GetOrdersByUser
<1>3. CASE CreateOrder(q)
  BY <1>3 DEF CreateOrder, OrderAdded, Fails, Replies, Reply
<1>4. CASE StoreOrder(q)
  <2>1. CASE call[q].id \in liveOrders
    <3>1. ChangedOrder(q) \in OrderRow
      BY <1>4, <2>1, ChangedOrderValid DEF StoreOrder, UpdatesChecked
    <3> QED
      BY <1>4, <2>1, <3>1 DEF StoreOrder, OrderSet
  <2> QED
    BY <1>4, <2>1 DEF StoreOrder
<1> QED
  BY <1>1, <1>2, <1>3, <1>4 DEF ServeOrders

LEMMA UpdatesCheckedStep == GatewayInv /\ UpdatesChecked /\ [Next]_vars => UpdatesChecked'
<1> SUFFICES ASSUME GatewayInv, UpdatesChecked, [Next]_vars PROVE UpdatesChecked'
  OBVIOUS
<1>1. ASSUME NEW q \in Req, HandlerStep(q) PROVE UpdatesChecked'
  BY <1>1 DEF HandlerStep, Handle, BadRequest, Unavailable, Call, Respond, GatewayInv,
     UpdatesChecked
<1>2. ASSUME NEW q \in Req, GatewayStep(q) PROVE UpdatesChecked'
  BY <1>2 DEF GatewayStep, Answer, Deadline, UpdatesChecked
<1>3. ASSUME NEW q \in Req, UserServiceStep(q) \/ OrderServiceStep(q) PROVE UpdatesChecked'
  <2>1. Served(q)
    BY <1>3, ServicesServe DEF UserServiceStep, OrderServiceStep
  <2>2. CASE GoesOn(q)
    <3>1. call[q].op = "UpdateOrder" => call[q].status # BadStatus
      <4>1. GoesOn(q) /\ UserServiceStep(q) => call[q].op # "UpdateOrder"
        BY DEF UserServiceStep, ServeUsers, CreateUser, Create, GetUser, UpdateUser, Update,
           DeleteUser, ListUsers, CreateRow, UpdateRow, ListCount, ListSelect, NotImplemented,
           QueryFails, Serving, Fails, Replies, Reply, GoesOn, GatewayInv, ReplyWithPage
      <4>2. GoesOn(q) /\ OrderServiceStep(q) /\ call[q].op = "UpdateOrder" =>
              rpc[q] = "writing" \/ call[q].status # BadStatus
        BY DEF OrderServiceStep, ServeOrders, CreateOrder, GetOrder, UpdateOrder, StoreOrder,
           DeleteOrder, ListOrders, GetOrdersByUser, Serving, Fails, Replies, Reply, GoesOn,
           GatewayInv, ValidUpdate
      <4> QED
        BY <1>3, <2>2, <4>1, <4>2 DEF UpdatesChecked
    <3> QED
      BY <2>2, <3>1 DEF GoesOn, UpdatesChecked, GatewayInv
  <2>3. CASE ~GoesOn(q)
    <3>1. call' = call /\ \A r \in Req : rpc'[r] = "writing" => rpc[r] = "writing"
      BY <2>1, <2>3, ServedCall, Zenon
    <3> QED
      BY <3>1 DEF UpdatesChecked
  <2> QED
    BY <2>2, <2>3
<1>4. CASE UNCHANGED vars
  BY <1>4 DEF vars, gatewayVars, UpdatesChecked
<1> QED
  BY <1>1, <1>2, <1>3, <1>4, StepsOfCalls

LEMMA OrderSteps ==
  ASSUME OrderData, GatewayInv, UpdatesChecked, [Next]_vars
  PROVE  OrderChange /\ OrderCreations \subseteq OrderCreations'
<1>1. CASE UNCHANGED <<orderVars, rpc, call>>
  BY <1>1 DEF orderVars, OrderChange, OrderDropped, OrderCreations
<1>2. ASSUME NEW q \in Req, HandlerStep(q)
      PROVE  OrderChange /\ OrderCreations \subseteq OrderCreations'
  <2>1. OrderChange
    BY <1>2 DEF HandlerStep, orderVars, OrderChange, OrderDropped
  <2> QED
    BY <1>2, <2>1 DEF HandlerStep, Handle, BadRequest, Unavailable, Call, Respond, GatewayInv,
       OrderCreations
<1>3. ASSUME NEW q \in Req, GatewayStep(q) PROVE UNCHANGED <<orderVars, rpc, call>>
  BY <1>3 DEF GatewayStep, Answer, Deadline
<1>4. ASSUME NEW q \in Req, UserServiceStep(q) \/ OrderServiceStep(q)
      PROVE  OrderChange /\ OrderCreations \subseteq OrderCreations'
  <2>1. Served(q)
    BY <1>4, ServicesServe DEF UserServiceStep, OrderServiceStep
  <2>2. OrderCreations \subseteq OrderCreations'
    <3>1. /\ rpc[q] # "replied" /\ call' = call
          /\ \A r \in Req : r # q => rpc'[r] = rpc[r]
      BY <2>1, ServedCall
    <3> QED
      BY <3>1 DEF OrderCreations
  <2>3. CASE OrderServiceStep(q)
    BY <2>2, <2>3, OrderChanges DEF OrderServiceStep
  <2>4. CASE UserServiceStep(q)
    BY <2>2, <2>4 DEF UserServiceStep, orderVars, OrderChange, OrderDropped
  <2> QED
    BY <1>4, <2>3, <2>4
<1>5. CASE UNCHANGED vars
  BY <1>1, <1>5 DEF vars, gatewayVars
<1> QED
  BY <1>1, <1>2, <1>3, <1>4, <1>5, StepsOfCalls

LEMMA OrderIdsSuffice ==
  ASSUME OrderData, GatewayInv, OrderCreations \subseteq OrderCreations'
  PROVE  /\ nextOrderID - 1 <= Cardinality(OrderCreations')
         /\ \A q \in Req : OrderAdded(q) =>
              nextOrderID \in OrderId /\ nextOrderID <= Cardinality(OrderCreations')
<1>1. IsFiniteSet(Req) /\ Cardinality(Req) \in Nat
  BY RequestsAreFew, FS_CardinalityType
<1>2. OrderCreations \in SUBSET Req /\ OrderCreations' \in SUBSET Req
  BY DEF OrderCreations
<1>3. /\ IsFiniteSet(OrderCreations) /\ IsFiniteSet(OrderCreations')
      /\ Cardinality(OrderCreations) \in Nat /\ Cardinality(OrderCreations') \in Nat
      /\ Cardinality(OrderCreations') <= Cardinality(Req)
  BY <1>1, <1>2, FS_Subset, FS_CardinalityType
<1>4. Cardinality(OrderCreations) <= Cardinality(OrderCreations')
  BY <1>3, FS_Subset
<1>5. ASSUME NEW q \in Req, OrderAdded(q)
      PROVE  Cardinality(OrderCreations) + 1 <= Cardinality(OrderCreations')
  <2>1. q \notin OrderCreations /\ OrderCreations \cup {q} \in SUBSET OrderCreations'
    BY <1>5 DEF OrderAdded, OrderCreations, GatewayInv
  <2>2. Cardinality(OrderCreations \cup {q}) = Cardinality(OrderCreations) + 1
    BY <1>3, <2>1, FS_AddElement
  <2> QED
    BY <1>3, <2>1, <2>2, FS_Subset
<1> QED
  BY <1>1, <1>3, <1>4, <1>5 DEF OrderData, OrderId

LEMMA SetOrderRow ==
  ASSUME OrderData, NEW i \in liveOrders, NEW new \in OrderRow,
         orders' = [orders EXCEPT ![i] = Append(@, new)]
  PROVE  /\ orders' \in [OrderId -> Seq(OrderRow)] /\ orders'[i] = Append(orders[i], new)
         /\ Len(orders[i]) \in Nat \ {0} /\ Len(orders'[i]) = Len(orders[i]) + 1
         /\ orders'[i][Len(orders[i]) + 1] = new
         /\ \A k \in 1..Len(orders[i]) : orders'[i][k] = orders[i][k]
         /\ \A j \in OrderId \ {i} : orders'[j] = orders[j]
<1>1. i \in OrderId /\ orders[i] \in Seq(OrderRow) /\ Len(orders[i]) \in Nat \ {0}
  BY CurrentOrder
<1>2. Append(orders[i], new) \in Seq(OrderRow)
  BY <1>1
<1>3. /\ orders' \in [OrderId -> Seq(OrderRow)] /\ orders'[i] = Append(orders[i], new)
      /\ \A j \in OrderId \ {i} : orders'[j] = orders[j]
  BY <1>1, <1>2 DEF OrderData
<1> QED
  BY <1>1, <1>3

LEMMA OrderDataStep == OrderData /\ GatewayInv /\ UpdatesChecked /\ [Next]_vars => OrderData'
<1> SUFFICES ASSUME OrderData, GatewayInv, UpdatesChecked, [Next]_vars PROVE OrderData'
  OBVIOUS
<1>1. OrderChange /\ OrderCreations \subseteq OrderCreations'
  BY OrderSteps
<1>2. /\ Cardinality(OrderCreations') \in Nat
      /\ nextOrderID - 1 <= Cardinality(OrderCreations')
  BY <1>1, OrderIdsSuffice, RequestsAreFew, FS_Subset, FS_CardinalityType DEF OrderCreations
<1>3. ASSUME NEW q \in Req, OrderAdded(q) PROVE OrderData'
  <2>1. nextOrderID \in OrderId /\ nextOrderID <= Cardinality(OrderCreations')
    BY <1>1, <1>3, OrderIdsSuffice
  <2>2. NewOrder(q) \in OrderRow
    BY <1>3, OrderConstants DEF OrderAdded, GatewayInv, CallOK, OrderRow, NewOrder
  <2>3. /\ orders' \in [OrderId -> Seq(OrderRow)] /\ Len(orders'[nextOrderID]) = 1
        /\ \A i \in OrderId : i # nextOrderID => orders'[i] = orders[i]
    BY <1>3, <2>1, <2>2 DEF OrderAdded, OrderData
  <2>4. nextOrderID' = nextOrderID + 1 /\ liveOrders' = liveOrders \cup {nextOrderID}
    BY <1>3 DEF OrderAdded
  <2> QED
    <3>1. nextOrderID' \in Nat \ {0} /\ liveOrders' \subseteq 1..(nextOrderID' - 1)
          /\ nextOrderID' - 1 <= Cardinality(OrderCreations')
      BY <2>1, <2>4 DEF OrderData
    <3>2. ASSUME NEW i \in 1..(nextOrderID' - 1)
          PROVE  i \in OrderId /\ Len(orders'[i]) \in Nat \ {0}
      <4>1. i = nextOrderID \/ i \in 1..(nextOrderID - 1)
        BY <2>4 DEF OrderData
      <4>2. CASE i = nextOrderID
        <5>1. i \in OrderId
          BY <2>1, <4>2
        <5>2. Len(orders'[i]) = 1
          BY <2>3, <4>2, Zenon
        <5> QED
          BY <5>1, <5>2
      <4>3. CASE i \in 1..(nextOrderID - 1)
        <5>1. i \in OrderId /\ i # nextOrderID /\ Len(orders[i]) \in Nat \ {0}
          BY <4>3 DEF OrderData
        <5> QED
          BY <2>3, <5>1
      <4> QED
        BY <4>1, <4>2, <4>3
    <3> QED
      BY <2>3, <3>1, <3>2 DEF OrderData
<1>4. CASE OrderSet
  <2>1. PICK i \in liveOrders, new \in OrderRow : orders' = [orders EXCEPT ![i] = Append(@, new)]
    BY <1>4 DEF OrderSet
  <2>2. /\ orders' \in [OrderId -> Seq(OrderRow)]
        /\ Len(orders[i]) \in Nat \ {0} /\ Len(orders'[i]) = Len(orders[i]) + 1
        /\ \A j \in OrderId \ {i} : orders'[j] = orders[j]
    BY <2>1, SetOrderRow
  <2> QED
    BY <1>2, <1>4, <2>2 DEF OrderSet, OrderData
<1>5. CASE OrderDropped
  BY <1>2, <1>5 DEF OrderDropped, OrderData
<1> QED
  BY <1>1, <1>3, <1>4, <1>5 DEF OrderChange

LEMMA OrdersGoForward ==
  ASSUME OrderData, OrderChange
  PROVE  /\ nextOrderID' \in {nextOrderID, nextOrderID + 1}
         /\ \A i \in 1..(nextOrderID - 1) :
              /\ Len(orders[i]) \in Nat /\ Len(orders'[i]) \in Nat
              /\ Len(orders[i]) <= Len(orders'[i])
              /\ \A k \in 1..Len(orders[i]) : orders'[i][k] = orders[i][k]
              /\ i \notin liveOrders => i \notin liveOrders'
<1>1. ASSUME NEW q \in Req, OrderAdded(q)
      PROVE  /\ nextOrderID' = nextOrderID + 1 /\ liveOrders' = liveOrders \cup {nextOrderID}
             /\ \A i \in 1..(nextOrderID - 1) : orders'[i] = orders[i]
  BY <1>1 DEF OrderAdded, OrderData
<1>2. nextOrderID \in Nat /\ \A i \in 1..(nextOrderID - 1) : orders[i] \in Seq(OrderRow)
  BY DEF OrderData
<1>3. \A i \in 1..(nextOrderID - 1) : Len(orders[i]) \in Nat
  BY <1>2
<1>4. CASE \E q \in Req : OrderAdded(q)
  BY <1>1, <1>2, <1>3, <1>4
<1>5. CASE OrderSet
  <2>1. PICK i \in liveOrders, new \in OrderRow : orders' = [orders EXCEPT ![i] = Append(@, new)]
    BY <1>5 DEF OrderSet
  <2>2. /\ Len(orders'[i]) = Len(orders[i]) + 1
        /\ \A k \in 1..Len(orders[i]) : orders'[i][k] = orders[i][k]
        /\ \A j \in 1..(nextOrderID - 1) : j # i => orders'[j] = orders[j]
    BY <2>1, SetOrderRow DEF OrderData
  <2> QED
    BY <1>3, <1>5, <2>2 DEF OrderSet
<1>6. CASE OrderDropped
  BY <1>3, <1>6 DEF OrderDropped
<1> QED
  BY <1>4, <1>5, <1>6 DEF OrderChange

\* As for users.
OrderWas(c, data) ==
  \/ data = None /\ (c.seen = 0 \/ c.id \notin liveOrders)
  \/ /\ c.seen >= 0 /\ c.id \in 1..(nextOrderID - 1)
     /\ \E k \in 1..Len(orders[c.id]) : k >= c.seen /\ orders[c.id][k] = data

OrderKnown(c) ==
  \/ c.seen = 0
  \/ c.seen = -1 /\ c.id \in 1..(nextOrderID - 1) /\ c.id \notin liveOrders
  \/ c.id \in 1..(nextOrderID - 1) /\ c.seen \in 1..Len(orders[c.id])

OrderFresh ==
  \A r \in Req : rpc[r] # "none" /\ call[r].op \in OrderReads =>
    /\ OrderKnown(call[r])
    /\ rpc[r] = "replied" /\ pc[r] = "calling" /\ reply[r].ok => OrderWas(call[r], reply[r].data)
    /\ rpc[r] = "replied" /\ pc[r] = "answered" /\ answer[r].status = 200 =>
         OrderWas(call[r], answer[r].data)

LEMMA OrderKnowledgeStays ==
  ASSUME OrderData, OrderChange, NEW c, OrderKnown(c)
  PROVE  OrderKnown(c)' /\ \A data : OrderWas(c, data) => OrderWas(c, data)'
<1>1. /\ nextOrderID' \in {nextOrderID, nextOrderID + 1} /\ nextOrderID \in Nat
      /\ \A i \in 1..(nextOrderID - 1) :
           /\ Len(orders[i]) \in Nat /\ Len(orders'[i]) \in Nat
           /\ Len(orders[i]) <= Len(orders'[i])
           /\ \A k \in 1..Len(orders[i]) : orders'[i][k] = orders[i][k]
           /\ i \notin liveOrders => i \notin liveOrders'
  BY OrdersGoForward DEF OrderData
<1>2. OrderKnown(c)'
  BY <1>1 DEF OrderKnown
<1>3. ASSUME NEW data, OrderWas(c, data) PROVE OrderWas(c, data)'
  <2>1. CASE data = None /\ (c.seen = 0 \/ c.id \notin liveOrders)
    BY <1>1, <2>1 DEF OrderKnown, OrderWas
  <2>2. CASE c.id \in 1..(nextOrderID - 1) /\ c.seen >= 0
             /\ \E k \in 1..Len(orders[c.id]) : k >= c.seen /\ orders[c.id][k] = data
    <3>1. PICK k \in 1..Len(orders[c.id]) : k >= c.seen /\ orders[c.id][k] = data
      BY <2>2
    <3>2. k \in 1..Len(orders'[c.id]) /\ orders'[c.id][k] = data
      BY SMTT(30), <1>1, <2>2, <3>1
    <3> QED
      BY <1>1, <2>2, <3>1, <3>2 DEF OrderWas
  <2> QED
    BY <1>3, <2>1, <2>2 DEF OrderWas
<1> QED
  BY <1>2, <1>3

LEMMA OrderReplies ==
  ASSUME OrderData, GatewayInv, UpdatesChecked, OrderFresh, NEW q \in Req, ServeOrders(q),
         call[q].op \in OrderReads, rpc'[q] = "replied"
  PROVE  \E ok \in BOOLEAN : \E data : Reply(q, ok, data) /\ (ok => OrderWas(call[q], data)')
<1> USE DEF Serving, OrderReads
<1>1. OrderKnown(call[q]) /\ rpc[q] \in {"sent", "writing"} /\ call' = call
  BY ServicesServe DEF OrderFresh, Served, Reply, GoesOn, GatewayInv
<1>2. CASE Fails(q)
  BY <1>2 DEF Fails
<1>3. ASSUME Replies(q, None), call[q].id \notin liveOrders, UNCHANGED orderVars
      PROVE  \E ok \in BOOLEAN : \E data : Reply(q, ok, data) /\ (ok => OrderWas(call[q], data)')
  BY <1>1, <1>3 DEF Replies, OrderWas, orderVars
<1>4. ASSUME NEW data, Replies(q, data), call[q].id \in liveOrders, UNCHANGED nextOrderID,
             orders'[call[q].id][Len(orders'[call[q].id])] = data,
             Len(orders'[call[q].id]) \in {Len(orders[call[q].id]), Len(orders[call[q].id]) + 1}
      PROVE  \E ok \in BOOLEAN : \E d : Reply(q, ok, d) /\ (ok => OrderWas(call[q], d)')
  <2>1. call[q].id \in 1..(nextOrderID - 1) /\ Len(orders[call[q].id]) \in Nat \ {0}
    BY <1>4, CurrentOrder DEF OrderData
  <2>2. call[q].seen \in 0..Len(orders[call[q].id])
    BY <1>1, <1>4, <2>1 DEF OrderKnown
  <2>3. \E k \in 1..Len(orders'[call[q].id]) :
          k >= call[q].seen /\ orders'[call[q].id][k] = data
    <3>1. Len(orders'[call[q].id]) \in 1..Len(orders'[call[q].id])
          /\ Len(orders'[call[q].id]) >= call[q].seen
      <4> DEFINE n == Len(orders[call[q].id])  m == Len(orders'[call[q].id])  s == call[q].seen
      <4>1. n \in Nat \ {0} /\ m \in {n, n + 1} /\ s \in 0..n
        BY <1>4, <2>1, <2>2
      <4> HIDE DEF n, m, s
      <4>2. m \in 1..m /\ m >= s
        BY <4>1
      <4> QED
        BY <4>2 DEF m, s
    <3> QED
      BY <1>4, <3>1
  <2>4. OrderWas(call[q], data)'
    BY <1>1, <1>4, <2>1, <2>2, <2>3 DEF OrderWas
  <2> QED
    BY <1>4, <2>4 DEF Replies
<1>5. CASE GetOrder(q)
  BY <1>2, <1>3, <1>4, <1>5 DEF GetOrder, Order, orderVars
<1>6. CASE UpdateOrder(q)
  BY <1>1, <1>2, <1>3, <1>6 DEF UpdateOrder, GoesOn, GatewayInv
<1>7. CASE StoreOrder(q)
  <2>1. CASE call[q].id \in liveOrders
    <3>1. ChangedOrder(q) \in OrderRow
      BY <1>7, <2>1, ChangedOrderValid DEF StoreOrder, UpdatesChecked
    <3>2. orders' = [orders EXCEPT ![call[q].id] = Append(@, ChangedOrder(q))]
      BY <1>7, <2>1 DEF StoreOrder
    <3>3. Replies(q, ChangedOrder(q)) /\ UNCHANGED nextOrderID
      BY <1>7, <2>1 DEF StoreOrder
    <3>4. /\ Len(orders'[call[q].id]) = Len(orders[call[q].id]) + 1
          /\ orders'[call[q].id][Len(orders'[call[q].id])] = ChangedOrder(q)
      <4> DEFINE i == call[q].id
      <4>1. i \in liveOrders /\ orders' = [orders EXCEPT ![i] = Append(@, ChangedOrder(q))]
        BY <2>1, <3>2
      <4> HIDE DEF i
      <4>2. Len(orders'[i]) = Len(orders[i]) + 1
            /\ orders'[i][Len(orders[i]) + 1] = ChangedOrder(q)
        BY <3>1, <4>1, SetOrderRow
      <4>3. orders'[i][Len(orders'[i])] = ChangedOrder(q)
        BY <4>2
      <4> QED
        BY <4>2, <4>3 DEF i
    <3> QED
      <4> HIDE DEF OrderReads, Serving
      <4> QED
        BY <1>4, <2>1, <3>3, <3>4
  <2> QED
    BY <1>2, <1>7, <2>1 DEF StoreOrder
<1> QED
  BY <1>5, <1>6, <1>7
     DEF ServeOrders, CreateOrder, DeleteOrder, ListOrders, GetOrdersByUser

LEMMA OrderFreshStep ==
  OrderData /\ GatewayInv /\ UpdatesChecked /\ OrderFresh /\ [Next]_vars => OrderFresh'
<1> SUFFICES ASSUME OrderData, GatewayInv, UpdatesChecked, OrderFresh, [Next]_vars
             PROVE  OrderFresh'
  OBVIOUS
<1> DEFINE FreshCall(r) ==
      rpc[r] # "none" /\ call[r].op \in OrderReads =>
        /\ OrderKnown(call[r])
        /\ rpc[r] = "replied" /\ pc[r] = "calling" /\ reply[r].ok =>
             OrderWas(call[r], reply[r].data)
        /\ rpc[r] = "replied" /\ pc[r] = "answered" /\ answer[r].status = 200 =>
             OrderWas(call[r], answer[r].data)
<1>1. OrderChange
  BY OrderSteps
<1>2. ASSUME NEW r \in Req,
             pc'[r] = pc[r], rpc'[r] = rpc[r], call'[r] = call[r],
             reply'[r] = reply[r], answer'[r] = answer[r]
      PROVE  FreshCall(r)'
  BY <1>1, <1>2, OrderKnowledgeStays DEF OrderFresh
<1>3. ASSUME NEW q \in Req, HandlerStep(q) PROVE FreshCall(q)'
  <2>1. PICK c : SeenNow(c) /\ Handle(q, c)
    BY <1>3 DEF HandlerStep
  <2>2. c.op \in OrderReads => OrderKnown(c)
    <3>1. \A i \in liveOrders : i \in 1..(nextOrderID - 1) /\ Len(orders[i]) \in Nat \ {0}
      BY CurrentOrder DEF OrderData
    <3> QED
      BY <2>1, <3>1 DEF SeenNow, OrderSeen, OrderKnown
  <2>3. rpc'[q] = "none" \/ (rpc'[q] = "sent" /\ call'[q] = c)
    BY <2>1, CallMade
  <2> QED
    BY <1>1, <2>2, <2>3, OrderKnowledgeStays
<1>4. ASSUME NEW q \in Req, GatewayStep(q) PROVE FreshCall(q)'
  <2>1. UNCHANGED <<call, rpc>>
    BY <1>4 DEF GatewayStep, Answer, Deadline
  <2>2. CASE rpc[q] # "none" /\ call[q].op \in OrderReads
    <3>1. /\ pc[q] = "calling" /\ pc'[q] = "answered"
          /\ answer'[q].status = 200 =>
               rpc[q] = "replied" /\ reply[q].ok /\ answer'[q].data = reply[q].data
      BY <1>4, <2>2, ReadAnswered DEF GatewayStep
    <3>2. OrderKnown(call[q]) /\ (answer'[q].status = 200 => OrderWas(call[q], answer'[q].data))
      BY <2>2, <3>1 DEF OrderFresh
    <3>3. OrderKnown(call[q])' /\ \A d : OrderWas(call[q], d) => OrderWas(call[q], d)'
      <4>1. PICK c : c = call[q] /\ c = call'[q]
        BY <2>1
      <4>2. OrderKnown(c)' /\ \A d : OrderWas(c, d) => OrderWas(c, d)'
        BY <1>1, <3>2, <4>1, OrderKnowledgeStays
      <4>3. OrderKnown(call[q])'
        BY <4>1, <4>2 DEF OrderKnown
      <4>4. ASSUME NEW d, OrderWas(call[q], d) PROVE OrderWas(call[q], d)'
        BY <4>1, <4>2, <4>4 DEF OrderWas
      <4> QED
        BY <4>3, <4>4
    <3> QED
      BY <2>1, <3>1, <3>2, <3>3
  <2> QED
    BY <2>1, <2>2
<1>5. ASSUME NEW q \in Req, UserServiceStep(q) \/ OrderServiceStep(q) PROVE FreshCall(q)'
  <2>1. Served(q)
    BY <1>5, ServicesServe DEF UserServiceStep, OrderServiceStep
  <2>2. rpc[q] \in {"sent", "writing"} /\ UNCHANGED call
    BY <2>1 DEF Served, Reply, GoesOn
  <2>3. CASE call[q].op \in OrderReads /\ rpc'[q] = "replied"
    <3>1. PICK ok, data : ok \in BOOLEAN /\ Reply(q, ok, data) /\ (ok => OrderWas(call[q], data)')
      <4>1. CASE OrderServiceStep(q)
        BY <2>3, <4>1, OrderReplies DEF OrderServiceStep
      \* The user service fails what it does not know.
      <4>2. CASE UserServiceStep(q)
        <5>1. Fails(q)
          BY <2>2, <2>3, <4>2 DEF UserServiceStep, ServeUsers, CreateUser, Create, GetUser,
             UpdateUser, Update, DeleteUser, ListUsers, CreateRow, UpdateRow, ListCount,
             ListSelect, NotImplemented, QueryFails, Serving, OrderReads, GoesOn
        <5> QED
          BY <5>1 DEF Fails
      <4> QED
        BY <1>5, <4>1, <4>2
    <3> QED
      BY <1>1, <2>2, <2>3, <3>1, ReplyMade, OrderKnowledgeStays DEF OrderFresh
  <2>4. CASE call[q].op \notin OrderReads \/ rpc'[q] # "replied"
    BY <1>1, <2>2, <2>4, OrderKnowledgeStays DEF OrderFresh
  <2> QED
    BY <2>3, <2>4
<1>6. CASE UNCHANGED vars
  BY <1>2, <1>6 DEF vars, gatewayVars, OrderFresh
<1>7. ASSUME NEW q \in Req,
             HandlerStep(q) \/ GatewayStep(q) \/ UserServiceStep(q) \/ OrderServiceStep(q),
             NEW r \in Req \ {q}
      PROVE  FreshCall(r)'
  BY <1>2, <1>7, OtherCalls, ServicesServe
     DEF HandlerStep, GatewayStep, UserServiceStep, OrderServiceStep
<1>8. (\A r \in Req : FreshCall(r)') => OrderFresh'
  BY DEF OrderFresh
<1> HIDE DEF FreshCall
<1>9. ASSUME NEW q \in Req,
             HandlerStep(q) \/ GatewayStep(q) \/ UserServiceStep(q) \/ OrderServiceStep(q)
      PROVE  OrderFresh'
  BY <1>3, <1>4, <1>5, <1>7, <1>8, <1>9
<1> QED
  BY <1>6, <1>9, StepsOfCalls

(***************************************************************************)
(* Pages                                                                   *)
(***************************************************************************)

LEMMA Unwrapped == \A n \in Nat : n < Limit => Wrap(n) = n
<1> SUFFICES ASSUME NEW n \in Nat, n < Limit PROVE Wrap(n) = n
  OBVIOUS
<1>1. Limit \in Nat /\ n + Limit \in 0..(2 * Limit - 1)
  BY GatewayConstants
<1> DEFINE m == n + Limit  w == 2 * Limit
<1>2. m \in 0..(w - 1) /\ w \in Nat
  BY <1>1
<1> HIDE DEF m, w
<1>3. m % w = m
  BY <1>2
<1> QED
  BY <1>1, <1>3 DEF m, w, Wrap

\* A page whose offset fits is cut to the list, if the list takes half the integers at
\* most: the end of a page that starts in the list fits, too.
LEMMA PagesFit ==
  ASSUME NEW total \in Nat, 2 * total <= Limit,
         NEW page \in 1..(Limit - 1), NEW size \in 1..(Limit - 1), (page - 1) * size < Limit
  PROVE  LET bounds == PageBounds(total, page, size)
         IN 0 <= bounds[1] /\ bounds[1] <= bounds[2] /\ bounds[2] <= total
<1> DEFINE m == (page - 1) * size
<1>1. m \in Nat /\ m < Limit /\ Limit \in Nat /\ size \in Nat /\ size < Limit
  BY GatewayConstants
<1>2. m = 0 \/ m >= size
  <2>1. CASE page = 1
    BY <2>1
  <2>2. CASE page # 1
    <3>1. page - 2 \in Nat /\ m = (page - 2) * size + size
      BY <1>1, <2>2
    <3>2. (page - 2) * size \in Nat
      BY <1>1, <3>1
    <3> QED
      BY <1>1, <3>1, <3>2
  <2> QED
    BY <2>1, <2>2
<1>3. Wrap(m) = m
  BY <1>1, Unwrapped
<1> HIDE DEF m
<1>4. CASE m >= total
  BY <1>3, <1>4 DEF PageBounds, m
<1>5. CASE m < total
  <2>1. m + size \in Nat /\ m + size < Limit
    BY <1>1, <1>2, <1>5
  <2>2. Wrap(m + size) = m + size
    BY <2>1, Unwrapped
  <2>3. PageBounds(total, page, size) = <<m, IF m + size > total THEN total ELSE m + size>>
    BY <1>1, <1>3, <1>5, <2>2 DEF PageBounds, m
  <2> QED
    BY <1>1, <1>5, <2>3
<1> QED
  BY <1>1, <1>4, <1>5

\* What a list is cut from was created by requests.
LEMMA ListsAreShort ==
  ASSUME UserData, OrderData, NEW matching,
         matching \subseteq liveUsers \/ matching \subseteq liveOrders
  PROVE  Cardinality(matching) \in Nat /\ 2 * Cardinality(matching) <= Limit
<1>1. /\ IsFiniteSet(Req) /\ Cardinality(Req) \in Nat /\ 2 * Cardinality(Req) <= Limit
      /\ Limit \in Nat
  BY RequestsAreFew, GatewayConstants, FS_CardinalityType
<1>2. /\ UserCreations \in SUBSET Req /\ OrderCreations \in SUBSET Req
  BY DEF UserCreations, OrderCreations
<1>3. /\ Cardinality(UserCreations) \in Nat /\ Cardinality(UserCreations) <= Cardinality(Req)
      /\ Cardinality(OrderCreations) \in Nat /\ Cardinality(OrderCreations) <= Cardinality(Req)
  BY <1>1, <1>2, FS_Subset, FS_CardinalityType
<1>4. PICK n \in 0..Cardinality(Req) : matching \in SUBSET (1..n)
  <2>1. CASE matching \subseteq liveUsers
    <3>1. nextUserID - 1 \in 0..Cardinality(Req) /\ matching \in SUBSET (1..(nextUserID - 1))
      BY <1>1, <1>3, <2>1 DEF UserData
    <3> QED
      BY <3>1
  <2>2. CASE matching \subseteq liveOrders
    <3>1. nextOrderID - 1 \in 0..Cardinality(Req) /\ matching \in SUBSET (1..(nextOrderID - 1))
      BY <1>1, <1>3, <2>2 DEF OrderData
    <3> QED
      BY <3>1
  <2> QED
    BY <2>1, <2>2
<1>5. IsFiniteSet(1..n) /\ Cardinality(1..n) = n
  BY <1>1, FS_Interval
<1>6. IsFiniteSet(matching) /\ Cardinality(matching) \in Nat /\ Cardinality(matching) <= n
  BY <1>4, <1>5, FS_Subset, FS_CardinalityType
<1> QED
  BY <1>1, <1>6

LEMMA CrashesOverflow ==
  ASSUME UserData, OrderData, NEW q \in Req, CallOK(call[q]), call[q].op \in Lists,
         NEW matching, matching \subseteq liveUsers \/ matching \subseteq liveOrders,
         up, ReplyWithPage(q, matching)
  PROVE  \/ up'
         \/ Overflows(q) /\ UNCHANGED <<call, rpc>>
<1> DEFINE page == PageOf(call[q].page)  size == SizeOf(call[q].page)
<1>1. page \in 1..(Limit - 1) /\ size \in 1..(Limit - 1)
  <2>1. call[q].page \in (-Limit..(Limit - 1)) \X (-Limit..(Limit - 1))
    BY GatewayConstants DEF CallOK
  <2> QED
    BY <2>1, GatewayConstants DEF PageOf, SizeOf
<1>2. Cardinality(matching) \in Nat /\ 2 * Cardinality(matching) <= Limit
  BY ListsAreShort
<1>3. CASE (page - 1) * size < Limit
  <2> DEFINE bounds == PageBounds(Cardinality(matching), page, size)
  <2>1. 0 <= bounds[1] /\ bounds[1] <= bounds[2] /\ bounds[2] <= Cardinality(matching)
    BY <1>1, <1>2, <1>3, PagesFit
  <2>2. Replies(q, None)
    BY <2>1 DEF ReplyWithPage
  <2> QED
    BY <2>2 DEF Replies, Reply
<1>4. CASE ~((page - 1) * size < Limit)
  <2>1. Overflows(q)
    <3>1. (page - 1) * size \in Int /\ Limit \in Int
      BY <1>1, GatewayConstants
    <3> HIDE DEF page, size
    <3>2. (page - 1) * size >= Limit
      BY <1>4, <3>1
    <3> QED
      BY <3>2 DEF Overflows, page, size
  <2> QED
    BY <2>1 DEF ReplyWithPage, Replies, Reply
<1> QED
  BY <1>3, <1>4

LEMMA CrashStep ==
  UserData /\ OrderData /\ GatewayInv /\ OverflowAloneCrashes /\ [Next]_vars =>
    OverflowAloneCrashes'
<1> SUFFICES ASSUME UserData, OrderData, GatewayInv, OverflowAloneCrashes, [Next]_vars
             PROVE  OverflowAloneCrashes'
  OBVIOUS
<1>1. CASE UNCHANGED <<up, call, rpc>>
  BY <1>1 DEF OverflowAloneCrashes, Overflows
\* The request that crashed the service is not another one's.
<1>2. ASSUME NEW q \in Req, HandlerStep(q) PROVE OverflowAloneCrashes'
  <2>1. UNCHANGED up /\ pc[q] = "idle" /\ rpc[q] = "none"
    BY <1>2 DEF HandlerStep, Handle, GatewayInv
  <2>2. \A r \in Req \ {q} : rpc'[r] = rpc[r] /\ call'[r] = call[r]
    BY <1>2, OtherCalls DEF HandlerStep
  <2> QED
    BY <2>1, <2>2 DEF OverflowAloneCrashes, Overflows
<1>3. ASSUME NEW q \in Req, GatewayStep(q) PROVE UNCHANGED <<up, call, rpc>>
  BY <1>3 DEF GatewayStep, Answer, Deadline
<1>4. ASSUME NEW q \in Req, up, rpc[q] = "sent",
             up' \/ (Overflows(q) /\ UNCHANGED <<call, rpc>>)
      PROVE  OverflowAloneCrashes'
  BY <1>4 DEF OverflowAloneCrashes, Overflows
<1>5. ASSUME NEW q \in Req, UserServiceStep(q) \/ OrderServiceStep(q) PROVE OverflowAloneCrashes'
  <2>1. Served(q)
    BY <1>5, ServicesServe DEF UserServiceStep, OrderServiceStep
  <2>2. CASE up'
    BY <2>2 DEF OverflowAloneCrashes
  <2>3. CASE ~up'
    <3>1. up /\ up' # up
      BY <2>1, <2>3 DEF Served
    <3>2. \E matching : /\ ReplyWithPage(q, matching) /\ rpc[q] = "sent" /\ call[q].op \in Lists
                        /\ matching \subseteq liveUsers \/ matching \subseteq liveOrders
      <4>1. CASE UserServiceStep(q)
        BY <3>1, <4>1 DEF UserServiceStep, ServeUsers, CreateUser, Create, GetUser, UpdateUser,
           Update, DeleteUser, ListUsers, CreateRow, UpdateRow, ListCount, ListSelect,
           NotImplemented, QueryFails, Serving, Fails, Replies, Reply, GoesOn, Lists
      <4>2. CASE OrderServiceStep(q)
        BY <3>1, <4>2 DEF OrderServiceStep, ServeOrders, CreateOrder, GetOrder, UpdateOrder,
           StoreOrder, DeleteOrder, ListOrders, GetOrdersByUser, OrdersOf, Serving, Fails,
           Replies, Reply, GoesOn, Lists
      <4> QED
        BY <1>5, <4>1, <4>2
    <3>3. rpc[q] = "sent" /\ call[q].op \in Lists /\ CallOK(call[q])
      BY <3>2 DEF GatewayInv
    <3>4. Overflows(q) /\ UNCHANGED <<call, rpc>>
      BY <2>3, <3>1, <3>2, <3>3, CrashesOverflow
    <3> QED
      BY <1>4, <3>1, <3>3, <3>4
  <2> QED
    BY <2>2, <2>3
<1>6. CASE UNCHANGED vars
  BY <1>1, <1>6 DEF vars, gatewayVars
<1> QED
  BY <1>1, <1>2, <1>3, <1>5, <1>6, StepsOfCalls

(***************************************************************************)
(* The invariant and what it implies                                       *)
(***************************************************************************)

RequestsInv ==
  /\ GatewayInv /\ UserData /\ OrderData /\ UpdatesChecked
  /\ UserFresh /\ OrderFresh
  /\ UniqueUnlessRenamed /\ UsersStayComplete /\ OverflowAloneCrashes

LEMMA RequestsInit == Init => RequestsInv
<1> SUFFICES ASSUME Init PROVE RequestsInv
  OBVIOUS
<1>1. GatewayInv /\ UpdatesChecked /\ UserFresh /\ OrderFresh /\ OverflowAloneCrashes
  BY DEF Init, GatewayInit, GatewayInv, UpdatesChecked, UserFresh, OrderFresh,
     OverflowAloneCrashes
<1>2. Cardinality(UserCreations) \in Nat /\ Cardinality(OrderCreations) \in Nat
  BY RequestsAreFew, FS_Subset, FS_CardinalityType DEF UserCreations, OrderCreations
<1>3. UserData /\ OrderData
  BY <1>2 DEF Init, UserInit, OrderInit, UserData, OrderData
<1>4. UniqueUnlessRenamed /\ UsersStayComplete
  BY DEF Init, UserInit, UniqueUnlessRenamed, UsersStayComplete
<1> QED
  BY <1>1, <1>3, <1>4 DEF RequestsInv

LEMMA RequestsStep == RequestsInv /\ [Next]_vars => RequestsInv'
<1> SUFFICES ASSUME RequestsInv, [Next]_vars PROVE RequestsInv'
  OBVIOUS
<1>1. GatewayInv' /\ UserData' /\ OrderData' /\ UpdatesChecked'
  BY GatewayInvStep, UserDataStep, OrderDataStep, UpdatesCheckedStep DEF RequestsInv
<1>2. UserFresh' /\ OrderFresh'
  BY UserFreshStep, OrderFreshStep DEF RequestsInv
<1>3. UserChange
  BY UserSteps DEF RequestsInv
<1>4. UniqueUnlessRenamed' /\ UsersStayComplete'
  BY <1>1, <1>3, UniqueStep, CompleteStep DEF RequestsInv
<1>5. OverflowAloneCrashes'
  BY CrashStep DEF RequestsInv
<1> QED
  BY <1>1, <1>2, <1>4, <1>5 DEF RequestsInv

LEMMA RequestsHold == Spec => []RequestsInv
BY RequestsInit, RequestsStep, PTL DEF Spec

\* Requests that create users of one name at the same time cannot both succeed, though
\* the service checks the name and creates the user in two steps: two users have a name in
\* common only in memory, after an update that renamed one of them.
THEOREM NamesAreUnique == Spec => []UniqueUnlessRenamed
<1>1. RequestsInv => UniqueUnlessRenamed
  BY DEF RequestsInv
<1> QED
  BY <1>1, RequestsHold, PTL

\* No sequence of creations and updates leaves a stored user without a name or an address,
\* unless in MySQL, or a stored order without a positive amount and a valid status.
THEOREM ObjectsAreValid == Spec => []ObjectsStayValid
<1>1. RequestsInv => ObjectsStayValid
  <2> SUFFICES ASSUME RequestsInv PROVE ObjectsStayValid
    OBVIOUS
  <2>1. \A i \in liveOrders : Order(i) \in OrderRow
    BY CurrentOrder DEF RequestsInv
  <2> QED
    BY <2>1 DEF RequestsInv, ObjectsStayValid, OrdersStayValid, OrderRow
<1> QED
  BY <1>1, RequestsHold, PTL

\* What the gateway answers to a get or an update was so at one moment between the request
\* and the answer, whatever other requests did to the object meanwhile.
THEOREM AnswersAreFresh == Spec => []AnswersFresh
<1>1. RequestsInv => AnswersFresh
  <2> SUFFICES ASSUME RequestsInv PROVE AnswersFresh
    OBVIOUS
  <2>1. \A r \in Req : answer[r] # None => pc[r] = "answered"
    BY DEF RequestsInv, GatewayInv
  <2>2. UserAnswersFresh
    BY <2>1 DEF RequestsInv, UserFresh, UserWas, UserAnswersFresh, UserReads
  <2>3. OrderAnswersFresh
    BY <2>1 DEF RequestsInv, OrderFresh, OrderWas, OrderAnswersFresh, OrderReads
  <2> QED
    BY <2>2, <2>3 DEF AnswersFresh
<1> QED
  BY <1>1, RequestsHold, PTL

\* A service panics over a list only for a page whose offset overflows: every other one is
\* cut to the list, as long as that takes half the integers at most.
THEOREM OverflowsAloneCrash == Spec => []OverflowAloneCrashes
<1>1. RequestsInv => OverflowAloneCrashes
  BY DEF RequestsInv
<1> QED
  BY <1>1, RequestsHold, PTL

\* An ID that was given out and is gone is not given out again, and no update that found
\* the object before brings it back.
THEOREM NothingComesBack == Spec => DeletedStaysDeleted
<1> DEFINE Stays ==
      /\ \A i \in UserId : i < nextUserID /\ i \notin liveUsers => i \notin liveUsers'
      /\ \A i \in OrderId : i < nextOrderID /\ i \notin liveOrders => i \notin liveOrders'
<1>1. RequestsInv /\ [Next]_vars => [Stays]_vars
  <2> SUFFICES ASSUME RequestsInv, [Next]_vars PROVE Stays
    OBVIOUS
  <2>1. UserChange /\ OrderChange
    BY UserSteps, OrderSteps DEF RequestsInv
  <2>2. /\ \A i \in 1..(nextUserID - 1) : i \notin liveUsers => i \notin liveUsers'
        /\ \A i \in 1..(nextOrderID - 1) : i \notin liveOrders => i \notin liveOrders'
    BY <2>1, UsersGoForward, OrdersGoForward DEF RequestsInv
  <2>3. nextUserID \in Nat /\ nextOrderID \in Nat
    BY DEF RequestsInv, UserData, OrderData
  <2>4. Cardinality(Req) \in Nat
    BY RequestsAreFew, FS_CardinalityType
  <2> QED
    BY <2>2, <2>3, <2>4 DEF UserId, OrderId
<1> QED
  BY <1>1, RequestsHold, PTL DEF Spec, DeletedStaysDeleted
===============================================================================
