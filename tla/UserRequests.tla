----------------------------- MODULE UserRequests -----------------------------
(***************************************************************************)
(* Requests about users, from the gateway's handlers (pkg/gateway/         *)
(* handlers.go) through the gRPC handlers and the service (internal/user/  *)
(* handler, internal/user/service) to a repository and back. There are     *)
(* three of those (internal/user/repository): one in memory and two over   *)
(* SQL, whose tables have unique names and addresses and whose statements  *)
(* are one step of the database each.                                      *)
(*                                                                         *)
(* Of a user's fields the model keeps the name and the e-mail address; an  *)
(* address is named after the request that sets it. Checks and repository  *)
(* calls are steps of their own where the repository's lock is taken twice.*)
(***************************************************************************)
EXTENDS GatewayCalls

CONSTANT Name  \* user names

ASSUME UserConstants == Blank \notin Name

VARIABLES
  repo,       \* the repository: "memory", "mysql" or "postgres"
  users,      \* ID -> the contents its object or row has had; the last is current
  liveUsers,  \* IDs in the map r.users or the table
  nextUserID

userVars == <<repo, users, liveUsers, nextUserID>>

UserId == 1..Cardinality(Req)

UserTypeOK ==
  /\ repo \in {"memory", "mysql", "postgres"}
  /\ users \in [UserId -> Seq([username : Name \cup {Blank}, email : Req \cup {Blank}])]
  /\ nextUserID \in Nat \ {0}
  /\ liveUsers \subseteq 1..(nextUserID - 1)

UserInit ==
  /\ repo \in {"memory", "mysql", "postgres"}
  /\ users = [i \in UserId |-> <<>>]
  /\ liveUsers = {}
  /\ nextUserID = 1

User(i) == users[i][Len(users[i])]

\* History, kept with a call: what the call must at least see. -1 stands for
\* a user that was deleted, 0 for one that did not exist yet.
UserSeen(i) ==
  IF i \in liveUsers THEN Len(users[i]) ELSE IF i \in 1..(nextUserID - 1) THEN -1 ELSE 0

(***************************************************************************)
(* The gateway's handlers                                                  *)
(***************************************************************************)

\* An incomplete request has an empty phone, which only the service refuses.
HandleCreateUser(r) ==
  \E n \in Name, whole \in BOOLEAN :
    Handle(r, [op |-> "CreateUser", username |-> n, complete |-> whole])

HandleGetUser(r) ==
  \E i \in Id : Handle(r, [op |-> "GetUser", id |-> i, seen |-> UserSeen(i)])

\* ID 0 is refused with any fields.
HandleUpdateUser(r) ==
  \E i \in Id, n \in Name \cup {Blank}, e \in {r, Blank} :
    /\ i = 0 => n = Blank /\ e = Blank
    /\ Handle(r, [op |-> "UpdateUser", id |-> i, seen |-> UserSeen(i),
                  username |-> n, email |-> e])

HandleDeleteUser(r) == \E i \in Id : Handle(r, [op |-> "DeleteUser", id |-> i])

HandleListUsers(r) ==
  \E args \in PageArgs : Handle(r, [op |-> "ListUsers", page |-> args])

(***************************************************************************)
(* The service and its repository                                          *)
(***************************************************************************)

Taken(name) == \E i \in liveUsers : User(i).username = name

\* GetByUsername, which PostgreSQL's repository answers with an error: the
\* service takes every error for a name that is free.
Found(name) == repo # "postgres" /\ Taken(name)

\* userService.CreateUser up to the repository: validation, then GetByUsername.
\* A name that is taken is reported in a response without an error.
CreateUser(r) ==
  /\ Serving(r, "CreateUser", "sent")
  /\ \/ ~call[r].complete /\ Fails(r)
     \/ call[r].complete /\ Found(call[r].username) /\ Replies(r, None)
     \/ call[r].complete /\ ~Found(call[r].username) /\ GoesOn(r)
  /\ UNCHANGED userVars

AddUser(r) ==
  /\ users' = [users EXCEPT
                 ![nextUserID] = <<[username |-> call[r].username, email |-> r]>>]
  /\ liveUsers' = liveUsers \cup {nextUserID}
  /\ nextUserID' = nextUserID + 1

\* Mutant: the repository relies on the check of the service.
CreateUnchecked(r) ==
  /\ Serving(r, "CreateUser", "writing") /\ repo = "memory"
  /\ AddUser(r)
  /\ Replies(r, [id |-> nextUserID])
  /\ UNCHANGED repo

\* memoryUserRepository.Create checks the name again, but its ErrUserExists is
\* not the service's and becomes an internal error. It returns the object in the
\* map; the response is read from it after the lock is released, so that only
\* its ID is known for certain.
Create(r) ==
  /\ Serving(r, "CreateUser", "writing") /\ repo = "memory"
  /\ \/ /\ Taken(call[r].username) /\ Fails(r)
        /\ UNCHANGED <<users, liveUsers, nextUserID>>
     \/ /\ ~Taken(call[r].username)
        /\ AddUser(r)
        /\ Replies(r, [id |-> nextUserID])
  /\ UNCHANGED repo

\* Mutant: the object in the map is returned, and its fields read one by one.
GetUserUncopied(r) ==
  /\ Serving(r, "GetUser", "sent")
  /\ IF call[r].id \notin liveUsers THEN Replies(r, None)
     ELSE \E j, k \in 1..Len(users[call[r].id]) :
            /\ j >= call[r].seen /\ k >= call[r].seen
            /\ Replies(r, [username |-> users[call[r].id][j].username,
                           email |-> users[call[r].id][k].email])
  /\ UNCHANGED userVars

\* userService.GetUser: GetByID copies the user under the lock.
GetUser(r) ==
  /\ Serving(r, "GetUser", "sent")
  /\ \/ call[r].id = 0 /\ Fails(r)
     \/ call[r].id \notin liveUsers \cup {0} /\ Replies(r, None)
     \/ call[r].id \in liveUsers /\ Replies(r, User(call[r].id))
  /\ UNCHANGED userVars

\* userService.UpdateUser up to the repository; ID 0 stands for all that its
\* validation refuses.
UpdateUser(r) ==
  /\ Serving(r, "UpdateUser", "sent")
  /\ \/ call[r].id = 0 /\ Fails(r)
     \/ call[r].id \notin liveUsers \cup {0} /\ Replies(r, None)
     \/ call[r].id \in liveUsers /\ GoesOn(r)
  /\ UNCHANGED userVars

\* The user after the update r asks for: empty fields stay as they are.
ChangedUser(r) ==
  LET old == User(call[r].id) IN
  [username |-> IF call[r].username = Blank THEN old.username ELSE call[r].username,
   email |-> IF call[r].email = Blank THEN old.email ELSE call[r].email]

SetUser(i, new) == users' = [users EXCEPT ![i] = Append(@, new)]

\* Mutant: a user that the check saw is stored, even if deleted meanwhile.
UpdateUpserts(r) ==
  /\ Serving(r, "UpdateUser", "writing") /\ repo = "memory"
  /\ SetUser(call[r].id, ChangedUser(r))
  /\ liveUsers' = liveUsers \cup {call[r].id}
  /\ Replies(r, ChangedUser(r))
  /\ UNCHANGED <<repo, nextUserID>>

\* memoryUserRepository.Update: no other user is asked for the name. A user
\* deleted since the check is an internal error.
Update(r) ==
  /\ Serving(r, "UpdateUser", "writing") /\ repo = "memory"
  /\ \/ call[r].id \notin liveUsers /\ Fails(r) /\ UNCHANGED users
     \/ /\ call[r].id \in liveUsers
        /\ SetUser(call[r].id, ChangedUser(r)) /\ Replies(r, ChangedUser(r))
  /\ UNCHANGED <<repo, liveUsers, nextUserID>>

\* userService.DeleteUser and Delete, in memory or as one statement of MySQL. Whether
\* there was such a user is a field of the response, left out.
DeleteUser(r) ==
  /\ Serving(r, "DeleteUser", "sent") /\ repo # "postgres"
  /\ \/ call[r].id = 0 /\ Fails(r)
     \/ call[r].id # 0 /\ Replies(r, None)
  /\ liveUsers' = liveUsers \ {call[r].id}
  /\ UNCHANGED <<repo, users, nextUserID>>

\* userService.ListUsers and memoryUserRepository.List; the keyword is left out.
ListUsers(r) ==
  /\ Serving(r, "ListUsers", "sent") /\ repo = "memory"
  /\ \/ SizeOf(call[r].page) > MaxSize /\ Fails(r) /\ UNCHANGED up
     \/ SizeOf(call[r].page) <= MaxSize /\ ReplyWithPage(r, liveUsers)
  /\ UNCHANGED userVars

(***************************************************************************)
(* The SQL repositories                                                    *)
(***************************************************************************)

\* What the UNIQUE keys of the table refuse for the row i.
Refused(i, row) ==
  \E j \in liveUsers \ {i} :
    User(j).username = row.username \/ User(j).email = row.email

\* INSERT, of both repositories. The statement may have been executed although
\* it failed for its caller, when the connection broke.
CreateRow(r) ==
  /\ Serving(r, "CreateUser", "writing") /\ repo # "memory"
  /\ IF Refused(0, [username |-> call[r].username, email |-> r])
     THEN Fails(r) /\ UNCHANGED <<users, liveUsers, nextUserID>>
     ELSE AddUser(r) /\ (Fails(r) \/ Replies(r, [id |-> nextUserID]))
  /\ UNCHANGED repo

\* UPDATE of MySQL sets every column, to nothing where the request has none. A
\* row that is gone is an internal error, as in memory.
UpdateRow(r) ==
  LET row == [username |-> call[r].username, email |-> call[r].email] IN
  /\ Serving(r, "UpdateUser", "writing") /\ repo = "mysql"
  /\ IF call[r].id \notin liveUsers \/ Refused(call[r].id, row)
     THEN Fails(r) /\ UNCHANGED users
     ELSE SetUser(call[r].id, row) /\ Replies(r, row)
  /\ UNCHANGED <<repo, liveUsers, nextUserID>>

\* List of MySQL counts the rows before it selects a page of them.
ListCount(r) ==
  /\ Serving(r, "ListUsers", "sent") /\ repo = "mysql"
  /\ SizeOf(call[r].page) <= MaxSize
  /\ GoesOn(r)
  /\ UNCHANGED userVars

\* An offset that has overflowed to less than zero is an error of the statement.
ListSelect(r) ==
  /\ Serving(r, "ListUsers", "writing")
  /\ IF Wrap((PageOf(call[r].page) - 1) * SizeOf(call[r].page)) < 0
     THEN Fails(r) ELSE Replies(r, None)
  /\ UNCHANGED userVars

\* Methods that PostgreSQL's repository does not implement.
NotImplemented(r) ==
  /\ repo = "postgres"
  /\ \/ Serving(r, "UpdateUser", "writing")
     \/ Serving(r, "DeleteUser", "sent") \/ Serving(r, "ListUsers", "sent")
  /\ Fails(r)
  /\ UNCHANGED userVars

\* A query fails, or the page size is refused before there is one.
QueryFails(r) ==
  /\ repo # "memory"
  /\ up /\ rpc[r] \in {"sent", "writing"}
  /\ Fails(r)
  /\ UNCHANGED userVars

HandleUsers(r) ==
  /\ \/ HandleCreateUser(r) \/ HandleGetUser(r) \/ HandleUpdateUser(r)
     \/ HandleDeleteUser(r) \/ HandleListUsers(r)
  /\ UNCHANGED userVars

ServeUsers(r) ==
  \/ CreateUser(r) \/ Create(r) \/ GetUser(r) \/ UpdateUser(r) \/ Update(r)
  \/ DeleteUser(r) \/ ListUsers(r)
  \/ CreateRow(r) \/ UpdateRow(r) \/ ListCount(r) \/ ListSelect(r)
  \/ NotImplemented(r) \/ QueryFails(r)

(***************************************************************************)
(* Properties                                                              *)
(***************************************************************************)

\* Two users have one name only if an update renamed one of them, and that in
\* memory: requests that create the same name at the same time cannot both
\* succeed, though the service checks the name and creates the user in two steps.
UniqueUnlessRenamed ==
  \A i, j \in liveUsers :
    i # j /\ User(i).username = User(j).username =>
      repo = "memory" /\ \E u \in {i, j} : \E k \in 1..Len(users[u]) :
        users[u][k].username # users[u][1].username

\* What a get or an update answers is what the user was at one moment between
\* the request and the answer, never a mixture of two updates; and a user that was
\* there all the time is found.
UserAnswersFresh ==
  \A r \in Req :
    /\ rpc[r] = "replied" /\ call[r].op \in {"GetUser", "UpdateUser"}
    /\ answer[r] # None /\ answer[r].status = 200
    => LET i == call[r].id IN
       \/ answer[r].data = None /\ (call[r].seen = 0 \/ i \notin liveUsers)
       \/ /\ call[r].seen >= 0
          /\ \E k \in 1..Len(users[i]) :
               k >= call[r].seen /\ users[i][k] = answer[r].data

\* A user keeps a name and an address: creation demands them, and an update that
\* leaves a field out leaves it alone. This is not so in MySQL's table, where an
\* update blanks what the request leaves out.
UsersStayComplete ==
  \A i \in liveUsers :
    repo # "mysql" => User(i).username # Blank /\ User(i).email # Blank
===============================================================================
