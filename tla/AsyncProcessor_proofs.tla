------------------------ MODULE AsyncProcessor_proofs ------------------------
(***************************************************************************)
(* Proofs about AsyncProcessor for every set of tasks, types and workers   *)
(* and every channel capacity.                                             *)
(***************************************************************************)
EXTENDS AsyncProcessor, SequenceTheorems, FiniteSetTheorems, TLAPS

\* The constants are what the assumptions of AsyncProcessor say they are.
USE TypeOfAssumption, QueueSizeAssumption, NoTaskAssumption, NoTypeAssumption

-----------------------------------------------------------------------------
(***************************************************************************)
(* Type correctness                                                        *)
(***************************************************************************)

\* A worker has a task in hand exactly while it looks its handler up or runs
\* it: the body of the range loop in worker().
HandMatchesWorker ==
  \A w \in Worker : hand[w] \in Task <=> worker[w] \in {"lookup", "handle"}

\* Start is what launches the workers.
NoWorkerBeforeStart == Started \/ \A w \in Worker : worker[w] = "none"

\* TypeOK is inductive together with the link between a worker and its hand.
TypeInv == TypeOK /\ HandMatchesWorker /\ NoWorkerBeforeStart

\* One step of any goroutine keeps the types, the channel within its capacity
\* and the hand of each worker in line with its loop.
LEMMA TypeInvStep == TypeInv /\ [Next]_vars => TypeInv'
<1> SUFFICES ASSUME TypeInv, [Next]_vars PROVE TypeInv'
  OBVIOUS
<1> USE DEF TypeInv, TypeOK, HandMatchesWorker, NoWorkerBeforeStart, Started,
            CallState, WorkerState, history
<1>1. CASE Start
  BY <1>1 DEF Start
<1>2. CASE Stop
  BY <1>2 DEF Stop
<1>3. ASSUME NEW ty \in Type, RegisterHandlerBegin(ty) PROVE TypeInv'
  BY <1>3 DEF RegisterHandlerBegin
<1>4. CASE RegisterHandlerEnd
  BY <1>4 DEF RegisterHandlerEnd
<1>5. ASSUME NEW t \in Task, SubmitTaskCheck(t) PROVE TypeInv'
  BY <1>5 DEF SubmitTaskCheck
<1>6. ASSUME NEW t \in Task, SendToBuffer(t) PROVE TypeInv'
  BY <1>6 DEF SendToBuffer, RecordAccepted
<1>7. ASSUME NEW t \in Task, SendFull(t) PROVE TypeInv'
  BY <1>7 DEF SendFull
<1>8. ASSUME NEW t \in Task, NEW w \in Worker, SendToWorker(t, w)
      PROVE  TypeInv'
  BY <1>8 DEF SendToWorker, RecordAccepted
<1>9. ASSUME NEW w \in Worker, WorkerReceive(w) PROVE TypeInv'
  <2>1. /\ Head(queue) \in Task
        /\ Tail(queue) \in Seq(Task)
        /\ Len(Tail(queue)) = Len(queue) - 1
    BY <1>9, HeadTailProperties DEF WorkerReceive
  <2>2. QED
    BY <1>9, <2>1 DEF WorkerReceive
<1>10. ASSUME NEW w \in Worker, WorkerExit(w) PROVE TypeInv'
  BY <1>10 DEF WorkerExit
<1>11. ASSUME NEW w \in Worker, LookupFound(w) PROVE TypeInv'
  BY <1>11 DEF LookupFound
<1>12. ASSUME NEW w \in Worker, LookupMissing(w) PROVE TypeInv'
  BY <1>12 DEF LookupMissing
<1>13. ASSUME NEW w \in Worker, LookupRace(w) PROVE TypeInv'
  BY <1>13 DEF LookupRace
<1>14. ASSUME NEW w \in Worker, HandlerReturns(w) PROVE TypeInv'
  BY <1>14 DEF HandlerReturns
<1>15. CASE UNCHANGED vars
  BY <1>15 DEF vars
<1>16. QED
  BY <1>1, <1>2, <1>3, <1>4, <1>5, <1>6, <1>7, <1>8, <1>9, <1>10, <1>11,
     <1>12, <1>13, <1>14, <1>15
  DEF Next, SubmitStep, WorkerStep

LEMMA TypeInvHolds == Spec => []TypeInv
<1>1. Init => TypeOK
  <2>1. /\ <<>> \in Seq(Task)
        /\ Len(<<>>) = 0
    BY EmptySeq
  <2>2. Init => queue \in Seq(Task) /\ Len(queue) <= QueueSize
    BY <2>1 DEF Init
  <2>3. Init => accepted \in Seq(Task) /\ taken \in Nat
    BY <2>1 DEF Init
  <2>4. Init => /\ call \in [Task -> CallState]
                /\ worker \in [Worker -> WorkerState]
                /\ hand \in [Worker -> Task \cup {NoTask}]
    BY DEF Init, CallState, WorkerState
  <2>5. Init => /\ handlers \in SUBSET Type
                /\ registering \in Type \cup {NoType}
                /\ ran \in SUBSET Task /\ ignored \in SUBSET Task
                /\ known \in SUBSET Task
    BY DEF Init
  <2>6. Init => /\ running \in BOOLEAN /\ closed \in BOOLEAN
                /\ fatal \in BOOLEAN /\ lateReg \in BOOLEAN
    BY DEF Init
  <2>7. QED
    BY <2>2, <2>3, <2>4, <2>5, <2>6 DEF TypeOK
<1>2. Init => HandMatchesWorker /\ NoWorkerBeforeStart
  BY DEF Init, HandMatchesWorker, NoWorkerBeforeStart
<1>3. QED
  BY <1>1, <1>2, TypeInvStep, PTL DEF Spec, TypeInv

\* Every behaviour of the processor is well typed and never puts more than
\* QueueSize tasks in the channel.
THEOREM TypeCorrect == Spec => []TypeOK
<1>1. TypeInv => TypeOK
  BY DEF TypeInv
<1>2. QED
  BY <1>1, TypeInvHolds, PTL

-----------------------------------------------------------------------------
(***************************************************************************)
(* The mutex: no send on a closed channel                                  *)
(***************************************************************************)

\* What the read-write mutex gives: a registration excludes submissions in
\* their critical section, such a submission saw running and running is still
\* true, and Stop cleared running when it closed the channel.
GateInv ==
  /\ registering # NoType => \A t \in Task : call[t] # "send"
  /\ \A t \in Task : call[t] = "send" => running
  /\ closed => ~running

\* Every step keeps the mutex invariant.
LEMMA GateInvStep == TypeInv /\ GateInv /\ [Next]_vars => GateInv'
<1> SUFFICES ASSUME TypeInv, GateInv, [Next]_vars PROVE GateInv'
  OBVIOUS
<1> USE DEF TypeInv, TypeOK, GateInv, CallState, CanLock, CanRLock, Readers
<1>1. CASE Start
  BY <1>1 DEF Start, Started
<1>2. CASE Stop
  BY <1>2 DEF Stop
<1>3. ASSUME NEW ty \in Type, RegisterHandlerBegin(ty) PROVE GateInv'
  BY <1>3 DEF RegisterHandlerBegin
<1>4. CASE RegisterHandlerEnd
  BY <1>4 DEF RegisterHandlerEnd
<1>5. ASSUME NEW t \in Task, SubmitTaskCheck(t) PROVE GateInv'
  BY <1>5 DEF SubmitTaskCheck
<1>6. ASSUME NEW t \in Task, SendToBuffer(t) PROVE GateInv'
  BY <1>6 DEF SendToBuffer, RecordAccepted
<1>7. ASSUME NEW t \in Task, SendFull(t) PROVE GateInv'
  BY <1>7 DEF SendFull
<1>8. ASSUME NEW t \in Task, NEW w \in Worker, SendToWorker(t, w)
      PROVE  GateInv'
  BY <1>8 DEF SendToWorker, RecordAccepted
<1>9. ASSUME NEW w \in Worker, WorkerStep(w) PROVE GateInv'
  BY <1>9 DEF WorkerStep, WorkerReceive, WorkerExit, LookupFound,
              LookupMissing, LookupRace, HandlerReturns
<1>10. CASE UNCHANGED vars
  BY <1>10 DEF vars
<1>11. QED
  BY <1>1, <1>2, <1>3, <1>4, <1>5, <1>6, <1>7, <1>8, <1>9, <1>10
  DEF Next, SubmitStep

\* No submission is ever between its test and its send on a closed channel:
\* SubmitTask does not panic, whatever Stop does.
THEOREM SendsFindOpenChannel == Spec => []NoSendOnClosed
<1>1. Init => GateInv
  BY DEF Init, GateInv
<1>2. TypeInv /\ GateInv => NoSendOnClosed
  BY DEF TypeInv, TypeOK, GateInv, NoSendOnClosed
<1>3. QED
  BY <1>1, <1>2, GateInvStep, TypeInvHolds, PTL DEF Spec

\* A closed channel accepts nothing: the action property behind Stop.
THEOREM StopIsFinal == Spec => NothingAcceptedAfterStop
<1>1. GateInv /\ TypeInv /\ [Next]_vars => [closed => UNCHANGED accepted]_vars
  <2> SUFFICES ASSUME GateInv, TypeInv, Next, closed PROVE UNCHANGED accepted
    BY DEF vars
  <2>1. \A t \in Task : call[t] # "send"
    BY DEF GateInv, TypeInv, TypeOK
  <2>2. QED
    BY <2>1 DEF Next, SubmitStep, WorkerStep, history, Start, Stop,
      RegisterHandlerBegin, RegisterHandlerEnd, SubmitTaskCheck, SendToBuffer,
      SendToWorker, SendFull, WorkerReceive, WorkerExit, LookupFound,
      LookupMissing, LookupRace, HandlerReturns
<1>2. Init => GateInv
  BY DEF Init, GateInv
<1>3. QED
  BY <1>1, <1>2, GateInvStep, TypeInvHolds, PTL DEF Spec, NothingAcceptedAfterStop

-----------------------------------------------------------------------------
(***************************************************************************)
(* Conservation: every accepted task is in exactly one place               *)
(***************************************************************************)

\* The channel is a sequence without repetition, so receiving its head takes
\* the task out of it and leaves the others where they are.
LEMMA ReceiveFromQueue ==
  ASSUME TypeInv, NothingTwice, queue # <<>>
  PROVE  /\ Head(queue) \in Task
         /\ Tail(queue) \in Seq(Task)
         /\ Len(Tail(queue)) = Len(queue) - 1
         /\ Len(queue) \in Nat \ {0}
         /\ \A i \in 1..Len(Tail(queue)) : Tail(queue)[i] = queue[i + 1]
         /\ Head(queue) = queue[1]
<1> USE DEF TypeInv, TypeOK
<1>1. QED
  BY HeadTailProperties, EmptySeq, LenProperties

\* A step that leaves the four places alone moves no task.
LEMMA PlacesUnchanged ==
  ASSUME TypeInv, TasksConserved, UNCHANGED <<queue, hand, ran, ignored>>,
         \A t \in Task : call'[t] = "accepted" <=> call[t] = "accepted"
  PROVE  TasksConserved'
BY DEF TasksConserved, NothingLost, NothingTwice, InQueue, Held

\* Every step moves each task to at most one next place.
LEMMA ConservedStep == TypeInv /\ TasksConserved /\ [Next]_vars => TasksConserved'
<1> SUFFICES ASSUME TypeInv, TasksConserved, [Next]_vars PROVE TasksConserved'
  OBVIOUS
<1> USE DEF CallState
<1>1. CASE Start
  BY <1>1, PlacesUnchanged DEF Start, history
<1>2. CASE Stop
  BY <1>2, PlacesUnchanged DEF Stop, history
<1>3. ASSUME NEW ty \in Type, RegisterHandlerBegin(ty) PROVE TasksConserved'
  BY <1>3, PlacesUnchanged DEF RegisterHandlerBegin, history
<1>4. CASE RegisterHandlerEnd
  BY <1>4, PlacesUnchanged DEF RegisterHandlerEnd, history
<1>5. ASSUME NEW t \in Task, SubmitTaskCheck(t) PROVE TasksConserved'
  BY <1>5, PlacesUnchanged DEF SubmitTaskCheck, history, TypeInv, TypeOK
<1>6. ASSUME NEW t \in Task, SendToBuffer(t) PROVE TasksConserved'
  <2>1. /\ queue' \in Seq(Task)
        /\ Len(queue') = Len(queue) + 1
        /\ \A i \in 1..Len(queue) : queue'[i] = queue[i]
        /\ queue'[Len(queue) + 1] = t
        /\ Len(queue) \in Nat
    BY <1>6, AppendProperties DEF SendToBuffer, TypeInv, TypeOK
  <2>2. /\ UNCHANGED <<hand, ran, ignored>>
        /\ call[t] = "send" /\ call' = [call EXCEPT ![t] = "accepted"]
    BY <1>6 DEF SendToBuffer, RecordAccepted
  <2>3. ~InQueue(t) /\ ~Held(t) /\ t \notin ran /\ t \notin ignored
    BY <2>2 DEF TasksConserved, NothingLost
  <2>4. \A u \in Task : InQueue(u)' <=> InQueue(u) \/ u = t
    BY <2>1 DEF InQueue
  <2>5. \A u \in Task : Held(u)' <=> Held(u)
    BY <2>2 DEF Held
  <2>6. NothingLost'
    BY <2>2, <2>4, <2>5 DEF NothingLost, TasksConserved, TypeInv, TypeOK
  <2>7. \A i, j \in 1..Len(queue') : queue'[i] = queue'[j] => i = j
    BY <2>1, <2>3 DEF NothingTwice, TasksConserved, InQueue
  <2>8. NothingTwice'
    BY <2>2, <2>3, <2>4, <2>5, <2>7 DEF NothingTwice, TasksConserved, TypeInv, TypeOK
  <2>9. QED
    BY <2>6, <2>8 DEF TasksConserved
<1>7. ASSUME NEW t \in Task, SendFull(t) PROVE TasksConserved'
  BY <1>7, PlacesUnchanged DEF SendFull, history, TypeInv, TypeOK
<1>8. ASSUME NEW t \in Task, NEW w \in Worker, SendToWorker(t, w)
      PROVE  TasksConserved'
  <2>1. /\ UNCHANGED <<queue, ran, ignored>>
        /\ call[t] = "send" /\ call' = [call EXCEPT ![t] = "accepted"]
        /\ hand' = [hand EXCEPT ![w] = t]
        /\ hand[w] \notin Task
    BY <1>8 DEF SendToWorker, RecordAccepted, TypeInv, TypeOK, HandMatchesWorker
  <2>2. ~InQueue(t) /\ ~Held(t) /\ t \notin ran /\ t \notin ignored
    BY <2>1 DEF TasksConserved, NothingLost
  <2>3. \A u \in Task : Held(u)' <=> Held(u) \/ u = t
    BY <2>1 DEF Held, TypeInv, TypeOK
  <2>4. \A u \in Task : InQueue(u)' <=> InQueue(u)
    BY <2>1 DEF InQueue
  <2>5. NothingLost'
    BY <2>1, <2>3, <2>4 DEF NothingLost, TasksConserved, TypeInv, TypeOK
  <2>6. \A v, x \in Worker : hand'[v] = hand'[x] /\ hand'[v] # NoTask => v = x
    BY <2>1, <2>2 DEF NothingTwice, TasksConserved, Held, TypeInv, TypeOK
  <2>7. NothingTwice'
    BY <2>1, <2>2, <2>3, <2>4, <2>6 DEF NothingTwice, TasksConserved, TypeInv, TypeOK
  <2>8. QED
    BY <2>5, <2>7 DEF TasksConserved
<1>9. ASSUME NEW w \in Worker, WorkerReceive(w) PROVE TasksConserved'
  <2>1. /\ queue # <<>> /\ hand[w] \notin Task
        /\ UNCHANGED <<ran, ignored, call>>
        /\ hand' = [hand EXCEPT ![w] = Head(queue)] /\ queue' = Tail(queue)
    BY <1>9 DEF WorkerReceive, TypeInv, TypeOK, HandMatchesWorker
  <2>2. PICK t \in Task : t = queue[1] /\ t = Head(queue)
    BY <2>1, ReceiveFromQueue DEF TasksConserved
  <2>14. /\ hand' = [hand EXCEPT ![w] = t] /\ t = queue[1]
         /\ Len(queue) \in Nat \ {0} /\ Len(queue') = Len(queue) - 1
         /\ \A i \in 1..Len(queue') : queue'[i] = queue[i + 1]
    BY <2>1, <2>2, ReceiveFromQueue DEF TasksConserved
  <2>3. \A i, j \in 1..Len(queue) : queue[i] = queue[j] => i = j
    BY DEF TasksConserved, NothingTwice
  <2>4. InQueue(t)
    BY <2>14 DEF InQueue
  <2>5. ~Held(t) /\ t \notin ran /\ t \notin ignored
    BY <2>14, <2>4 DEF TasksConserved, NothingTwice
  <2>6. \A u \in Task : InQueue(u) <=> InQueue(u)' \/ u = t
    <3> TAKE u \in Task
    <3>1. ASSUME InQueue(u), u # t PROVE InQueue(u)'
      <4>1. PICK i \in 1..Len(queue) : queue[i] = u
        BY <3>1 DEF InQueue
      <4>2. i - 1 \in 1..Len(queue') /\ queue'[i - 1] = u
        BY <4>1, <3>1, <2>14
      <4>3. QED
        BY <4>2 DEF InQueue
    <3>2. ASSUME InQueue(u)' PROVE InQueue(u)
      <4>1. PICK i \in 1..Len(queue') : queue'[i] = u
        BY <3>2 DEF InQueue
      <4>2. i + 1 \in 1..Len(queue) /\ queue[i + 1] = u
        BY <4>1, <2>14
      <4>3. QED
        BY <4>2 DEF InQueue
    <3>3. QED
      BY <3>1, <3>2, <2>4
  <2>7. ~InQueue(t)'
    <3> SUFFICES ASSUME InQueue(t)' PROVE FALSE
      OBVIOUS
    <3>1. PICK i \in 1..Len(queue') : queue'[i] = t
      BY DEF InQueue
    <3>2. i + 1 \in 1..Len(queue) /\ queue[i + 1] = queue[1]
      BY <3>1, <2>14
    <3>3. QED
      BY <3>2, <2>14, <2>3
  <2>8. \A u \in Task : Held(u)' <=> Held(u) \/ u = t
    BY <2>1, <2>14 DEF Held, TypeInv, TypeOK
  <2>9. NothingLost'
    BY <2>1, <2>6, <2>8 DEF NothingLost, TasksConserved
  <2>10. \A i, j \in 1..Len(queue') : queue'[i] = queue'[j] => i = j
    <3> SUFFICES ASSUME NEW i \in 1..Len(queue'), NEW j \in 1..Len(queue'),
                        queue'[i] = queue'[j]
                 PROVE  i = j
      OBVIOUS
    <3>1. i + 1 \in 1..Len(queue) /\ j + 1 \in 1..Len(queue)
      BY <2>14
    <3>2. queue[i + 1] = queue[j + 1]
      BY <2>14
    <3>3. QED
      BY <3>1, <3>2, <2>3
  <2>11. \A v, x \in Worker : hand'[v] = hand'[x] /\ hand'[v] # NoTask => v = x
    BY <2>14, <2>5 DEF NothingTwice, TasksConserved, Held, TypeInv, TypeOK
  <2>12. NothingTwice'
    BY <2>1, <2>5, <2>6, <2>7, <2>8, <2>10, <2>11
    DEF NothingTwice, TasksConserved, TypeInv, TypeOK
  <2>13. QED
    BY <2>9, <2>12 DEF TasksConserved
<1>10. ASSUME NEW w \in Worker, WorkerExit(w) PROVE TasksConserved'
  BY <1>10, PlacesUnchanged DEF WorkerExit, history
<1>11. ASSUME NEW w \in Worker, LookupFound(w) PROVE TasksConserved'
  BY <1>11, PlacesUnchanged DEF LookupFound, history
<1>12. ASSUME NEW w \in Worker, LookupRace(w) PROVE TasksConserved'
  BY <1>12, PlacesUnchanged DEF LookupRace, history
<1>13. ASSUME NEW w \in Worker, LookupMissing(w) \/ HandlerReturns(w)
       PROVE  TasksConserved'
  <2>0. PICK t \in Task : t = hand[w]
    BY <1>13 DEF LookupMissing, HandlerReturns, TypeInv, HandMatchesWorker
  <2>1. /\ UNCHANGED <<queue, call>> /\ hand' = [hand EXCEPT ![w] = NoTask]
        /\ \/ ran' = ran \cup {t} /\ ignored' = ignored
           \/ ran' = ran /\ ignored' = ignored \cup {t}
    BY <1>13, <2>0 DEF LookupMissing, HandlerReturns
  <2>2. Held(t) /\ ~InQueue(t) /\ t \notin ran /\ t \notin ignored
    BY <2>0, <2>1 DEF Held, NothingTwice, TasksConserved
  <2>3. \A u \in Task : Held(u) <=> Held(u)' \/ u = t
    BY <2>0, <2>1 DEF Held, TypeInv, TypeOK
  <2>4. ~Held(t)'
    BY <2>0, <2>1 DEF Held, NothingTwice, TasksConserved, TypeInv, TypeOK
  <2>5. \A u \in Task : InQueue(u)' <=> InQueue(u)
    BY <2>1 DEF InQueue
  <2>6. NothingLost'
    BY <2>1, <2>3, <2>5 DEF NothingLost, TasksConserved
  <2>7. NothingTwice'
    BY <2>1, <2>2, <2>3, <2>4, <2>5 DEF NothingTwice, TasksConserved, TypeInv, TypeOK
  <2>8. QED
    BY <2>6, <2>7 DEF TasksConserved
<1>14. CASE UNCHANGED vars
  BY <1>14, PlacesUnchanged DEF vars
<1>15. QED
  BY <1>1, <1>2, <1>3, <1>4, <1>5, <1>6, <1>7, <1>8, <1>9, <1>10, <1>11,
     <1>12, <1>13, <1>14
  DEF Next, SubmitStep, WorkerStep

\* Nothing is lost between SubmitTask and the handlers and nothing runs twice,
\* for any number of tasks, workers and slots.
THEOREM Conservation == Spec => []TasksConserved
<1>1. Init => TasksConserved
  BY EmptySeq DEF Init, TasksConserved, NothingLost, NothingTwice, InQueue, Held
<1>2. QED
  BY <1>1, ConservedStep, TypeInvHolds, PTL DEF Spec

-----------------------------------------------------------------------------
(***************************************************************************)
(* The unlocked handler lookup                                             *)
(***************************************************************************)

\* Why a known task finds its handler: handlers are only ever added. Why a
\* fatal lookup needs a late registration: while an early one is in progress
\* nothing has been accepted, so no worker has anything to look up.
LookupInv ==
  /\ \A t \in known : call[t] = "accepted" /\ TypeOf[t] \in handlers
  /\ \A t \in Task : call[t] = "accepted" => accepted # <<>>
  /\ registering # NoType /\ ~lateReg => accepted = <<>>
  /\ RegisteredHandlerRuns
  /\ FatalNeedsLateRegistration

\* Every step keeps the lookup invariant.
LEMMA LookupInvStep ==
  TypeInv /\ GateInv /\ TasksConserved /\ LookupInv /\ [Next]_vars => LookupInv'
<1> SUFFICES ASSUME TypeInv, GateInv, TasksConserved, LookupInv, [Next]_vars
             PROVE  LookupInv'
  OBVIOUS
<1> USE DEF TypeInv, TypeOK, CallState, LookupInv, RegisteredHandlerRuns,
            FatalNeedsLateRegistration, history
<1>1. CASE Start
  BY <1>1 DEF Start
<1>2. CASE Stop
  BY <1>2 DEF Stop
<1>3. ASSUME NEW ty \in Type, RegisterHandlerBegin(ty) PROVE LookupInv'
  BY <1>3 DEF RegisterHandlerBegin
<1>4. CASE RegisterHandlerEnd
  BY <1>4 DEF RegisterHandlerEnd
<1>5. ASSUME NEW t \in Task, SubmitTaskCheck(t) PROVE LookupInv'
  BY <1>5 DEF SubmitTaskCheck
<1>6. ASSUME NEW t \in Task, SendToBuffer(t) \/ \E w \in Worker : SendToWorker(t, w)
      PROVE  LookupInv'
  <2>1. call[t] = "send" /\ RecordAccepted(t)
    BY <1>6 DEF SendToBuffer, SendToWorker
  <2>2. accepted' # <<>>
    BY <2>1, AppendProperties DEF RecordAccepted
  <2>3. t \notin ignored
    BY <2>1 DEF TasksConserved, NothingLost
  <2>4. registering = NoType
    BY <2>1 DEF GateInv
  <2>5. QED
    BY <2>1, <2>2, <2>3, <2>4 DEF RecordAccepted
<1>7. ASSUME NEW t \in Task, SendFull(t) PROVE LookupInv'
  BY <1>7 DEF SendFull
<1>8. ASSUME NEW w \in Worker, WorkerReceive(w) PROVE LookupInv'
  BY <1>8 DEF WorkerReceive
<1>9. ASSUME NEW w \in Worker, WorkerExit(w) \/ LookupFound(w) PROVE LookupInv'
  BY <1>9 DEF WorkerExit, LookupFound
<1>10. ASSUME NEW w \in Worker, LookupMissing(w) PROVE LookupInv'
  BY <1>10 DEF LookupMissing, MissesHandler
<1>11. ASSUME NEW w \in Worker, LookupRace(w) PROVE LookupInv'
  <2>1. PICK t \in Task : t = hand[w]
    BY <1>11 DEF LookupRace, HandMatchesWorker
  <2>2. call[t] = "accepted"
    BY <2>1 DEF TasksConserved, NothingLost, Held
  <2>3. lateReg
    BY <1>11, <2>2 DEF LookupRace
  <2>4. QED
    BY <1>11, <2>3 DEF LookupRace
<1>12. ASSUME NEW w \in Worker, HandlerReturns(w) PROVE LookupInv'
  BY <1>12 DEF HandlerReturns
<1>13. CASE UNCHANGED vars
  BY <1>13 DEF vars
<1>14. QED
  BY <1>1, <1>2, <1>3, <1>4, <1>5, <1>6, <1>7, <1>8, <1>9, <1>10, <1>11,
     <1>12, <1>13
  DEF Next, SubmitStep, WorkerStep

\* The lookup invariant holds throughout.
LEMMA LookupCorrect == Spec => []LookupInv
<1>1. Init => LookupInv
  BY DEF Init, LookupInv, RegisteredHandlerRuns, FatalNeedsLateRegistration
<1>2. Init => GateInv
  BY DEF Init, GateInv
<1>3. QED
  BY <1>1, <1>2, LookupInvStep, GateInvStep, TypeInvHolds, Conservation, PTL DEF Spec

\* A task whose handler was registered in time is never ignored.
THEOREM HandlersRun == Spec => []RegisteredHandlerRuns
<1>1. LookupInv => RegisteredHandlerRuns
  BY DEF LookupInv
<1>2. QED
  BY <1>1, LookupCorrect, PTL

\* Programs that register every handler first never hit the fatal map error.
THEOREM EarlyRegistrationIsSafe == Spec => []FatalNeedsLateRegistration
<1>1. LookupInv => FatalNeedsLateRegistration
  BY DEF LookupInv
<1>2. QED
  BY <1>1, LookupCorrect, PTL

-----------------------------------------------------------------------------
(***************************************************************************)
(* First in, first out                                                     *)
(***************************************************************************)

\* DispatchInOrder, element by element.
OrderInv ==
  /\ Len(queue) = Len(accepted) - taken
  /\ \A i \in 1..Len(queue) : queue[i] = accepted[taken + i]

\* Every step keeps the channel equal to the part of accepted not yet taken.
LEMMA OrderInvStep == TypeInv /\ OrderInv /\ [Next]_vars => OrderInv'
<1> SUFFICES ASSUME TypeInv, OrderInv, [Next]_vars PROVE OrderInv'
  OBVIOUS
<1>0. /\ queue \in Seq(Task) /\ Len(queue) \in Nat
      /\ accepted \in Seq(Task) /\ Len(accepted) \in Nat /\ taken \in Nat
  BY LenProperties DEF TypeInv, TypeOK
<1>1. ASSUME NEW t \in Task, SendToBuffer(t) PROVE OrderInv'
  <2>1. /\ queue' = Append(queue, t) /\ accepted' = Append(accepted, t)
        /\ taken' = taken
    BY <1>1 DEF SendToBuffer, RecordAccepted
  <2>2. /\ Len(queue') = Len(queue) + 1
        /\ \A i \in 1..Len(queue) : queue'[i] = queue[i]
        /\ queue'[Len(queue) + 1] = t
    BY <1>0, <2>1, AppendProperties
  <2>3. /\ Len(accepted') = Len(accepted) + 1
        /\ \A i \in 1..Len(accepted) : accepted'[i] = accepted[i]
        /\ accepted'[Len(accepted) + 1] = t
    BY <1>0, <2>1, AppendProperties
  <2>4. Len(queue') = Len(accepted') - taken'
    BY <1>0, <2>1, <2>2, <2>3 DEF OrderInv
  <2>5. ASSUME NEW i \in 1..Len(queue') PROVE queue'[i] = accepted'[taken' + i]
    <3>1. CASE i = Len(queue) + 1
      BY <1>0, <2>1, <2>2, <2>3, <3>1 DEF OrderInv
    <3>2. CASE i \in 1..Len(queue)
      <4>1. taken + i \in 1..Len(accepted)
        BY <1>0, <3>2 DEF OrderInv
      <4>2. QED
        BY <2>1, <2>2, <2>3, <3>2, <4>1 DEF OrderInv
    <3>3. QED
      BY <1>0, <2>2, <3>1, <3>2
  <2>6. QED
    BY <2>4, <2>5 DEF OrderInv
<1>2. ASSUME NEW t \in Task, NEW w \in Worker, SendToWorker(t, w) PROVE OrderInv'
  <2>1. /\ queue = <<>> /\ queue' = queue /\ accepted' = Append(accepted, t)
        /\ taken' = taken + 1
    BY <1>2 DEF SendToWorker, RecordAccepted
  <2>2. Len(accepted') = Len(accepted) + 1
    BY <1>0, <2>1, AppendProperties
  <2>3. Len(queue) = 0
    BY <2>1, EmptySeq
  <2>4. QED
    BY <1>0, <2>1, <2>2, <2>3 DEF OrderInv
<1>3. ASSUME NEW w \in Worker, WorkerReceive(w) PROVE OrderInv'
  <2>1. /\ queue # <<>> /\ queue' = Tail(queue) /\ accepted' = accepted
        /\ taken' = taken + 1
    BY <1>3 DEF WorkerReceive
  <2>2. /\ Len(queue') = Len(queue) - 1
        /\ \A i \in 1..Len(queue') : queue'[i] = queue[i + 1]
    BY <1>0, <2>1, HeadTailProperties
  <2>3. ASSUME NEW i \in 1..Len(queue') PROVE queue'[i] = accepted'[taken' + i]
    <3>1. i + 1 \in 1..Len(queue) /\ taken + (i + 1) = taken' + i
      BY <1>0, <2>1, <2>2
    <3>2. QED
      BY <2>1, <2>2, <3>1 DEF OrderInv
  <2>4. QED
    BY <1>0, <2>1, <2>2, <2>3 DEF OrderInv
<1>4. CASE UNCHANGED <<queue, accepted, taken>>
  BY <1>4 DEF OrderInv
<1>5. QED
  BY <1>1, <1>2, <1>3, <1>4
  DEF Next, SubmitStep, WorkerStep, history, vars, Start, Stop,
      RegisterHandlerBegin, RegisterHandlerEnd, SubmitTaskCheck, SendFull,
      WorkerExit, LookupFound, LookupMissing, LookupRace, HandlerReturns

\* The workers receive the tasks in the order SubmitTask accepted them.
THEOREM FirstInFirstOut == Spec => []DispatchInOrder
<1>1. Init => OrderInv
  BY EmptySeq DEF Init, OrderInv
<1>2. TypeInv /\ OrderInv => DispatchInOrder
  <2> SUFFICES ASSUME TypeInv, OrderInv
               PROVE  queue = SubSeq(accepted, taken + 1, Len(accepted))
    BY DEF DispatchInOrder
  <2> DEFINE rest == SubSeq(accepted, taken + 1, Len(accepted))
  <2>1. /\ queue \in Seq(Task) /\ Len(queue) \in Nat
        /\ accepted \in Seq(Task) /\ Len(accepted) \in Nat /\ taken \in Nat
    BY LenProperties DEF TypeInv, TypeOK
  <2>2. \A i \in taken + 1 .. Len(accepted) : accepted[i] \in Task
    BY <2>1, ElementOfSeq
  <2>3. /\ rest \in Seq(Task)
        /\ Len(rest) = IF taken + 1 <= Len(accepted)
                       THEN Len(accepted) - (taken + 1) + 1 ELSE 0
        /\ \A i \in 1..Len(accepted) - (taken + 1) + 1 :
             rest[i] = accepted[taken + 1 + i - 1]
    BY <2>1, <2>2, SubSeqProperties
  <2> HIDE DEF rest
  <2>4. Len(rest) = Len(queue)
    BY <2>1, <2>3 DEF OrderInv
  <2>5. ASSUME NEW i \in 1..Len(queue) PROVE queue[i] = rest[i]
    <3>1. /\ i \in 1..Len(accepted) - (taken + 1) + 1
          /\ taken + 1 + i - 1 = taken + i
      BY <2>1 DEF OrderInv
    <3>2. rest[i] = accepted[taken + i]
      BY <2>3, <3>1
    <3>3. QED
      BY <3>2 DEF OrderInv
  <2>6. queue = rest
    BY <2>1, <2>3, <2>4, <2>5, SeqEqual
  <2>7. QED
    BY <2>6 DEF rest
<1>3. QED
  BY <1>1, <1>2, OrderInvStep, TypeInvHolds, PTL DEF Spec

-----------------------------------------------------------------------------
(***************************************************************************)
(* The refinement: the processor implements the ledger                     *)
(***************************************************************************)

\* What the ledger sees of a state.
StatusOf == [t \in Task |-> LedgerStatus(t)]
Room == QueueSize + Cardinality(Worker)
PendingTasks == {t \in Task : StatusOf[t] = "pending"}

Busy == {w \in Worker : worker[w] # "recv"}

\* A pending task is in the channel or with a worker that is not at its receive:
\* there are at most as many as the channel holds and such workers.
LEMMA PendingFitsRoom ==
  ASSUME TypeInv, TasksConserved, IsFiniteSet(Busy)
  PROVE  /\ IsFiniteSet(PendingTasks)
         /\ Cardinality(PendingTasks) \in Nat
         /\ Cardinality(PendingTasks) <= Len(queue) + Cardinality(Busy)
<1> DEFINE Queued == {queue[i] : i \in 1..Len(queue)}
           Handling == {w \in Busy : hand[w] # NoTask}
           InHand == {hand[w] : w \in Handling}
<1>1. Len(queue) \in Nat
  BY LenProperties DEF TypeInv, TypeOK
<1>2. IsFiniteSet(Queued) /\ Cardinality(Queued) <= Len(queue) /\ Cardinality(Queued) \in Nat
  <2>1. [i \in 1..Len(queue) |-> queue[i]] \in Surjection(1..Len(queue), Queued)
    BY DEF Surjection
  <2>2. IsFiniteSet(1..Len(queue)) /\ Cardinality(1..Len(queue)) = Len(queue)
    <3>1. 1 \in Int /\ Len(queue) \in Int
      BY <1>1
    <3>2. /\ IsFiniteSet(1..Len(queue))
          /\ Cardinality(1..Len(queue)) = IF 1 > Len(queue) THEN 0 ELSE Len(queue) - 1 + 1
      BY <3>1, FS_Interval, Zenon
    <3> QED
      BY <1>1, <3>2
  <2> HIDE DEF Queued
  <2>3. IsFiniteSet(Queued) /\ Cardinality(Queued) <= Cardinality(1..Len(queue))
    BY <2>1, <2>2, FS_Surjection
  <2> QED
    BY <2>2, <2>3, FS_CardinalityType
<1>3. /\ IsFiniteSet(InHand) /\ Cardinality(InHand) \in Nat
      /\ Cardinality(InHand) <= Cardinality(Busy) /\ Cardinality(Busy) \in Nat
  <2>1. [w \in Handling |-> hand[w]] \in Surjection(Handling, InHand)
    BY DEF Surjection
  <2>2. /\ IsFiniteSet(Handling) /\ Cardinality(Handling) <= Cardinality(Busy)
        /\ Cardinality(Handling) \in Nat /\ Cardinality(Busy) \in Nat
    BY FS_Subset, FS_CardinalityType
  <2>3. IsFiniteSet(InHand) /\ Cardinality(InHand) <= Cardinality(Handling)
    BY <2>1, <2>2, FS_Surjection
  <2> QED
    BY <2>2, <2>3, FS_CardinalityType
<1>4. /\ IsFiniteSet(Queued \cup InHand) /\ Cardinality(Queued \cup InHand) \in Nat
      /\ Cardinality(Queued \cup InHand) <= Len(queue) + Cardinality(Busy)
  <2>1. /\ IsFiniteSet(Queued \cup InHand) /\ IsFiniteSet(Queued \cap InHand)
        /\ Cardinality(Queued \cup InHand) =
             Cardinality(Queued) + Cardinality(InHand) - Cardinality(Queued \cap InHand)
    BY <1>2, <1>3, FS_Union, FS_Subset
  <2>2. Cardinality(Queued \cap InHand) \in Nat /\ Cardinality(Queued \cup InHand) \in Nat
    BY <2>1, FS_CardinalityType
  <2> HIDE DEF Queued, InHand
  <2> QED
    BY <1>1, <1>2, <1>3, <2>1, <2>2
<1>5. PendingTasks \subseteq Queued \cup InHand
  <2> SUFFICES ASSUME NEW t \in PendingTasks PROVE t \in Queued \cup InHand
    OBVIOUS
  <2>1. t \in Task /\ call[t] = "accepted" /\ t \notin ran \cup ignored
    BY DEF PendingTasks, StatusOf, LedgerStatus, TypeInv, TypeOK, CallState
  <2>2. InQueue(t) \/ Held(t)
    BY <2>1 DEF TasksConserved, NothingLost
  <2>3. ASSUME NEW w \in Worker, hand[w] = t PROVE w \in Handling
    BY <2>1, <2>3 DEF Busy, TypeInv, HandMatchesWorker
  <2> QED
    BY <2>2, <2>3 DEF InQueue, Held
<1>6. IsFiniteSet(PendingTasks) /\ Cardinality(PendingTasks) <= Cardinality(Queued \cup InHand)
  BY <1>4, <1>5, FS_Subset
<1>7. Cardinality(PendingTasks) \in Nat
  BY <1>6, FS_CardinalityType
<1> HIDE DEF Queued, InHand
<1> QED
  BY <1>1, <1>3, <1>4, <1>6, <1>7

\* A step that changes neither the calls nor what is finished is a stutter.
LEMMA StatusUnchanged ==
  ASSUME UNCHANGED <<call, ran, ignored>>
  PROVE  UNCHANGED StatusOf
BY DEF StatusOf, LedgerStatus

\* An accepting send finds room in the ledger.
LEMMA AcceptStep ==
  ASSUME TypeInv, TasksConserved, GateInv, NEW t \in Task,
         SendToBuffer(t) \/ \E w \in Worker : SendToWorker(t, w)
  PROVE  Ledger!Accept(t)
<1>1. ~closed /\ ~closed'
  BY DEF GateInv, SendToBuffer, SendToWorker, RecordAccepted
<1>2. call[t] = "send" /\ call' = [call EXCEPT ![t] = "accepted"] /\ UNCHANGED <<ran, ignored>>
  BY DEF SendToBuffer, SendToWorker, RecordAccepted
<1>3. t \notin ran \cup ignored
  BY <1>2 DEF TasksConserved, NothingLost
<1>4. StatusOf[t] = "new"
  BY <1>2 DEF StatusOf, LedgerStatus
<1>5. StatusOf' = [StatusOf EXCEPT ![t] = "pending"]
  BY <1>2, <1>3 DEF StatusOf, LedgerStatus, TypeInv, TypeOK
<1>6. /\ IsFiniteSet(Busy) /\ Cardinality(Busy) \in Nat /\ Cardinality(Worker) \in Nat
      /\ Cardinality(Busy) <= Cardinality(Worker)
      /\ (\E w \in Worker : worker[w] = "recv") => Cardinality(Busy) < Cardinality(Worker)
  <2>1. Busy \in SUBSET Worker
    BY DEF Busy
  <2>2. /\ IsFiniteSet(Busy) /\ Cardinality(Busy) <= Cardinality(Worker)
        /\ Cardinality(Worker) = Cardinality(Busy) => Worker = Busy
    BY <2>1, FS_Subset, WorkerAssumption
  <2>3. Cardinality(Busy) \in Nat /\ Cardinality(Worker) \in Nat
    BY <2>2, FS_CardinalityType, WorkerAssumption
  <2>4. (\E w \in Worker : worker[w] = "recv") => Worker # Busy
    BY DEF Busy
  <2> QED
    BY <2>2, <2>3, <2>4
<1>7. /\ Cardinality(PendingTasks) \in Nat
      /\ Cardinality(PendingTasks) <= Len(queue) + Cardinality(Busy)
  BY <1>6, PendingFitsRoom
<1>8. Cardinality(PendingTasks) < Room
  <2>1. Len(queue) \in Nat /\ Len(queue) <= QueueSize
    BY LenProperties DEF TypeInv, TypeOK
  <2>2. CASE SendToBuffer(t)
    BY <1>6, <1>7, <2>1, <2>2 DEF SendToBuffer, Room
  <2>3. CASE \E w \in Worker : SendToWorker(t, w)
    <3>1. (\E w \in Worker : worker[w] = "recv")
      BY <2>3 DEF SendToWorker
    <3> QED
      BY <1>6, <1>7, <2>1, <3>1 DEF Room
  <2> QED
    BY <2>2, <2>3
<1>9. Ledger!Pending = PendingTasks
  BY DEF Ledger!Pending, PendingTasks, StatusOf
<1>10. Ledger!Cardinality(Ledger!Pending) < QueueSize + Cardinality(Worker)
  <2>1. Ledger!Cardinality(Ledger!Pending) = Cardinality(Ledger!Pending)
    BY DEF Cardinality, Ledger!Cardinality
  <2> QED
    BY <1>8, <1>9, <2>1 DEF Room
<1>11. /\ [u \in Task |-> LedgerStatus(u)][t] = "new"
       /\ [u \in Task |-> LedgerStatus(u)]' =
             [[u \in Task |-> LedgerStatus(u)] EXCEPT ![t] = "pending"]
  BY <1>4, <1>5 DEF StatusOf
<1>12. ~closed /\ UNCHANGED (~closed)
  BY <1>1
<1> QED
  BY <1>4, <1>5, <1>10, <1>12 DEF Ledger!Accept, StatusOf

\* A refused call is answered and nothing else happens.
LEMMA RejectStep ==
  ASSUME TypeInv, NEW t \in Task, call[t] \in {"idle", "send"}, NEW answer,
         answer \in {"full", "refused"},
         call' = [call EXCEPT ![t] = answer], UNCHANGED <<closed, ran, ignored>>
  PROVE  Ledger!Reject(t)
<1>1. StatusOf[t] = "new"
  BY DEF StatusOf, LedgerStatus
<1>2. StatusOf' = [StatusOf EXCEPT ![t] = "rejected"]
  BY DEF StatusOf, LedgerStatus, TypeInv, TypeOK
<1> QED
  BY <1>1, <1>2 DEF Ledger!Reject, StatusOf

\* The task a worker lets go was accepted, and by one worker only.
LEMMA FinishStep ==
  ASSUME TypeInv, TasksConserved, NEW w \in Worker, worker[w] \in {"lookup", "handle"},
         UNCHANGED <<call, closed>>, ran' \cup ignored' = ran \cup ignored \cup {hand[w]}
  PROVE  Ledger!Finish(hand[w])
<1>1. hand[w] \in Task /\ Held(hand[w])
  BY DEF TypeInv, HandMatchesWorker, Held
<1>2. call[hand[w]] = "accepted" /\ hand[w] \notin ran \cup ignored
  BY <1>1 DEF TasksConserved, NothingLost, NothingTwice
<1>3. StatusOf[hand[w]] = "pending"
  BY <1>1, <1>2 DEF StatusOf, LedgerStatus
<1>4. StatusOf' = [StatusOf EXCEPT ![hand[w]] = "done"]
  <2> SUFFICES ASSUME NEW t \in Task
               PROVE  LedgerStatus(t)' = IF t = hand[w] THEN "done" ELSE LedgerStatus(t)
    BY DEF StatusOf
  <2>1. CASE t = hand[w]
    BY <1>1, <1>2, <2>1 DEF LedgerStatus
  <2>2. CASE t # hand[w]
    <3>1. t \in ran' \cup ignored' <=> t \in ran \cup ignored
      BY <2>2
    <3> QED
      BY <2>2, <3>1 DEF LedgerStatus
  <2> QED
    BY <2>1, <2>2
<1> QED
  BY <1>3, <1>4 DEF Ledger!Finish, StatusOf

\* Every step of the processor is a step of the ledger, or one it does not see.
LEMMA LedgerStep ==
  TypeInv /\ GateInv /\ TasksConserved /\ [Next]_vars =>
    [Ledger!LedgerNext]_(Ledger!ledgerVars)
<1> SUFFICES ASSUME TypeInv, GateInv, TasksConserved, [Next]_vars
             PROVE  Ledger!LedgerNext \/ UNCHANGED <<StatusOf, closed>>
  BY DEF Ledger!ledgerVars, StatusOf
<1>1. CASE Stop
  <2>1. ~closed /\ closed' /\ UNCHANGED StatusOf
    BY <1>1, StatusUnchanged DEF Stop, GateInv, history, TypeInv, TypeOK
  <2> QED
    BY <2>1 DEF Ledger!LedgerNext, Ledger!Shut, StatusOf
<1>2. ASSUME NEW t \in Task, SubmitTaskCheck(t)
      PROVE  Ledger!LedgerNext \/ UNCHANGED <<StatusOf, closed>>
  <2>1. CASE running
    <3>1. call' = [call EXCEPT ![t] = "send"] /\ call[t] = "idle" /\ UNCHANGED <<closed, ran, ignored>>
      BY <1>2, <2>1 DEF SubmitTaskCheck, history
    <3>2. UNCHANGED StatusOf
      BY <3>1 DEF StatusOf, LedgerStatus, TypeInv, TypeOK
    <3> QED
      BY <3>1, <3>2
  <2>2. CASE ~running
    <3>1. Ledger!Reject(t)
      BY <1>2, <2>2, RejectStep DEF SubmitTaskCheck, history
    <3> QED
      BY <3>1 DEF Ledger!LedgerNext
  <2> QED
    BY <2>1, <2>2
<1>3. ASSUME NEW t \in Task, SendFull(t)
      PROVE  Ledger!LedgerNext \/ UNCHANGED <<StatusOf, closed>>
  <2>1. Ledger!Reject(t)
    BY <1>3, RejectStep DEF SendFull, history
  <2> QED
    BY <2>1 DEF Ledger!LedgerNext
<1>4. ASSUME NEW t \in Task, SendToBuffer(t) \/ \E w \in Worker : SendToWorker(t, w)
      PROVE  Ledger!LedgerNext \/ UNCHANGED <<StatusOf, closed>>
  BY <1>4, AcceptStep DEF Ledger!LedgerNext
<1>5. ASSUME NEW w \in Worker, LookupMissing(w) \/ HandlerReturns(w)
      PROVE  Ledger!LedgerNext \/ UNCHANGED <<StatusOf, closed>>
  <2>1. Ledger!Finish(hand[w]) /\ hand[w] \in Task
    BY <1>5, FinishStep DEF LookupMissing, HandlerReturns, TypeInv, HandMatchesWorker
  <2> QED
    BY <2>1 DEF Ledger!LedgerNext
<1>6. CASE UNCHANGED <<call, ran, ignored, closed>>
  BY <1>6, StatusUnchanged
<1>7. \/ Stop \/ UNCHANGED <<call, ran, ignored, closed>>
      \/ \E t \in Task : \/ SubmitTaskCheck(t) \/ SendFull(t)
                         \/ SendToBuffer(t) \/ \E w \in Worker : SendToWorker(t, w)
      \/ \E w \in Worker : LookupMissing(w) \/ HandlerReturns(w)
  BY DEF Next, SubmitStep, WorkerStep, Start, RegisterHandlerBegin, RegisterHandlerEnd,
         WorkerReceive, WorkerExit, LookupFound, LookupRace, vars, history
<1> QED
  BY <1>1, <1>2, <1>3, <1>4, <1>5, <1>6, <1>7

\* Seen from SubmitTask, Start, Stop, registrations and workers in any order are
\* a ledger with room for the queue and the workers: a task is answered once, an
\* accepted one stays pending until it is finished, and none is accepted after Stop.
THEOREM ProcessorImplementsLedger == Spec => ImplementsLedger
<1>1. Init => Ledger!LedgerInit
  BY DEF Init, Ledger!LedgerInit, LedgerStatus
<1>2. Spec => []GateInv
  <2>1. Init => GateInv
    BY DEF Init, GateInv
  <2> QED
    BY <2>1, GateInvStep, TypeInvHolds, PTL DEF Spec
<1> QED
  BY <1>1, <1>2, LedgerStep, TypeInvHolds, Conservation, PTL
     DEF Spec, ImplementsLedger, Ledger!LedgerSpec
=============================================================================
