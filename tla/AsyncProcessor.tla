---------------------------- MODULE AsyncProcessor ----------------------------
(***************************************************************************)
(* AsyncProcessor of pkg/client/client.go, and its twin                    *)
(* ServerAsyncProcessor of pkg/server/server.go: a bounded channel of      *)
(* tasks, a fixed set of worker goroutines ranging over it, a map of       *)
(* handlers, and a read-write mutex held by Start, Stop, RegisterHandler   *)
(* (write) and SubmitTask (read) but NOT by the workers, who read the      *)
(* handler map with no lock.                                               *)
(*                                                                         *)
(* SubmitTask and RegisterHandler are split where another goroutine can    *)
(* see the middle: SubmitTask between its test of running and its send,    *)
(* RegisterHandler while the map is being written.                         *)
(***************************************************************************)
EXTENDS Naturals, Sequences, FiniteSets

CONSTANTS
  Task,       \* one element per call of SubmitTask
  Type,       \* task types, the keys of the handler map
  TypeOf,     \* Task -> Type
  Worker,     \* worker goroutines
  QueueSize,  \* capacity of the channel
  NoTask,     \* "no task in hand"
  NoType      \* "no registration in progress"

ASSUME TypeOfAssumption == TypeOf \in [Task -> Type]
ASSUME QueueSizeAssumption == QueueSize \in Nat
ASSUME WorkerAssumption == IsFiniteSet(Worker)
ASSUME NoTaskAssumption == NoTask \notin Task
ASSUME NoTypeAssumption == NoType \notin Type

VARIABLES
  running,      \* ap.running
  closed,       \* close(ap.queue) has happened
  queue,        \* the buffer of the channel
  handlers,     \* the keys of ap.handlers
  registering,  \* the type a RegisterHandler holding the lock is storing
  call,         \* Task -> progress and answer of its SubmitTask
  worker,       \* Worker -> where the goroutine is in its loop
  hand,         \* Worker -> the task it received and has not finished
  fatal,        \* the runtime ended the process: concurrent map access
  accepted,     \* history: tasks in the order the channel took them
  taken,        \* history: how many of them the workers have received
  ran,          \* history: tasks whose handler returned
  ignored,      \* history: tasks dropped because no handler was found
  known,        \* history: tasks whose type had a handler when accepted
  lateReg       \* history: a registration began after a task was accepted

vars == <<running, closed, queue, handlers, registering, call, worker, hand,
          fatal, accepted, taken, ran, ignored, known, lateReg>>

history == <<accepted, taken, ran, ignored, known, lateReg>>

CallState == {"idle", "send", "accepted", "full", "refused"}
WorkerState == {"none", "recv", "lookup", "handle", "exited"}

TypeOK ==
  /\ running \in BOOLEAN /\ closed \in BOOLEAN
  /\ queue \in Seq(Task) /\ Len(queue) <= QueueSize
  /\ handlers \in SUBSET Type
  /\ registering \in Type \cup {NoType}
  /\ call \in [Task -> CallState]
  /\ worker \in [Worker -> WorkerState]
  /\ hand \in [Worker -> Task \cup {NoTask}]
  /\ fatal \in BOOLEAN
  /\ accepted \in Seq(Task)
  /\ taken \in Nat
  /\ ran \in SUBSET Task /\ ignored \in SUBSET Task /\ known \in SUBSET Task
  /\ lateReg \in BOOLEAN

(***************************************************************************)
(* The read-write mutex ap.mu: a submission at "send" holds it for         *)
(* reading, a registration in progress holds it for writing.               *)
(***************************************************************************)
Readers == {t \in Task : call[t] = "send"}
CanRLock == registering = NoType
CanLock == registering = NoType /\ Readers = {}

\* The constructor calls Start before anybody else has the processor.
Started == running \/ closed
Alive == ~fatal

Init ==
  /\ running = FALSE /\ closed = FALSE
  /\ queue = <<>>
  /\ handlers = {} /\ registering = NoType
  /\ call = [t \in Task |-> "idle"]
  /\ worker = [w \in Worker |-> "none"]
  /\ hand = [w \in Worker |-> NoTask]
  /\ fatal = FALSE
  /\ accepted = <<>> /\ taken = 0
  /\ ran = {} /\ ignored = {} /\ known = {}
  /\ lateReg = FALSE

(***************************************************************************)
(* Start, Stop, RegisterHandler                                            *)
(***************************************************************************)

\* Called once, by NewClient and by the server's New.
Start ==
  /\ Alive /\ ~Started /\ CanLock
  /\ ~running
  /\ running' = TRUE
  /\ worker' = [w \in Worker |-> "recv"]
  /\ UNCHANGED <<closed, queue, handlers, registering, call, hand, fatal,
                 history>>

\* Mutant: Stop without the write lock.
StopUnlocked ==
  /\ Alive /\ Started /\ running
  /\ running' = FALSE
  /\ closed' = TRUE
  /\ UNCHANGED <<queue, handlers, registering, call, worker, hand, fatal,
                 history>>

\* Mutant: Stop closes the channel and forgets the running flag.
StopStillRunning ==
  /\ Alive /\ Started /\ CanLock
  /\ running /\ ~closed
  /\ closed' = TRUE
  /\ UNCHANGED <<running, queue, handlers, registering, call, worker, hand,
                 fatal, history>>

\* The mutex lets no submission be between its test and its send.
Stop ==
  /\ Alive /\ Started /\ CanLock
  /\ running
  /\ running' = FALSE
  /\ closed' = TRUE
  /\ UNCHANGED <<queue, handlers, registering, call, worker, hand, fatal,
                 history>>

RegisterHandlerBegin(ty) ==
  /\ Alive /\ Started /\ CanLock
  /\ registering' = ty
  /\ lateReg' = (lateReg \/ accepted # <<>>)
  /\ UNCHANGED <<running, closed, queue, handlers, call, worker, hand, fatal,
                 accepted, taken, ran, ignored, known>>

\* Mutant: the handler map is replaced instead of extended.
RegisterHandlerEndReplace ==
  /\ Alive /\ registering # NoType
  /\ handlers' = {registering}
  /\ registering' = NoType
  /\ UNCHANGED <<running, closed, queue, call, worker, hand, fatal, history>>

RegisterHandlerEnd ==
  /\ Alive /\ registering # NoType
  /\ handlers' = handlers \cup {registering}
  /\ registering' = NoType
  /\ UNCHANGED <<running, closed, queue, call, worker, hand, fatal, history>>

(***************************************************************************)
(* SubmitTask: take the read lock and test running; then the select, which *)
(* sends if the channel can take the task at once and fails otherwise.     *)
(***************************************************************************)
SubmitTaskCheck(t) ==
  /\ Alive /\ Started /\ CanRLock
  /\ call[t] = "idle"
  /\ call' = [call EXCEPT ![t] = IF running THEN "send" ELSE "refused"]
  /\ UNCHANGED <<running, closed, queue, handlers, registering, worker, hand,
                 fatal, history>>

\* What a send records, whichever way the channel takes the task.
RecordAccepted(t) ==
  /\ call' = [call EXCEPT ![t] = "accepted"]
  /\ accepted' = Append(accepted, t)
  /\ known' = IF TypeOf[t] \in handlers THEN known \cup {t} ELSE known
  /\ UNCHANGED <<running, closed, handlers, registering, fatal, ran, ignored,
                 lateReg>>

SendToBuffer(t) ==
  /\ Alive /\ call[t] = "send"
  /\ Len(queue) < QueueSize
  /\ queue' = Append(queue, t)
  /\ RecordAccepted(t)
  /\ UNCHANGED <<worker, hand, taken>>

\* A worker parked on the empty channel gets the task without the buffer.
SendToWorker(t, w) ==
  /\ Alive /\ call[t] = "send"
  /\ queue = <<>> /\ worker[w] = "recv"
  /\ worker' = [worker EXCEPT ![w] = "lookup"]
  /\ hand' = [hand EXCEPT ![w] = t]
  /\ taken' = taken + 1
  /\ RecordAccepted(t)
  /\ UNCHANGED queue

SendFull(t) ==
  /\ Alive /\ call[t] = "send"
  /\ Len(queue) >= QueueSize
  /\ call' = [call EXCEPT ![t] = "full"]
  /\ UNCHANGED <<running, closed, queue, handlers, registering, worker, hand,
                 fatal, history>>

(***************************************************************************)
(* worker: for task := range ap.queue                                      *)
(***************************************************************************)
WorkerReceive(w) ==
  /\ Alive /\ worker[w] = "recv" /\ queue # <<>>
  /\ hand' = [hand EXCEPT ![w] = Head(queue)]
  /\ queue' = Tail(queue)
  /\ taken' = taken + 1
  /\ worker' = [worker EXCEPT ![w] = "lookup"]
  /\ UNCHANGED <<running, closed, handlers, registering, call, fatal,
                 accepted, ran, ignored, known, lateReg>>

\* Mutant: the worker that sees the close takes the others' wakeup with it.
WorkerExitOnce(w) ==
  /\ Alive /\ worker[w] = "recv" /\ queue = <<>> /\ closed
  /\ \A v \in Worker : worker[v] # "exited"
  /\ worker' = [worker EXCEPT ![w] = "exited"]
  /\ UNCHANGED <<running, closed, queue, handlers, registering, call, hand,
                 fatal, history>>

\* The range ends when the channel is closed and empty.
WorkerExit(w) ==
  /\ Alive /\ worker[w] = "recv" /\ queue = <<>> /\ closed
  /\ worker' = [worker EXCEPT ![w] = "exited"]
  /\ UNCHANGED <<running, closed, queue, handlers, registering, call, hand,
                 fatal, history>>

\* A lookup that overlaps a write of the map sees it before or after.
SeesHandler(w) ==
  TypeOf[hand[w]] \in handlers \cup (IF registering = NoType THEN {} ELSE {registering})
MissesHandler(w) == TypeOf[hand[w]] \notin handlers

LookupFound(w) ==
  /\ Alive /\ worker[w] = "lookup" /\ SeesHandler(w)
  /\ worker' = [worker EXCEPT ![w] = "handle"]
  /\ UNCHANGED <<running, closed, queue, handlers, registering, call, hand,
                 fatal, history>>

LookupMissing(w) ==
  /\ Alive /\ worker[w] = "lookup" /\ MissesHandler(w)
  /\ ignored' = ignored \cup {hand[w]}
  /\ hand' = [hand EXCEPT ![w] = NoTask]
  /\ worker' = [worker EXCEPT ![w] = "recv"]
  /\ UNCHANGED <<running, closed, queue, handlers, registering, call, fatal,
                 accepted, taken, ran, known, lateReg>>

\* ... or the runtime notices the overlap and ends the process.
LookupRace(w) ==
  /\ Alive /\ worker[w] = "lookup" /\ registering # NoType
  /\ fatal' = TRUE
  /\ UNCHANGED <<running, closed, queue, handlers, registering, call, worker,
                 hand, history>>

\* The handler returns; its error is only printed.
HandlerReturns(w) ==
  /\ Alive /\ worker[w] = "handle"
  /\ ran' = ran \cup {hand[w]}
  /\ hand' = [hand EXCEPT ![w] = NoTask]
  /\ worker' = [worker EXCEPT ![w] = "recv"]
  /\ UNCHANGED <<running, closed, queue, handlers, registering, call, fatal,
                 accepted, taken, ignored, known, lateReg>>

WorkerStep(w) ==
  \/ WorkerReceive(w) \/ WorkerExit(w)
  \/ LookupFound(w) \/ LookupMissing(w) \/ LookupRace(w)
  \/ HandlerReturns(w)

SubmitStep(t) ==
  \/ SubmitTaskCheck(t)
  \/ SendToBuffer(t) \/ SendFull(t)
  \/ \E w \in Worker : SendToWorker(t, w)

Next ==
  \/ Start \/ Stop
  \/ \E ty \in Type : RegisterHandlerBegin(ty)
  \/ RegisterHandlerEnd
  \/ \E t \in Task : SubmitStep(t)
  \/ \E w \in Worker : WorkerStep(w)

Spec == Init /\ [][Next]_vars

(***************************************************************************)
(* Goroutines that can run do run: the scheduler is fair, a handler        *)
(* returns, and a call inside its critical section leaves it. Nobody is    *)
(* obliged to submit, register or stop.                                    *)
(***************************************************************************)
Fairness ==
  /\ WF_vars(Start)
  /\ WF_vars(RegisterHandlerEnd)
  /\ \A w \in Worker : WF_vars(WorkerStep(w))
  /\ \A t \in Task : WF_vars(call[t] = "send" /\ SubmitStep(t))

FairSpec == Spec /\ Fairness

(***************************************************************************)
(* Properties                                                              *)
(***************************************************************************)

\* No submission that passed the running test finds the channel closed: the
\* read lock held from the test to the send keeps Stop's close() out, so
\* SubmitTask never panics with a send on a closed channel.
NoSendOnClosed == \A t \in Task : call[t] = "send" => ~closed

InQueue(t) == \E i \in 1..Len(queue) : queue[i] = t
Held(t) == \E w \in Worker : hand[w] = t

\* A task for which SubmitTask returned nil is in the channel, with a worker,
\* run or ignored; nothing else is.
NothingLost ==
  \A t \in Task :
    call[t] = "accepted" <=> \/ InQueue(t) \/ Held(t)
                             \/ t \in ran \/ t \in ignored

\* No task is in two of those places, or twice in one.
NothingTwice ==
  /\ \A i, j \in 1..Len(queue) : queue[i] = queue[j] => i = j
  /\ \A v, w \in Worker : hand[v] = hand[w] /\ hand[v] # NoTask => v = w
  /\ \A t \in Task : ~(InQueue(t) /\ Held(t))
  /\ \A t \in ran \cup ignored : ~InQueue(t) /\ ~Held(t)
  /\ ran \cap ignored = {}

\* Every accepted task is dispatched exactly once, whatever the interleaving
\* of submitters, workers, Stop and registrations.
TasksConserved == NothingLost /\ NothingTwice

\* Workers receive tasks in the order the channel accepted them: what is left
\* in the channel is what was accepted and not yet received, in order.
DispatchInOrder == queue = SubSeq(accepted, taken + 1, Len(accepted))

\* A task whose handler was registered before the task was accepted is never
\* silently ignored by the worker that looks the handler up without a lock.
RegisteredHandlerRuns == known \cap ignored = {}

\* The unlocked read of the handler map is fatal only to programs that
\* register a handler after a task was accepted: registering everything
\* first, as the documented usage does, is safe.
FatalNeedsLateRegistration == fatal => lateReg

\* Once Stop has closed the channel no step makes another task accepted.
NothingAcceptedAfterStop == [][closed => UNCHANGED accepted]_vars

\* Every accepted task is finished, even when Stop comes first: workers drain
\* the closed channel. Only a fatal error of the process prevents it.
AcceptedTasksFinish ==
  LET AllFinished == \A t \in Task : call[t] = "accepted" => t \in ran \cup ignored
  IN  ~AllFinished ~> (AllFinished \/ fatal)

\* After Stop every worker goroutine ends: none is leaked.
WorkersExitAfterStop ==
  closed ~> (fatal \/ \A w \in Worker : worker[w] = "exited")

(***************************************************************************)
(* The processor implements the ledger its callers rely on.                *)
(***************************************************************************)
LedgerStatus(t) ==
  CASE call[t] \in {"idle", "send"} -> "new"
    [] call[t] \in {"full", "refused"} -> "rejected"
    [] call[t] = "accepted" /\ t \notin ran \cup ignored -> "pending"
    [] OTHER -> "done"

Ledger == INSTANCE TaskLedger
            WITH status <- [t \in Task |-> LedgerStatus(t)],
                 open <- ~closed,
                 Capacity <- QueueSize + Cardinality(Worker)

\* Seen from SubmitTask, the processor is a ledger with room for QueueSize
\* queued tasks and one task per worker that answers each submission once and
\* accepts nothing after Stop.
ImplementsLedger == Ledger!LedgerSpec
===============================================================================
