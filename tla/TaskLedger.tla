------------------------------ MODULE TaskLedger ------------------------------
(***************************************************************************)
(* What the asynchronous processors of pkg/client and pkg/server promise   *)
(* to the caller of SubmitTask, with no queue, lock or worker in sight: a  *)
(* task is answered once, an accepted task stays pending until it is       *)
(* finished, at most Capacity tasks are pending, and nothing is accepted   *)
(* once the gate is shut.                                                  *)
(***************************************************************************)
EXTENDS Naturals, FiniteSets

CONSTANTS
  Task,      \* submissions
  Capacity   \* queue slots plus workers

VARIABLES
  status,    \* Task -> the answer to, and the progress of, each submission
  open       \* TRUE until Stop

ledgerVars == <<status, open>>

Pending == {t \in Task : status[t] = "pending"}

LedgerInit ==
  /\ status = [t \in Task |-> "new"]
  /\ open = TRUE

Accept(t) ==
  /\ open
  /\ status[t] = "new"
  /\ Cardinality(Pending) < Capacity
  /\ status' = [status EXCEPT ![t] = "pending"]
  /\ UNCHANGED open

\* SubmitTask may answer with an error at any time: shut gate or no room.
Reject(t) ==
  /\ status[t] = "new"
  /\ status' = [status EXCEPT ![t] = "rejected"]
  /\ UNCHANGED open

Finish(t) ==
  /\ status[t] = "pending"
  /\ status' = [status EXCEPT ![t] = "done"]
  /\ UNCHANGED open

Shut ==
  /\ open
  /\ open' = FALSE
  /\ UNCHANGED status

LedgerNext ==
  \/ \E t \in Task : Accept(t) \/ Reject(t) \/ Finish(t)
  \/ Shut

LedgerSpec == LedgerInit /\ [][LedgerNext]_ledgerVars
===============================================================================
