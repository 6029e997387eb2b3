------------------------------- MODULE EtcdWatch -------------------------------
(***************************************************************************)
(* EtcdRegistry.Watch and the goroutine it starts (pkg/registry/etcd.go),  *)
(* with the part of Close that concerns watches.                           *)
(*                                                                         *)
(* What etcd holds for a service name is abstracted to the number of       *)
(* changes made to it: a list of services is the number at which Discover  *)
(* read it. A watch stream reports the changes made after it was opened.   *)
(* Once the client or the stream's context is closed, the stream is a      *)
(* closed channel: receiving from it yields the zero WatchResponse at      *)
(* once, and its Err() is nil.                                             *)
(***************************************************************************)
EXTENDS Naturals, Sequences

CONSTANTS
  Watcher,     \* calls of Watch
  Name,        \* service names
  MaxChanges,  \* bound: changes per service name
  None         \* no watcher

ASSUME WatchConstants == MaxChanges \in Nat /\ None \notin Watcher

VARIABLES
  current,    \* Name -> changes made so far
  watchers,   \* r.watchers: Name -> the call whose cancel is stored, or None
  closed,     \* the client is closed
  pc,         \* Watcher -> where the call or its goroutine is
  name,       \* Watcher -> the name it watches
  ch,         \* Watcher -> the channel of lists, capacity 1
  event,      \* Watcher -> the stream holds a response
  found,      \* Watcher -> the list the goroutine is sending
  cancelled,  \* Watcher -> watchCtx is done
  seen,       \* Watcher -> the last list its consumer received
  opened,     \* history: Watcher -> current when the stream was opened
  dropped     \* history: watchers that lost a response to a failed Discover

vars == <<current, watchers, closed, pc, name, ch, event, found, cancelled,
          seen, opened, dropped>>

Count == 0..MaxChanges
InLoop == {"watching", "refreshing", "sending"}
Running == {"opening", "returning"} \cup InLoop

TypeOK ==
  /\ current \in [Name -> Count]
  /\ watchers \in [Name -> Watcher \cup {None}]
  /\ closed \in BOOLEAN
  /\ pc \in [Watcher -> {"idle", "listed", "ended"} \cup Running]
  /\ name \in [Watcher -> Name]
  /\ ch \in [Watcher -> Seq(Count)] /\ \A w \in Watcher : Len(ch[w]) <= 1
  /\ event \in [Watcher -> BOOLEAN]
  /\ found \in [Watcher -> Count]
  /\ cancelled \in [Watcher -> BOOLEAN]
  /\ seen \in [Watcher -> Count]
  /\ opened \in [Watcher -> Count]
  /\ dropped \in SUBSET Watcher

Init ==
  /\ current = [n \in Name |-> 0]
  /\ watchers = [n \in Name |-> None]
  /\ closed = FALSE
  /\ pc = [w \in Watcher |-> "idle"]
  /\ name \in [Watcher -> Name]
  /\ ch = [w \in Watcher |-> <<>>]
  /\ event = [w \in Watcher |-> FALSE]
  /\ found = [w \in Watcher |-> 0]
  /\ cancelled = [w \in Watcher |-> FALSE]
  /\ seen = [w \in Watcher |-> 0]
  /\ opened = [w \in Watcher |-> 0]
  /\ dropped = {}

Goto(w, at) == pc' = [pc EXCEPT ![w] = at]

(***************************************************************************)
(* Watch                                                                   *)
(***************************************************************************)

\* The first Discover, its list put in the new channel.
WatchDiscover(w) ==
  /\ pc[w] = "idle" /\ ~closed
  /\ Goto(w, "listed")
  /\ ch' = [ch EXCEPT ![w] = <<current[name[w]]>>]
  /\ UNCHANGED <<current, watchers, closed, name, event, found, cancelled,
                 seen, opened, dropped>>

\* Under r.mu the cancel function is stored, replacing any other for the name,
\* and the goroutine starts. The registry may have been closed meanwhile.
WatchStore(w) ==
  /\ pc[w] = "listed"
  /\ Goto(w, "opening")
  /\ watchers' = [watchers EXCEPT ![name[w]] = w]
  /\ UNCHANGED <<current, closed, name, ch, event, found, cancelled, seen,
                 opened, dropped>>

(***************************************************************************)
(* The goroutine                                                           *)
(***************************************************************************)

\* client.Watch: the stream reports changes from here on.
OpenStream(w) ==
  /\ pc[w] = "opening"
  /\ Goto(w, "watching")
  /\ opened' = [opened EXCEPT ![w] = current[name[w]]]
  /\ UNCHANGED <<current, watchers, closed, name, ch, event, found, cancelled,
                 seen, dropped>>

StreamClosed(w) == closed \/ cancelled[w]

\* A response without error, or the zero response of a closed stream.
ReceiveResponse(w) ==
  /\ pc[w] = "watching"
  /\ event[w] \/ StreamClosed(w)
  /\ Goto(w, "refreshing")
  /\ event' = [event EXCEPT ![w] = FALSE]
  /\ UNCHANGED <<current, watchers, closed, name, ch, found, cancelled, seen,
                 opened, dropped>>

\* A response with an error ends the goroutine.
ReceiveError(w) ==
  /\ pc[w] = "watching" /\ ~StreamClosed(w)
  /\ Goto(w, "returning")
  /\ UNCHANGED <<current, watchers, closed, name, ch, event, found, cancelled,
                 seen, opened, dropped>>

\* Mutant: the list is not fetched again; the one known at the start is sent.
RefreshStale(w) ==
  /\ pc[w] = "refreshing" /\ ~closed
  /\ Goto(w, "sending")
  /\ found' = [found EXCEPT ![w] = opened[w]]
  /\ UNCHANGED <<current, watchers, closed, name, ch, event, cancelled, seen,
                 opened, dropped>>

\* Mutant: Discover reads from a member of etcd that lags behind.
RefreshLagging(w) ==
  /\ pc[w] = "refreshing" /\ ~closed
  /\ Goto(w, "sending")
  /\ \E v \in 0..current[name[w]] : found' = [found EXCEPT ![w] = v]
  /\ UNCHANGED <<current, watchers, closed, name, ch, event, cancelled, seen,
                 opened, dropped>>

\* Discover with a background context: it works on a cancelled watch too.
Refresh(w) ==
  /\ pc[w] = "refreshing" /\ ~closed
  /\ Goto(w, "sending")
  /\ found' = [found EXCEPT ![w] = current[name[w]]]
  /\ UNCHANGED <<current, watchers, closed, name, ch, event, cancelled, seen,
                 opened, dropped>>

\* Discover fails, as it always does on a closed client: the loop continues and
\* the response is lost.
RefreshFails(w) ==
  /\ pc[w] = "refreshing"
  /\ Goto(w, "watching")
  /\ dropped' = dropped \cup {w}
  /\ UNCHANGED <<current, watchers, closed, name, ch, event, found, cancelled,
                 seen, opened>>

\* ch <- services waits for room.
SendList(w) ==
  /\ pc[w] = "sending" /\ ch[w] = <<>>
  /\ Goto(w, "watching")
  /\ ch' = [ch EXCEPT ![w] = <<found[w]>>]
  /\ UNCHANGED <<current, watchers, closed, name, event, found, cancelled,
                 seen, opened, dropped>>

\* Mutant: only the outer select looks at watchCtx.
WatchDoneOuter(w) ==
  /\ pc[w] = "watching" /\ cancelled[w]
  /\ Goto(w, "returning")
  /\ UNCHANGED <<current, watchers, closed, name, ch, event, found, cancelled,
                 seen, opened, dropped>>

\* Both selects have a watchCtx.Done() case.
WatchDone(w) ==
  /\ pc[w] \in {"watching", "sending"} /\ cancelled[w]
  /\ Goto(w, "returning")
  /\ UNCHANGED <<current, watchers, closed, name, ch, event, found, cancelled,
                 seen, opened, dropped>>

\* The deferred calls: whatever is stored for the name is deleted, the channel
\* is closed.
Return(w) ==
  /\ pc[w] = "returning"
  /\ Goto(w, "ended")
  /\ watchers' = [watchers EXCEPT ![name[w]] = None]
  /\ UNCHANGED <<current, closed, name, ch, event, found, cancelled, seen,
                 opened, dropped>>

(***************************************************************************)
(* The rest of the world                                                   *)
(***************************************************************************)

\* Close cancels the watches stored and closes the client.
Close ==
  /\ ~closed
  /\ closed' = TRUE
  /\ cancelled' = [w \in Watcher |-> cancelled[w] \/ \E n \in Name : watchers[n] = w]
  /\ watchers' = [n \in Name |-> None]
  /\ UNCHANGED <<current, pc, name, ch, event, found, seen, opened, dropped>>

\* The caller's own context, the parent of watchCtx, is cancelled.
CallerCancels(w) ==
  /\ pc[w] \notin {"idle", "ended"} /\ ~cancelled[w]
  /\ cancelled' = [cancelled EXCEPT ![w] = TRUE]
  /\ UNCHANGED <<current, watchers, closed, pc, name, ch, event, found, seen,
                 opened, dropped>>

\* The consumer takes a list off the channel.
Receive(w) ==
  /\ ch[w] # <<>>
  /\ seen' = [seen EXCEPT ![w] = Head(ch[w])]
  /\ ch' = [ch EXCEPT ![w] = Tail(@)]
  /\ UNCHANGED <<current, watchers, closed, pc, name, event, found, cancelled,
                 opened, dropped>>

\* A service of the name is registered, deregistered or expires.
Change(n) ==
  /\ current[n] < MaxChanges
  /\ current' = [current EXCEPT ![n] = @ + 1]
  /\ event' = [w \in Watcher |->
                 event[w] \/ (name[w] = n /\ pc[w] \in InLoop /\ ~StreamClosed(w))]
  /\ UNCHANGED <<watchers, closed, pc, name, ch, found, cancelled, seen, opened,
                 dropped>>

Goroutine(w) ==
  \/ OpenStream(w) \/ ReceiveResponse(w) \/ Refresh(w) \/ RefreshFails(w)
  \/ SendList(w) \/ Return(w)

Next ==
  \/ \E w \in Watcher :
       \/ WatchDiscover(w) \/ WatchStore(w)
       \/ Goroutine(w) \/ ReceiveError(w) \/ WatchDone(w)
       \/ CallerCancels(w) \/ Receive(w)
  \/ \E n \in Name : Change(n)
  \/ Close

Spec == Init /\ [][Next]_vars

\* A call of Watch finishes, goroutines run, and consumers receive until their
\* watch is cancelled. A select whose Done case stays ready takes it in the end,
\* for select chooses at random.
Fairness ==
  \A w \in Watcher :
    /\ WF_vars(WatchStore(w))
    /\ WF_vars(Goroutine(w))
    /\ SF_vars(WatchDone(w))
    /\ WF_vars(~cancelled[w] /\ Receive(w))

FairSpec == Spec /\ Fairness

(***************************************************************************)
(* Properties                                                              *)
(***************************************************************************)

\* A consumer's view never goes back in time: the lists one watch sends were
\* read in order, though each is read after the change that triggered it.
ViewsMoveForward == [][\A w \in Watcher : seen'[w] >= seen[w]]_vars

\* The goroutine of a watch that is cancelled, by its caller or by Close, ends
\* and closes the channel, even if it is blocked on a channel nobody receives from
\* any more or turning on a closed stream.
CancelledWatchEnds == \A w \in Watcher : cancelled[w] ~> pc[w] = "ended"

Unbroken(w) ==
  pc[w] # "ended" /\ ~cancelled[w] /\ ~closed /\ w \notin dropped

\* A change made once the stream is open reaches the consumer, unless the watch
\* is cancelled, broken or closed, or a Discover fails.
LaterChangesSeen ==
  \A w \in Watcher, v \in Count :
    (pc[w] \in InLoop /\ opened[w] < v /\ current[name[w]] = v)
      ~> (seen[w] >= v \/ ~Unbroken(w))

\* After Close no watch goroutine is left.
CloseEndsWatches ==
  \A w \in Watcher : (closed /\ pc[w] \in Running) ~> pc[w] = "ended"
===============================================================================
