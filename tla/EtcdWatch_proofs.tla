--------------------------- MODULE EtcdWatch_proofs ---------------------------
(***************************************************************************)
(* The lists of a watch come in order, for any number of watches, names    *)
(* and changes, whatever is cancelled, broken or closed on the way.        *)
(***************************************************************************)
EXTENDS EtcdWatch, SequenceTheorems, TLAPS

\* The lists on their way to a consumer are older the nearer they are to it: what it has
\* seen, what is in the channel, what its goroutine is sending, what etcd holds.
InOrder(w) ==
  /\ seen[w] <= current[name[w]]
  /\ ch[w] # <<>> => seen[w] <= Head(ch[w]) /\ Head(ch[w]) <= current[name[w]]
  /\ pc[w] = "sending" =>
       /\ seen[w] <= found[w] /\ found[w] <= current[name[w]]
       /\ ch[w] # <<>> => Head(ch[w]) <= found[w]

WatchInv == TypeOK /\ \A w \in Watcher : InOrder(w)

\* A channel of capacity 1.
LEMMA Channels ==
  /\ \A v \in Count : <<v>> \in Seq(Count) /\ Len(<<v>>) = 1 /\ Head(<<v>>) = v /\ <<v>> # <<>>
  /\ \A s \in Seq(Count) : s # <<>> /\ Len(s) <= 1 =>
       Head(s) \in Count /\ Tail(s) = <<>> /\ Tail(s) \in Seq(Count) /\ Len(Tail(s)) = 0
<1>1. ASSUME NEW s \in Seq(Count), s # <<>>, Len(s) <= 1
      PROVE  Head(s) \in Count /\ Tail(s) = <<>> /\ Tail(s) \in Seq(Count) /\ Len(Tail(s)) = 0
  <2>1. Head(s) \in Count /\ Tail(s) \in Seq(Count) /\ Len(Tail(s)) = Len(s) - 1
    BY <1>1, HeadTailProperties
  <2>2. Len(s) = 1
    BY <1>1, EmptySeq, LenProperties
  <2>3. Len(Tail(s)) = 0
    BY <2>1, <2>2
  <2> QED
    BY <2>1, <2>3, EmptySeq
<1>2. \A v \in Count : <<v>> \in Seq(Count) /\ Len(<<v>>) = 1 /\ Head(<<v>>) = v /\ <<v>> # <<>>
  OBVIOUS
<1> QED
  BY <1>1, <1>2

LEMMA TypeStep == TypeOK /\ [Next]_vars => TypeOK'
<1> SUFFICES ASSUME TypeOK, [Next]_vars PROVE TypeOK'
  OBVIOUS
<1> USE DEF TypeOK, Goto, Running, InLoop
<1>1. ASSUME NEW w \in Watcher, WatchDiscover(w) PROVE TypeOK'
  <2>1. <<current[name[w]]>> \in Seq(Count) /\ Len(<<current[name[w]]>>) = 1
    BY Channels
  <2>2. ch' \in [Watcher -> Seq(Count)] /\ \A v \in Watcher : Len(ch'[v]) <= 1
    BY <1>1, <2>1 DEF WatchDiscover
  <2> QED
    BY <1>1, <2>2 DEF WatchDiscover
<1>2. ASSUME NEW w \in Watcher, WatchStore(w) \/ Return(w) PROVE TypeOK'
  <2>1. watchers' \in [Name -> Watcher \cup {None}]
    BY <1>2 DEF WatchStore, Return
  <2>2. pc' \in [Watcher -> {"idle", "listed", "ended"} \cup Running]
    BY <1>2 DEF WatchStore, Return
  <2> QED
    BY <1>2, <2>1, <2>2 DEF WatchStore, Return
<1>3. ASSUME NEW w \in Watcher, OpenStream(w) \/ ReceiveResponse(w) \/ Refresh(w) PROVE TypeOK'
  <2>1. CASE OpenStream(w)
    BY <2>1 DEF OpenStream
  <2>2. CASE ReceiveResponse(w)
    BY <2>2 DEF ReceiveResponse
  <2>3. CASE Refresh(w)
    BY <2>3 DEF Refresh
  <2> QED
    BY <1>3, <2>1, <2>2, <2>3
<1>4. ASSUME NEW w \in Watcher, RefreshFails(w) \/ ReceiveError(w) \/ WatchDone(w) PROVE TypeOK'
  BY <1>4 DEF RefreshFails, ReceiveError, WatchDone
<1>5. ASSUME NEW w \in Watcher, SendList(w) PROVE TypeOK'
  BY <1>5, Channels DEF SendList
<1>6. ASSUME NEW w \in Watcher, Receive(w) PROVE TypeOK'
  BY <1>6, Channels DEF Receive
<1>7. ASSUME NEW w \in Watcher, CallerCancels(w) PROVE TypeOK'
  BY <1>7 DEF CallerCancels
<1>8. ASSUME NEW n \in Name, Change(n) PROVE TypeOK'
  <2>1. current[n] + 1 \in Count
    BY <1>8, WatchConstants DEF Change, Count
  <2>2. current' \in [Name -> Count]
    BY <1>8, <2>1 DEF Change
  <2>3. event' \in [Watcher -> BOOLEAN]
    BY <1>8 DEF Change, StreamClosed
  <2> QED
    BY <1>8, <2>2, <2>3 DEF Change
<1>9. CASE Close
  BY <1>9 DEF Close
<1>10. CASE UNCHANGED vars
  BY <1>10 DEF vars
<1> QED
  BY <1>1, <1>2, <1>3, <1>4, <1>5, <1>6, <1>7, <1>8, <1>9, <1>10 DEF Next, Goroutine

LEMMA OrderStep == WatchInv /\ [Next]_vars => \A w \in Watcher : InOrder(w)'
<1> SUFFICES ASSUME WatchInv, [Next]_vars, NEW v \in Watcher PROVE InOrder(v)'
  OBVIOUS
<1>0. /\ \A w \in Watcher : seen[w] \in Nat /\ found[w] \in Nat /\ name[w] \in Name
      /\ \A n \in Name : current[n] \in Nat
      /\ InOrder(v)
  BY WatchConstants DEF WatchInv, TypeOK, Count
<1> USE DEF Goto
\* What another watch does.
<1>1. ASSUME UNCHANGED <<current, name>>, pc'[v] = pc[v] \/ pc'[v] # "sending",
             ch'[v] = ch[v], found'[v] = found[v], seen'[v] = seen[v]
      PROVE  InOrder(v)'
  BY <1>0, <1>1 DEF InOrder
<1>2. ASSUME NEW w \in Watcher, WatchDiscover(w) PROVE InOrder(v)'
  <2>1. CASE v = w
    <3>1. ch'[v] = <<current[name[v]]>> /\ pc'[v] = "listed"
          /\ UNCHANGED <<current, name, seen>>
      BY <1>2, <2>1 DEF WatchDiscover, WatchInv, TypeOK
    <3>2. Head(ch'[v]) = current[name[v]]
      BY <3>1
    <3> QED
      BY <1>0, <3>1, <3>2 DEF InOrder
  <2>2. CASE v # w
    BY <1>1, <1>2, <2>2 DEF WatchDiscover, WatchInv, TypeOK
  <2> QED
    BY <2>1, <2>2
<1>3. ASSUME NEW w \in Watcher, WatchStore(w) \/ Return(w) \/ OpenStream(w) PROVE InOrder(v)'
  BY <1>1, <1>3 DEF WatchStore, Return, OpenStream, WatchInv, TypeOK
<1>4. ASSUME NEW w \in Watcher, ReceiveResponse(w) \/ ReceiveError(w) \/ RefreshFails(w)
      PROVE  InOrder(v)'
  BY <1>1, <1>4 DEF ReceiveResponse, ReceiveError, RefreshFails, WatchInv, TypeOK
<1>5. ASSUME NEW w \in Watcher, WatchDone(w) \/ CallerCancels(w) PROVE InOrder(v)'
  BY <1>1, <1>5 DEF WatchDone, CallerCancels, WatchInv, TypeOK
<1>6. ASSUME NEW w \in Watcher, Refresh(w) PROVE InOrder(v)'
  <2>1. CASE v = w
    <3>1. found'[v] = current[name[v]] /\ UNCHANGED <<current, name, ch, seen>>
      BY <1>6, <2>1 DEF Refresh, WatchInv, TypeOK
    <3> QED
      BY <1>0, <3>1 DEF InOrder
  <2>2. CASE v # w
    BY <1>1, <1>6, <2>2 DEF Refresh, WatchInv, TypeOK
  <2> QED
    BY <2>1, <2>2
<1>7. ASSUME NEW w \in Watcher, SendList(w) PROVE InOrder(v)'
  <2>1. CASE v = w
    <3>1. ch'[v] = <<found[v]>> /\ pc[v] = "sending" /\ pc'[v] = "watching"
          /\ UNCHANGED <<current, name, seen>>
      BY <1>7, <2>1 DEF SendList, WatchInv, TypeOK
    <3>2. Head(ch'[v]) = found[v]
      BY <3>1
    <3> QED
      BY <1>0, <3>1, <3>2 DEF InOrder
  <2>2. CASE v # w
    BY <1>1, <1>7, <2>2 DEF SendList, WatchInv, TypeOK
  <2> QED
    BY <2>1, <2>2
<1>8. ASSUME NEW w \in Watcher, Receive(w) PROVE InOrder(v)'
  <2>1. CASE v = w
    <3>1. ch[v] # <<>> /\ seen'[v] = Head(ch[v]) /\ ch'[v] = Tail(ch[v])
          /\ UNCHANGED <<current, name, pc, found>>
      BY <1>8, <2>1 DEF Receive, WatchInv, TypeOK
    <3>2. ch'[v] = <<>>
      BY <3>1, Channels DEF WatchInv, TypeOK
    <3> QED
      BY <1>0, <3>1, <3>2 DEF InOrder
  <2>2. CASE v # w
    BY <1>1, <1>8, <2>2 DEF Receive, WatchInv, TypeOK
  <2> QED
    BY <2>1, <2>2
<1>9. ASSUME NEW n \in Name, Change(n) PROVE InOrder(v)'
  <2>1. current'[name[v]] \in {current[name[v]], current[name[v]] + 1}
        /\ UNCHANGED <<name, pc, ch, found, seen>>
    BY <1>9 DEF Change, WatchInv, TypeOK
  <2>2. ch[v] # <<>> => Head(ch[v]) \in Nat
    BY WatchConstants, Channels DEF WatchInv, TypeOK, Count
  <2> QED
    BY <1>0, <2>1, <2>2 DEF InOrder
<1>10. CASE Close \/ UNCHANGED vars
  BY <1>1, <1>10 DEF Close, vars
<1>11. ASSUME NEW w \in Watcher,
               \/ WatchDiscover(w) \/ WatchStore(w) \/ Goroutine(w) \/ ReceiveError(w)
               \/ WatchDone(w) \/ CallerCancels(w) \/ Receive(w)
       PROVE   InOrder(v)'
  BY <1>2, <1>3, <1>4, <1>5, <1>6, <1>7, <1>8, <1>11 DEF Goroutine
<1> QED
  BY <1>9, <1>10, <1>11 DEF Next

LEMMA WatchInvHolds == Spec => []WatchInv
<1>1. Init => WatchInv
  <2> SUFFICES ASSUME Init PROVE WatchInv
    OBVIOUS
  <2>1. 0 \in Count
    BY WatchConstants DEF Count
  <2>2. ch \in [Watcher -> Seq(Count)] /\ \A w \in Watcher : Len(ch[w]) <= 1
    BY EmptySeq DEF Init
  <2>3. TypeOK
    BY <2>1, <2>2 DEF Init, TypeOK, Running, InLoop
  <2>4. ASSUME NEW w \in Watcher PROVE InOrder(w)
    <3>1. seen[w] = 0 /\ ch[w] = <<>> /\ pc[w] = "idle" /\ name[w] \in Name
      BY DEF Init
    <3>2. current[name[w]] = 0
      BY <3>1 DEF Init
    <3> QED
      BY <3>1, <3>2 DEF InOrder
  <2> QED
    BY <2>3, <2>4 DEF WatchInv
<1>2. WatchInv /\ [Next]_vars => WatchInv'
  BY TypeStep, OrderStep DEF WatchInv
<1> QED
  BY <1>1, <1>2, PTL DEF Spec

\* However the steps of Watch, Close and the consumers interleave, the channel of a watch
\* holds one list and every call is where it can be.
THEOREM WatchTypes == Spec => []TypeOK
<1>1. WatchInv => TypeOK
  BY DEF WatchInv
<1> QED
  BY <1>1, WatchInvHolds, PTL

\* The view of a consumer never goes back in time: each list is read after the change that
\* triggered it, and the lists of a watch reach its consumer in the order they were read.
THEOREM ViewsGoForward == Spec => ViewsMoveForward
<1> DEFINE Forward == \A w \in Watcher : seen'[w] >= seen[w]
<1>1. WatchInv /\ [Next]_vars => [Forward]_vars
  <2> SUFFICES ASSUME WatchInv, [Next]_vars, NEW w \in Watcher PROVE seen'[w] >= seen[w]
    OBVIOUS
  <2>1. seen[w] \in Nat
    BY WatchConstants DEF WatchInv, TypeOK, Count
  <2>2. CASE seen' = seen
    BY <2>1, <2>2
  <2>3. ASSUME NEW v \in Watcher, Receive(v) PROVE seen'[w] >= seen[w]
    <3>1. seen'[w] = (IF w = v THEN Head(ch[v]) ELSE seen[w]) /\ ch[v] # <<>>
      BY <2>3 DEF Receive, WatchInv, TypeOK
    <3>2. seen[v] <= Head(ch[v]) /\ Head(ch[v]) \in Nat
      BY <3>1, WatchConstants, Channels DEF WatchInv, InOrder, TypeOK, Count
    <3> QED
      BY <2>1, <3>1, <3>2
  <2>4. seen' = seen \/ \E v \in Watcher : Receive(v)
    BY DEF Next, Goroutine, WatchDiscover, WatchStore, OpenStream, ReceiveResponse, Refresh,
       RefreshFails, SendList, Return, ReceiveError, WatchDone, CallerCancels, Change, Close, vars
  <2> QED
    BY <2>2, <2>3, <2>4
<1> QED
  BY <1>1, WatchInvHolds, PTL DEF Spec, ViewsMoveForward
===============================================================================
