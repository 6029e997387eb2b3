---------------------------- MODULE LoadBalancers ----------------------------
(***************************************************************************)
(* The three load balancers of pkg/client/client.go. NewClient chooses one *)
(* by name; the goroutine DialService leaves behind feeds it every list    *)
(* its watch brings, whichever service the list is of. Each method is one  *)
(* step: it runs under the mutex of the balancer. DialService itself never *)
(* asks the balancer, so Next stands for a user of the LoadBalancer        *)
(* interface.                                                              *)
(***************************************************************************)
EXTENDS Integers, Sequences, SequencesExt, FiniteSets

CONSTANTS
  Addr,      \* instance addresses
  Listing,   \* lists of addresses a watch may bring, empty ones too
  MaxServed  \* bound: answers between two lists

Kinds == {"round_robin", "weighted_round_robin", "least_connections"}

VARIABLES
  kind,         \* opts.LoadBalanceType
  addresses,    \* the list; for least_connections the keys of the map
  current,      \* index of round_robin and weighted_round_robin
  weight,       \* weight of weighted_round_robin
  health,       \* addresses whose health is true
  connections,  \* Addr -> Connections of least_connections
  served,       \* history: Addr -> answers since the last list
  before        \* history: Addr -> Connections when the last list came

vars == <<kind, addresses, current, weight, health, connections, served, before>>

Zero == [a \in Addr |-> 0]

TypeOK ==
  /\ kind \in Kinds /\ addresses \in Listing
  /\ current \in Nat /\ weight \in 0..1 /\ health \subseteq Addr
  /\ {connections, served, before} \subseteq [Addr -> Nat]

\* NewClient: round_robin where no other name is given.
Init ==
  /\ kind \in Kinds
  /\ addresses = <<>> /\ current = 0 /\ weight = 0 /\ health = {}
  /\ connections = Zero /\ served = Zero /\ before = Zero

Listed == ToSet(addresses)
Size == Len(addresses)
At(index) == addresses[index + 1]

\* Every weight is 1, so the largest is 1 unless there is no address.
MaxWeight(list) == IF list = <<>> THEN 0 ELSE 1

\* The addresses GetHealthyAddresses lists.
RoundRobinHealthy == Listed \cap health
WeightedHealthy == Listed
LeastHealthy == Listed
Healthy == CASE kind = "round_robin" -> RoundRobinHealthy
             [] kind = "weighted_round_robin" -> WeightedHealthy
             [] kind = "least_connections" -> LeastHealthy

Serve(address) ==
  /\ served[address] < MaxServed
  /\ served' = [served EXCEPT ![address] = @ + 1]
  /\ UNCHANGED <<kind, addresses, health, before>>

(***************************************************************************)
(* Next                                                                    *)
(***************************************************************************)

\* Mutant: the index stays on the address that was answered.
RoundRobinNextStays ==
  /\ kind = "round_robin" /\ Size > 0
  /\ \E i \in 0..Size - 1 :
       LET index == (current + i) % Size IN
       /\ At(index) \in health
       /\ \A j \in 0..i - 1 : At((current + j) % Size) \notin health
       /\ current' = index
       /\ Serve(At(index))
  /\ UNCHANGED <<weight, connections>>

\* The first healthy address from current on.
RoundRobinNext ==
  /\ kind = "round_robin" /\ Size > 0
  /\ \E i \in 0..Size - 1 :
       LET index == (current + i) % Size IN
       /\ At(index) \in health
       /\ \A j \in 0..i - 1 : At((current + j) % Size) \notin health
       /\ current' = (index + 1) % Size
       /\ Serve(At(index))
  /\ UNCHANGED <<weight, connections>>

\* The loop ends in its first round while no weight is above 1.
WeightedNext ==
  /\ kind = "weighted_round_robin" /\ Size > 0
  /\ current' = (current + 1) % Size
  /\ weight' = IF current' # 0 THEN weight
               ELSE IF weight - 1 <= 0 THEN MaxWeight(addresses) ELSE weight - 1
  /\ weight' <= 1
  /\ Serve(At(current'))
  /\ UNCHANGED connections

\* One of the addresses with the fewest connections (the map has no order),
\* which gets one more; nothing ever takes a connection off again.
LeastNext ==
  /\ kind = "least_connections"
  /\ \E a \in Listed :
       /\ \A b \in Listed : connections[a] <= connections[b]
       /\ connections' = [connections EXCEPT ![a] = @ + 1]
       /\ Serve(a)
  /\ UNCHANGED <<current, weight>>

(***************************************************************************)
(* UpdateAddresses, called by watchServiceChanges                          *)
(***************************************************************************)

Counting(counts) == served' = Zero /\ before' = counts

\* Health is only ever set, and entries of addresses that left stay.
RoundRobinUpdate(list) ==
  /\ kind = "round_robin"
  /\ health' = health \cup ToSet(list)
  /\ current' = IF current >= Len(list) THEN 0 ELSE current
  /\ Counting(Zero)
  /\ UNCHANGED <<weight, connections>>

WeightedUpdate(list) ==
  /\ kind = "weighted_round_robin"
  /\ weight' = MaxWeight(list)
  /\ Counting(Zero)
  /\ UNCHANGED <<current, health, connections>>

\* Addresses that stay keep their count, the others start from zero.
LeastUpdate(list) ==
  /\ kind = "least_connections"
  /\ connections' = [a \in Addr |->
                       IF a \in ToSet(list) \cap Listed THEN connections[a] ELSE 0]
  /\ Counting(connections')
  /\ UNCHANGED <<current, weight, health>>

\* Bound: a list comes only while the counts are small.
WatchServiceChanges(list) ==
  /\ \A a \in Addr : connections[a] <= MaxServed
  /\ addresses' = list
  /\ RoundRobinUpdate(list) \/ WeightedUpdate(list) \/ LeastUpdate(list)
  /\ UNCHANGED kind

Next ==
  \/ RoundRobinNext \/ WeightedNext \/ LeastNext
  \/ \E list \in Listing : WatchServiceChanges(list)

Spec == Init /\ [][Next]_vars

(***************************************************************************)
(* Properties                                                              *)
(***************************************************************************)

\* Between two lists no healthy address is given more than one call ahead of
\* another, except by least_connections to one that had fewer connections when
\* the list came; and the index a shorter list left behind does no harm.
SharesLoad ==
  \A a, b \in Healthy :
    served[a] > served[b] + 1 => before[a] < before[b]
==============================================================================
