-------------------------------- MODULE Client --------------------------------
(***************************************************************************)
(* The parts of the gRPC client, pkg/client/client.go: DialService with    *)
(* its breaker, pool and cache as ClientDial has them, one shard of the    *)
(* sharded cache in detail, and the load balancer, which the client keeps  *)
(* up to date and health-checks but never asks for an address. They hold   *)
(* different locks and exchange nothing but what ClientDial models, so     *)
(* that one behaviour is a behaviour of one part.                          *)
(***************************************************************************)
EXTENDS ClientDial, ShardedCache

CONSTANTS
  Peer, PeerListing, MaxServed  \* of LoadBalancers

\* A list has an address once: every instance has an address of its own.
ASSUME PeersListedOnce ==
  \A list \in PeerListing :
    /\ list \in Seq(Peer)
    /\ \A i, j \in 1..Len(list) : list[i] = list[j] => i = j

VARIABLES
  part,  \* the part that is observed
  \* of LoadBalancers
  kind, addresses, current, weight, health, connections, served, before

Balancer == INSTANCE LoadBalancers WITH Addr <- Peer, Listing <- PeerListing

balancerVars == <<kind, addresses, current, weight, health, connections, served, before>>
clientVars == <<vars, shardVars, balancerVars, part>>

\* The parts that are not observed start in one state each, and stay there.
ClientInit ==
  /\ Init /\ ShardInit /\ Balancer!Init
  /\ part \in {"dial", "shard", "balancer"}
  /\ part # "dial" =>
       /\ \A d, e \in Dialer : svc[d] = svc[e]
       /\ listing = [s \in Service |-> CHOOSE list \in Listing : TRUE]
  /\ part # "balancer" => kind = "round_robin"

DialPart == part = "dial" /\ Next /\ UNCHANGED <<shardVars, balancerVars, part>>
ShardPart == part = "shard" /\ ShardNext /\ UNCHANGED <<vars, balancerVars, part>>
BalancerPart == part = "balancer" /\ Balancer!Next /\ UNCHANGED <<vars, shardVars, part>>

ClientNext == DialPart \/ ShardPart \/ BalancerPart

ClientSpec == ClientInit /\ [][ClientNext]_clientVars

(***************************************************************************)
(* Properties of the parts                                                 *)
(***************************************************************************)

\* See LoadBalancers: calls are spread evenly over the healthy addresses.
SharesLoad == Balancer!SharesLoad
===============================================================================
