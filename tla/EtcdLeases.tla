------------------------------ MODULE EtcdLeases ------------------------------
(***************************************************************************)
(* Registration in pkg/registry/etcd.go: Register, Deregister, Close, the  *)
(* keepAlive goroutine that every Register starts for its lease, and the   *)
(* HealthChecker that registers a healthy service again on every tick and  *)
(* deregisters an unhealthy one.                                           *)
(*                                                                         *)
(* r.mu makes Register, Deregister, Close and the clean-up of keepAlive    *)
(* one step each. etcd is external: it grants and revokes leases, deletes  *)
(* a key with the lease it hangs on, and lets a lease expire when renewals *)
(* do not arrive, which a slow network can cause at any time. A call that  *)
(* returns an error may or may not have been carried out.                  *)
(***************************************************************************)
EXTENDS Naturals, FiniteSets

CONSTANTS
  Service,     \* service IDs
  MaxLeases,   \* bound: leases granted
  None         \* no lease

ASSUME LeaseConstants ==
  MaxLeases \in Nat /\ None \notin Nat \cup Service

Lease == 1..MaxLeases

VARIABLES
  granted,   \* leases granted so far; they are numbered
  live,      \* leases etcd holds, neither expired nor revoked
  holder,    \* Service -> the lease its key in etcd hangs on, or None
  leases,    \* r.leases: Service -> lease or None
  renewing,  \* Lease -> state of its keepAlive goroutine
  owner,     \* Lease -> the service ID its keepAlive was started for
  up,        \* the registry is neither closed nor crashed
  gone       \* history: services whose last call was a Deregister without error

vars == <<granted, live, holder, leases, renewing, owner, up, gone>>

TypeOK ==
  /\ granted \in 0..MaxLeases
  /\ live \in SUBSET (1..granted)
  /\ holder \in [Service -> live \cup {None}]
  /\ leases \in [Service -> 1..granted \cup {None}]
  /\ renewing \in [Lease -> {"no", "starting", "on", "ended"}]
  /\ owner \in [Lease -> Service \cup {None}]
  /\ up \in BOOLEAN
  /\ gone \in SUBSET Service
  /\ \A l \in Lease : renewing[l] # "no" => l <= granted /\ owner[l] # None

Init ==
  /\ granted = 0 /\ live = {}
  /\ holder = [s \in Service |-> None]
  /\ leases = [s \in Service |-> None]
  /\ renewing = [l \in Lease |-> "no"]
  /\ owner = [l \in Lease |-> None]
  /\ up = TRUE /\ gone = {}

Grant ==
  /\ granted < MaxLeases
  /\ granted' = granted + 1

\* Keys that hang on a lease go with it.
Drop(dead) ==
  /\ live' = live \ dead
  /\ holder' = [s \in Service |-> IF holder[s] \in dead THEN None ELSE holder[s]]

\* Mutant: Register keeps the lease it already knows.
RegisterKeepsOldLease(s) ==
  /\ up
  /\ Grant
  /\ live' = live \cup {granted'}
  /\ holder' = [holder EXCEPT ![s] = granted']
  /\ leases' = [leases EXCEPT ![s] = IF @ = None THEN granted' ELSE @]
  /\ renewing' = [renewing EXCEPT ![granted'] = "starting"]
  /\ owner' = [owner EXCEPT ![granted'] = s]
  /\ gone' = gone \ {s}
  /\ UNCHANGED up

\* A new lease, the key put on it, the lease remembered, keepAlive started.
Register(s) ==
  /\ up
  /\ Grant
  /\ live' = live \cup {granted'}
  /\ holder' = [holder EXCEPT ![s] = granted']
  /\ leases' = [leases EXCEPT ![s] = granted']
  /\ renewing' = [renewing EXCEPT ![granted'] = "starting"]
  /\ owner' = [owner EXCEPT ![granted'] = s]
  /\ gone' = gone \ {s}
  /\ UNCHANGED up

\* Put reports an error after Grant: a lease nobody remembers or renews, and
\* the key may hang on it all the same.
RegisterPutFails(s) ==
  /\ up
  /\ Grant
  /\ live' = live \cup {granted'}
  /\ \E put \in {holder[s], granted'} : holder' = [holder EXCEPT ![s] = put]
  /\ owner' = [owner EXCEPT ![granted'] = s]
  /\ gone' = gone \ {s}
  /\ UNCHANGED <<leases, renewing, up>>

\* Mutant: Deregister forgets the lease without revoking it.
DeregisterNoRevoke(s) ==
  /\ up
  /\ leases' = [leases EXCEPT ![s] = None]
  /\ gone' = gone \cup {s}
  /\ UNCHANGED <<live, holder, granted, renewing, owner, up>>

\* Deregister returns nil: it revoked the lease it knew, or knew none.
Deregister(s) ==
  /\ up
  /\ \/ leases[s] \in live /\ Drop({leases[s]})
     \/ leases[s] = None /\ UNCHANGED <<live, holder>>
  /\ leases' = [leases EXCEPT ![s] = None]
  /\ gone' = gone \cup {s}
  /\ UNCHANGED <<granted, renewing, owner, up>>

\* Revoke reports an error, as it does for a lease etcd no longer has: the
\* entry stays, whether or not the lease was revoked.
DeregisterFails(s) ==
  /\ up /\ leases[s] # None
  /\ \E revoked \in SUBSET {leases[s]} : Drop(revoked)
  /\ gone' = gone \ {s}
  /\ UNCHANGED <<granted, leases, renewing, owner, up>>

(***************************************************************************)
(* keepAlive                                                               *)
(***************************************************************************)

\* client.KeepAlive returns a channel of renewal responses.
KeepAliveStarts(l) ==
  /\ up /\ renewing[l] = "starting"
  /\ renewing' = [renewing EXCEPT ![l] = "on"]
  /\ UNCHANGED <<granted, live, holder, leases, owner, up, gone>>

\* client.KeepAlive fails: the goroutine returns and cleans nothing up.
KeepAliveFails(l) ==
  /\ up /\ renewing[l] = "starting"
  /\ renewing' = [renewing EXCEPT ![l] = "no"]
  /\ UNCHANGED <<granted, live, holder, leases, owner, up, gone>>

\* The channel closes: etcd has dropped the lease, or has not answered for so
\* long that the client library gives it up.
KeepAliveEnds(l) ==
  /\ up /\ renewing[l] = "on"
  /\ renewing' = [renewing EXCEPT ![l] = "ended"]
  /\ UNCHANGED <<granted, live, holder, leases, owner, up, gone>>

\* Mutant: the goroutine returns without the clean-up.
KeepAliveCleanupOmitted(l) ==
  /\ up /\ renewing[l] = "ended"
  /\ renewing' = [renewing EXCEPT ![l] = "no"]
  /\ UNCHANGED <<granted, live, holder, leases, owner, up, gone>>

\* The clean-up goes by service ID and does not look at the lease stored there.
KeepAliveCleanup(l) ==
  /\ up /\ renewing[l] = "ended"
  /\ leases' = [leases EXCEPT ![owner[l]] = None]
  /\ renewing' = [renewing EXCEPT ![l] = "no"]
  /\ UNCHANGED <<granted, live, holder, owner, up, gone>>

(***************************************************************************)
(* Close, crash, and etcd                                                  *)
(***************************************************************************)

\* Close revokes the leases it knows, ignoring errors, and closes the client,
\* which ends every renewal.
Close ==
  /\ up
  /\ up' = FALSE
  /\ \E failed \in SUBSET live : Drop({leases[s] : s \in Service} \ failed)
  /\ leases' = [s \in Service |-> None]
  /\ renewing' = [l \in Lease |-> "no"]
  /\ UNCHANGED <<granted, owner, gone>>

\* The process dies: nothing is revoked.
Crash ==
  /\ up
  /\ up' = FALSE
  /\ leases' = [s \in Service |-> None]
  /\ renewing' = [l \in Lease |-> "no"]
  /\ UNCHANGED <<granted, live, holder, owner, gone>>

\* A lease runs out: its renewals stopped, or did not arrive in time.
LeaseExpires(l) ==
  /\ l \in live
  /\ Drop({l})
  /\ UNCHANGED <<granted, leases, renewing, owner, up, gone>>

Next ==
  \/ \E s \in Service :
       \/ Register(s) \/ RegisterPutFails(s)
       \/ Deregister(s) \/ DeregisterFails(s)
  \/ \E l \in Lease :
       \/ KeepAliveStarts(l) \/ KeepAliveFails(l)
       \/ KeepAliveEnds(l) \/ KeepAliveCleanup(l)
       \/ LeaseExpires(l)
  \/ Close \/ Crash

Spec == Init /\ [][Next]_vars

\* etcd expires a lease nobody renews and closes the channel of one it dropped;
\* the keepAlive goroutines run.
Fairness ==
  \A l \in Lease :
    /\ WF_vars(renewing[l] # "on" /\ LeaseExpires(l))
    /\ WF_vars(KeepAliveStarts(l) \/ KeepAliveFails(l))
    /\ WF_vars(l \notin live /\ KeepAliveEnds(l))
    /\ WF_vars(KeepAliveCleanup(l))

FairSpec == Spec /\ Fairness

(***************************************************************************)
(* Properties                                                              *)
(***************************************************************************)

\* If the registry remembers a lease for a service that is in etcd, it is the
\* lease the key hangs on, or one nobody renews is: Deregister revokes what
\* keeps the key alive, however many leases repeated registrations and failed
\* Puts left behind.
KnownLeaseHoldsKey ==
  \A s \in Service :
    holder[s] # None /\ leases[s] # None =>
      holder[s] = leases[s] \/ renewing[holder[s]] = "no"

RegisteredOnce(s) == Cardinality({l \in Lease : owner[l] = s}) <= 1

\* A service that was registered once and deregistered without an error
\* disappears from etcd, unless a later call brings it back: Deregister returns
\* nil only when it revoked the lease or when nobody renews it.
OnceDeregisteredDisappears ==
  \A s \in Service :
    s \in gone /\ RegisteredOnce(s)
      ~> (holder[s] = None \/ s \notin gone \/ ~RegisteredOnce(s))

\* The comment of Deregister: it deregisters the service, however often it was
\* registered before.
DeregisteredDisappears ==
  \A s \in Service : s \in gone ~> (holder[s] = None \/ s \notin gone)

\* After Close or a crash every service disappears from etcd, whatever Close
\* failed to revoke: nobody renews the leases any more.
DeadRegistryDisappears == ~up ~> \A s \in Service : holder[s] = None

\* What the registry gave up disappears from etcd.
GoneServicesDisappear == OnceDeregisteredDisappears /\ DeadRegistryDisappears

\* A renewed lease that etcd drops is forgotten by the registry, so that a later
\* Deregister does not fail for ever on a lease that no longer exists.
DeadLeaseForgotten ==
  \A s \in Service, l \in Lease :
    (leases[s] = l /\ l \notin live /\ renewing[l] = "on") ~> (leases[s] # l)
===============================================================================
