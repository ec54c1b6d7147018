--------------------------- MODULE ClusterService ---------------------------
(***************************************************************************)
(* The provider's cluster service (src/provider/cluster/service.go) with   *)
(* the managers of its leases, the hostname service (hostname.go) and the  *)
(* reservations of the inventory it gives back: what happens to a lease    *)
(* from the first manifest to its end, with the provider shut down, or     *)
(* killed and started again, at any time.                                  *)
(*                                                                         *)
(* Of a manager only the steps the others see are kept; its updates, its   *)
(* monitor and what it withdraws are DeploymentManager.  The service waits *)
(* for a manager that is still asking for its hostnames, which is the same *)
(* as taking the event later.                                              *)
(***************************************************************************)
EXTENDS Naturals, Sequences

CONSTANTS
    Leases,
    DeploymentOf,   \* by lease
    Names,          \* by lease, the hostnames of its manifest
    Blocked,        \* hostnames the provider's configuration blocks
    None,           \* no deployment
    MaxManifests,   \* bound: manifests received
    MaxRestarts     \* bound: how often the provider is killed

ASSUME DeploymentsNamed == \A l \in Leases : DeploymentOf[l] # None

VARIABLES
    lease,          \* on the chain: "none", "active", "closed"
    manifests,      \* number of manifests received
    events,         \* the service's subscription
    online,         \* the publisher was started, see BidService
    svc,            \* "start", "loop", "drain", "done"
    reserved,       \* leases the inventory has a reservation for
    managers,       \* by lease, its manager
    hostnames,      \* the hostname service: "loop", "done"
    inUse,          \* by hostname, the deployment that has it, or None
    workload,       \* leases with something running in the cluster
    recorded,       \* leases with a manifest object in the cluster
    restarts,
    failed, early   \* leases whose manager gave up; that were torn down too early

chainVars == <<lease, manifests, online, restarts>>
clusterVars == <<workload, recorded>>
hostVars == <<hostnames, inUse>>
vars == <<chainVars, clusterVars, events, svc, reserved, managers, hostVars, failed, early>>

Hostnames == UNION {Names[l] : l \in Leases}

\* at: "ask" (in ReserveHostnames), "granted" or "refused" (the answer is not read
\* yet), "deploy" or "teardown" (the operation runs), "up", "leaving" (after the
\* loop), "done" (at managerch).  ending: dm.state is dsTeardownPending.
\* holds: the release of the hostnames is deferred.
Manager(at) == [at |-> at, ending |-> FALSE, holds |-> FALSE]
NoManager == Manager("none")

\* The hostname service has granted it the names, and it has not released them.
Has(l) == managers[l].at = "granted" \/ managers[l].holds

\* The manager is at its select, where it takes updates and teardowns.
Listening(l) == managers[l].at \in {"granted", "refused", "deploy", "up", "teardown"}

Init ==
    /\ lease = [l \in Leases |-> "none"]
    /\ manifests = 0
    /\ events = <<>>
    /\ online = FALSE
    /\ svc = "start"
    /\ reserved = {}
    /\ managers = [l \in Leases |-> NoManager]
    /\ hostnames = "loop"
    /\ inUse = [h \in Hostnames |-> None]
    /\ workload = {}
    /\ recorded = {}
    /\ restarts = 0
    /\ failed = {}
    /\ early = {}

-----------------------------------------------------------------------------
(* What the service is told. *)

\* The bid engine won the lease, and had reserved what it needs (BidOrder).
LeaseWon(l) ==
    /\ svc = "loop" /\ online
    /\ lease[l] = "none"
    /\ lease' = [lease EXCEPT ![l] = "active"]
    /\ reserved' = reserved \cup {l}
    /\ UNCHANGED <<manifests, online, restarts, clusterVars, events, svc, managers, hostVars,
                   failed, early>>

\* The manifest service publishes ManifestReceived; it may not know yet that the
\* lease is closed.
ManifestReceived(l) ==
    /\ svc = "loop"
    /\ lease[l] # "none"
    /\ manifests < MaxManifests
    /\ manifests' = manifests + 1
    /\ events' = Append(events, <<"manifest", l>>)
    /\ UNCHANGED <<lease, online, restarts, clusterVars, svc, reserved, managers, hostVars,
                   failed, early>>

\* The chain emits EventLeaseClosed, which is published if the publisher is there.
LeaseClosed(l) ==
    /\ svc # "done"
    /\ lease[l] = "active"
    /\ lease' = [lease EXCEPT ![l] = "closed"]
    /\ events' = IF svc = "loop" /\ online THEN Append(events, <<"closed", l>>) ELSE events
    /\ UNCHANGED <<manifests, online, restarts, clusterVars, svc, reserved, managers, hostVars,
                   failed, early>>

PublisherStarts ==
    /\ svc = "loop" /\ ~online
    /\ online' = TRUE
    /\ UNCHANGED <<lease, manifests, restarts, clusterVars, events, svc, reserved, managers,
                   hostVars, failed, early>>

\* The provider is killed; a deploy that was under way may leave something behind.
Killed ==
    /\ svc \in {"loop", "drain"}
    /\ restarts < MaxRestarts
    /\ restarts' = restarts + 1
    /\ \E left \in SUBSET {l \in Leases : managers[l].at = "deploy"} :
           /\ workload' = workload \cup left
           /\ recorded' = recorded \cup left
    /\ svc' = "start"
    /\ online' = FALSE
    /\ events' = <<>>
    /\ reserved' = {}
    /\ managers' = [l \in Leases |-> NoManager]
    /\ hostnames' = "loop"
    /\ inUse' = [h \in Hostnames |-> None]
    /\ failed' = {}
    /\ early' = {}
    /\ UNCHANGED <<lease, manifests>>

-----------------------------------------------------------------------------
(* The service. *)

\* NewService: findDeployments, and what it found is reserved and gets a manager.
FindDeployments == {l \in recorded : lease[l] = "active"}

NewService ==
    /\ svc = "start"
    /\ svc' = "loop"
    /\ reserved' = FindDeployments
    /\ managers' = [l \in Leases |-> IF l \in FindDeployments THEN Manager("ask") ELSE NoManager]
    /\ UNCHANGED <<chainVars, clusterVars, events, hostVars, failed, early>>

\* Variant: a manifest only updates.
HandleManifestUpdates(l) ==
    /\ \/ /\ Listening(l)
          /\ managers' = [managers EXCEPT ![l].at = IF @ = "up" THEN "deploy" ELSE @]
       \/ /\ managers[l].at \in {"none", "leaving", "done"}
          /\ UNCHANGED managers
    /\ UNCHANGED <<reserved, early>>

\* event.ManifestReceived
HandleManifest(l) ==
    /\ \/ /\ l \notin reserved                                  \* inventory.lookup
          /\ UNCHANGED managers
       \/ /\ l \in reserved
          /\ managers[l].at = "none"
          /\ managers' = [managers EXCEPT ![l] = Manager("ask")]
       \/ /\ l \in reserved                                     \* manager.update
          /\ Listening(l)
          /\ managers' = [managers EXCEPT ![l].at = IF @ = "up" THEN "deploy" ELSE @]
       \/ /\ l \in reserved
          /\ managers[l].at \in {"leaving", "done"}
          /\ UNCHANGED managers
    /\ UNCHANGED <<reserved, early>>

\* Variant: without a manager, there is nothing to do.
TeardownLeaseKeeps(l) ==
    /\ \/ /\ managers[l].at \in {"none", "leaving", "done"}
          /\ UNCHANGED <<managers, early>>
       \/ /\ Listening(l)
          /\ managers' = [managers EXCEPT ![l].at = IF @ = "up" THEN "teardown" ELSE @,
                                          ![l].ending = managers[l].at # "up"]
          /\ early' = IF managers[l].at = "granted" THEN early \cup {l} ELSE early
    /\ UNCHANGED reserved

\* teardownLease
TeardownLease(l) ==
    \/ /\ managers[l].at = "none"
       /\ reserved' = reserved \ {l}
       /\ UNCHANGED <<managers, early>>
    \/ /\ Listening(l)                                          \* manager.teardown
       /\ managers' = [managers EXCEPT ![l].at = IF @ = "up" THEN "teardown" ELSE @,
                                       ![l].ending = managers[l].at # "up"]
       /\ early' = IF managers[l].at = "granted" THEN early \cup {l} ELSE early
       /\ UNCHANGED reserved
    \/ /\ managers[l].at \in {"leaving", "done"}
       /\ UNCHANGED <<managers, early, reserved>>

\* case ev := <-s.sub.Events()
ServiceEvent ==
    LET l == Head(events)[2] IN
    /\ svc = "loop"
    /\ events # <<>>
    /\ events' = Tail(events)
    /\ \/ Head(events)[1] = "manifest" /\ HandleManifest(l)
       \/ Head(events)[1] = "closed" /\ TeardownLease(l)
    /\ UNCHANGED <<chainVars, clusterVars, svc, hostVars, failed>>

\* Variant: managers are removed in the loop only.
ManagerDoneInLoop(l) ==
    /\ svc = "loop"
    /\ managers[l].at = "done"
    /\ managers' = [managers EXCEPT ![l] = NoManager]
    /\ reserved' = reserved \ {l}
    /\ UNCHANGED <<chainVars, clusterVars, events, svc, hostVars, failed, early>>

\* case dm := <-s.managerch, in the loop or after it
ManagerDone(l) ==
    /\ svc \in {"loop", "drain"}
    /\ managers[l].at = "done"
    /\ managers' = [managers EXCEPT ![l] = NoManager]
    /\ reserved' = IF svc = "loop" THEN reserved \ {l} ELSE reserved
    /\ UNCHANGED <<chainVars, clusterVars, events, svc, hostVars, failed, early>>

\* case err := <-s.lc.ShutdownRequest()
Shutdown ==
    /\ svc = "loop"
    /\ svc' = "drain"
    /\ UNCHANGED <<chainVars, clusterVars, events, reserved, managers, hostVars, failed, early>>

\* All managers were received; the inventory is done (Inventory).
ServiceDone ==
    /\ svc = "drain"
    /\ \A l \in Leases : managers[l].at = "none"
    /\ svc' = "done"
    /\ UNCHANGED <<chainVars, clusterVars, events, reserved, managers, hostVars, failed, early>>

-----------------------------------------------------------------------------
(* The hostname service. *)

\* Variant: who has the name is not looked at.
AllowedForAll(l) == Names[l] \cap Blocked = {}

Allowed(l) ==
    \A h \in Names[l] : h \notin Blocked /\ inUse[h] \in {None, DeploymentOf[l]}

\* doRequest; without the service, ReserveHostnames answers ErrNotRunning.
DoRequest(l) ==
    /\ managers[l].at = "ask"
    /\ \/ /\ hostnames = "loop"
          /\ Allowed(l)
          /\ inUse' = [h \in Hostnames |-> IF h \in Names[l] THEN DeploymentOf[l] ELSE inUse[h]]
          /\ managers' = [managers EXCEPT ![l].at = "granted"]
       \/ /\ hostnames = "done" \/ ~Allowed(l)
          /\ managers' = [managers EXCEPT ![l].at = "refused"]
          /\ UNCHANGED inUse
    /\ UNCHANGED <<chainVars, clusterVars, events, svc, reserved, hostnames, failed, early>>

\* The context is cancelled, which the cluster service may notice later or earlier.
HostnamesShutDown ==
    /\ svc \in {"loop", "drain"}
    /\ hostnames = "loop"
    /\ hostnames' = "done"
    /\ UNCHANGED <<chainVars, clusterVars, events, svc, reserved, managers, inUse, failed, early>>

-----------------------------------------------------------------------------
(* The managers. *)

\* case err := <-reserveHostnamesCh: the release is deferred, and startDeploy
\* overwrites dm.state.
ReadAnswer(l) ==
    /\ \/ /\ managers[l].at = "granted"
          /\ managers' = [managers EXCEPT ![l].at = "deploy", ![l].ending = FALSE,
                                          ![l].holds = TRUE]
          /\ UNCHANGED failed
       \/ /\ managers[l].at = "refused"
          /\ managers' = [managers EXCEPT ![l].at = "leaving"]
          /\ failed' = failed \cup {l}
    /\ UNCHANGED <<chainVars, clusterVars, events, svc, reserved, hostVars, early>>

\* client.Deploy returns; an error may come before or after it has written.
DeployReturns(l) ==
    /\ managers[l].at = "deploy"
    /\ \/ /\ workload' = workload \cup {l}
          /\ recorded' = recorded \cup {l}
          /\ managers' = [managers EXCEPT ![l].at = IF managers[l].ending THEN "teardown" ELSE "up"]
          /\ UNCHANGED failed
       \/ /\ workload' \in {workload, workload \cup {l}}
          /\ recorded' \in {recorded, recorded \cup (workload' \cap {l})}
          /\ managers' = [managers EXCEPT ![l].at = IF managers[l].ending THEN "teardown" ELSE "leaving"]
          /\ failed' = failed \cup {l}
    /\ UNCHANGED <<chainVars, events, svc, reserved, hostVars, early>>

\* client.TeardownLease returns, after its last attempt.
TeardownReturns(l) ==
    /\ managers[l].at = "teardown"
    /\ workload' \in {workload, workload \ {l}}
    /\ managers' = [managers EXCEPT ![l].at = "leaving"]
    /\ UNCHANGED <<chainVars, recorded, events, svc, reserved, hostVars, failed, early>>

\* dm.lc.WatchChannel(s.lc.ShuttingDown()); an operation under way is waited for.
\* Names that were granted, and the answer not read, stay in use.
ManagerShutdown(l) ==
    /\ svc = "drain"
    /\ Listening(l)
    /\ managers' = [managers EXCEPT ![l].at = "leaving"]
    /\ workload' \in CASE managers[l].at = "deploy" -> {workload, workload \cup {l}}
                       [] managers[l].at = "teardown" -> {workload, workload \ {l}}
                       [] OTHER -> {workload}
    /\ recorded' \in {recorded, recorded \cup (workload' \ workload)}
    /\ UNCHANGED <<chainVars, events, svc, reserved, hostVars, failed, early>>

\* doRelease does not look at who has the name; a service that has shut down drops
\* the request.
Releases(l, h) == managers[l].holds /\ hostnames = "loop" /\ h \in Names[l]

\* Variant: the reservation is given back when the manager leaves its loop.
ManagerLeavesUnreserves(l) ==
    /\ managers[l].at = "leaving"
    /\ managers' = [managers EXCEPT ![l] = Manager("done")]
    /\ reserved' = reserved \ {l}
    /\ inUse' = [h \in Hostnames |-> IF Releases(l, h) THEN None ELSE inUse[h]]
    /\ UNCHANGED <<chainVars, clusterVars, events, svc, hostnames, failed, early>>

\* The deferred ReleaseHostnames, and ShutdownCompleted.
ManagerLeaves(l) ==
    /\ managers[l].at = "leaving"
    /\ managers' = [managers EXCEPT ![l] = Manager("done")]
    /\ inUse' = [h \in Hostnames |-> IF Releases(l, h) THEN None ELSE inUse[h]]
    /\ UNCHANGED <<chainVars, clusterVars, events, svc, reserved, hostnames, failed, early>>

-----------------------------------------------------------------------------
System ==
    \/ NewService \/ PublisherStarts \/ ServiceEvent \/ ServiceDone
    \/ \E l \in Leases :
           \/ ManagerDone(l) \/ DoRequest(l) \/ ReadAnswer(l) \/ DeployReturns(l)
           \/ TeardownReturns(l) \/ ManagerShutdown(l) \/ ManagerLeaves(l)

Next ==
    \/ System \/ Killed \/ Shutdown \/ HostnamesShutDown
    \/ \E l \in Leases : LeaseWon(l) \/ ManifestReceived(l) \/ LeaseClosed(l)

\* The provider's goroutines run as long as one of them can, and calls to the
\* cluster return.
Spec == Init /\ [][Next]_vars /\ WF_vars(System)

-----------------------------------------------------------------------------
(* Properties *)

\* What a manager deploys is covered by a reservation until the manager is gone,
\* so the resources are not offered to another order while they are used.
ManagersAreBacked == \A l \in Leases : managers[l].at # "none" => l \in reserved

\* Two leases of one deployment want the name.  No manifest names it twice, but two
\* groups may be deployed from two versions of it.
Shared(h) ==
    \E j, k \in Leases :
        j # k /\ DeploymentOf[j] = DeploymentOf[k] /\ h \in Names[j] \cap Names[k]

\* A name that was granted to a manager is its deployment's until the manager
\* releases it, whoever asks or leaves meanwhile; only if two leases of one
\* deployment share it may one release it for both (hostname.go:180).  And while the
\* services run, no name is in use without such a manager.
HostnamesAreHeld ==
    /\ \A l \in Leases : Has(l) =>
           \A h \in Names[l] : inUse[h] = DeploymentOf[l] \/ Shared(h)
    /\ svc = "loop" /\ hostnames = "loop" =>
           \A h \in Hostnames : inUse[h] # None =>
               \E l \in Leases : Has(l) /\ h \in Names[l] /\ inUse[h] = DeploymentOf[l]

\* A manager keeps the names it was granted, shared ones included.  The code does
\* not see to that: doRelease frees a name that another lease still uses.
SharedNamesAreHeld ==
    \A l \in Leases : Has(l) => \A h \in Names[l] : inUse[h] = DeploymentOf[l]

\* When a lease is closed its reservation is given back, whatever its manager was
\* doing, except when the teardown came between the request for the hostnames and
\* its answer: the deploy that follows overwrites it (manager.go:132).
ReservationsReturned ==
    \A l \in Leases :
        <<"closed", l>> \in {events[i] : i \in DOMAIN events} ~>
            l \notin reserved \/ l \in early \/ svc # "loop"

\* ReservationsReturned without its exception, which the code does not see to.
ClosedLeasesUnreserved ==
    \A l \in Leases :
        <<"closed", l>> \in {events[i] : i \in DOMAIN events} ~>
            l \notin reserved \/ svc # "loop"

\* A manifest for a lease with a reservation brings the workload up, unless the
\* lease ends, or hostnames are refused or a deploy fails: an update is lost only
\* at a manager that gave up (service.go:211).
ManifestsRun ==
    \A l \in Leases :
        <<"manifest", l>> \in {events[i] : i \in DOMAIN events} /\ l \in reserved ~>
            l \in workload \/ lease[l] = "closed" \/ l \in failed \/ svc # "loop"

\* The service ends when it is told to, with managers at any stage.
DrainCompletes == svc = "drain" ~> svc = "done" \/ svc = "start"
=============================================================================
