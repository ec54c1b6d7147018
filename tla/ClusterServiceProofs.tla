------------------------ MODULE ClusterServiceProofs ------------------------
(***************************************************************************)
(* For any leases and hostnames: a manager is backed by a reservation, and *)
(* managers have the hostnames they were granted, unless two leases of one *)
(* deployment share them.                                                  *)
(***************************************************************************)
EXTENDS ClusterService, TLAPS

\* Where a manager may have a release deferred: once it has read the answer.
HoldingStates == {"deploy", "up", "teardown", "leaving"}

ManagerType ==
    [at : HoldingStates \cup {"none", "ask", "granted", "refused", "done"},
     ending : BOOLEAN, holds : BOOLEAN]

EventType == events \in Seq({"manifest", "closed"} \X Leases)

\* The inductive invariant: where managers can be, and that they have reservations.
IInv ==
    /\ EventType
    /\ reserved \subseteq Leases
    /\ recorded \subseteq Leases
    /\ managers \in [Leases -> ManagerType]
    /\ \A l \in Leases : managers[l].holds => managers[l].at \in HoldingStates
    /\ ManagersAreBacked

-----------------------------------------------------------------------------
(* Managers and reservations *)

\* A manager without hostnames, as Manager makes it.
LEMMA ManagerTyped ==
    ASSUME NEW a \in {"none", "ask", "done"}
    PROVE  /\ Manager(a) \in ManagerType
           /\ Manager(a).at = a /\ Manager(a).holds = FALSE
  BY DEF Manager, ManagerType, HoldingStates

\* A step that changes the manager of one lease keeps the invariant if the manager's
\* new state does.
LEMMA OneManager ==
    ASSUME IInv, NEW l \in Leases, NEW m \in ManagerType,
           managers' = [managers EXCEPT ![l] = m],
           m.holds => m.at \in HoldingStates,
           m.at # "none" => l \in reserved',
           reserved' \subseteq Leases, reserved \ {l} \subseteq reserved',
           recorded' \subseteq Leases, EventType'
    PROVE  IInv'
<1>1. managers' \in [Leases -> ManagerType] /\ managers'[l] = m
      /\ \A k \in Leases \ {l} : managers'[k] = managers[k]
  BY DEF IInv
<1> QED
  BY <1>1 DEF IInv, ManagersAreBacked

\* Nothing is there when the provider starts.
LEMMA InitIInv == Init => IInv
<1>1. Manager("none") \in ManagerType /\ Manager("none").at = "none"
      /\ Manager("none").holds = FALSE
  BY ManagerTyped
<1> QED
  BY <1>1 DEF Init, IInv, EventType, ManagersAreBacked, NoManager

\* Every step of the service, its managers and its surroundings keeps the invariant.
LEMMA NextIInv == IInv /\ [Next]_vars => IInv'
<1> SUFFICES ASSUME IInv, [Next]_vars PROVE IInv'
  OBVIOUS
<1> USE DEF chainVars, clusterVars, hostVars
<1>0. /\ EventType /\ reserved \subseteq Leases /\ recorded \subseteq Leases
      /\ managers \in [Leases -> ManagerType]
      /\ \A l \in Leases : managers[l].holds => managers[l].at \in HoldingStates
      /\ \A l \in Leases : managers[l].at # "none" => l \in reserved
  BY DEF IInv, ManagersAreBacked
<1>1. CASE UNCHANGED vars
  BY <1>1 DEF vars, IInv, EventType, ManagersAreBacked
<1>2. ASSUME NEW l \in Leases, LeaseWon(l) PROVE IInv'
  BY <1>2 DEF LeaseWon, IInv, EventType, ManagersAreBacked
<1>3. ASSUME NEW l \in Leases, ManifestReceived(l) PROVE IInv'
  BY <1>3 DEF ManifestReceived, IInv, EventType, ManagersAreBacked
<1>4. ASSUME NEW l \in Leases, LeaseClosed(l) PROVE IInv'
  BY <1>4 DEF LeaseClosed, IInv, EventType, ManagersAreBacked
<1>5. CASE PublisherStarts \/ Shutdown \/ ServiceDone \/ HostnamesShutDown
  BY <1>5 DEF PublisherStarts, Shutdown, ServiceDone, HostnamesShutDown, IInv, EventType, ManagersAreBacked
<1>6. CASE Killed
  <2>1. managers' = [l \in Leases |-> NoManager] /\ recorded' \subseteq Leases
        /\ reserved' = {} /\ events' = <<>>
    BY <1>0, <1>6 DEF Killed
  <2>2. Manager("none") \in ManagerType /\ Manager("none").at = "none"
        /\ Manager("none").holds = FALSE
    BY ManagerTyped
  <2> QED
    BY <2>1, <2>2 DEF NoManager, IInv, EventType, ManagersAreBacked
<1>7. CASE NewService
  <2>1. /\ reserved' = FindDeployments /\ FindDeployments \subseteq Leases
        /\ managers' = [l \in Leases |-> IF l \in FindDeployments THEN Manager("ask")
                                                                  ELSE Manager("none")]
        /\ UNCHANGED <<recorded, events>>
    BY <1>0, <1>7 DEF NewService, FindDeployments, NoManager
  <2>2. /\ Manager("ask") \in ManagerType /\ Manager("none") \in ManagerType
        /\ Manager("ask").holds = FALSE /\ Manager("none").holds = FALSE
        /\ Manager("none").at = "none"
    BY ManagerTyped
  <2> QED
    BY <1>0, <2>1, <2>2 DEF IInv, EventType, ManagersAreBacked
<1>8. CASE ServiceEvent
  <2> DEFINE l == Head(events)[2]
  <2>1. l \in Leases /\ EventType' /\ UNCHANGED recorded
    BY <1>0, <1>8 DEF ServiceEvent, EventType
  <2> HIDE DEF l
  <2>2. CASE HandleManifest(l)
    <3>1. CASE UNCHANGED managers
      BY <1>0, <2>1, <2>2, <3>1 DEF HandleManifest, IInv, ManagersAreBacked
    <3>2. CASE l \in reserved /\ managers' = [managers EXCEPT ![l] = Manager("ask")]
      BY <1>0, <2>1, <2>2, <3>2, ManagerTyped, OneManager DEF HandleManifest
    <3>3. CASE Listening(l) /\ l \in reserved
               /\ managers' = [managers EXCEPT ![l].at = IF @ = "up" THEN "deploy" ELSE @]
      <4> DEFINE m == [managers[l] EXCEPT !.at = IF @ = "up" THEN "deploy" ELSE @]
      <4>1. m \in ManagerType /\ (m.holds => m.at \in HoldingStates)
        BY <1>0, <2>1, <3>3 DEF ManagerType, HoldingStates
      <4>2. managers' = [managers EXCEPT ![l] = m]
        BY <3>3
      <4> QED
        BY <1>0, <2>1, <2>2, <3>3, <4>1, <4>2, OneManager DEF HandleManifest
    <3> QED
      BY <2>2, <3>1, <3>2, <3>3 DEF HandleManifest
  <2>3. CASE TeardownLease(l)
    <3>1. CASE UNCHANGED managers /\ reserved' \in {reserved, reserved \ {l}}
               /\ (reserved' = reserved \/ managers[l].at = "none")
      BY <1>0, <2>1, <3>1 DEF IInv, ManagersAreBacked
    <3>2. CASE Listening(l) /\ UNCHANGED reserved
               /\ managers' = [managers EXCEPT ![l].at = IF @ = "up" THEN "teardown" ELSE @,
                                               ![l].ending = managers[l].at # "up"]
      <4> DEFINE a == IF managers[l].at = "up" THEN "teardown" ELSE managers[l].at
                 e == managers[l].at # "up"
                 m == [managers[l] EXCEPT !.at = a, !.ending = e]
      <4>1. a \in HoldingStates \cup {"none", "ask", "granted", "refused", "done"}
            /\ e \in BOOLEAN /\ managers[l].holds \in BOOLEAN
            /\ (managers[l].holds => a \in HoldingStates)
        BY <1>0, <2>1 DEF ManagerType, HoldingStates
      <4>2. managers' = [managers EXCEPT ![l] = m]
        BY <1>0, <2>1, <3>2 DEF ManagerType
      <4>3. m \in ManagerType /\ m.at = a /\ m.holds = managers[l].holds
        <5> HIDE DEF a, e
        <5> QED BY <1>0, <2>1, <4>1 DEF ManagerType
      <4>4. l \in reserved
        BY <1>0, <2>1, <3>2 DEF Listening
      <4> HIDE DEF m, a, e
      <4> QED
        BY <1>0, <2>1, <3>2, <4>1, <4>2, <4>3, <4>4, OneManager
    <3> QED
      BY <2>3, <3>1, <3>2 DEF TeardownLease
  <2> QED
    BY <1>8, <2>2, <2>3 DEF ServiceEvent, l
<1>9. ASSUME NEW l \in Leases, ManagerDone(l) PROVE IInv'
  BY <1>0, <1>9, ManagerTyped, OneManager DEF ManagerDone, NoManager, EventType
<1>10. ASSUME NEW l \in Leases, DoRequest(l) PROVE IInv'
  <2>1. l \in reserved /\ UNCHANGED <<reserved, recorded, events>>
    BY <1>0, <1>10 DEF DoRequest
  <2>2. PICK m \in {[managers[l] EXCEPT !.at = "granted"],
                    [managers[l] EXCEPT !.at = "refused"]} :
            managers' = [managers EXCEPT ![l] = m]
    BY <1>10 DEF DoRequest
  <2>3. managers[l].holds = FALSE
    BY <1>0, <1>10 DEF DoRequest, HoldingStates, ManagerType
  <2>4. m \in ManagerType /\ (m.holds => m.at \in HoldingStates)
    BY <1>0, <2>2, <2>3 DEF ManagerType, HoldingStates
  <2> QED
    BY <1>0, <2>1, <2>2, <2>4, OneManager DEF EventType
<1>11. ASSUME NEW l \in Leases, ReadAnswer(l) PROVE IInv'
  <2>1. l \in reserved /\ UNCHANGED <<reserved, recorded, events>>
    BY <1>0, <1>11 DEF ReadAnswer
  <2>2. PICK m \in {[managers[l] EXCEPT !.at = "deploy", !.ending = FALSE, !.holds = TRUE],
                    [managers[l] EXCEPT !.at = "leaving"]} :
            managers' = [managers EXCEPT ![l] = m]
    BY <1>11 DEF ReadAnswer
  <2>3. m \in ManagerType /\ m.at \in HoldingStates
    BY <1>0, <2>2 DEF ManagerType, HoldingStates
  <2> QED
    BY <1>0, <2>1, <2>2, <2>3, OneManager DEF EventType
<1>12. ASSUME NEW l \in Leases,
              DeployReturns(l) \/ TeardownReturns(l) \/ ManagerShutdown(l)
       PROVE IInv'
  <2>1. l \in reserved /\ UNCHANGED <<reserved, events>>
    BY <1>0, <1>12 DEF DeployReturns, TeardownReturns, ManagerShutdown, Listening
  <2>2. PICK a \in {"teardown", "up", "leaving"} :
            managers' = [managers EXCEPT ![l] = [managers[l] EXCEPT !.at = a]]
    BY <1>12 DEF DeployReturns, TeardownReturns, ManagerShutdown
  <2>3. [managers[l] EXCEPT !.at = a] \in ManagerType
        /\ [managers[l] EXCEPT !.at = a].at \in HoldingStates
    BY <1>0, <2>2 DEF ManagerType, HoldingStates
  <2>4. recorded' \subseteq Leases
    <3>1. CASE DeployReturns(l)
      BY <1>0, <3>1 DEF DeployReturns
    <3>2. CASE TeardownReturns(l)
      BY <1>0, <3>2 DEF TeardownReturns
    <3>3. CASE ManagerShutdown(l)
      BY <1>0, <3>3 DEF ManagerShutdown
    <3> QED
      BY <1>12, <3>1, <3>2, <3>3
  <2> QED
    BY <1>0, <2>1, <2>2, <2>3, <2>4, OneManager DEF EventType
<1>13. ASSUME NEW l \in Leases, ManagerLeaves(l) PROVE IInv'
  BY <1>0, <1>13, ManagerTyped, OneManager DEF ManagerLeaves, EventType
<1> QED
  BY <1>1, <1>2, <1>3, <1>4, <1>5, <1>6, <1>7, <1>8, <1>9, <1>10, <1>11, <1>12, <1>13
     DEF Next, System

\* A lease with a manager has a reservation: at any time, with the provider killed,
\* restarted or shut down, and whatever the cluster answers (run of service.go).
THEOREM ManagersBacked == Spec => []ManagersAreBacked
<1>1. IInv => ManagersAreBacked
  BY DEF IInv
<1> QED
  BY <1>1, InitIInv, NextIInv, PTL DEF Spec

-----------------------------------------------------------------------------
(* Hostnames *)

\* A name that is not shared is its manager's, while the services run a name in use
\* has a manager, and a provider that starts has neither.
NamesInv ==
    /\ IInv
    /\ inUse \in [Hostnames -> {DeploymentOf[l] : l \in Leases} \cup {None}]
    /\ svc = "start" => /\ \A l \in Leases : managers[l].at = "none"
                       /\ \A h \in Hostnames : inUse[h] = None
    /\ HostnamesAreHeld

\* A step that changes neither who uses a name nor which managers have their names.
LEMMA HoldingKept ==
    ASSUME NamesInv, UNCHANGED inUse, svc' = "loop" => svc = "loop",
           hostnames' = "loop" => hostnames = "loop",
           \A l \in Leases : Has(l)' <=> Has(l)
    PROVE  HostnamesAreHeld'
  BY DEF NamesInv, HostnamesAreHeld, Shared

\* No name is in use when the provider starts.
LEMMA InitNamesInv == Init => NamesInv
<1> SUFFICES ASSUME Init PROVE NamesInv
  OBVIOUS
<1>1. Manager("none").at = "none" /\ Manager("none").holds = FALSE
  BY ManagerTyped
<1> QED
  BY <1>1, InitIInv DEF Init, NamesInv, HostnamesAreHeld, NoManager, Has

\* The hostname service and the managers keep it; the others do not touch names.
LEMMA NextNamesInv == NamesInv /\ [Next]_vars => NamesInv'
<1> SUFFICES ASSUME NamesInv, [Next]_vars PROVE NamesInv'
  OBVIOUS
<1> USE DEF chainVars, clusterVars, hostVars
<1>0. /\ IInv /\ IInv'
      /\ managers \in [Leases -> ManagerType]
      /\ \A l \in Leases : managers[l].holds => managers[l].at \in HoldingStates
      /\ \A l \in Leases : managers[l].holds \in BOOLEAN
      /\ inUse \in [Hostnames -> {DeploymentOf[l] : l \in Leases} \cup {None}]
      /\ svc = "start" => /\ \A l \in Leases : managers[l].at = "none"
                          /\ \A h \in Hostnames : inUse[h] = None
  BY NextIInv DEF NamesInv, IInv, ManagerType
<1>1. /\ Manager("none").at = "none" /\ Manager("none").holds = FALSE
      /\ Manager("ask").at = "ask" /\ Manager("ask").holds = FALSE
      /\ Manager("done").at = "done" /\ Manager("done").holds = FALSE
  BY ManagerTyped
<1>2. CASE /\ UNCHANGED <<managers, inUse>> /\ (svc' = svc \/ svc' \notin {"start", "loop"})
           /\ (hostnames' = hostnames \/ hostnames' = "done")
  BY <1>0, <1>2, HoldingKept DEF NamesInv, Has
<1>3. CASE Killed
  BY <1>0, <1>1, <1>3 DEF Killed, NamesInv, HostnamesAreHeld, NoManager, Has
<1>4. CASE NewService
  <2>1. UNCHANGED inUse /\ svc = "start" /\ svc' = "loop"
        /\ \A l \in Leases : ~Has(l)'
    BY <1>0, <1>1, <1>4 DEF NewService, NoManager, Has
  <2> QED
    BY <1>0, <2>1 DEF NamesInv, HostnamesAreHeld
<1>5. CASE ServiceEvent
  <2> DEFINE l == Head(events)[2]
  <2>1. l \in Leases
    BY <1>0, <1>5 DEF ServiceEvent, IInv, EventType
  <2>2. UNCHANGED <<hostnames, inUse, svc>> /\ svc = "loop"
        /\ (HandleManifest(l) \/ TeardownLease(l))
    BY <1>5 DEF ServiceEvent
  <2> HIDE DEF l
  <2>3. \A k \in Leases : Has(k)' <=> Has(k)
    <3>1. CASE HandleManifest(l)
      <4>1. CASE managers[l].at = "none" /\ managers' = [managers EXCEPT ![l] = Manager("ask")]
        <5>1. managers[l].holds = FALSE
          BY <1>0, <2>1, <4>1 DEF HoldingStates
        <5> QED
          BY <1>0, <1>1, <2>1, <4>1, <5>1 DEF Has
      <4>2. CASE managers' = [managers EXCEPT ![l].at = IF @ = "up" THEN "deploy" ELSE @]
        BY <1>0, <2>1, <4>2 DEF ManagerType, Has
      <4> QED
        BY <3>1, <4>1, <4>2 DEF HandleManifest, Has
    <3>2. CASE TeardownLease(l)
      BY <1>0, <2>1, <3>2 DEF TeardownLease, ManagerType, Has
    <3> QED
      BY <2>2, <3>1, <3>2
  <2> QED
    BY <1>0, <2>2, <2>3, HoldingKept DEF NamesInv
<1>6. ASSUME NEW l \in Leases,
             ManagerDone(l) \/ ReadAnswer(l) \/ DeployReturns(l) \/ TeardownReturns(l)
      PROVE NamesInv'
  <2>1. UNCHANGED <<hostnames, inUse, svc>> /\ managers[l].at # "none"
    BY <1>6 DEF ManagerDone, ReadAnswer, DeployReturns, TeardownReturns
  <2>2. \A k \in Leases : Has(k)' <=> Has(k)
    <3>1. CASE ManagerDone(l)
      BY <1>0, <1>1, <3>1 DEF ManagerDone, NoManager, HoldingStates, Has
    <3>2. CASE ReadAnswer(l)
      BY <1>0, <3>2 DEF ReadAnswer, ManagerType, Has
    <3>3. CASE DeployReturns(l)
      BY <1>0, <3>3 DEF DeployReturns, ManagerType, Has
    <3>4. CASE TeardownReturns(l)
      BY <1>0, <3>4 DEF TeardownReturns, ManagerType, Has
    <3> QED
      BY <1>6, <3>1, <3>2, <3>3, <3>4
  <2> QED
    BY <1>0, <2>1, <2>2, HoldingKept DEF NamesInv
<1>7. ASSUME NEW l \in Leases, ManagerShutdown(l) PROVE NamesInv'
  <2>1. UNCHANGED <<hostnames, inUse, svc>> /\ svc = "drain"
    BY <1>7 DEF ManagerShutdown
  <2>2. \A k \in Leases : Has(k)' => Has(k)
    BY <1>0, <1>7 DEF ManagerShutdown, ManagerType, Has
  <2>3. HostnamesAreHeld'
    BY <2>1, <2>2 DEF NamesInv, HostnamesAreHeld, Shared
  <2> QED
    BY <1>0, <2>1, <2>3 DEF NamesInv
<1>8. ASSUME NEW l \in Leases, DoRequest(l) PROVE NamesInv'
  <2>1. UNCHANGED <<hostnames, svc>> /\ svc # "start" /\ ~Has(l)
    BY <1>0, <1>8 DEF DoRequest, HoldingStates, Has
  <2>2. CASE UNCHANGED inUse /\ managers' = [managers EXCEPT ![l].at = "refused"]
    <3>1. \A k \in Leases : Has(k)' <=> Has(k)
      BY <1>0, <2>1, <2>2 DEF ManagerType, Has
    <3> QED
      BY <1>0, <2>1, <2>2, <3>1, HoldingKept DEF NamesInv
  <2>3. CASE /\ Allowed(l)
             /\ inUse' = [h \in Hostnames |-> IF h \in Names[l] THEN DeploymentOf[l]
                                                               ELSE inUse[h]]
             /\ managers' = [managers EXCEPT ![l].at = "granted"]
    <3>1. Has(l)' /\ \A k \in Leases \ {l} : Has(k)' <=> Has(k)
      BY <1>0, <2>3 DEF ManagerType, Has
    <3>2. inUse' \in [Hostnames -> {DeploymentOf[k] : k \in Leases} \cup {None}]
      BY <1>0, <2>3
    <3>3. \A h \in Names[l] : h \in Hostnames /\ inUse'[h] = DeploymentOf[l]
      BY <2>3 DEF Hostnames
    <3>4. ASSUME NEW k \in Leases \ {l}, Has(k), NEW h \in Names[k], ~Shared(h)
          PROVE  inUse'[h] = DeploymentOf[k]
      <4>1. h \in Hostnames /\ inUse[h] = DeploymentOf[k]
        BY <3>4 DEF NamesInv, HostnamesAreHeld, Hostnames
      <4>2. h \in Names[l] => DeploymentOf[k] # None /\ DeploymentOf[k] # DeploymentOf[l]
        BY <3>4, DeploymentsNamed DEF Shared
      <4> QED
        BY <2>3, <4>1, <4>2 DEF Allowed
    <3>5. ASSUME NEW h \in Hostnames, inUse'[h] # None, svc = "loop", hostnames = "loop"
          PROVE  \E k \in Leases : Has(k)' /\ h \in Names[k] /\ inUse'[h] = DeploymentOf[k]
      <4>1. CASE h \in Names[l]
        BY <3>1, <3>3, <4>1
      <4>2. CASE h \notin Names[l]
        <5>1. inUse'[h] = inUse[h]
          BY <2>3, <4>2
        <5>2. PICK k \in Leases : Has(k) /\ h \in Names[k] /\ inUse[h] = DeploymentOf[k]
          BY <3>5, <5>1 DEF NamesInv, HostnamesAreHeld
        <5> QED
          BY <2>1, <3>1, <5>1, <5>2
      <4> QED
        BY <4>1, <4>2
    <3>6. HostnamesAreHeld'
      BY <2>1, <3>1, <3>3, <3>4, <3>5 DEF HostnamesAreHeld, Shared
    <3> QED
      BY <1>0, <2>1, <3>2, <3>6 DEF NamesInv
  <2> QED
    BY <1>8, <2>2, <2>3 DEF DoRequest
<1>9. ASSUME NEW l \in Leases, ManagerLeaves(l) PROVE NamesInv'
  <2>1. /\ UNCHANGED <<hostnames, svc>> /\ svc # "start"
        /\ ~Has(l)' /\ \A k \in Leases \ {l} : Has(k)' <=> Has(k)
    BY <1>0, <1>1, <1>9 DEF ManagerLeaves, Has
  <2>2. inUse' = [h \in Hostnames |-> IF Releases(l, h) THEN None ELSE inUse[h]]
    BY <1>9 DEF ManagerLeaves
  <2>3. inUse' \in [Hostnames -> {DeploymentOf[k] : k \in Leases} \cup {None}]
    BY <1>0, <2>2
  <2>4. ASSUME NEW k \in Leases \ {l}, Has(k), NEW h \in Names[k], ~Shared(h)
        PROVE  inUse'[h] = DeploymentOf[k]
    <3>1. h \in Hostnames /\ inUse[h] = DeploymentOf[k]
          /\ (managers[l].holds /\ h \in Names[l] => inUse[h] = DeploymentOf[l])
      BY <2>4 DEF NamesInv, HostnamesAreHeld, Hostnames, Has
    <3>2. h \in Names[l] => DeploymentOf[k] # DeploymentOf[l]
      BY <2>4 DEF Shared
    <3>3. ~Releases(l, h)
      BY <3>1, <3>2 DEF Releases
    <3> QED
      BY <2>2, <3>1, <3>3
  <2>5. ASSUME NEW h \in Hostnames, inUse'[h] # None, svc = "loop", hostnames = "loop"
        PROVE  \E k \in Leases : Has(k)' /\ h \in Names[k] /\ inUse'[h] = DeploymentOf[k]
    <3>1. inUse'[h] = inUse[h] /\ ~(managers[l].holds /\ h \in Names[l])
      BY <2>2, <2>5 DEF Releases
    <3>2. PICK k \in Leases : Has(k) /\ h \in Names[k] /\ inUse[h] = DeploymentOf[k]
      BY <2>5, <3>1 DEF NamesInv, HostnamesAreHeld
    <3>3. k # l
      BY <1>9, <3>1, <3>2 DEF ManagerLeaves, Has
    <3> QED
      BY <2>1, <3>1, <3>2, <3>3
  <2>6. HostnamesAreHeld'
    BY <2>1, <2>4, <2>5 DEF HostnamesAreHeld, Shared
  <2> QED
    BY <1>0, <2>1, <2>3, <2>6 DEF NamesInv
<1>10. ASSUME NEW l \in Leases, LeaseWon(l) \/ ManifestReceived(l) \/ LeaseClosed(l)
       PROVE NamesInv'
  BY <1>2, <1>10 DEF LeaseWon, ManifestReceived, LeaseClosed
<1>11. CASE UNCHANGED vars \/ PublisherStarts \/ Shutdown \/ ServiceDone \/ HostnamesShutDown
  BY <1>2, <1>11 DEF vars, PublisherStarts, Shutdown, ServiceDone, HostnamesShutDown
<1> QED
  BY <1>3, <1>4, <1>5, <1>6, <1>7, <1>8, <1>9, <1>10, <1>11 DEF Next, System

\* A hostname that was granted to a manager is its deployment's until the manager
\* releases it, unless two leases of one deployment share it; and while the services
\* run a name is in use only as long as such a manager is there (doRequest and
\* doRelease of hostname.go).
THEOREM HostnamesHeld == Spec => []HostnamesAreHeld
<1>1. NamesInv => HostnamesAreHeld
  BY DEF NamesInv
<1> QED
  BY <1>1, InitNamesInv, NextNamesInv, PTL DEF Spec
=============================================================================
