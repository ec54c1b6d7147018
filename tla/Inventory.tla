------------------------------ MODULE Inventory ------------------------------
(***************************************************************************)
(* The inventory service of the provider's cluster service                 *)
(* (src/provider/cluster/inventory.go): one goroutine that owns the        *)
(* reservations, serves requests and deployment events, and refreshes its  *)
(* view of the cluster with checks that run in goroutines of their own.    *)
(*                                                                         *)
(* A resource is reduced to one kind of unit: CPU, memory and storage are  *)
(* subtracted in the same way and a subtraction fails if one of them does. *)
(* The cluster (Kubernetes), the monitors that publish deployment events   *)
(* and the services that reserve and unreserve are the environment.        *)
(***************************************************************************)
EXTENDS Integers, Sequences, FiniteSets, SequencesExt, FiniteSetsExt

CONSTANTS
    Orders,         \* orders that may ask for a reservation
    Request,        \* Request[o]: sequence of [units, count], one per service
    Endpoints,      \* Endpoints[o]: external ports of the order's services
    Deployed,       \* sequence of the orders deployed when the service starts
    Capacity,       \* Capacity[n]: units of node n
    CommitLevel,    \* overcommit factor of the configuration
    PortQuantity,   \* InventoryExternalPortQuantity
    UintRange,      \* a uint holds 0..UintRange-1
    MaxQueue,       \* bound: events in flight on the bus
    MaxUnits        \* bound: units a status query may write into a reservation

ASSUME InventoryParameters ==
    /\ Request \in [Orders -> Seq([units : Nat, count : Nat])]
    /\ Endpoints \in [Orders -> Nat]
    /\ Deployed \in Seq(Orders)
    /\ Capacity \in Seq(Nat)
    /\ PortQuantity < UintRange
    /\ {CommitLevel, PortQuantity, UintRange, MaxQueue, MaxUnits} \subseteq Nat

VARIABLES
    reservations,   \* sequence of [order, resources, allocated]
    ports,          \* availableExternalPorts
    inventory,      \* units available on each node, as last fetched
    runch,          \* the check in flight and its result, see Checks
    armed,          \* the poll timer is running
    tick,           \* the poll timer has fired: a value waits in t.C
    reserveOpen,    \* reserveChLocal is not nil
    phase,          \* "running", "draining" (after the loop), "done"
    client,         \* client[o]: where the users of the reservation of o are
    pods,           \* pods[o]: units the order's pods use on each node
    events,         \* events published and not yet received, oldest first
    seen            \* history: orders with pods when inventory was sampled

loopVars == <<reservations, ports, inventory, runch, armed, reserveOpen, phase, seen>>
vars == <<reservations, ports, inventory, runch, armed, tick, reserveOpen, phase,
          client, pods, events, seen>>

Nodes == DOMAIN Capacity
NoPods == [n \in Nodes |-> 0]
Running(o) == pods[o] # NoPods

\* "asleep": runch is nil; "running": the cluster has not answered yet.
NoCheck == [state |-> "asleep"]
RunCheck == [state |-> "running"]
CheckFailed == [state |-> "error"]
CheckDone(value, orders) == [state |-> "done", value |-> value, orders |-> orders]

-----------------------------------------------------------------------------
(* Resources. *)

\* math.Round(v / factor), and never zero.
ComputeCommittedResources(v) ==
    IF CommitLevel <= 1 THEN v
    ELSE Max({1, (2 * v + CommitLevel) \div (2 * CommitLevel)})

CommittedResources(rs) ==
    [i \in DOMAIN rs |-> [rs[i] EXCEPT !.units = ComputeCommittedResources(@)]]

NewReservation(o, rs) == [order |-> o, resources |-> rs, allocated |-> FALSE]

\* Instances of one resource are put on a node while they fit; the rest stays.
Fill(node, r) ==
    LET n == IF r.units = 0 THEN r.count ELSE Min({r.count, node.available \div r.units})
    IN  [available |-> node.available - n * r.units,
         rest      |-> IF n = r.count THEN node.rest
                       ELSE Append(node.rest, [r EXCEPT !.count = r.count - n])]

\* x is what is left of the nodes and ports; ok when all of rs fits.
ReservationAdjustInventory(x, endpoints, rs) ==
    LET Node(acc, available) ==
            LET filled == FoldLeft(Fill, [available |-> available, rest |-> <<>>], acc.rest)
            IN  [nodes |-> Append(acc.nodes, filled.available), rest |-> filled.rest]
        all == FoldLeft(Node, [nodes |-> <<>>, rest |-> rs], x.nodes)
    IN  IF ~x.ok \/ x.ports < endpoints THEN [x EXCEPT !.ok = FALSE]
        ELSE [ok |-> all.rest = <<>>, nodes |-> all.nodes, ports |-> x.ports - endpoints]

\* Variant: reservations that are not deployed yet are not counted.
ReservationAllocateableAlone(nodes, available, rsvs, new) ==
    ReservationAdjustInventory([ok |-> TRUE, nodes |-> nodes, ports |-> available],
                               Endpoints[new.order], new.resources).ok

\* The pending reservations and the new one fit into the nodes, one after the
\* other, and the ports suffice for all of them.
ReservationAllocateable(nodes, available, rsvs, new) ==
    LET Adjust(x, r) ==
            IF r.allocated THEN x
            ELSE ReservationAdjustInventory(x, Endpoints[r.order], r.resources)
    IN  FoldLeft(Adjust, [ok |-> TRUE, nodes |-> nodes, ports |-> available],
                 Append(rsvs, new)).ok

\* getStatus adds up the units of a reservation in place: ResourceUnits.Add
\* stores the sum through the pointer it took from the first resource.
SumInPlace(rs) ==
    LET Total(f) == FoldLeft(LAMBDA x, r : x + r.units, 0, f)
    IN  [i \in DOMAIN rs |-> IF i = 1 THEN [rs[i] EXCEPT !.units = Total(rs)] ELSE rs[i]]

IndexOf(o) == SelectInSeq(reservations, LAMBDA r : r.order = o)

-----------------------------------------------------------------------------
Init ==
    /\ reservations = [i \in DOMAIN Deployed |-> NewReservation(Deployed[i], Request[Deployed[i]])]
    /\ ports = PortQuantity
    /\ inventory = <<>>
    /\ runch = RunCheck
    /\ armed = FALSE
    /\ tick = FALSE
    /\ reserveOpen = FALSE
    /\ phase = "running"
    /\ client = [o \in Orders |-> IF o \in Range(Deployed) THEN "held" ELSE "idle"]
    /\ pods = [o \in Orders |-> NoPods]
    /\ events = <<>>
    /\ seen = {}

-----------------------------------------------------------------------------
(* The event loop. *)

\* stopProcessingReservations: a check in flight is not started again.
StopProcessingReservations ==
    /\ reserveOpen' = FALSE
    /\ runch' = IF runch = NoCheck THEN RunCheck ELSE runch

\* Variant: the ports are adjusted although the status did not change.
DeploymentEventCountsTwice ==
    /\ phase = "running"
    /\ events # <<>>
    /\ events' = Tail(events)
    /\ LET ev == Head(events)
           i  == IndexOf(ev.order)
           n  == Endpoints[ev.order]
       IN  IF i = 0 THEN UNCHANGED <<reservations, ports, runch, reserveOpen>>
           ELSE /\ reservations' = [reservations EXCEPT ![i].allocated = ev.deployed]
                /\ StopProcessingReservations
                /\ ports' = (IF ev.deployed THEN ports - n ELSE ports + n) % UintRange
    /\ UNCHANGED <<inventory, armed, tick, phase, client, pods, seen>>

\* case ev := <-is.sub.Events()
DeploymentEvent ==
    /\ phase = "running"
    /\ events # <<>>
    /\ events' = Tail(events)
    /\ LET ev == Head(events)
           i  == IndexOf(ev.order)
           n  == Endpoints[ev.order]
       IN  IF i = 0 THEN UNCHANGED <<reservations, ports, runch, reserveOpen>>
           ELSE /\ reservations' = [reservations EXCEPT ![i].allocated = ev.deployed]
                /\ StopProcessingReservations
                /\ ports' = IF ev.deployed = reservations[i].allocated THEN ports
                            ELSE (IF ev.deployed THEN ports - n ELSE ports + n) % UintRange
    /\ UNCHANGED <<inventory, armed, tick, phase, client, pods, seen>>

\* case req := <-reserveChLocal
Reserve(o) ==
    /\ phase = "running"
    /\ reserveOpen
    /\ client[o] = "waiting"
    /\ LET new == NewReservation(o, CommittedResources(Request[o]))
       IN  IF ReservationAllocateable(inventory, ports, reservations, new)
           THEN /\ reservations' = Append(reservations, new)
                /\ client' = [client EXCEPT ![o] = "held"]
           ELSE /\ client' = [client EXCEPT ![o] = "refused"]
                /\ UNCHANGED reservations
    /\ UNCHANGED <<ports, inventory, runch, armed, tick, reserveOpen, phase, pods,
                   events, seen>>

\* Variant: the ports of a deployed reservation are not reclaimed.
UnreserveKeepsPorts(o) ==
    /\ phase = "running"
    /\ client[o] = "leaving"
    /\ client' = [client EXCEPT ![o] = "gone"]
    /\ reservations' = IF IndexOf(o) = 0 THEN reservations ELSE RemoveAt(reservations, IndexOf(o))
    /\ UNCHANGED <<ports, inventory, runch, armed, tick, reserveOpen, phase, pods,
                   events, seen>>

\* case req := <-is.unreservech
Unreserve(o) ==
    /\ phase = "running"
    /\ client[o] = "leaving"
    /\ client' = [client EXCEPT ![o] = "gone"]
    /\ LET i == IndexOf(o)
       IN  IF i = 0 THEN UNCHANGED <<reservations, ports>>
           ELSE /\ reservations' = RemoveAt(reservations, i)
                /\ ports' = IF reservations[i].allocated
                            THEN (ports + Endpoints[o]) % UintRange ELSE ports
    /\ UNCHANGED <<inventory, runch, armed, tick, reserveOpen, phase, pods, events,
                   seen>>

\* case responseCh := <-is.statusch
Status ==
    /\ phase = "running"
    /\ \A i \in DOMAIN reservations :
           SumInPlace(reservations[i].resources)[1].units <= MaxUnits
    /\ reservations' = [i \in DOMAIN reservations |->
           [reservations[i] EXCEPT !.resources = SumInPlace(@)]]
    /\ UNCHANGED <<ports, inventory, runch, armed, tick, reserveOpen, phase, client,
                   pods, events, seen>>

\* case <-t.C: a check in flight is abandoned.
PollTick ==
    /\ phase = "running"
    /\ tick
    /\ tick' = FALSE
    /\ armed' = FALSE
    /\ runch' = RunCheck
    /\ UNCHANGED <<reservations, ports, inventory, reserveOpen, phase, client, pods,
                   events, seen>>

\* Variant: the timer is reset only after a check that succeeded.
CheckResultForgetsTimer ==
    /\ phase = "running"
    /\ runch.state \in {"error", "done"}
    /\ runch' = NoCheck
    /\ IF runch.state = "error"
       THEN UNCHANGED <<armed, inventory, reserveOpen, seen>>
       ELSE /\ armed' = TRUE
            /\ inventory' = runch.value
            /\ seen' = runch.orders
            /\ reserveOpen' = TRUE
    /\ UNCHANGED <<reservations, ports, tick, phase, client, pods, events>>

\* case res := <-runch
CheckResult ==
    /\ phase = "running"
    /\ runch.state \in {"error", "done"}
    /\ runch' = NoCheck
    /\ armed' = TRUE
    /\ IF runch.state = "error"
       THEN UNCHANGED <<inventory, reserveOpen, seen>>
       ELSE /\ inventory' = runch.value
            /\ seen' = runch.orders
            /\ reserveOpen' = TRUE
    /\ UNCHANGED <<reservations, ports, tick, phase, client, pods, events>>

\* case err := <-is.lc.ShutdownRequest(): requests that wait are answered with
\* ErrNotRunning.
Shutdown ==
    /\ phase = "running"
    /\ phase' = "draining"
    /\ client' = [o \in Orders |-> IF client[o] \in {"waiting", "leaving"} THEN "gone"
                                                                          ELSE client[o]]
    /\ UNCHANGED <<reservations, ports, inventory, runch, armed, tick, reserveOpen,
                   pods, events, seen>>

\* The check in flight is awaited; the timer is stopped.
Drain ==
    /\ phase = "draining"
    /\ runch.state # "running"
    /\ phase' = "done"
    /\ runch' = NoCheck
    /\ armed' = FALSE
    /\ UNCHANGED <<reservations, ports, inventory, tick, reserveOpen, client, pods,
                   events, seen>>

-----------------------------------------------------------------------------
(* The goroutine of a check, and the timer. *)

Available == [n \in Nodes |-> Capacity[n] - MapThenSumSet(LAMBDA o : pods[o][n], Orders)]

\* client.Inventory returns what the cluster reports at some moment.
CheckReturns ==
    /\ runch = RunCheck
    /\ runch' = CheckDone(Available, {o \in Orders : Running(o)})
    /\ UNCHANGED <<reservations, ports, inventory, armed, tick, reserveOpen, phase,
                   client, pods, events, seen>>

CheckFails ==
    /\ runch = RunCheck
    /\ runch' = CheckFailed
    /\ UNCHANGED <<reservations, ports, inventory, armed, tick, reserveOpen, phase,
                   client, pods, events, seen>>

TimerFires ==
    /\ armed
    /\ armed' = FALSE
    /\ tick' = TRUE
    /\ UNCHANGED <<reservations, ports, inventory, runch, reserveOpen, phase, client,
                   pods, events, seen>>

-----------------------------------------------------------------------------
(* The environment. *)

\* The bid engine asks for a reservation and waits.
RequestReservation(o) ==
    /\ phase = "running"
    /\ client[o] = "idle"
    /\ client' = [client EXCEPT ![o] = "waiting"]
    /\ UNCHANGED <<loopVars, tick, pods, events>>

\* The cluster schedules the instances of a leased order on nodes with room.
PodsStart(o) ==
    LET rs == Request[o]
        instances == UNION {{<<i, k>> : k \in 1..rs[i].count} : i \in DOMAIN rs}
        Load(place, n) ==
            MapThenSumSet(LAMBDA x : ComputeCommittedResources(rs[x[1]].units),
                          {x \in instances : place[x] = n})
    IN  /\ client[o] = "held"
        /\ ~Running(o)
        /\ \E place \in [instances -> Nodes] :
              /\ \A n \in Nodes : Load(place, n) <= Available[n]
              /\ pods' = [pods EXCEPT ![o] = [n \in Nodes |-> Load(place, n)]]
        /\ UNCHANGED <<loopVars, tick, client, events>>

\* Pods fail, or are deleted when the lease has ended.
PodsStop(o) ==
    /\ Running(o)
    /\ pods' = [pods EXCEPT ![o] = NoPods]
    /\ UNCHANGED <<loopVars, tick, client, events>>

\* The monitor of a deployment reports whether its pods run.
Publish(o) ==
    /\ client[o] = "held"
    /\ Len(events) < MaxQueue
    /\ events' = Append(events, [order |-> o, deployed |-> Running(o)])
    /\ UNCHANGED <<loopVars, tick, client, pods>>

\* The bid was lost, or the lease ended and its pods are gone.
RequestUnreserve(o) ==
    /\ phase = "running"
    /\ client[o] = "held"
    /\ ~Running(o)
    /\ client' = [client EXCEPT ![o] = "leaving"]
    /\ UNCHANGED <<loopVars, tick, pods, events>>

Loop ==
    \/ DeploymentEvent
    \/ \E o \in Orders : Reserve(o) \/ Unreserve(o)
    \/ PollTick
    \/ CheckResult
    \/ Drain

Next ==
    \/ Loop
    \/ Status
    \/ Shutdown
    \/ CheckReturns \/ CheckFails \/ TimerFires
    \/ \E o \in Orders : \/ RequestReservation(o) \/ PodsStart(o) \/ PodsStop(o)
                         \/ Publish(o) \/ RequestUnreserve(o)

Spec == Init /\ [][Next]_vars

\* The scheduler runs every goroutine that can run and Go's select chooses among
\* ready channels at random, so none is passed over forever; the timer fires;
\* the cluster's interface answers a check and does not fail for ever.  A
\* request can be received only while reserveChLocal is set, and a tick that is
\* ready together with a result may win, hence strong fairness of Reserve and of
\* receiving a good result (ReserveReady is when Reserve is enabled).
ReserveReady(o) == phase = "running" /\ reserveOpen /\ client[o] = "waiting"

Fairness ==
    /\ WF_vars(DeploymentEvent)
    /\ \A o \in Orders : ([]<>ReserveReady(o)) => []<><<Reserve(o)>>_vars
    /\ \A o \in Orders : WF_vars(Unreserve(o))
    /\ WF_vars(PollTick)
    /\ WF_vars(CheckResult)
    /\ SF_vars(runch.state = "done" /\ CheckResult)
    /\ WF_vars(Drain)
    /\ WF_vars(CheckReturns \/ CheckFails)
    /\ SF_vars(CheckReturns)
    /\ WF_vars(TimerFires)

FairSpec == Spec /\ Fairness

-----------------------------------------------------------------------------
(* Properties *)

EndpointsOf(allocated) ==
    MapThenSumSet(LAMBDA i : Endpoints[reservations[i].order],
                  {i \in DOMAIN reservations : reservations[i].allocated = allocated})

\* Every external port is either available or held by a reservation that is
\* deployed, however deployments come up, fail, come back and are unreserved
\* (inventory.go:382-389 and :452-454 adjust one counter from two places).
\* The available ports suffice for all reservations that are not deployed, so
\* that availableExternalPorts, which is unsigned, does not wrap around when
\* they are (inventory.go:385).
PortsAccounted ==
    /\ ports + EndpointsOf(TRUE) = PortQuantity
    /\ EndpointsOf(FALSE) <= ports

\* The orders os, all at once, can be placed on the nodes.
FitTogether(os) ==
    LET rs(o) == CommittedResources(Request[o])
        instances == UNION {UNION {{<<o, i, k>> : k \in 1..Request[o][i].count} :
                                       i \in DOMAIN Request[o]} : o \in os}
    IN  \E place \in [instances -> Nodes] :
            \A n \in Nodes :
                MapThenSumSet(LAMBDA x : rs(x[1])[x[2]].units,
                              {x \in instances : place[x] = n}) <= Capacity[n]

Reserved == {reservations[i].order : i \in DOMAIN reservations}

\* Granting a reservation does not promise more than the cluster has, provided
\* the inventory was sampled after the pods of every reservation marked
\* allocated had started: the pending reservations and the new one are
\* subtracted from what the cluster reports, the allocated ones are in it.
GrantsFit ==
    [][/\ Len(reservations') > Len(reservations)
       /\ FitTogether(Reserved)
       /\ \A i \in DOMAIN reservations :
             reservations[i].allocated => reservations[i].order \in seen
       => FitTogether(Reserved')]_vars

\* A caller of reserve is answered.
CallsReturn == \A o \in Orders : client[o] = "waiting" ~> client[o] # "waiting"

\* "create new registration if capacity available" (inventory.go:403): the
\* reserved orders can run together.
ReservationsFitCluster == FitTogether(Reserved)

\* "for each unallocated reservation, subtract its resources from inventory"
\* (inventory.go:553): a reservation stands for the resources it was made for.
ReservationsKeepTheirSize ==
    \A i \in DOMAIN reservations :
        reservations[i].resources \in
            {Request[reservations[i].order], CommittedResources(Request[reservations[i].order])}
=============================================================================
