----------------------------- MODULE BidService -----------------------------
(***************************************************************************)
(* The bid engine (src/provider/bidengine/service.go) on the event bus: it *)
(* lists the open orders when it starts, subscribes, starts a monitor for  *)
(* each order it listed and for each one whose creation it is told of, and *)
(* gives every monitor a clone of its subscription (order.go:82).  The     *)
(* events come from the chain through the publisher (src/events), which    *)
(* the provider starts last (src/provider/cmd/run.go:544).                 *)
(*                                                                         *)
(* What a monitor does between its first and its last step is BidOrder;    *)
(* here it reads events until one ends its order, or something else makes  *)
(* it leave its loop.                                                      *)
(***************************************************************************)
EXTENDS Bus

CONSTANTS
    Orders,
    Service,    \* the service's subscription
    MaxFeed     \* events a node has yet to dispatch

ASSUME ServiceParameters ==
    /\ Service \notin Orders
    /\ Subscribers = Orders \cup {Service}
    /\ Events = {"created", "ended"} \X Orders

VARIABLES
    chain,      \* state of the orders: "none", "open", "ended"
    feed,       \* events of executed transactions that were not yet dispatched
    publisher,  \* subscribed to the node's events
    svc,        \* of NewService and run, see below
    create,     \* orders for which newOrder is to be called
    mon         \* state of the monitors: "none", "loop", "closing", "closed", "done"

serviceVars == <<svc, create, mon>>
chainVars == <<chain, feed, publisher>>
vars == <<busVars, serviceVars, chainVars>>

\* svc: "query", "subscribe"; "loop", in newOrder while create is not empty;
\* "drain", "pass", "close", "closing": after the loop; "done".
Init ==
    /\ BusInit
    /\ chain \in [Orders -> {"none", "open"}]
    /\ feed = <<>>
    /\ publisher = FALSE
    /\ svc = "query"
    /\ create = {}
    /\ mon = [o \in Orders |-> "none"]

Created(o) == <<"created", o>>
Ended(o) == <<"ended", o>>

-----------------------------------------------------------------------------
(* The chain and the publisher. *)

\* A transaction creates the order, or closes it or leases it.
Executed(o) ==
    /\ Len(feed) < MaxFeed
    /\ \/ chain[o] = "none" /\ chain' = [chain EXCEPT ![o] = "open"]
                            /\ feed' = Append(feed, Created(o))
       \/ chain[o] = "open" /\ chain' = [chain EXCEPT ![o] = "ended"]
                            /\ feed' = Append(feed, Ended(o))
    /\ UNCHANGED <<busVars, serviceVars, publisher>>

\* events.Publish: tmbus.Subscribe.  Nobody gets the events dispatched before.
PublisherStarts ==
    /\ ~publisher
    /\ svc \notin {"query", "subscribe"}
    /\ publisher' = TRUE
    /\ UNCHANGED <<busVars, serviceVars, chain, feed>>

\* processEvents, and what the node dispatches to nobody.
Dispatch ==
    /\ feed # <<>>
    /\ feed' = Tail(feed)
    /\ IF publisher /\ ~ShuttingDown(Root)
       THEN Publish(Head(feed))
       ELSE UNCHANGED busVars
    /\ UNCHANGED <<serviceVars, chain, publisher>>

-----------------------------------------------------------------------------
(* The service. *)

\* queryExistingOrders
QueryExistingOrders ==
    /\ svc = "query"
    /\ svc' = "subscribe"
    /\ create' = {o \in Orders : chain[o] = "open"}
    /\ UNCHANGED <<busVars, mon, chainVars>>

\* bus.Subscribe
SubscribeService ==
    /\ svc = "subscribe"
    /\ Subscribe(Root, Service)
    /\ svc' = "loop"
    /\ UNCHANGED <<create, mon, chainVars>>

\* run is at its select, newOrder has returned.
AtSelect == svc = "loop" /\ create = {}

\* newOrder: svc.sub.Clone
NewOrder(o) ==
    /\ svc = "loop"
    /\ o \in create
    /\ Subscribe(Service, o)
    /\ create' = create \ {o}
    /\ mon' = [mon EXCEPT ![o] = "loop"]
    /\ UNCHANGED <<svc, chainVars>>

\* case ev := <-s.sub.Events()
ServiceEvent ==
    /\ AtSelect
    /\ Emit(Service)
    /\ create' = {o \in Orders : Head(evbuf[Service]) = Created(o) /\ mon[o] = "none"}
    /\ UNCHANGED <<svc, mon, chainVars>>

\* case <-s.lc.ShutdownRequest()
ShutdownService ==
    /\ AtSelect
    /\ svc' = "drain"
    /\ UNCHANGED <<busVars, create, mon, chainVars>>

\* Variant: the monitors are received in the loop only.
DrainedInLoop(o) ==
    /\ AtSelect
    /\ mon[o] = "done"
    /\ mon' = [mon EXCEPT ![o] = "none"]
    /\ UNCHANGED <<busVars, svc, create, chainVars>>

\* order := <-s.drainch, in the loop or after it
Drained(o) ==
    /\ AtSelect \/ svc = "drain"
    /\ mon[o] = "done"
    /\ mon' = [mon EXCEPT ![o] = "none"]
    /\ UNCHANGED <<busVars, svc, create, chainVars>>

\* All monitors are drained; the attribute service was told to stop.
DrainEnds ==
    /\ svc = "drain"
    /\ \A o \in Orders : mon[o] = "none"
    /\ svc' = "pass"
    /\ UNCHANGED <<busVars, create, mon, chainVars>>

\* <-s.pass.lc.Done(), see AttributeCache
AttributesDone ==
    /\ svc = "pass"
    /\ svc' = "close"
    /\ UNCHANGED <<busVars, create, mon, chainVars>>

\* s.sub.Close
CloseService ==
    /\ svc = "close"
    /\ Shutdown(Service)
    /\ svc' = "closing"
    /\ UNCHANGED <<create, mon, chainVars>>

ServiceDone ==
    /\ svc = "closing"
    /\ phase[Service] = "off"
    /\ svc' = "done"
    /\ UNCHANGED <<busVars, create, mon, chainVars>>

\* defer bus.Close() of doRunCmd
CloseBus ==
    /\ svc = "done"
    /\ Shutdown(Root)
    /\ UNCHANGED <<serviceVars, chainVars>>

-----------------------------------------------------------------------------
(* The monitors. *)

\* case ev := <-o.sub.Events()
MonitorEvent(o) ==
    /\ mon[o] = "loop"
    /\ Emit(o)
    /\ mon' = [mon EXCEPT ![o] = IF Head(evbuf[o]) = Ended(o) THEN "closing" ELSE "loop"]
    /\ UNCHANGED <<svc, create, chainVars>>

\* o.lc.WatchChannel(svc.lc.ShuttingDown())
MonitorShutsDown(o) ==
    /\ svc = "drain"
    /\ mon[o] = "loop"
    /\ mon' = [mon EXCEPT ![o] = "closing"]
    /\ UNCHANGED <<busVars, svc, create, chainVars>>

\* A call failed, the order was declined, or the bid timed out.
MonitorGivesUp(o) ==
    /\ svc # "drain"
    /\ mon[o] = "loop"
    /\ mon' = [mon EXCEPT ![o] = "closing"]
    /\ UNCHANGED <<busVars, svc, create, chainVars>>

\* o.sub.Close: the request is taken
MonitorCloses(o) ==
    /\ mon[o] = "closing"
    /\ Shutdown(o)
    /\ mon' = [mon EXCEPT ![o] = "closed"]
    /\ UNCHANGED <<svc, create, chainVars>>

\* o.sub.Close has returned, and the rest of run
MonitorDone(o) ==
    /\ mon[o] = "closed"
    /\ phase[o] = "off"
    /\ mon' = [mon EXCEPT ![o] = "done"]
    /\ UNCHANGED <<busVars, svc, create, chainVars>>

-----------------------------------------------------------------------------
ServiceStep ==
    \/ QueryExistingOrders \/ SubscribeService \/ ServiceEvent
    \/ DrainEnds \/ CloseService \/ ServiceDone \/ CloseBus
    \/ \E o \in Orders : NewOrder(o) \/ Drained(o)

MonitorStep(o) == MonitorEvent(o) \/ MonitorShutsDown(o) \/ MonitorCloses(o) \/ MonitorDone(o)

BusLoops == BusStep /\ UNCHANGED <<serviceVars, chainVars>>

Next ==
    \/ BusLoops
    \/ ServiceStep \/ ShutdownService \/ AttributesDone
    \/ PublisherStarts \/ Dispatch
    \/ \E o \in Orders : Executed(o) \/ MonitorStep(o) \/ MonitorGivesUp(o)

Spec == Init /\ [][Next]_vars

\* The provider's goroutines run as long as one of them can, and the publisher
\* publishes what it receives.  A node need not execute transactions, a monitor
\* need not give up, the provider need not be shut down, and the attribute service
\* may not come to its end.
System == BusLoops \/ ServiceStep \/ Dispatch \/ \E o \in Orders : MonitorStep(o)

FairSpec == Spec /\ WF_vars(System)

-----------------------------------------------------------------------------
(* Properties *)

\* The bus keeps the promise of Subscriber's comment (pubsub/bus.go:27): every
\* subscriber, and every clone from where the cloned subscriber stood, reads the
\* published events in order, none twice and none left out, whatever the order in
\* which the loops of the tree run and its nodes come and go.
KeepsPromise == Promise!Spec

\* A monitor does not outlive its order: when the end of an order is published
\* while it has a monitor, the monitor reads of it, although its subscription was
\* made by another goroutine and after other events had come (order.go:83).
MonitorsLearnTheEnd ==
    \A o \in Orders : mon[o] = "loop" /\ Ended(o) \in {log[i] : i \in DOMAIN log}
                          ~> mon[o] # "loop"

\* An order whose creation is in the service's subscription gets a monitor.
OrdersAreTakenUp ==
    \A o \in Orders :
        svc = "loop" /\ Created(o) \in {evbuf[Service][i] : i \in DOMAIN evbuf[Service]}
            ~> mon[o] # "none" \/ svc = "drain"

\* No order is lost between the service and its monitors: an order that is created
\* gets one, and the one it gets sees its end.
OrdersAreFollowed == OrdersAreTakenUp /\ MonitorsLearnTheEnd

\* Shutting down, the service gets every monitor back and its subscription closed,
\* with the monitors closing their clones of it at the same time.
DrainCompletes ==
    /\ svc = "drain" ~> svc = "pass"
    /\ svc = "close" ~> svc = "done"
=============================================================================
