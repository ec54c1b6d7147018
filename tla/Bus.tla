-------------------------------- MODULE Bus --------------------------------
(***************************************************************************)
(* The event bus (src/pubsub/bus.go): a tree of loops.  The root receives  *)
(* what is published and hands it to its subscribers one after the other;  *)
(* a subscriber buffers it for its reader and hands it to its clones.  All *)
(* channels are unbuffered, so every exchange is a step of two loops, and  *)
(* a loop that is handing out an event, or stopping its subscribers, does  *)
(* nothing else.                                                           *)
(*                                                                         *)
(* log, from and seen record what EventLog speaks of; no guard reads them. *)
(***************************************************************************)
EXTENDS Naturals, Sequences

CONSTANTS
    Root,           \* the bus itself
    Subscribers,    \* the subscribers there may be at the same time
    Events

ASSUME BusParameters == Root \notin Subscribers

Nodes == {Root} \cup Subscribers

VARIABLES
    phase,          \* of run: "off", "run", "stop" (after the loop), "unsub" (at parentch)
    parent,         \* whose unsubch parentch is
    evbuf,
    subscriptions,
    todo,           \* subscribers the range over subscriptions has still to visit
    current,        \* the event being handed out
    log, from, seen

historyVars == <<log, from, seen>>
busVars == <<phase, parent, evbuf, subscriptions, todo, current, historyVars>>

BusInit ==
    /\ phase = [n \in Nodes |-> IF n = Root THEN "run" ELSE "off"]
    /\ parent = [s \in Subscribers |-> Root]
    /\ evbuf = [s \in Subscribers |-> <<>>]
    /\ subscriptions = [n \in Nodes |-> {}]
    /\ todo = [n \in Nodes |-> {}]
    /\ current = [n \in Nodes |-> <<>>]
    /\ log = <<>>
    /\ from = [s \in Subscribers |-> 0]
    /\ seen = [s \in Subscribers |-> <<>>]

\* The loop is at its select.
Idle(n) == phase[n] = "run" /\ todo[n] = {}

\* b.lc.ShuttingDown() is closed.
ShuttingDown(n) == phase[n] # "run"

\* case ev := <-b.pubch, at the root: Publish was called.
Publish(ev) ==
    /\ Idle(Root)
    /\ current' = [current EXCEPT ![Root] = IF subscriptions[Root] = {} THEN <<>> ELSE ev]
    /\ todo' = [todo EXCEPT ![Root] = subscriptions[Root]]
    /\ log' = Append(log, ev)
    /\ UNCHANGED <<phase, parent, evbuf, subscriptions, from, seen>>

\* The range of n has visited s, which has these subscribers to visit with ev.
Visited(n, s, children, ev) ==
    /\ todo' = [todo EXCEPT ![n] = @ \ {s}, ![s] = children]
    /\ current' = [current EXCEPT ![n] = IF todo[n] = {s} THEN <<>> ELSE @,
                                  ![s] = IF children = {} THEN <<>> ELSE ev]

\* Variant: a subscriber that is shutting down is waited for.
HandOutWaits(n, s) ==
    /\ phase[n] = "run"
    /\ s \in todo[n]
    /\ Idle(s)
    /\ evbuf' = [evbuf EXCEPT ![s] = Append(@, current[n])]
    /\ Visited(n, s, subscriptions[s], current[n])
    /\ UNCHANGED <<phase, parent, subscriptions, historyVars>>

\* sub.Publish(ev): case ev := <-b.pubch at the subscriber, or ErrNotRunning.
HandOut(n, s) ==
    /\ phase[n] = "run"
    /\ s \in todo[n]
    /\ \/ /\ Idle(s)
          /\ evbuf' = [evbuf EXCEPT ![s] = Append(@, current[n])]
          /\ Visited(n, s, subscriptions[s], current[n])
       \/ /\ ShuttingDown(s)
          /\ Visited(n, s, todo[s], <<>>)
          /\ UNCHANGED evbuf
    /\ UNCHANGED <<phase, parent, subscriptions, historyVars>>

\* case outch <- curev: the reader receives the event.
Emit(s) ==
    /\ Idle(s)
    /\ evbuf[s] # <<>>
    /\ evbuf' = [evbuf EXCEPT ![s] = Tail(@)]
    /\ seen' = [seen EXCEPT ![s] = Append(@, Head(evbuf[s]))]
    /\ UNCHANGED <<phase, parent, subscriptions, todo, current, log, from>>

\* Variant: the new subscriber starts with an empty buffer.
SubscribeEmpty(n, s) ==
    /\ Idle(n)
    /\ phase[s] = "off"
    /\ phase' = [phase EXCEPT ![s] = "run"]
    /\ parent' = [parent EXCEPT ![s] = n]
    /\ evbuf' = [evbuf EXCEPT ![s] = <<>>]
    /\ subscriptions' = [subscriptions EXCEPT ![n] = @ \cup {s}]
    /\ from' = [from EXCEPT ![s] = IF n = Root THEN Len(log) + 1 ELSE from[n] + Len(seen[n])]
    /\ UNCHANGED <<todo, current, log, seen>>

\* case ch := <-b.subch: Subscribe or Clone was called, newSubscriber.
Subscribe(n, s) ==
    /\ Idle(n)
    /\ phase[s] = "off"
    /\ phase' = [phase EXCEPT ![s] = "run"]
    /\ parent' = [parent EXCEPT ![s] = n]
    /\ evbuf' = [evbuf EXCEPT ![s] = IF n = Root THEN <<>> ELSE evbuf[n]]
    /\ subscriptions' = [subscriptions EXCEPT ![n] = @ \cup {s}]
    /\ from' = [from EXCEPT ![s] = IF n = Root THEN Len(log) + 1 ELSE from[n] + Len(seen[n])]
    /\ UNCHANGED <<todo, current, log, seen>>

\* ShutdownInitiated, and the range over the subscriptions that follows the loop.
\* What the reader has not read is lost to it.
Stopping(n) ==
    /\ phase' = [phase EXCEPT ![n] = "stop"]
    /\ UNCHANGED <<parent, subscriptions, current, log>>
    /\ IF n = Root
       THEN UNCHANGED <<evbuf, from, seen>>
       ELSE /\ evbuf' = [evbuf EXCEPT ![n] = <<>>]
            /\ from' = [from EXCEPT ![n] = 0]
            /\ seen' = [seen EXCEPT ![n] = <<>>]

\* case err := <-b.lc.ShutdownRequest(): Close was called.
Shutdown(n) ==
    /\ Idle(n)
    /\ Stopping(n)
    /\ todo' = [todo EXCEPT ![n] = subscriptions[n]]

\* sub.lc.ShutdownAsync: the subscriber's loop takes the request, or is past it.
StopSubscriber(n, s) ==
    /\ phase[n] = "stop"
    /\ s \in todo[n]
    /\ \/ /\ Idle(s)
          /\ Stopping(s)
          /\ todo' = [todo EXCEPT ![n] = @ \ {s}, ![s] = subscriptions[s]]
       \/ /\ ShuttingDown(s)
          /\ todo' = [todo EXCEPT ![n] = @ \ {s}]
          /\ UNCHANGED <<phase, parent, evbuf, subscriptions, current, historyVars>>

\* All subscribers are gone: b.parentch <- b is next.
Leave(n) ==
    /\ phase[n] = "stop"
    /\ todo[n] = {}
    /\ subscriptions[n] = {}
    /\ phase' = [phase EXCEPT ![n] = IF n = Root THEN "off" ELSE "unsub"]
    /\ UNCHANGED <<parent, evbuf, subscriptions, todo, current, historyVars>>

\* sub := <-b.unsubch, in the loop or after it, and ShutdownCompleted.
Unsubscribe(s) ==
    LET n == parent[s] IN
    /\ phase[s] = "unsub"
    /\ phase[n] \in {"run", "stop"}
    /\ todo[n] = {}
    /\ subscriptions' = [subscriptions EXCEPT ![n] = @ \ {s}]
    /\ phase' = [phase EXCEPT ![s] = "off"]
    /\ parent' = [parent EXCEPT ![s] = Root]
    /\ UNCHANGED <<evbuf, todo, current, historyVars>>

\* What the loops do by themselves.
BusStep ==
    \/ \E n \in Nodes : Leave(n)
    \/ \E n \in Nodes, s \in Subscribers : HandOut(n, s) \/ StopSubscriber(n, s)
    \/ \E s \in Subscribers : Unsubscribe(s)

\* A tree of loops with whoever publishes, subscribes, reads and closes.
BusNext ==
    \/ BusStep
    \/ \E ev \in Events : Publish(ev)
    \/ \E s \in Subscribers : Emit(s)
    \/ \E n \in Nodes, s \in Subscribers : Subscribe(n, s)
    \/ \E n \in Nodes : Shutdown(n)

BusSpec == BusInit /\ [][BusNext]_busVars

-----------------------------------------------------------------------------
Promise == INSTANCE EventLog
=============================================================================
