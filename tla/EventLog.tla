------------------------------ MODULE EventLog ------------------------------
(***************************************************************************)
(* What the event bus promises its subscribers (the comment of Subscriber, *)
(* src/pubsub/bus.go:27): each of them reads, one by one and in order, the *)
(* events published since it subscribed; a clone starts where the cloned   *)
(* subscriber stands.                                                      *)
(***************************************************************************)
EXTENDS Naturals, Sequences

CONSTANTS
    Subscribers,
    Events

VARIABLES
    log,    \* the events published
    from,   \* for each subscriber, the place in the log of the first event it may read
    seen    \* for each subscriber, the events it has read; no entry: not subscribed

vars == <<log, from, seen>>

Init ==
    /\ log = <<>>
    /\ from = [s \in Subscribers |-> 0]
    /\ seen = [s \in Subscribers |-> <<>>]

Active(s) == from[s] # 0

\* The place in the log of the event s reads next.
Position(s) == from[s] + Len(seen[s])

Publish(ev) ==
    /\ log' = Append(log, ev)
    /\ UNCHANGED <<from, seen>>

Start(s, place) ==
    /\ ~Active(s)
    /\ from' = [from EXCEPT ![s] = place]
    /\ seen' = [seen EXCEPT ![s] = <<>>]
    /\ UNCHANGED log

Join(s) == Start(s, Len(log) + 1)

Clone(s, clone) == Active(s) /\ Start(clone, Position(s))

Read(s) ==
    /\ Active(s)
    /\ Position(s) <= Len(log)
    /\ seen' = [seen EXCEPT ![s] = Append(@, log[Position(s)])]
    /\ UNCHANGED <<log, from>>

Leave(s) ==
    /\ Active(s)
    /\ from' = [from EXCEPT ![s] = 0]
    /\ seen' = [seen EXCEPT ![s] = <<>>]
    /\ UNCHANGED log

Next ==
    \/ \E ev \in Events : Publish(ev)
    \/ \E s \in Subscribers : Join(s) \/ Read(s) \/ Leave(s)
    \/ \E s, clone \in Subscribers : Clone(s, clone)

Spec == Init /\ [][Next]_vars
=============================================================================
