----------------------------- MODULE BusProofs -----------------------------
(***************************************************************************)
(* For every set of subscribers and events: the bus, and the bid engine on *)
(* the bus, implement EventLog.                                            *)
(***************************************************************************)
EXTENDS BidService, Integers, TLAPS

BusType ==
    /\ phase \in [Nodes -> {"off", "run", "stop", "unsub"}]
    /\ parent \in [Subscribers -> Nodes]
    /\ evbuf \in [Subscribers -> Seq(Events)]
    /\ subscriptions \in [Nodes -> SUBSET Subscribers]
    /\ todo \in [Nodes -> SUBSET Subscribers]
    /\ current \in [Nodes -> Events \cup {<<>>}]
    /\ log \in Seq(Events)
    /\ from \in [Subscribers -> Nat]
    /\ seen \in [Subscribers -> Seq(Events)]

\* A subscriber has a place in the log as long as its loop runs.
Places ==
    \A s \in Subscribers :
        /\ from[s] # 0 <=> phase[s] = "run"
        /\ phase[s] # "run" => seen[s] = <<>> /\ evbuf[s] = <<>>

\* Loops that run are subscribed to their parent, and visited loops to the visitor.
Tree ==
    /\ \A n \in Nodes : todo[n] \subseteq subscriptions[n]
    /\ \A n \in Nodes : phase[n] \in {"off", "unsub"} => subscriptions[n] = {}
    /\ \A n \in Nodes : \A s \in subscriptions[n] :
           parent[s] = n /\ s # n /\ phase[s] # "off"
    /\ \A s \in Subscribers : phase[s] = "run" => s \in subscriptions[parent[s]]

\* The place in the log of the last event that n has received.
End ==
    [n \in Nodes |->
        IF n = Root THEN Len(log) ELSE from[n] + Len(seen[n]) + Len(evbuf[n]) - 1]

\* A buffer holds the part of the log that its reader has still to read.
Buffers ==
    \A s \in Subscribers :
        phase[s] = "run" =>
            /\ End[s] <= Len(log)
            /\ \A i \in 1..Len(evbuf[s]) : evbuf[s][i] = log[from[s] + Len(seen[s]) + i - 1]

\* A subscriber has received what its parent has, but for the event with which the
\* parent has still to visit it.
Received ==
    \A s \in Subscribers :
        phase[s] = "run" /\ phase[parent[s]] = "run" =>
            IF s \in todo[parent[s]]
            THEN End[s] + 1 = End[parent[s]] /\ current[parent[s]] = log[End[parent[s]]]
            ELSE End[s] = End[parent[s]]

BusInv == BusType /\ Places /\ Tree /\ Buffers /\ Received

-----------------------------------------------------------------------------
(* Sequences. *)

\* What Append does to a log or to a buffer of the bus (evbuf in bus.run).
LEMMA AppendFacts ==
    ASSUME NEW S, NEW q \in Seq(S), NEW e \in S
    PROVE  /\ Append(q, e) \in Seq(S)
           /\ Len(Append(q, e)) = Len(q) + 1
           /\ \A i \in 1..Len(q) : Append(q, e)[i] = q[i]
           /\ Append(q, e)[Len(q) + 1] = e
  OBVIOUS

\* What remains of a buffer when its first event was emitted (b.evbuf[1:]).
LEMMA TailFacts ==
    ASSUME NEW S, NEW q \in Seq(S), q # <<>>
    PROVE  /\ Tail(q) \in Seq(S)
           /\ Len(q) \in Nat /\ Len(q) > 0
           /\ Len(Tail(q)) = Len(q) - 1
           /\ \A i \in 1..Len(Tail(q)) : Tail(q)[i] = q[i + 1]
           /\ Head(q) = q[1]
           /\ Head(q) \in S
  OBVIOUS

\* Where the events of a buffer are in the log: a is where the subscriber began,
\* b of its events are read and c are in its buffer.
LEMMA PlaceInLog ==
    ASSUME NEW a \in Nat, NEW b \in Nat, NEW c \in Nat, NEW l \in Nat, a # 0,
           a + b + c - 1 <= l, NEW i \in 1..c
    PROVE  a + b + i - 1 \in 1..l
  OBVIOUS

\* The place that follows the last event a subscriber has received.
LEMMA NextPlace ==
    ASSUME NEW a \in Nat, NEW b \in Nat, NEW c \in Nat
    PROVE  (a + b + c - 1) + 1 = a + b + c
  OBVIOUS

-----------------------------------------------------------------------------
(* The invariant. *)

\* The initial state satisfies the invariant.
LEMMA InitBusInv == BusInit => BusInv
<1> SUFFICES ASSUME BusInit PROVE BusInv
  OBVIOUS
<1> USE BusParameters DEF BusInit, Nodes
<1>1. BusType
  BY DEF BusType
<1>2. Places /\ Tree
  BY DEF Places, Tree
<1>3. Buffers /\ Received
  BY DEF Buffers, Received
<1> QED
  BY <1>1, <1>2, <1>3 DEF BusInv

\* Publish: the log gets longer, and so does what Root has still to hand out.
LEMMA PublishInv == ASSUME BusInv, NEW ev \in Events, Publish(ev) PROVE BusInv'
<1> USE BusParameters DEF BusInv, BusType, Publish, Idle, Nodes
<1>0. /\ log' \in Seq(Events) /\ Len(log') = Len(log) + 1 /\ Len(log) \in Nat
      /\ \A i \in 1..Len(log) : log'[i] = log[i]
      /\ log'[Len(log) + 1] = ev
  BY AppendFacts
<1>1. BusType'
  BY <1>0
<1>2. Places' /\ Tree'
  BY DEF Places, Tree
<1>3. Buffers'
  <2> SUFFICES ASSUME NEW s \in Subscribers, phase[s] = "run"
               PROVE  /\ End'[s] <= Len(log')
                      /\ \A i \in 1..Len(evbuf[s]) :
                            evbuf[s][i] = log'[from[s] + Len(seen[s]) + i - 1]
    BY DEF Buffers
  <2>1. s # Root /\ End'[s] = End[s] /\ End[s] <= Len(log)
        /\ \A i \in 1..Len(evbuf[s]) : evbuf[s][i] = log[from[s] + Len(seen[s]) + i - 1]
    BY DEF Buffers, End
  <2>2. from[s] \in Nat /\ from[s] # 0 /\ Len(seen[s]) \in Nat /\ Len(evbuf[s]) \in Nat
    BY DEF Places
  <2>3. End[s] = from[s] + Len(seen[s]) + Len(evbuf[s]) - 1
    BY <2>1 DEF End
  <2> HIDE DEF BusInv, BusType, Publish
  <2>4. \A i \in 1..Len(evbuf[s]) : from[s] + Len(seen[s]) + i - 1 \in 1..Len(log)
    <3>1. from[s] + Len(seen[s]) + Len(evbuf[s]) - 1 <= Len(log)
      BY <2>1, <2>3
    <3> QED
      BY <1>0, <2>2, <3>1, PlaceInLog
  <2>5. End'[s] <= Len(log')
    BY <1>0, <2>1, <2>2, <2>3
  <2> QED
    BY <1>0, <2>1, <2>4, <2>5
<1>4. Received'
  <2> SUFFICES ASSUME NEW s \in Subscribers, phase[s] = "run", phase[parent[s]] = "run"
               PROVE  IF s \in todo'[parent[s]]
                      THEN /\ End'[s] + 1 = End'[parent[s]]
                           /\ current'[parent[s]] = log'[End'[parent[s]]]
                      ELSE End'[s] = End'[parent[s]]
    BY DEF Received
  <2>1. parent[s] \in Nodes /\ s \in subscriptions[parent[s]] /\ End'[s] = End[s] /\ s # Root
    BY DEF Tree, End
  <2>2. CASE parent[s] = Root
    <3>1. End[s] = Len(log)
      BY <2>2 DEF Received, End
    <3>2. s \in todo'[Root] /\ current'[Root] = ev
      BY <2>1, <2>2
    <3> QED
      BY <1>0, <2>1, <2>2, <3>1, <3>2 DEF End
  <2>3. CASE parent[s] # Root
    <3>1. End'[parent[s]] = End[parent[s]] /\ todo'[parent[s]] = todo[parent[s]]
          /\ current'[parent[s]] = current[parent[s]] /\ parent[s] \in Subscribers
      BY <2>1, <2>3 DEF End
    <3>2. End[parent[s]] <= Len(log) /\ End[parent[s]] \in Int /\ End[s] \in Int
      <4>1. End[parent[s]] <= Len(log)
        BY <3>1 DEF Buffers
      <4>2. \A c \in Subscribers : End[c] \in Int
        BY DEF End
      <4> QED
        BY <3>1, <4>1, <4>2
    <3>3. CASE s \in todo[parent[s]]
      <4>1. End[s] + 1 = End[parent[s]] /\ current[parent[s]] = log[End[parent[s]]]
        BY <3>3 DEF Received
      <4>2. End[s] >= 0
        BY <2>1 DEF Places, End
      <4> HIDE DEF BusInv, BusType, Publish
      <4>3. End[parent[s]] \in 1..Len(log)
        BY <1>0, <3>2, <4>1, <4>2
      <4>4. log'[End[parent[s]]] = log[End[parent[s]]]
        BY <1>0, <4>3
      <4> QED
        BY <2>1, <3>1, <3>3, <4>1, <4>4
    <3>4. CASE s \notin todo[parent[s]]
      BY <2>1, <3>1, <3>4 DEF Received
    <3> QED
      BY <3>3, <3>4
  <2> QED
    BY <2>2, <2>3
<1> QED
  BY <1>1, <1>2, <1>3, <1>4

\* HandOut: the subscriber that is visited catches up with its parent, and its own
\* subscribers fall behind it.
LEMMA HandOutInv ==
    ASSUME BusInv, NEW n \in Nodes, NEW s \in Subscribers, HandOut(n, s) PROVE BusInv'
<1> USE BusParameters DEF BusInv, Nodes
<1>0. /\ phase[n] = "run" /\ s \in todo[n] /\ s \in subscriptions[n] /\ parent[s] = n
      /\ s # n /\ s # Root
      /\ UNCHANGED <<phase, parent, subscriptions, log, from, seen>>
  BY DEF HandOut, Tree, BusType, historyVars
<1>1. CASE ShuttingDown(s) /\ Visited(n, s, todo[s], <<>>) /\ UNCHANGED evbuf
  <2>0. /\ phase[s] # "run"
        /\ todo' = [todo EXCEPT ![n] = @ \ {s}]
        /\ current' \in [Nodes -> Events \cup {<<>>}]
        /\ \A m \in Nodes : m # s /\ (m # n \/ todo[n] # {s}) => current'[m] = current[m]
    BY <1>0, <1>1 DEF ShuttingDown, Visited, BusType
  <2>1. BusType'
    BY <1>0, <1>1, <2>0 DEF BusType
  <2>2. Places' /\ Tree'
    BY <1>0, <1>1, <2>0 DEF Places, Tree, BusType
  <2>3. Buffers'
    BY <1>0, <1>1, <2>0 DEF Buffers, End
  <2>4. Received'
    <3> SUFFICES ASSUME NEW c \in Subscribers, phase[c] = "run", phase[parent[c]] = "run"
                 PROVE  IF c \in todo'[parent[c]]
                        THEN /\ End'[c] + 1 = End'[parent[c]]
                             /\ current'[parent[c]] = log[End'[parent[c]]]
                        ELSE End'[c] = End'[parent[c]]
      BY <1>0 DEF Received
    <3>1. End'[c] = End[c] /\ End'[parent[c]] = End[parent[c]] /\ c # s /\ parent[c] # s
      BY <1>0, <1>1, <2>0 DEF End
    <3>2. parent[c] \in Nodes /\ (c \in todo'[parent[c]] <=> c \in todo[parent[c]])
      BY <1>0, <2>0, <3>1 DEF BusType
    <3>3. c \in todo[parent[c]] => current'[parent[c]] = current[parent[c]]
      BY <2>0, <3>1, <3>2
    <3> QED
      BY <3>1, <3>2, <3>3 DEF Received
  <2> QED
    BY <2>1, <2>2, <2>3, <2>4
<1>2. CASE /\ Idle(s)
           /\ evbuf' = [evbuf EXCEPT ![s] = Append(@, current[n])]
           /\ Visited(n, s, subscriptions[s], current[n])
  <2>0. /\ phase[s] = "run" /\ todo[s] = {}
        /\ todo' = [todo EXCEPT ![n] = @ \ {s}, ![s] = subscriptions[s]]
    BY <1>2 DEF Idle, Visited
  <2>1. End[s] + 1 = End[n] /\ current[n] = log[End[n]]
    BY <1>0, <2>0 DEF Received
  <2>2. /\ from[s] \in Nat /\ from[s] # 0 /\ Len(seen[s]) \in Nat /\ Len(evbuf[s]) \in Nat
        /\ Len(log) \in Nat
        /\ End[s] = from[s] + Len(seen[s]) + Len(evbuf[s]) - 1
    BY <1>0, <2>0 DEF Places, BusType, End
  <2>9. End[n] = from[s] + Len(seen[s]) + Len(evbuf[s])
    <3> HIDE DEF BusInv
    <3>1. (from[s] + Len(seen[s]) + Len(evbuf[s]) - 1) + 1 = from[s] + Len(seen[s]) + Len(evbuf[s])
      BY <2>2, NextPlace
    <3>2. End[n] = (from[s] + Len(seen[s]) + Len(evbuf[s]) - 1) + 1
      BY <2>1, <2>2, Zenon
    <3> QED
      BY <3>1, <3>2, Zenon
  <2>3. End[n] <= Len(log) /\ End[n] >= 1
    <3>1. End[n] <= Len(log)
      BY <1>0, <2>2 DEF Buffers, End
    <3> QED
      BY <2>1, <2>2, <3>1
  <2>4. current[n] \in Events
    BY <2>1, <2>2, <2>3 DEF BusType
  <2>5. /\ evbuf'[s] \in Seq(Events) /\ Len(evbuf'[s]) = Len(evbuf[s]) + 1
        /\ \A i \in 1..Len(evbuf[s]) : evbuf'[s][i] = evbuf[s][i]
        /\ evbuf'[s][Len(evbuf[s]) + 1] = current[n]
    <3>1. evbuf[s] \in Seq(Events) /\ evbuf'[s] = Append(evbuf[s], current[n])
      BY <1>2 DEF BusType
    <3> QED
      BY <2>4, <3>1, AppendFacts
  <2>6. \A m \in Subscribers : m # s => evbuf'[m] = evbuf[m]
    BY <1>2 DEF BusType
  <2>7. End'[s] = End[n] /\ \A m \in Nodes : m # s => End'[m] = End[m]
    <3>1. End'[s] = from[s] + Len(seen[s]) + Len(evbuf'[s]) - 1
      BY <1>0 DEF End
    <3>2. \A m \in Nodes : m # s => End'[m] = End[m]
      BY <1>0, <2>6 DEF End
    <3> QED
      BY <2>1, <2>2, <2>5, <3>1, <3>2
  <2>8. /\ current' \in [Nodes -> Events \cup {<<>>}]
        /\ \A m \in Nodes : m # s /\ (m # n \/ todo[n] # {s}) => current'[m] = current[m]
        /\ subscriptions[s] # {} => current'[s] = current[n]
    BY <1>0, <1>2 DEF Visited, BusType
  <2>a. BusType'
    <3>1. evbuf' \in [Subscribers -> Seq(Events)]
      BY <1>2, <2>5, <2>6 DEF BusType
    <3> QED
      BY <1>0, <2>0, <2>8, <3>1 DEF BusType
  <2>b. Places'
    BY <1>0, <2>0, <2>6 DEF Places
  <2>c. Tree'
    <3>1. \A m \in Nodes : todo'[m] \subseteq subscriptions[m]
      <4>1. todo'[n] = todo[n] \ {s} /\ todo'[s] = subscriptions[s]
            /\ \A m \in Nodes : m # n /\ m # s => todo'[m] = todo[m]
        BY <1>0, <2>0 DEF BusType
      <4> QED
        BY <4>1 DEF Tree
    <3> QED
      BY <1>0, <3>1 DEF Tree
  <2>d. Buffers'
    <3> SUFFICES ASSUME NEW c \in Subscribers, phase[c] = "run"
                 PROVE  /\ End'[c] <= Len(log)
                        /\ \A i \in 1..Len(evbuf'[c]) :
                              evbuf'[c][i] = log[from[c] + Len(seen[c]) + i - 1]
      BY <1>0 DEF Buffers
    <3>1. CASE c # s
      BY <1>0, <2>6, <2>7, <3>1 DEF Buffers
    <3>2. CASE c = s
      <4>1. \A i \in 1..Len(evbuf[s]) : evbuf[s][i] = log[from[s] + Len(seen[s]) + i - 1]
        BY <2>0 DEF Buffers
      <4>2. ASSUME NEW i \in 1..Len(evbuf'[s])
            PROVE  evbuf'[s][i] = log[from[s] + Len(seen[s]) + i - 1]
        <5>1. CASE i \in 1..Len(evbuf[s])
          BY <2>5, <4>1, <5>1
        <5>2. CASE i = Len(evbuf[s]) + 1
          <6>1. from[s] + Len(seen[s]) + i - 1 = End[n]
            BY <2>2, <5>2, <2>9
          <6> QED
            BY <2>1, <2>5, <5>2, <6>1
        <5> QED
          BY <2>2, <2>5, <5>1, <5>2
      <4> QED
        BY <2>3, <2>7, <3>2, <4>2
    <3> QED
      BY <3>1, <3>2
  <2>e. Received'
    <3> SUFFICES ASSUME NEW c \in Subscribers, phase[c] = "run", phase[parent[c]] = "run"
                 PROVE  IF c \in todo'[parent[c]]
                        THEN /\ End'[c] + 1 = End'[parent[c]]
                             /\ current'[parent[c]] = log[End'[parent[c]]]
                        ELSE End'[c] = End'[parent[c]]
      BY <1>0 DEF Received
    <3>0. parent[c] \in Nodes /\ c \in subscriptions[parent[c]] /\ c # parent[c]
      BY DEF BusType, Tree
    <3>1. CASE c = s
      <4>1. c \notin todo'[parent[c]]
        BY <1>0, <2>0, <3>1 DEF BusType
      <4> QED
        BY <1>0, <2>7, <3>1, <4>1
    <3>2. CASE c # s /\ parent[c] = s
      <4>1. c \in todo'[s] /\ current'[s] = current[n]
        BY <1>0, <2>0, <2>8, <3>0, <3>2 DEF BusType
      <4>2. End[c] = End[s]
        BY <2>0, <3>2 DEF Received
      <4> QED
        BY <2>1, <2>7, <3>2, <4>1, <4>2
    <3>3. CASE c # s /\ parent[c] # s
      <4>1. c \in todo'[parent[c]] <=> c \in todo[parent[c]]
        BY <1>0, <2>0, <3>0, <3>3 DEF BusType
      <4>2. c \in todo[parent[c]] => current'[parent[c]] = current[parent[c]]
        BY <2>8, <3>0, <3>3
      <4>3. End'[c] = End[c] /\ End'[parent[c]] = End[parent[c]]
        BY <2>7, <3>0, <3>3
      <4> QED
        BY <4>1, <4>2, <4>3 DEF Received
    <3> QED
      BY <3>1, <3>2, <3>3
  <2> QED
    BY <2>a, <2>b, <2>c, <2>d, <2>e
<1> QED
  BY <1>1, <1>2 DEF HandOut

\* Emit: what leaves the buffer is read.
LEMMA EmitInv == ASSUME BusInv, NEW s \in Subscribers, Emit(s) PROVE BusInv'
<1> USE BusParameters DEF BusInv, Nodes
<1>0. /\ phase[s] = "run" /\ s # Root /\ evbuf[s] # <<>> /\ evbuf[s] \in Seq(Events)
      /\ UNCHANGED <<phase, parent, subscriptions, todo, current, log, from>>
      /\ evbuf'[s] = Tail(evbuf[s]) /\ seen'[s] = Append(seen[s], Head(evbuf[s]))
      /\ \A m \in Subscribers : m # s => evbuf'[m] = evbuf[m] /\ seen'[m] = seen[m]
  BY DEF Emit, Idle, BusType
<1>1. /\ evbuf'[s] \in Seq(Events)
      /\ Len(evbuf[s]) \in Nat /\ Len(evbuf[s]) > 0
      /\ Len(evbuf'[s]) = Len(evbuf[s]) - 1
      /\ \A i \in 1..Len(evbuf'[s]) : evbuf'[s][i] = evbuf[s][i + 1]
      /\ Head(evbuf[s]) = evbuf[s][1]
      /\ Head(evbuf[s]) \in Events
  BY <1>0, TailFacts
<1>2. seen'[s] \in Seq(Events) /\ Len(seen'[s]) = Len(seen[s]) + 1 /\ Len(seen[s]) \in Nat
  BY <1>0, <1>1, AppendFacts DEF BusType
<1>3. BusType'
  BY <1>0, <1>1, <1>2 DEF BusType, Emit
<1>4. Places'
  BY <1>0 DEF Places
<1>5. Tree'
  BY <1>0 DEF Tree
<1>6. End' = End
  <2>1. from[s] + Len(seen'[s]) + Len(evbuf'[s]) - 1 = from[s] + Len(seen[s]) + Len(evbuf[s]) - 1
    BY <1>1, <1>2 DEF BusType
  <2> QED
    BY <1>0, <2>1 DEF End
<1>7. Buffers'
  <2> SUFFICES ASSUME NEW c \in Subscribers, phase[c] = "run"
               PROVE  /\ End[c] <= Len(log)
                      /\ \A i \in 1..Len(evbuf'[c]) :
                            evbuf'[c][i] = log[from[c] + Len(seen'[c]) + i - 1]
    BY <1>0, <1>6 DEF Buffers
  <2>1. CASE c # s
    <3>1. evbuf'[c] = evbuf[c] /\ seen'[c] = seen[c]
      BY <1>0, <2>1
    <3>2. /\ End[c] <= Len(log)
          /\ \A i \in 1..Len(evbuf[c]) : evbuf[c][i] = log[from[c] + Len(seen[c]) + i - 1]
      BY DEF Buffers
    <3> HIDE DEF BusInv
    <3> QED
      BY <3>1, <3>2
  <2>2. CASE c = s
    <3>1. /\ End[s] <= Len(log)
          /\ \A i \in 1..Len(evbuf[s]) : evbuf[s][i] = log[from[s] + Len(seen[s]) + i - 1]
      BY <1>0 DEF Buffers
    <3>2. ASSUME NEW i \in 1..Len(evbuf'[s])
          PROVE  evbuf'[s][i] = log[from[s] + Len(seen'[s]) + i - 1]
      <4>1. i + 1 \in 1..Len(evbuf[s])
            /\ from[s] + Len(seen[s]) + (i + 1) - 1 = from[s] + Len(seen'[s]) + i - 1
        BY <1>1, <1>2 DEF BusType
      <4> QED
        BY <1>1, <3>1, <4>1
    <3> QED
      BY <2>2, <3>1, <3>2
  <2> QED
    BY <2>1, <2>2
<1>8. Received'
  BY <1>0, <1>6 DEF Received
<1> QED
  BY <1>3, <1>4, <1>5, <1>7, <1>8

\* Subscribe: the new subscriber stands where the one it is made from stands.
LEMMA SubscribeInv ==
    ASSUME BusInv, NEW n \in Nodes, NEW s \in Subscribers, Subscribe(n, s) PROVE BusInv'
<1> USE BusParameters DEF BusInv, Nodes
<1>0. /\ phase[n] = "run" /\ todo[n] = {} /\ phase[s] = "off" /\ n # s /\ s # Root
      /\ UNCHANGED <<todo, current, log, seen>>
      /\ phase' = [phase EXCEPT ![s] = "run"]
      /\ parent' = [parent EXCEPT ![s] = n]
      /\ subscriptions' = [subscriptions EXCEPT ![n] = @ \cup {s}]
      /\ seen[s] = <<>> /\ from[s] = 0
      /\ subscriptions[s] = {}
      /\ \A m \in Nodes : s \notin subscriptions[m]
  BY DEF Subscribe, Idle, Places, Tree
<1>1. /\ \A c \in Subscribers : c # s => evbuf'[c] = evbuf[c] /\ from'[c] = from[c]
      /\ n = Root => evbuf'[s] = <<>> /\ from'[s] = Len(log) + 1
      /\ n # Root => evbuf'[s] = evbuf[n] /\ from'[s] = from[n] + Len(seen[n])
  BY DEF Subscribe, BusType
<1>2. from'[s] \in Nat /\ from'[s] # 0 /\ evbuf'[s] \in Seq(Events)
  BY <1>0, <1>1 DEF BusType, Places
<1>3. BusType'
  <2>1. from' \in [Subscribers -> Nat] /\ evbuf' \in [Subscribers -> Seq(Events)]
    BY <1>1, <1>2 DEF BusType, Subscribe
  <2> QED
    BY <1>0, <2>1 DEF BusType
<1>4. Places'
  BY <1>0, <1>1, <1>2 DEF Places, BusType
<1>5. Tree'
  <2>1. /\ \A m \in Nodes : m # s => phase'[m] = phase[m]
        /\ \A c \in Subscribers : c # s => parent'[c] = parent[c]
        /\ phase'[s] = "run" /\ parent'[s] = n
        /\ \A m \in Nodes : m # n => subscriptions'[m] = subscriptions[m]
        /\ subscriptions'[n] = subscriptions[n] \cup {s}
    BY <1>0 DEF BusType
  <2> QED
    BY <1>0, <2>1 DEF Tree, BusType
<1>6. /\ \A m \in Nodes : m # s => End'[m] = End[m]
      /\ End'[s] = End[n]
  <2>1. \A m \in Nodes : m # s => End'[m] = End[m]
    BY <1>0, <1>1 DEF End
  <2>2. End'[s] = from'[s] + Len(evbuf'[s]) - 1
    BY <1>0, <1>2 DEF End
  <2>3. CASE n = Root
    <3>1. End[n] = Len(log) /\ Len(log) \in Nat
      BY <2>3 DEF End, BusType
    <3>2. Len(evbuf'[s]) = 0 /\ from'[s] = Len(log) + 1
      BY <1>1, <2>3
    <3>3. from'[s] + Len(evbuf'[s]) - 1 = Len(log)
      BY <3>1, <3>2
    <3> QED
      BY <2>1, <2>2, <3>1, <3>3
  <2>4. CASE n # Root
    BY <1>0, <1>1, <2>1, <2>2, <2>4 DEF End, BusType
  <2> QED
    BY <2>1, <2>3, <2>4
<1>7. Buffers'
  <2> SUFFICES ASSUME NEW c \in Subscribers, phase'[c] = "run"
               PROVE  /\ End'[c] <= Len(log)
                      /\ \A i \in 1..Len(evbuf'[c]) :
                            evbuf'[c][i] = log[from'[c] + Len(seen[c]) + i - 1]
    BY <1>0 DEF Buffers
  <2>1. CASE c # s
    <3>1. phase[c] = "run"
      BY <1>0, <2>1 DEF BusType
    <3> QED
      BY <1>1, <1>6, <2>1, <3>1 DEF Buffers
  <2>2. CASE c = s /\ n = Root
    BY <1>0, <1>1, <1>6, <2>2 DEF End, BusType
  <2>3. CASE c = s /\ n # Root
    <3>1. /\ End[n] <= Len(log) /\ from[n] \in Nat /\ Len(seen[n]) \in Nat
          /\ \A i \in 1..Len(evbuf[n]) : evbuf[n][i] = log[from[n] + Len(seen[n]) + i - 1]
      BY <1>0, <2>3 DEF Buffers, BusType
    <3>2. from'[s] + Len(seen[s]) = from[n] + Len(seen[n])
      BY <1>0, <1>1, <2>3, <3>1
    <3> QED
      BY <1>1, <1>6, <2>3, <3>1, <3>2
  <2> QED
    BY <2>1, <2>2, <2>3
<1>8. Received'
  <2> SUFFICES ASSUME NEW c \in Subscribers, phase'[c] = "run", phase'[parent'[c]] = "run"
               PROVE  IF c \in todo[parent'[c]]
                      THEN /\ End'[c] + 1 = End'[parent'[c]]
                           /\ current[parent'[c]] = log[End'[parent'[c]]]
                      ELSE End'[c] = End'[parent'[c]]
    BY <1>0 DEF Received
  <2>1. CASE c = s
    BY <1>0, <1>6, <2>1 DEF BusType
  <2>2. CASE c # s
    <3>1. parent'[c] = parent[c] /\ phase[c] = "run" /\ parent[c] \in Nodes
          /\ c \in subscriptions[parent[c]]
      BY <1>0, <2>2 DEF BusType, Tree
    <3>2. parent[c] # s
      BY <1>0, <3>1
    <3>3. phase[parent[c]] = "run" /\ End'[c] = End[c] /\ End'[parent[c]] = End[parent[c]]
      BY <1>0, <1>6, <2>2, <3>1, <3>2 DEF BusType
    <3> QED
      BY <3>1, <3>3 DEF Received
  <2> QED
    BY <2>1, <2>2
<1> QED
  BY <1>3, <1>4, <1>5, <1>7, <1>8

\* A loop that leaves its select to stop: whoever is behind it no longer matters.
LEMMA StoppingInv ==
    ASSUME BusInv, NEW n \in Nodes, phase[n] = "run", todo[n] = {}, Stopping(n),
           NEW m \in Nodes, phase[m] # "run" \/ m = n,
           todo' \in [Nodes -> SUBSET Subscribers],
           todo'[n] \subseteq subscriptions[n],
           todo'[m] \subseteq subscriptions[m],
           \A k \in Nodes : k # n /\ k # m => todo'[k] = todo[k]
    PROVE  BusInv'
<1> USE BusParameters DEF BusInv, Nodes
<1>0. /\ UNCHANGED <<parent, subscriptions, current, log>>
      /\ phase'[n] = "stop" /\ \A k \in Nodes : k # n => phase'[k] = phase[k]
      /\ \A c \in Subscribers : c # n =>
             from'[c] = from[c] /\ seen'[c] = seen[c] /\ evbuf'[c] = evbuf[c]
      /\ n # Root => from'[n] = 0 /\ seen'[n] = <<>> /\ evbuf'[n] = <<>>
  BY DEF Stopping, BusType
<1>1. BusType'
  <2>1. /\ from' \in [Subscribers -> Nat] /\ seen' \in [Subscribers -> Seq(Events)]
        /\ evbuf' \in [Subscribers -> Seq(Events)]
    <3>1. CASE n = Root
      BY <3>1 DEF Stopping, BusType
    <3>2. CASE n # Root
      <4>1. <<>> \in Seq(Events) /\ 0 \in Nat /\ n \in Subscribers
        BY <3>2
      <4>2. from' = [from EXCEPT ![n] = 0] /\ seen' = [seen EXCEPT ![n] = <<>>]
            /\ evbuf' = [evbuf EXCEPT ![n] = <<>>]
        BY <3>2 DEF Stopping
      <4>3. from' \in [Subscribers -> Nat]
        BY <4>1, <4>2 DEF BusType
      <4>4. seen' \in [Subscribers -> Seq(Events)]
        BY <4>1, <4>2 DEF BusType
      <4>5. evbuf' \in [Subscribers -> Seq(Events)]
        BY <4>1, <4>2 DEF BusType
      <4> QED
        BY <4>3, <4>4, <4>5
    <3> QED
      BY <3>1, <3>2
  <2>2. phase' \in [Nodes -> {"off", "run", "stop", "unsub"}]
    BY DEF Stopping, BusType
  <2> QED
    BY <1>0, <2>1, <2>2 DEF BusType
<1>2. Places'
  BY <1>0 DEF Places
<1>3. Tree'
  <2>1. \A k \in Nodes : todo'[k] \subseteq subscriptions[k]
    BY DEF Tree
  <2>2. \A k \in Nodes : phase'[k] \in {"off", "unsub"} => phase[k] \in {"off", "unsub"}
    BY <1>0
  <2>3. \A c \in Subscribers : phase[c] # "off" => phase'[c] # "off"
    BY <1>0
  <2>4. \A c \in Subscribers : phase'[c] = "run" => phase[c] = "run"
    BY <1>0
  <2>5. \A k \in Nodes : subscriptions[k] \subseteq Subscribers
    BY DEF BusType
  <2> QED
    <3>1. \A k \in Nodes : phase'[k] \in {"off", "unsub"} => subscriptions[k] = {}
      BY <2>2 DEF Tree
    <3>2. \A k \in Nodes : \A c \in subscriptions[k] :
              parent[c] = k /\ c # k /\ phase'[c] # "off"
      BY <2>3, <2>5 DEF Tree
    <3>3. \A c \in Subscribers : phase'[c] = "run" => c \in subscriptions[parent[c]]
      BY <2>4 DEF Tree
    <3> HIDE DEF BusInv
    <3> QED
      BY <1>0, <2>1, <3>1, <3>2, <3>3 DEF Tree
<1>4. \A k \in Nodes : k # n => End'[k] = End[k]
  BY <1>0 DEF End
<1>5. Buffers'
  <2> SUFFICES ASSUME NEW c \in Subscribers, phase'[c] = "run"
               PROVE  /\ End'[c] <= Len(log)
                      /\ \A i \in 1..Len(evbuf'[c]) :
                            evbuf'[c][i] = log[from'[c] + Len(seen'[c]) + i - 1]
    BY <1>0 DEF Buffers
  <2>1. c # n /\ phase[c] = "run" /\ End'[c] = End[c]
        /\ from'[c] = from[c] /\ seen'[c] = seen[c] /\ evbuf'[c] = evbuf[c]
    BY <1>0, <1>4
  <2>2. /\ End[c] <= Len(log)
        /\ \A i \in 1..Len(evbuf[c]) : evbuf[c][i] = log[from[c] + Len(seen[c]) + i - 1]
    BY <2>1 DEF Buffers
  <2> HIDE DEF BusInv
  <2> QED
    BY <2>1, <2>2
<1>6. Received'
  <2> SUFFICES ASSUME NEW c \in Subscribers, phase'[c] = "run", phase'[parent[c]] = "run"
               PROVE  IF c \in todo'[parent[c]]
                      THEN /\ End'[c] + 1 = End'[parent[c]]
                           /\ current[parent[c]] = log[End'[parent[c]]]
                      ELSE End'[c] = End'[parent[c]]
    BY <1>0 DEF Received
  <2>1. parent[c] \in Nodes /\ c # n /\ parent[c] # n
    BY <1>0 DEF BusType
  <2>2. /\ phase[c] = "run" /\ phase[parent[c]] = "run" /\ parent[c] # m
        /\ todo'[parent[c]] = todo[parent[c]]
    BY <1>0, <2>1
  <2> QED
    BY <1>4, <2>1, <2>2 DEF Received
<1> QED
  BY <1>1, <1>2, <1>3, <1>5, <1>6

\* Shutdown: a loop takes the request of Close at its select.
LEMMA ShutdownInv == ASSUME BusInv, NEW n \in Nodes, Shutdown(n) PROVE BusInv'
<1>1. /\ phase[n] = "run" /\ todo[n] = {} /\ Stopping(n)
      /\ todo' \in [Nodes -> SUBSET Subscribers]
      /\ todo'[n] \subseteq subscriptions[n]
      /\ \A k \in Nodes : k # n => todo'[k] = todo[k]
  BY DEF Shutdown, Idle, BusInv, BusType
<1> QED
  BY <1>1, StoppingInv

\* StopSubscriber: a stopping loop passes the shutdown on to one it has not visited.
LEMMA StopSubscriberInv ==
    ASSUME BusInv, NEW n \in Nodes, NEW s \in Subscribers, StopSubscriber(n, s) PROVE BusInv'
<1>1. CASE /\ Idle(s) /\ Stopping(s)
           /\ todo' = [todo EXCEPT ![n] = @ \ {s}, ![s] = subscriptions[s]]
  <2>1. s \in Nodes /\ phase[s] = "run" /\ todo[s] = {} /\ phase[n] = "stop" /\ n # s
    BY <1>1 DEF Idle, StopSubscriber, Nodes
  <2>2. todo' \in [Nodes -> SUBSET Subscribers]
    BY <1>1 DEF BusInv, BusType
  <2>3. todo'[s] = subscriptions[s] /\ todo'[n] = todo[n] \ {s}
        /\ \A k \in Nodes : k # s /\ k # n => todo'[k] = todo[k]
    BY <1>1, <2>1 DEF BusInv, BusType
  <2>4. todo'[n] \subseteq subscriptions[n]
    BY <2>3 DEF BusInv, Tree
  <2> QED
    BY <1>1, <2>1, <2>2, <2>3, <2>4, StoppingInv
<1>2. CASE /\ ShuttingDown(s) /\ todo' = [todo EXCEPT ![n] = @ \ {s}]
           /\ UNCHANGED <<phase, parent, evbuf, subscriptions, current, historyVars>>
  <2> USE <1>2 DEF BusInv, historyVars
  <2>0. phase[n] = "stop" /\ End' = End
    BY DEF StopSubscriber, End
  <2>1. BusType'
    BY DEF BusType
  <2>2. Places' /\ Buffers'
    BY <2>0 DEF Places, Buffers
  <2>3. Tree'
    BY DEF Tree, BusType
  <2>4. Received'
    <3>1. \A k \in Nodes : phase[k] = "run" => todo'[k] = todo[k]
      BY <2>0 DEF BusType
    <3> QED
      BY <2>0, <3>1 DEF Received, BusType
  <2> QED
    BY <2>1, <2>2, <2>3, <2>4
<1> QED
  BY <1>1, <1>2 DEF StopSubscriber

\* Leave: a loop without subscribers goes to its parent's unsubch.
LEMMA LeaveInv == ASSUME BusInv, NEW n \in Nodes, Leave(n) PROVE BusInv'
<1> USE BusParameters DEF BusInv, Nodes, historyVars
<1>0. /\ phase[n] = "stop" /\ subscriptions[n] = {} /\ End' = End
      /\ UNCHANGED <<parent, evbuf, subscriptions, todo, current, log, from, seen>>
      /\ \A m \in Nodes : m # n => phase'[m] = phase[m]
      /\ phase'[n] \in {"off", "unsub"} /\ (n # Root => phase'[n] = "unsub")
  BY DEF Leave, End, BusType
<1>1. BusType'
  BY <1>0 DEF BusType, Leave
<1>2. Places' /\ Buffers'
  BY <1>0 DEF Places, Buffers
<1>3. Tree'
  <2>1. \A m \in Nodes : phase'[m] \in {"off", "unsub"} => subscriptions[m] = {}
    BY <1>0 DEF Tree
  <2>2. \A c \in Subscribers : phase[c] # "off" => phase'[c] # "off"
    BY <1>0
  <2>3. \A c \in Subscribers : phase'[c] = "run" => phase[c] = "run"
    BY <1>0
  <2>4. \A m \in Nodes : subscriptions[m] \subseteq Subscribers
    BY DEF BusType
  <2> QED
    BY <1>0, <2>1, <2>2, <2>3, <2>4 DEF Tree
<1>4. Received'
  <2>1. \A c \in Subscribers : parent[c] \in Nodes
    BY DEF BusType
  <2> QED
    BY <1>0, <2>1 DEF Received
<1> QED
  BY <1>1, <1>2, <1>3, <1>4

\* Unsubscribe: the parent deletes a subscriber that has ended.
LEMMA UnsubscribeInv == ASSUME BusInv, NEW s \in Subscribers, Unsubscribe(s) PROVE BusInv'
<1> USE BusParameters DEF BusInv, Nodes, historyVars
<1> DEFINE n == parent[s]
<1>0. /\ phase[s] = "unsub" /\ todo[n] = {} /\ n \in Nodes /\ s # Root
      /\ UNCHANGED <<evbuf, todo, current, log, from, seen>> /\ End' = End
      /\ phase'[s] = "off" /\ \A m \in Nodes : m # s => phase'[m] = phase[m]
      /\ parent'[s] = Root /\ \A c \in Subscribers : c # s => parent'[c] = parent[c]
      /\ subscriptions'[n] = subscriptions[n] \ {s}
      /\ \A m \in Nodes : m # n => subscriptions'[m] = subscriptions[m]
  BY DEF Unsubscribe, End, BusType
<1>1. BusType'
  BY <1>0 DEF BusType, Unsubscribe
<1>2. Places' /\ Buffers'
  <2>1. \A c \in Subscribers : phase'[c] = "run" <=> phase[c] = "run"
    BY <1>0
  <2>2. Places /\ Buffers
    OBVIOUS
  <2> HIDE DEF BusInv
  <2>3. Places'
    BY <1>0, <2>1, <2>2 DEF Places
  <2>4. Buffers'
    BY <1>0, <2>1, <2>2 DEF Buffers
  <2> QED
    BY <2>3, <2>4
<1>3. Tree'
  <2>1. \A m \in Nodes : m # n => s \notin subscriptions[m]
    BY DEF Tree
  <2>2. \A m \in Nodes : subscriptions'[m] = subscriptions[m] \ {s}
    BY <1>0, <2>1
  <2>3. \A m \in Nodes : todo[m] \subseteq subscriptions'[m]
    BY <1>0, <2>1, <2>2 DEF Tree
  <2>4. \A m \in Nodes : phase'[m] \in {"off", "unsub"} => subscriptions'[m] = {}
    BY <1>0, <2>2 DEF Tree
  <2>5. \A m \in Nodes : \A c \in subscriptions'[m] :
            parent'[c] = m /\ c # m /\ phase'[c] # "off"
    <3> SUFFICES ASSUME NEW m \in Nodes, NEW c \in subscriptions'[m]
                 PROVE  parent'[c] = m /\ c # m /\ phase'[c] # "off"
      OBVIOUS
    <3>1. c \in subscriptions[m] /\ c # s
      BY <2>2
    <3>2. c \in Subscribers /\ c \in Nodes
      BY <3>1 DEF BusType
    <3>3. parent[c] = m /\ c # m /\ phase[c] # "off"
      BY <3>1 DEF Tree
    <3> HIDE DEF BusInv
    <3> QED
      BY <1>0, <3>1, <3>2, <3>3
  <2>6. \A c \in Subscribers : phase'[c] = "run" => c \in subscriptions'[parent'[c]]
    <3> TAKE c \in Subscribers
    <3> HAVE phase'[c] = "run"
    <3>1. c # s /\ phase[c] = "run" /\ parent'[c] = parent[c] /\ parent[c] \in Nodes
      BY <1>0 DEF BusType
    <3>2. c \in subscriptions[parent[c]]
      BY <3>1 DEF Tree
    <3> HIDE DEF BusInv
    <3> QED
      BY <2>2, <3>1, <3>2
  <2> QED
    BY <1>0, <2>3, <2>4, <2>5, <2>6 DEF Tree
<1>4. Received'
  <2>1. \A c \in Subscribers : parent[c] \in Nodes
    BY DEF BusType
  <2> QED
    BY <1>0, <2>1 DEF Received
<1> QED
  BY <1>1, <1>2, <1>3, <1>4

\* Every step of the bus preserves the invariant.
THEOREM BusStepInv == BusInv /\ [BusNext]_busVars => BusInv'
<1> SUFFICES ASSUME BusInv, [BusNext]_busVars PROVE BusInv'
  OBVIOUS
<1>1. CASE UNCHANGED busVars
  <2> USE <1>1 DEF busVars, historyVars, BusInv
  <2>1. End' = End
    BY DEF End
  <2>2. BusType'
    BY DEF BusType
  <2>3. Places' /\ Tree'
    BY DEF Places, Tree
  <2>4. Buffers' /\ Received'
    BY <2>1 DEF Buffers, Received
  <2> QED
    BY <2>2, <2>3, <2>4
<1>2. CASE BusNext
  BY <1>2, PublishInv, HandOutInv, EmitInv, SubscribeInv, ShutdownInv, StopSubscriberInv,
     LeaveInv, UnsubscribeInv DEF BusNext, BusStep
<1> QED
  BY <1>1, <1>2

-----------------------------------------------------------------------------
(* The refinement. *)

\* The initial state of the bus is one of EventLog.
LEMMA InitRefines == BusInit => Promise!Init
  BY DEF BusInit, Promise!Init

\* Every step of the bus is a step of EventLog, or none of its variables change.
LEMMA StepRefines == BusInv /\ [BusNext]_busVars => [Promise!Next]_(Promise!vars)
<1> SUFFICES ASSUME BusInv, [BusNext]_busVars PROVE Promise!Next \/ UNCHANGED Promise!vars
  OBVIOUS
<1> USE BusParameters DEF BusInv, Nodes, historyVars, Promise!vars
<1>1. CASE UNCHANGED busVars
  BY <1>1 DEF busVars
<1>2. ASSUME NEW ev \in Events, Publish(ev) PROVE Promise!Next
  BY <1>2 DEF Publish, Promise!Publish, Promise!Next
<1>3. ASSUME NEW n \in Nodes, NEW s \in Subscribers, HandOut(n, s) PROVE UNCHANGED Promise!vars
  BY <1>3 DEF HandOut
<1>4. ASSUME NEW s \in Subscribers, Emit(s) PROVE Promise!Next
  <2>1. /\ phase[s] = "run" /\ evbuf[s] # <<>> /\ evbuf[s] \in Seq(Events) /\ s # Root
        /\ seen' = [seen EXCEPT ![s] = Append(@, Head(evbuf[s]))]
        /\ UNCHANGED <<log, from>>
    BY <1>4 DEF Emit, Idle, BusType
  <2>2. /\ Len(evbuf[s]) \in Nat /\ Len(evbuf[s]) > 0 /\ Head(evbuf[s]) = evbuf[s][1]
        /\ from[s] \in Nat /\ from[s] # 0 /\ Len(seen[s]) \in Nat /\ Len(log) \in Nat
    BY <2>1, TailFacts DEF BusType, Places
  <2>3. Head(evbuf[s]) = log[from[s] + Len(seen[s])]
    <3>1. 1 \in 1..Len(evbuf[s]) /\ from[s] + Len(seen[s]) + 1 - 1 = from[s] + Len(seen[s])
      BY <2>2
    <3>2. evbuf[s][1] = log[from[s] + Len(seen[s]) + 1 - 1]
      BY <2>1, <3>1 DEF Buffers
    <3> QED
      BY <2>2, <3>1, <3>2
  <2>4. from[s] + Len(seen[s]) <= Len(log)
    <3>1. from[s] + Len(seen[s]) + Len(evbuf[s]) - 1 <= Len(log)
      BY <2>1 DEF Buffers, End
    <3> QED
      BY <2>2, <3>1
  <2>5. Promise!Read(s)
    BY <2>1, <2>2, <2>3, <2>4 DEF Promise!Read, Promise!Active, Promise!Position
  <2> QED
    BY <2>5 DEF Promise!Next
<1>5. ASSUME NEW n \in Nodes, NEW s \in Subscribers, Subscribe(n, s) PROVE Promise!Next
  <2>1. /\ phase[n] = "run" /\ from[s] = 0 /\ seen[s] = <<>> /\ UNCHANGED <<log, seen>>
        /\ seen' = [seen EXCEPT ![s] = <<>>]
    BY <1>5 DEF Subscribe, Idle, Places, BusType
  <2>2. CASE n = Root
    <3>1. Promise!Join(s)
      BY <1>5, <2>1, <2>2 DEF Subscribe, Promise!Join, Promise!Start, Promise!Active
    <3> QED
      BY <3>1 DEF Promise!Next
  <2>3. CASE n # Root
    <3>1. n \in Subscribers /\ from[n] # 0
      BY <2>1, <2>3 DEF Places
    <3>2. Promise!Clone(n, s)
      BY <1>5, <2>1, <2>3, <3>1
         DEF Subscribe, Promise!Clone, Promise!Start, Promise!Active, Promise!Position
    <3> QED
      BY <3>1, <3>2 DEF Promise!Next
  <2> QED
    BY <2>2, <2>3
<1>6. ASSUME NEW n \in Nodes, phase[n] = "run", Stopping(n)
      PROVE  Promise!Next \/ UNCHANGED Promise!vars
  <2>1. CASE n = Root
    BY <1>6, <2>1 DEF Stopping
  <2>2. CASE n # Root
    <3>1. n \in Subscribers /\ from[n] # 0
      BY <1>6, <2>2 DEF Places
    <3>2. Promise!Leave(n)
      BY <1>6, <2>2, <3>1 DEF Stopping, Promise!Leave, Promise!Active
    <3> QED
      BY <3>1, <3>2 DEF Promise!Next
  <2> QED
    BY <2>1, <2>2
<1>7. ASSUME NEW n \in Nodes, Shutdown(n) PROVE Promise!Next \/ UNCHANGED Promise!vars
  BY <1>6, <1>7 DEF Shutdown, Idle
<1>8. ASSUME NEW n \in Nodes, NEW s \in Subscribers, StopSubscriber(n, s)
      PROVE  Promise!Next \/ UNCHANGED Promise!vars
  BY <1>6, <1>8 DEF StopSubscriber, Idle
<1>9. ASSUME NEW n \in Nodes, Leave(n) PROVE UNCHANGED Promise!vars
  BY <1>9 DEF Leave
<1>10. ASSUME NEW s \in Subscribers, Unsubscribe(s) PROVE UNCHANGED Promise!vars
  BY <1>10 DEF Unsubscribe
<1> QED
  BY <1>1, <1>2, <1>3, <1>4, <1>5, <1>7, <1>8, <1>9, <1>10 DEF BusNext, BusStep

\* The bus implements EventLog: whatever is published, subscribed, cloned, read and
\* closed, and in whatever order the loops run, each subscriber reads the published
\* events in order from the place it started at.
THEOREM BusImplements == BusSpec => Promise!Spec
<1>1. BusInit => BusInv
  BY InitBusInv
<1>2. BusInv /\ [BusNext]_busVars => BusInv'
  BY BusStepInv
<1>3. BusInit => Promise!Init
  BY InitRefines
<1>4. BusInv /\ [BusNext]_busVars => [Promise!Next]_(Promise!vars)
  BY StepRefines
<1> QED
  BY <1>1, <1>2, <1>3, <1>4, PTL DEF BusSpec, Promise!Spec

-----------------------------------------------------------------------------
(* The bid engine. *)

\* What the publisher receives are events.
FeedType == feed \in Seq(Events)

\* Before the publisher starts nothing has been received, and the bus is new.
LEMMA InitFeed == Init => FeedType /\ BusInit
  BY DEF Init, FeedType

\* Whatever the chain executes adds only events to what the publisher receives.
LEMMA NextFeed == FeedType /\ [Next]_vars => FeedType'
<1> SUFFICES ASSUME FeedType, [Next]_vars PROVE FeedType'
  OBVIOUS
<1> USE DEF FeedType
<1>1. ASSUME NEW o \in Orders, Executed(o) PROVE FeedType'
  <2>1. Created(o) \in Events /\ Ended(o) \in Events
    BY ServiceParameters DEF Created, Ended
  <2> QED
    BY <1>1, <2>1, AppendFacts DEF Executed
<1>2. CASE Dispatch
  BY <1>2, TailFacts DEF Dispatch
<1>3. CASE UNCHANGED feed
  BY <1>3
<1> QED
  BY <1>1, <1>2, <1>3
     DEF Next, vars, chainVars, BusLoops, ServiceStep, MonitorStep, QueryExistingOrders,
         SubscribeService, ServiceEvent, DrainEnds, CloseService, ServiceDone, CloseBus,
         NewOrder, Drained, ShutdownService, AttributesDone, PublisherStarts, MonitorEvent,
         MonitorShutsDown, MonitorCloses, MonitorDone, MonitorGivesUp

\* Every step of the bid engine, its monitors and the publisher is a step of the
\* bus, or leaves the bus alone.
LEMMA NextIsBusNext == FeedType /\ [Next]_vars => [BusNext]_busVars
<1> SUFFICES ASSUME FeedType, [Next]_vars PROVE BusNext \/ UNCHANGED busVars
  OBVIOUS
<1>0. Service \in Subscribers /\ Orders \subseteq Subscribers /\ Root \in Nodes
      /\ Subscribers \subseteq Nodes
  BY ServiceParameters DEF Nodes
<1>1. CASE BusLoops
  BY <1>1 DEF BusLoops, BusNext
<1>2. CASE Dispatch
  <2>1. Head(feed) \in Events
    BY <1>2, TailFacts DEF Dispatch, FeedType
  <2> QED
    BY <1>2, <2>1 DEF Dispatch, BusNext
<1>3. CASE SubscribeService \/ \E o \in Orders : NewOrder(o)
  BY <1>0, <1>3 DEF SubscribeService, NewOrder, BusNext
<1>4. CASE ServiceEvent \/ \E o \in Orders : MonitorEvent(o)
  BY <1>0, <1>4 DEF ServiceEvent, MonitorEvent, BusNext
<1>5. CASE CloseService \/ CloseBus \/ \E o \in Orders : MonitorCloses(o)
  BY <1>0, <1>5 DEF CloseService, CloseBus, MonitorCloses, BusNext
<1>6. CASE UNCHANGED busVars
  BY <1>6
<1> QED
  BY <1>1, <1>2, <1>3, <1>4, <1>5, <1>6
     DEF Next, vars, ServiceStep, MonitorStep, QueryExistingOrders, DrainEnds, ServiceDone,
         Drained, ShutdownService, AttributesDone, PublisherStarts, Executed,
         MonitorShutsDown, MonitorDone, MonitorGivesUp

\* For any set of orders the bus keeps its promise to the bid engine and to each of
\* its monitors.
THEOREM BidServicePromise == Spec => KeepsPromise
<1>1. Init => FeedType /\ BusInit
  BY InitFeed
<1>2. FeedType /\ [Next]_vars => FeedType'
  BY NextFeed
<1>3. FeedType /\ [Next]_vars => [BusNext]_busVars
  BY NextIsBusNext
<1>4. BusSpec => Promise!Spec
  BY BusImplements
<1> QED
  BY <1>1, <1>2, <1>3, <1>4, PTL DEF Spec, BusSpec, KeepsPromise
=============================================================================
