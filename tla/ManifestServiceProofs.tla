----------------------- MODULE ManifestServiceProofs -----------------------
(***************************************************************************)
(* For any leases, callers and versions: a manager expects the version the *)
(* chain declares, except for an update nobody told the provider of, and   *)
(* has published its manifest for all of its leases.                       *)
(***************************************************************************)
EXTENDS ManifestService, TLAPS

Events ==
    {"won", "updated", "removed", "closed"} \X (Leases \union Nat \union {"", "none"})

ManagerType ==
    [at : {"none", "loop", "leaving", "done"}, data : Nat, versions : Nat,
     manifest : Nat, leases : SUBSET Leases, requests : Seq(Callers),
     pending : SUBSET Callers, fetch : {"none", "query", "result", "failed"},
     fetched : Nat]

\* A manifest was compared with data, and data is fetched once.
Sane(m) ==
    /\ m \in ManagerType
    /\ m.manifest # 0 => m.data # 0
    /\ m.at = "loop" /\ m.fetch # "none" => m.data = 0

EventType ==
    /\ events \in Seq(Events)
    /\ \A i \in 1..Len(events) :
           /\ events[i][1] = "won" => events[i][2] \in Leases
           /\ events[i][1] = "updated" => events[i][2] \in Nat \ {0}

WatchdogType ==
    [at : {"none", "timer", "closing", "done"}, lease : Leases \union {"none"}]

TypeOK ==
    /\ version \in Nat \ {0}
    /\ EventType
    /\ watchdog \in WatchdogType
    /\ published \in [Leases -> Nat]
    /\ svc \in {"start", "loop", "drain", "done"}

NoUpdate == \A i \in 1..Len(events) : events[i][1] # "updated"

\* The last update under way carries the version of the chain.
LastUpdateIsCurrent ==
    \A i \in 1..Len(events) :
        events[i][1] = "updated"
        /\ (\A j \in 1..Len(events) : j > i => events[j][1] # "updated")
            => events[i][2] = version

\* v is the version of the chain, or the updates since went unheard.
UpToDate(v) == v = version \/ (unheard /\ v < version)

\* What m has read of the version is up to date: the updates it was told of,
\* otherwise the data, and otherwise the answer that is on its way.
Current(m) ==
    m.at = "loop" =>
        /\ m.versions # 0 => UpToDate(m.versions)
        /\ m.versions = 0 /\ m.data # 0 => UpToDate(m.data)
        /\ m.versions = 0 /\ m.fetch = "result" => UpToDate(m.fetched)

VersionInv ==
    /\ svc = "start" \/ ~publisher => events = <<>>
    /\ svc = "loop" => LastUpdateIsCurrent /\ (NoUpdate => Current(mgr))

IInv == TypeOK /\ Sane(mgr) /\ PublishedToAll /\ VersionInv

-----------------------------------------------------------------------------
(* Sequences *)

\* What Append does to the service's events.
LEMMA AppendFacts ==
    ASSUME NEW S, NEW q \in Seq(S), NEW e \in S
    PROVE  /\ Append(q, e) \in Seq(S)
           /\ Len(q) \in Nat
           /\ Len(Append(q, e)) = Len(q) + 1
           /\ \A i \in 1..Len(q) : Append(q, e)[i] = q[i]
           /\ Append(q, e)[Len(q) + 1] = e
  OBVIOUS

\* What remains of events, or of requests, when the first one is handled.
LEMMA TailFacts ==
    ASSUME NEW S, NEW q \in Seq(S), q # <<>>
    PROVE  /\ Tail(q) \in Seq(S)
           /\ Len(q) \in Nat /\ Len(q) > 0
           /\ Len(Tail(q)) = Len(q) - 1
           /\ \A i \in 1..Len(Tail(q)) : Tail(q)[i] = q[i + 1]
           /\ Head(q) = q[1]
           /\ Head(q) \in S
  OBVIOUS

-----------------------------------------------------------------------------
(* The manager: its record, and what it has published *)

\* The records of managers that start or are gone.
LEMMA NewManagerSane ==
    /\ NewManager \in ManagerType /\ NoManager \in ManagerType
    /\ Sane(NewManager) /\ Sane(NoManager)
    /\ NewManager.at = "loop" /\ NoManager.at = "none"
<1>1. <<>> \in Seq(Callers)
  OBVIOUS
<1> QED
  BY <1>1 DEF NewManager, NoManager, ManagerType, Sane

\* What emitReceivedEvents keeps, and that afterwards all leases have the manifest.
LEMMA EmitFacts ==
    ASSUME NEW m, NEW calls, Sane(m), m.at = "loop", published \in [Leases -> Nat],
           EmitReceivedEvents(m, calls)
    PROVE  /\ Sane(mgr') /\ mgr'.at = "loop"
           /\ mgr'.versions = m.versions /\ mgr'.data = m.data
           /\ mgr'.fetch = "result" => m.fetch = "result"
           /\ mgr'.fetched = m.fetched
           /\ published' \in [Leases -> Nat]
           /\ mgr'.manifest # 0 => \A l \in mgr'.leases : published'[l] = mgr'.manifest
<1> DEFINE Ok(n) == /\ Sane(n) /\ n.at = "loop"
                    /\ n.versions = m.versions /\ n.data = m.data
                    /\ n.manifest = m.manifest /\ n.leases = m.leases
                    /\ n.fetch = "result" => m.fetch = "result"
                    /\ n.fetched = m.fetched
<1>0. m \in ManagerType /\ <<>> \in Seq(Callers)
  BY DEF Sane
<1>1. CASE /\ m.leases = {}
           /\ mgr' = Fetching([m EXCEPT !.pending = {}, !.requests = <<>>])
           /\ UNCHANGED published
  <2>1. Ok(mgr')
    BY <1>0, <1>1 DEF Sane, Fetching, ManagerType
  <2> QED
    BY <1>1, <2>1
<1>2. CASE /\ m.data = 0 \/ m.manifest = 0
           /\ mgr' = Fetching(m)
           /\ UNCHANGED published
  <2>1. Ok(mgr') /\ m.manifest = 0
    BY <1>0, <1>2 DEF Sane, Fetching, ManagerType
  <2> QED
    BY <1>2, <2>1
<1>3. CASE /\ mgr' = [m EXCEPT !.pending = {}]
           /\ published' = [l \in Leases |-> IF l \in m.leases THEN m.manifest ELSE published[l]]
  <2>1. Ok(mgr')
    BY <1>0, <1>3 DEF Sane, ManagerType
  <2>2. m.manifest \in Nat /\ m.leases \subseteq Leases
    BY <1>0 DEF ManagerType
  <2> QED
    BY <1>3, <2>1, <2>2
<1> QED
  BY <1>1, <1>2, <1>3 DEF EmitReceivedEvents

\* A request that is validated changes nothing of the versions.
LEMMA ValidatedFacts ==
    ASSUME NEW passes \in BOOLEAN, IInv, Validating, Validated(passes)
    PROVE  /\ Sane(mgr') /\ mgr'.at = "loop"
           /\ mgr'.versions = mgr.versions /\ mgr'.data = mgr.data
           /\ mgr'.fetch = "result" => mgr.fetch = "result"
           /\ mgr'.fetched = mgr.fetched
           /\ published' \in [Leases -> Nat]
           /\ PublishedToAll'
<1> DEFINE c == Head(mgr.requests)
           last == Len(mgr.requests) = 1
           pending == IF passes THEN mgr.pending \union {c} ELSE mgr.pending
           manifest == IF last /\ pending # {} THEN VersionExpected ELSE mgr.manifest
           m == [mgr EXCEPT !.requests = Tail(@), !.pending = pending, !.manifest = manifest]
           calls == IF passes THEN call ELSE Answered(call, {c}, "err")
<1>1. /\ mgr \in ManagerType /\ mgr.at = "loop" /\ mgr.data # 0 /\ mgr.requests # <<>>
      /\ mgr.requests \in Seq(Callers) /\ mgr.fetch = "none"
      /\ published \in [Leases -> Nat]
  BY DEF IInv, Sane, Validating, TypeOK, ManagerType
<1>2. Tail(mgr.requests) \in Seq(Callers) /\ c \in Callers
      /\ Len(mgr.requests) \in Nat /\ Len(mgr.requests) > 0
      /\ Len(Tail(mgr.requests)) = Len(mgr.requests) - 1
  BY <1>1, TailFacts
<1>3. pending \in SUBSET Callers /\ manifest \in Nat
  BY <1>1, <1>2 DEF VersionExpected, ManagerType
<1>4. /\ Sane(m) /\ m.at = "loop" /\ m.versions = mgr.versions /\ m.data = mgr.data
      /\ m.fetch = mgr.fetch /\ m.fetched = mgr.fetched /\ m.requests = Tail(mgr.requests)
  <2> HIDE DEF pending, manifest, c
  <2> QED
    BY <1>1, <1>2, <1>3 DEF Sane, ManagerType
<1>5. IF last THEN EmitReceivedEvents(m, calls)
      ELSE mgr' = m /\ UNCHANGED published
  BY DEF Validated
<1> HIDE DEF m, calls
<1>6. CASE last
  <2>1. EmitReceivedEvents(m, calls)
    BY <1>5, <1>6
  <2> QED
    BY <1>1, <1>4, <2>1, EmitFacts DEF PublishedToAll
<1>7. CASE ~last
  <2>1. mgr' = m /\ UNCHANGED published
    BY <1>5, <1>7
  <2>2. Tail(mgr.requests) # <<>>
    <3>1. Len(Tail(mgr.requests)) # 0
      BY <1>2, <1>7
    <3>2. Len(<<>>) = 0
      OBVIOUS
    <3> QED
      BY <3>1, <3>2, Zenon
  <2>3. mgr'.data # 0 /\ mgr'.requests # <<>> /\ mgr'.at = "loop"
    BY <1>1, <1>4, <2>1, <2>2
  <2>4. PublishedToAll'
    BY <2>3 DEF PublishedToAll, AtSelect, Validating
  <2> QED
    BY <1>1, <1>4, <2>1, <2>4
<1> QED
  BY <1>6, <1>7

\* A manager that takes a request to shut down, in either place.
LEMMA StopsFacts ==
    ASSUME IInv, ManagerStops
    PROVE  /\ Sane(mgr') /\ published' \in [Leases -> Nat] /\ PublishedToAll'
           /\ mgr'.at = "loop" =>
                /\ mgr.at = "loop"
                /\ mgr'.versions = mgr.versions /\ mgr'.data = mgr.data
                /\ mgr'.fetch = "result" => mgr.fetch = "result"
                /\ mgr'.fetched = mgr.fetched
<1>1. CASE /\ mgr' = [NoManager EXCEPT !.at = "leaving", !.fetch = mgr.fetch]
           /\ UNCHANGED published
  <2>1. mgr.fetch \in {"none", "query", "result", "failed"} /\ published \in [Leases -> Nat]
    BY DEF IInv, Sane, ManagerType, TypeOK
  <2>2. Sane(mgr') /\ mgr'.at = "leaving"
    BY <1>1, <2>1, NewManagerSane DEF Sane, ManagerType, NoManager, NewManager
  <2> QED
    BY <1>1, <2>1, <2>2 DEF PublishedToAll, AtSelect
<1>2. CASE Validating /\ Validated(FALSE)
  BY <1>2, ValidatedFacts DEF Validating
<1> QED
  BY <1>1, <1>2 DEF ManagerStops

-----------------------------------------------------------------------------
(* Events and versions *)

\* A step that takes nothing from what a manager has read of the version.
LEMMA CurrentKept ==
    ASSUME UNCHANGED <<version, unheard>>,
           mgr'.at = "loop" =>
                /\ mgr.at = "loop"
                /\ mgr'.versions = mgr.versions /\ mgr'.data = mgr.data
                /\ mgr'.fetch = "result" => mgr.fetch = "result"
                /\ mgr'.fetched = mgr.fetched
    PROVE  Current(mgr) => Current(mgr)'
  BY DEF Current, UpToDate

\* An event of the chain joins those under way; an update carries the new version.
LEMMA EventAppended ==
    ASSUME EventType, LastUpdateIsCurrent, NEW e \in Events, events' = Append(events, e),
           e[1] = "won" => e[2] \in Leases,
           e[1] = "updated" => e[2] \in Nat \ {0} /\ e[2] = version',
           e[1] # "updated" => UNCHANGED version
    PROVE  EventType' /\ LastUpdateIsCurrent' /\ (NoUpdate' => NoUpdate /\ e[1] # "updated")
<1>1. /\ events' \in Seq(Events) /\ Len(events) \in Nat /\ Len(events') = Len(events) + 1
      /\ \A i \in 1..Len(events) : events'[i] = events[i]
      /\ events'[Len(events) + 1] = e
  BY AppendFacts DEF EventType
<1>2. EventType'
  BY <1>1 DEF EventType
<1>3. NoUpdate' => NoUpdate /\ e[1] # "updated"
  BY <1>1 DEF NoUpdate
<1>4. LastUpdateIsCurrent'
  <2> SUFFICES ASSUME NEW i \in 1..Len(events'), events'[i][1] = "updated",
                      \A j \in 1..Len(events') : j > i => events'[j][1] # "updated"
               PROVE  events'[i][2] = version'
    BY DEF LastUpdateIsCurrent
  <2>1. CASE i = Len(events) + 1
    BY <1>1, <2>1
  <2>2. CASE i \in 1..Len(events)
    <3>1. e[1] # "updated"
      BY <1>1, <2>2
    <3>2. \A j \in 1..Len(events) : j > i => events[j][1] # "updated"
      BY <1>1, <2>2
    <3> QED
      BY <1>1, <2>2, <3>1, <3>2 DEF LastUpdateIsCurrent
  <2> QED
    BY <1>1, <2>1, <2>2
<1> QED
  BY <1>2, <1>3, <1>4

\* The service takes the first event; if it was the last update, it is current.
LEMMA EventTaken ==
    ASSUME EventType, LastUpdateIsCurrent, events # <<>>, events' = Tail(events),
           UNCHANGED version
    PROVE  /\ EventType' /\ LastUpdateIsCurrent'
           /\ Head(events)[1] = "won" => Head(events)[2] \in Leases
           /\ Head(events)[1] = "updated" =>
                  Head(events)[2] \in Nat \ {0} /\ (NoUpdate' => Head(events)[2] = version)
           /\ Head(events)[1] # "updated" /\ NoUpdate' => NoUpdate
<1>1. /\ events' \in Seq(Events) /\ Len(events) \in Nat /\ Len(events) > 0
      /\ Len(events') = Len(events) - 1
      /\ \A i \in 1..Len(events') : events'[i] = events[i + 1]
      /\ Head(events) = events[1]
  BY TailFacts DEF EventType
<1>2. \A j \in 1..Len(events) : j > 1 => j - 1 \in 1..Len(events') /\ events'[j - 1] = events[j]
  <2> SUFFICES ASSUME NEW j \in 1..Len(events), j > 1
               PROVE  j - 1 \in 1..Len(events') /\ events'[j - 1] = events[j]
    OBVIOUS
  <2>1. j - 1 \in 1..Len(events') /\ (j - 1) + 1 = j
    BY <1>1
  <2> QED
    BY <1>1, <2>1
<1>3. EventType'
  <2>1. \A i \in 1..Len(events') : i + 1 \in 1..Len(events)
    BY <1>1
  <2> QED
    BY <1>1, <2>1 DEF EventType
<1>4. 1 \in 1..Len(events)
  BY <1>1
<1>5. NoUpdate' => \A j \in 1..Len(events) : j > 1 => events[j][1] # "updated"
  BY <1>2 DEF NoUpdate
<1>6. LastUpdateIsCurrent'
  <2> SUFFICES ASSUME NEW i \in 1..Len(events'), events'[i][1] = "updated",
                      \A j \in 1..Len(events') : j > i => events'[j][1] # "updated"
               PROVE  events'[i][2] = version
    BY DEF LastUpdateIsCurrent
  <2>1. i + 1 \in 1..Len(events) /\ events[i + 1] = events'[i]
    BY <1>1
  <2>2. ASSUME NEW j \in 1..Len(events), j > i + 1
        PROVE  events[j][1] # "updated"
    <3>1. j > 1 /\ j - 1 > i
      BY <1>1, <2>2
    <3> QED
      BY <1>2, <3>1
  <2> QED
    BY <2>1, <2>2 DEF LastUpdateIsCurrent
<1>7. Head(events)[1] = "updated" /\ NoUpdate' => Head(events)[2] = version
  BY <1>1, <1>4, <1>5 DEF LastUpdateIsCurrent
<1>8. Head(events)[1] # "updated" /\ NoUpdate' => NoUpdate
  <2> SUFFICES ASSUME Head(events)[1] # "updated", NoUpdate', NEW j \in 1..Len(events)
               PROVE  events[j][1] # "updated"
    BY DEF NoUpdate
  <2>1. j = 1 \/ j > 1
    BY <1>1
  <2> QED
    BY <1>1, <1>5, <2>1
<1> QED
  BY <1>1, <1>3, <1>4, <1>6, <1>7, <1>8 DEF EventType

-----------------------------------------------------------------------------
(* The invariant *)

\* Nothing has been received when the service is made.
LEMMA InitIInv == Init => IInv
<1> SUFFICES ASSUME Init PROVE IInv
  OBVIOUS
<1>1. TypeOK
  BY DEF Init, TypeOK, EventType, WatchdogType, NoWatchdog
<1>2. Sane(mgr) /\ mgr.at = "none"
  BY NewManagerSane DEF Init
<1> QED
  BY <1>1, <1>2 DEF Init, IInv, PublishedToAll, AtSelect, VersionInv

\* A step of the manager, without an event.
LEMMA ManagerStep ==
    ASSUME IInv, UNCHANGED <<version, publisher, unheard, events, svc>>, watchdog' \in WatchdogType,
           Sane(mgr'), published' \in [Leases -> Nat], PublishedToAll',
           Current(mgr) => Current(mgr)'
    PROVE  IInv'
<1>1. TypeOK'
  BY DEF IInv, TypeOK, EventType
<1>2. VersionInv'
  BY DEF IInv, VersionInv, LastUpdateIsCurrent, NoUpdate
<1> QED
  BY <1>1, <1>2 DEF IInv

\* A step of the chain, which adds an event and leaves the manager alone.
LEMMA ChainStep ==
    ASSUME IInv, NEW e \in Events, svc = "loop", publisher, events' = Append(events, e),
           e[1] = "won" => e[2] \in Leases,
           e[1] = "updated" => e[2] \in Nat \ {0} /\ e[2] = version',
           e[1] # "updated" => UNCHANGED <<version, unheard>>,
           version' \in Nat \ {0}, watchdog' \in WatchdogType,
           UNCHANGED <<publisher, svc, mgr, published>>
    PROVE  IInv'
<1>1. EventType /\ LastUpdateIsCurrent /\ (NoUpdate => Current(mgr))
  BY DEF IInv, TypeOK, VersionInv
<1>2. EventType' /\ LastUpdateIsCurrent' /\ (NoUpdate' => NoUpdate /\ e[1] # "updated")
  BY <1>1, EventAppended
<1>3. TypeOK'
  BY <1>2 DEF IInv, TypeOK
<1>4. Sane(mgr') /\ PublishedToAll'
  BY DEF IInv, PublishedToAll, AtSelect, Validating
<1>5. VersionInv'
  BY <1>1, <1>2 DEF VersionInv, Current, UpToDate
<1> QED
  BY <1>3, <1>4, <1>5 DEF IInv

\* A step of the chain that nobody hears of; an update puts all that was read behind.
LEMMA UnheardStep ==
    ASSUME IInv, UNCHANGED <<publisher, events, svc, mgr, published>>,
           watchdog' \in WatchdogType,
           \/ UNCHANGED <<version, unheard>>
           \/ ~publisher /\ version' = version + 1 /\ unheard' = TRUE
    PROVE  IInv'
<1>0. version \in Nat \ {0} /\ mgr \in ManagerType
  BY DEF IInv, TypeOK, Sane
<1>1. TypeOK' /\ Sane(mgr') /\ PublishedToAll'
  BY <1>0 DEF IInv, TypeOK, EventType, PublishedToAll, AtSelect, Validating
<1>2. CASE UNCHANGED <<version, unheard>>
  BY <1>1, <1>2 DEF IInv, VersionInv, LastUpdateIsCurrent, NoUpdate, Current, UpToDate
<1>3. CASE ~publisher /\ version' = version + 1 /\ unheard' = TRUE
  <2>1. events = <<>> /\ events' = <<>>
    BY <1>3 DEF IInv, VersionInv
  <2>2. Current(mgr) => Current(mgr)'
    BY <1>0, <1>3 DEF Current, UpToDate, ManagerType
  <2>3. VersionInv'
    BY <2>1, <2>2 DEF IInv, VersionInv, LastUpdateIsCurrent, NoUpdate
  <2> QED
    BY <1>1, <2>3 DEF IInv
<1> QED
  BY <1>2, <1>3

\* A manager that joins a lease, or starts for it.
LEMMA HandleLeaseFacts ==
    ASSUME IInv, NEW l \in Leases, HandleLease(l), UNCHANGED <<version, unheard>>
    PROVE  /\ Sane(mgr') /\ published' \in [Leases -> Nat] /\ PublishedToAll'
           /\ watchdog' \in WatchdogType /\ (Current(mgr) => Current(mgr)')
<1>0. Sane(mgr) /\ published \in [Leases -> Nat] /\ watchdog \in WatchdogType
  BY DEF IInv, TypeOK
<1>1. watchdog' \in WatchdogType
  BY <1>0 DEF HandleLease, WatchdogType
<1>2. CASE EmitReceivedEvents([NewManager EXCEPT !.leases = {l}], call)
  <2> DEFINE m == [NewManager EXCEPT !.leases = {l}]
  <2>1. /\ Sane(m) /\ m.at = "loop"
        /\ m.versions = 0 /\ m.data = 0 /\ m.fetch = "none"
    BY NewManagerSane DEF Sane, NewManager, ManagerType
  <2> HIDE DEF m
  <2>2. EmitReceivedEvents(m, call)
    BY <1>2 DEF m
  <2> QED
    BY <1>0, <1>1, <2>1, <2>2, EmitFacts DEF PublishedToAll, Current, UpToDate
<1>3. CASE AtSelect /\ EmitReceivedEvents([mgr EXCEPT !.leases = @ \union {l}], call)
  <2> DEFINE m == [mgr EXCEPT !.leases = @ \union {l}]
  <2>1. /\ Sane(m) /\ m.at = "loop" /\ mgr.at = "loop" /\ m.fetched = mgr.fetched
        /\ m.versions = mgr.versions /\ m.data = mgr.data /\ m.fetch = mgr.fetch
    BY <1>0, <1>3 DEF Sane, ManagerType, AtSelect
  <2> HIDE DEF m
  <2>2. EmitReceivedEvents(m, call)
    BY <1>3 DEF m
  <2>3. Current(mgr) => Current(mgr)'
    BY <1>0, <2>1, <2>2, EmitFacts, CurrentKept
  <2> QED
    BY <1>0, <1>1, <2>1, <2>2, <2>3, EmitFacts DEF PublishedToAll
<1>4. CASE UNCHANGED <<mgr, call, published>>
  BY <1>0, <1>1, <1>4 DEF IInv, PublishedToAll, AtSelect, Validating, Current, UpToDate
<1> QED
  BY <1>2, <1>3, <1>4 DEF HandleLease

\* The service's next event.
LEMMA ServiceEventInv == IInv /\ ServiceEvent => IInv'
<1> SUFFICES ASSUME IInv, ServiceEvent PROVE IInv'
  OBVIOUS
<1> DEFINE kind == Head(events)[1]
           arg == Head(events)[2]
<1>0. /\ svc = "loop" /\ events # <<>> /\ events' = Tail(events)
      /\ UNCHANGED <<version, publisher, unheard, svc>>
      /\ EventType /\ LastUpdateIsCurrent /\ (NoUpdate => Current(mgr))
      /\ Sane(mgr) /\ published \in [Leases -> Nat] /\ watchdog \in WatchdogType
      /\ version \in Nat \ {0}
  BY DEF ServiceEvent, chainVars, IInv, TypeOK, VersionInv
<1>1. /\ EventType' /\ LastUpdateIsCurrent'
      /\ kind = "won" => arg \in Leases
      /\ kind = "updated" => arg \in Nat \ {0} /\ (NoUpdate' => arg = version)
      /\ kind # "updated" /\ NoUpdate' => NoUpdate
  BY <1>0, EventTaken
<1> HIDE DEF kind, arg
<1>2. SUFFICES /\ Sane(mgr') /\ published' \in [Leases -> Nat] /\ PublishedToAll'
               /\ watchdog' \in WatchdogType /\ (NoUpdate' => Current(mgr)')
  BY <1>0, <1>1 DEF IInv, TypeOK, VersionInv
<1>3. CASE kind = "won" /\ HandleLease(arg)
  <2>1. arg \in Leases
    BY <1>1, <1>3
  <2> QED
    BY <1>0, <1>1, <1>3, <2>1, HandleLeaseFacts
<1>4. CASE kind = "updated" /\ HandleUpdate(arg)
  <2>1. published' = published /\ watchdog' = watchdog
    BY <1>4 DEF HandleUpdate
  <2>2. CASE AtSelect /\ mgr' = [mgr EXCEPT !.versions = arg, !.data = IF @ = 0 THEN 0 ELSE arg]
    <3>1. NoUpdate' => arg = version
      BY <1>1, <1>4
    <3>2. mgr \in ManagerType /\ arg \in Nat \ {0}
      BY <1>0, <1>1, <1>4 DEF Sane
    <3>3. /\ mgr'.versions = arg /\ mgr'.manifest = mgr.manifest /\ mgr'.leases = mgr.leases
          /\ mgr'.at = mgr.at /\ mgr'.requests = mgr.requests /\ mgr'.fetch = mgr.fetch
          /\ mgr'.fetched = mgr.fetched /\ mgr'.data = (IF mgr.data = 0 THEN 0 ELSE arg)
          /\ mgr' \in ManagerType
      BY <2>2, <3>2 DEF ManagerType
    <3>4. Sane(mgr')
      BY <1>0, <3>2, <3>3 DEF Sane
    <3>5. PublishedToAll'
      <4>1. AtSelect' => AtSelect
        BY <2>2
      <4> QED
        BY <2>1, <3>3, <4>1 DEF IInv, PublishedToAll
    <3>6. NoUpdate' => Current(mgr)'
      BY <1>0, <3>1, <3>2, <3>3 DEF Current, UpToDate
    <3> QED
      BY <1>0, <2>1, <3>4, <3>5, <3>6
  <2>3. CASE mgr.at # "loop" /\ UNCHANGED mgr
    BY <1>0, <2>1, <2>3 DEF PublishedToAll, AtSelect, Current, UpToDate
  <2> QED
    BY <1>4, <2>2, <2>3 DEF HandleUpdate
<1>5. CASE kind = "removed" /\ RemoveLease(arg)
  <2>1. published' = published /\ watchdog' = watchdog
    BY <1>5 DEF RemoveLease
  <2>2. CASE AtSelect /\ mgr' = [mgr EXCEPT !.leases = @ \ {arg}]
    <3>1. Sane(mgr') /\ mgr'.leases \subseteq mgr.leases /\ mgr'.manifest = mgr.manifest
          /\ mgr'.at = mgr.at /\ mgr'.requests = mgr.requests /\ mgr'.fetch = mgr.fetch
          /\ mgr'.fetched = mgr.fetched /\ mgr'.data = mgr.data /\ mgr'.versions = mgr.versions
      BY <1>0, <2>2 DEF Sane, ManagerType
    <3>2. PublishedToAll'
      BY <2>1, <2>2, <3>1 DEF IInv, PublishedToAll, AtSelect
    <3>3. Current(mgr) => Current(mgr)'
      BY <1>0, <3>1, CurrentKept
    <3> QED
      BY <1>0, <1>1, <1>5, <2>1, <3>1, <3>2, <3>3
  <2>3. CASE mgr.at # "loop" /\ UNCHANGED mgr
    BY <1>0, <2>1, <2>3 DEF PublishedToAll, AtSelect, Current, UpToDate
  <2> QED
    BY <1>5, <2>2, <2>3 DEF RemoveLease
<1>6. CASE kind = "closed" /\ StopManager
  <2>1. watchdog' = watchdog
    BY <1>6 DEF StopManager
  <2>2. CASE ManagerStops
    <3>1. Current(mgr) => Current(mgr)'
      BY <1>0, <2>2, StopsFacts, CurrentKept
    <3> QED
      BY <1>0, <1>1, <1>6, <2>1, <2>2, <3>1, StopsFacts
  <2>3. CASE mgr.at # "loop" /\ UNCHANGED <<mgr, published>>
    BY <1>0, <2>1, <2>3 DEF PublishedToAll, AtSelect, Current, UpToDate
  <2> QED
    BY <1>6, <2>2, <2>3 DEF StopManager
<1> QED
  BY <1>3, <1>4, <1>5, <1>6 DEF ServiceEvent, kind, arg

\* Every step of the chain, the service, the manager and the callers.
LEMMA NextIInv == IInv /\ [Next]_vars => IInv'
<1> SUFFICES ASSUME IInv, [Next]_vars PROVE IInv'
  OBVIOUS
<1> USE DEF chainVars
<1>0. /\ version \in Nat \ {0} /\ watchdog \in WatchdogType /\ Sane(mgr)
      /\ mgr \in ManagerType /\ published \in [Leases -> Nat]
      /\ watchdog.lease \in Leases \union {"none"}
      /\ NoWatchdog \in WatchdogType
  BY DEF IInv, TypeOK, Sane, WatchdogType, NoWatchdog
<1>1. ASSUME UNCHANGED <<version, publisher, unheard, events, svc, mgr, published>>, watchdog' \in WatchdogType
      PROVE  IInv'
  <2>1. Sane(mgr') /\ PublishedToAll' /\ (Current(mgr) => Current(mgr)')
    BY <1>1 DEF IInv, PublishedToAll, AtSelect, Validating, Current, UpToDate
  <2> QED
    BY <1>0, <1>1, <2>1, ManagerStep
<1>2. ASSUME NEW w, w \in WatchdogType
      PROVE  Stopped(w) \in WatchdogType /\ [w EXCEPT !.at = "closing"] \in WatchdogType
  BY <1>2 DEF Stopped, WatchdogType, NoWatchdog
<1>3. CASE Start
  <2>1. /\ svc = "start" /\ svc' = "loop" /\ UNCHANGED <<version, publisher, unheard, events, watchdog, published>>
        /\ events = <<>>
    BY <1>3 DEF Start, IInv, VersionInv
  <2>2. Sane(mgr') /\ mgr'.manifest = 0
        /\ mgr'.versions = 0 /\ mgr'.data = 0 /\ mgr'.fetch # "result"
    BY <1>3, NewManagerSane DEF Start, Sane, ManagerType, NewManager, NoManager
  <2>3. TypeOK'
    BY <2>1 DEF IInv, TypeOK, EventType
  <2>4. VersionInv'
    BY <2>1, <2>2 DEF VersionInv, LastUpdateIsCurrent, Current
  <2> QED
    BY <2>2, <2>3, <2>4 DEF IInv, PublishedToAll
<1>4. CASE ServiceEvent
  BY <1>4, ServiceEventInv
<1>5. ASSUME NEW c \in Callers, HandleManifest(c) PROVE IInv'
  <2> DEFINE m == IF mgr.at = "none" THEN NewManager ELSE mgr
             n == [m EXCEPT !.requests = Append(@, c)]
             calls == [call EXCEPT ![c].at = "wait"]
  <2>1. UNCHANGED <<version, publisher, unheard, events, svc>> /\ watchdog' \in WatchdogType
    BY <1>0, <1>2, <1>5 DEF HandleManifest, MaybeRemoveWatchdog
  <2>2. CASE Leaving /\ UNCHANGED <<mgr, published>>
    BY <1>1, <2>1, <2>2
  <2>3. CASE /\ mgr.at = "none" \/ AtSelect
             /\ \/ m.data = 0 /\ EmitReceivedEvents(n, calls)
                \/ m.data # 0 /\ mgr' = n /\ UNCHANGED published
    <3>1. /\ Sane(m) /\ m.at = "loop" /\ m \in ManagerType /\ m.requests \in Seq(Callers)
          /\ mgr.at = "none" => m.versions = 0 /\ m.data = 0 /\ m.fetch = "none"
      BY <1>0, <2>3, NewManagerSane DEF AtSelect, Sane, ManagerType, NewManager
    <3>2. Append(m.requests, c) \in Seq(Callers) /\ Append(m.requests, c) # <<>>
      <4>1. Len(Append(m.requests, c)) = Len(m.requests) + 1 /\ Len(m.requests) \in Nat
            /\ Append(m.requests, c) \in Seq(Callers)
        BY <3>1, AppendFacts
      <4>2. Len(<<>>) = 0
        OBVIOUS
      <4>3. Len(Append(m.requests, c)) # 0
        BY <4>1
      <4> QED
        BY <4>1, <4>2, <4>3, Zenon
    <3> HIDE DEF m
    <3>3. /\ Sane(n) /\ n.at = "loop" /\ n.versions = m.versions /\ n.data = m.data
          /\ n.fetch = m.fetch /\ n.fetched = m.fetched /\ n.requests # <<>>
      BY <3>1, <3>2 DEF Sane, ManagerType
    <3> HIDE DEF n, calls
    <3>4. /\ Sane(mgr') /\ mgr'.at = "loop" /\ published' \in [Leases -> Nat]
          /\ mgr'.versions = m.versions /\ mgr'.data = m.data
          /\ mgr'.fetch = "result" => m.fetch = "result"
          /\ mgr'.fetched = m.fetched
          /\ PublishedToAll'
      <4>1. CASE EmitReceivedEvents(n, calls)
        BY <1>0, <3>3, <4>1, EmitFacts DEF PublishedToAll
      <4>2. CASE m.data # 0 /\ mgr' = n /\ UNCHANGED published
        BY <1>0, <3>3, <4>2 DEF PublishedToAll, AtSelect, Validating
      <4> QED
        BY <2>3, <4>1, <4>2
    <3>5. Current(mgr) => Current(mgr)'
      <4>1. CASE mgr.at = "none"
        BY <3>1, <3>4, <4>1 DEF Current, UpToDate
      <4>2. CASE AtSelect
        <5>1. m = mgr /\ mgr.at = "loop"
          BY <4>2 DEF m, AtSelect
        <5> QED
          BY <2>1, <3>4, <5>1, CurrentKept
      <4> QED
        BY <2>3, <4>1, <4>2
    <3> QED
      BY <2>1, <3>4, <3>5, ManagerStep
  <2> QED
    BY <1>5, <2>2, <2>3 DEF HandleManifest
<1>6. ASSUME NEW c \in Callers, SubmitFails(c) PROVE IInv'
  BY <1>0, <1>1, <1>6 DEF SubmitFails
<1>7. CASE ManagerDone
  <2>1. /\ UNCHANGED <<version, publisher, unheard, events, svc, published>> /\ mgr' = NoManager
        /\ watchdog' \in WatchdogType
    BY <1>0, <1>2, <1>7 DEF ManagerDone, MaybeRemoveWatchdog
  <2>2. Sane(mgr') /\ mgr'.at = "none"
    BY <2>1, NewManagerSane
  <2> QED
    BY <1>0, <2>1, <2>2, ManagerStep DEF PublishedToAll, AtSelect, Current, UpToDate
<1>8. CASE WatchdogDone
  BY <1>0, <1>1, <1>8 DEF WatchdogDone
<1>9. CASE ServiceDone
  <2>1. UNCHANGED <<version, publisher, unheard, events, mgr, watchdog, published>> /\ svc' = "done"
    BY <1>9 DEF ServiceDone
  <2> QED
    BY <2>1 DEF IInv, TypeOK, EventType, PublishedToAll, AtSelect, Validating, VersionInv
<1>10. CASE ValidateRequest
  <2>1. /\ UNCHANGED <<version, publisher, unheard, events, svc, watchdog>> /\ Validating
        /\ \E passes \in BOOLEAN : Validated(passes)
    BY <1>10 DEF ValidateRequest
  <2>2. PICK passes \in BOOLEAN : Validated(passes)
    BY <2>1
  <2>3. Current(mgr) => Current(mgr)'
    BY <2>1, <2>2, ValidatedFacts, CurrentKept DEF Validating
  <2> QED
    BY <1>0, <2>1, <2>2, <2>3, ValidatedFacts, ManagerStep
<1>11. CASE FetchData
  <2>1. UNCHANGED <<version, publisher, unheard, events, svc, watchdog, published>> /\ mgr.fetch = "query"
    BY <1>11 DEF FetchData
  <2>2. /\ Sane(mgr') /\ mgr'.at = mgr.at /\ mgr'.versions = mgr.versions
        /\ mgr'.data = mgr.data /\ mgr'.manifest = mgr.manifest /\ mgr'.leases = mgr.leases
        /\ mgr'.requests = mgr.requests
        /\ mgr'.fetch = "result" => mgr'.fetched = version
    BY <1>0, <1>11 DEF FetchData, Sane, ManagerType
  <2>3. PublishedToAll' /\ (Current(mgr) => Current(mgr)')
    BY <2>1, <2>2 DEF IInv, PublishedToAll, AtSelect, Validating, Current, UpToDate
  <2> QED
    BY <1>0, <2>1, <2>2, <2>3, ManagerStep
<1>12. CASE ReadFetched
  <2>1. UNCHANGED <<version, publisher, unheard, events, svc, watchdog>> /\ AtSelect /\ mgr.at = "loop"
    BY <1>12 DEF ReadFetched, AtSelect
  <2>2. CASE FetchFailed
    <3>1. <<>> \in Seq(Callers)
      OBVIOUS
    <3>2. /\ Sane(mgr') /\ published' = published /\ mgr'.manifest = mgr.manifest
          /\ mgr'.leases = mgr.leases /\ mgr'.versions = mgr.versions /\ mgr'.data = mgr.data
          /\ mgr'.fetch = "none" /\ mgr'.fetched = mgr.fetched
      BY <1>0, <2>2, <3>1 DEF FetchFailed, Sane, ManagerType
    <3>3. PublishedToAll' /\ (Current(mgr) => Current(mgr)')
      BY <2>1, <3>2 DEF IInv, PublishedToAll, Current, UpToDate
    <3> QED
      BY <1>0, <2>1, <3>2, <3>3, ManagerStep
  <2>3. CASE /\ mgr.fetch = "result"
             /\ LET m == [mgr EXCEPT !.data = mgr.fetched, !.fetch = "none", !.fetched = 0]
                IN  IF mgr.requests = <<>> THEN EmitReceivedEvents(m, call)
                    ELSE mgr' = m /\ UNCHANGED <<call, published>>
    <3> DEFINE m == [mgr EXCEPT !.data = mgr.fetched, !.fetch = "none", !.fetched = 0]
    <3>1. /\ Sane(m) /\ m.at = "loop" /\ m.manifest = 0 /\ m.fetch = "none"
          /\ m.versions = mgr.versions /\ m.data = mgr.fetched
      BY <1>0, <2>1, <2>3 DEF Sane, ManagerType
    <3>2. EmitReceivedEvents(m, call) \/ (mgr' = m /\ UNCHANGED published)
      BY <2>3
    <3> HIDE DEF m
    <3>3. /\ Sane(mgr') /\ published' \in [Leases -> Nat] /\ PublishedToAll'
          /\ mgr'.versions = mgr.versions /\ mgr'.data = mgr.fetched /\ mgr'.fetch # "result"
      BY <1>0, <3>1, <3>2, EmitFacts DEF PublishedToAll
    <3>4. Current(mgr) => Current(mgr)'
      BY <2>1, <2>3, <3>3 DEF Current, UpToDate
    <3> QED
      BY <1>0, <2>1, <3>3, <3>4, ManagerStep
  <2> QED
    BY <1>12, <2>2, <2>3 DEF ReadFetched
<1>13. CASE ManagerLeaves
  <2>1. /\ UNCHANGED <<version, publisher, unheard, events, svc, watchdog, published>>
        /\ Sane(mgr') /\ mgr'.at = "done"
    BY <1>13, NewManagerSane DEF ManagerLeaves, Sane, ManagerType
  <2> QED
    BY <1>0, <2>1, ManagerStep DEF PublishedToAll, AtSelect, Current, UpToDate
<1>14. CASE ManagerShutdown
  <2>1. UNCHANGED <<version, publisher, unheard, events, svc, watchdog>> /\ ManagerStops
    BY <1>14 DEF ManagerShutdown
  <2>2. Current(mgr) => Current(mgr)'
    BY <2>1, StopsFacts, CurrentKept
  <2> QED
    BY <1>0, <2>1, <2>2, StopsFacts, ManagerStep
<1>15. CASE WatchdogShutdown \/ WatchdogFires
  BY <1>0, <1>1, <1>2, <1>15 DEF WatchdogShutdown, WatchdogFires
<1>16. CASE WatchdogCloses
  <2>1. UNCHANGED <<version, publisher, unheard, svc, mgr, published>> /\ watchdog' \in WatchdogType
    BY <1>16 DEF WatchdogCloses, WatchdogType, NoWatchdog
  <2>2. CASE UNCHANGED events
    BY <1>1, <2>1, <2>2
  <2>3. CASE svc = "loop" /\ publisher
             /\ events' = Append(events, <<"removed", watchdog.lease>>)
    <3>1. <<"removed", watchdog.lease>> \in Events
      BY <1>0 DEF Events
    <3> QED
      BY <1>0, <2>1, <2>3, <3>1, ChainStep
  <2> QED
    BY <1>16, <2>2, <2>3 DEF WatchdogCloses, Told
<1>17. CASE Shutdown
  <2>1. UNCHANGED <<version, publisher, unheard, mgr, watchdog, published>> /\ svc' = "drain" /\ events' = <<>>
    BY <1>17 DEF Shutdown
  <2> QED
    BY <2>1 DEF IInv, TypeOK, EventType, PublishedToAll, AtSelect, Validating, VersionInv
<1>18. CASE UpdateDeployment
  <2>1. /\ version' = version + 1 /\ unheard' = ~publisher /\ svc = "loop"
        /\ events' = IF publisher THEN Append(events, <<"updated", version + 1>>) ELSE events
        /\ UNCHANGED <<publisher, svc, mgr, watchdog, published>>
    BY <1>18 DEF UpdateDeployment, Executes, Told
  <2>2. version + 1 \in Nat \ {0}
    BY <1>0
  <2>3. <<"updated", version + 1>> \in Events
    BY <2>2, Zenon DEF Events
  <2>4. CASE publisher
    BY <1>0, <2>1, <2>2, <2>3, <2>4, ChainStep
  <2>5. CASE ~publisher
    BY <1>0, <2>1, <2>5, UnheardStep
  <2> QED
    BY <2>4, <2>5
<1>19. CASE CloseDeployment
  <2>1. /\ svc = "loop"
        /\ events' = IF publisher THEN Append(events, <<"closed", "">>) ELSE events
        /\ UNCHANGED <<version, publisher, unheard, svc, mgr, watchdog, published>>
    BY <1>19 DEF CloseDeployment, Executes, Told
  <2>2. <<"closed", "">> \in Events
    BY DEF Events
  <2>3. CASE publisher
    BY <1>0, <2>1, <2>2, <2>3, ChainStep
  <2>4. CASE ~publisher
    BY <1>0, <2>1, <2>4, UnheardStep
  <2> QED
    BY <2>3, <2>4
<1>20. ASSUME NEW l \in Leases, LeaseWon(l) \/ CloseLease(l) PROVE IInv'
  <2>1. /\ svc = "loop"
        /\ UNCHANGED <<version, publisher, unheard, svc, mgr, watchdog, published>>
        /\ \/ publisher /\ events' = Append(events, <<"won", l>>)
           \/ publisher /\ events' = Append(events, <<"removed", l>>)
           \/ UNCHANGED events
    BY <1>20 DEF LeaseWon, CloseLease, Executes, Told
  <2>2. <<"won", l>> \in Events /\ <<"removed", l>> \in Events
    BY DEF Events
  <2>3. CASE publisher /\ events' = Append(events, <<"won", l>>)
    BY <1>0, <2>1, <2>2, <2>3, ChainStep
  <2>4. CASE publisher /\ events' = Append(events, <<"removed", l>>)
    BY <1>0, <2>1, <2>2, <2>4, ChainStep
  <2>5. CASE UNCHANGED events
    BY <1>0, <2>1, <2>5, UnheardStep
  <2> QED
    BY <2>1, <2>3, <2>4, <2>5
<1>21. ASSUME NEW c \in Callers, NEW v \in 1..MaxVersion, Submit(c, v) PROVE IInv'
  BY <1>0, <1>1, <1>21 DEF Submit
<1>22. CASE UNCHANGED vars
  BY <1>0, <1>1, <1>22 DEF vars
<1>23. CASE PublisherStarts
  <2>1. publisher' = TRUE /\ svc = "loop"
        /\ UNCHANGED <<version, unheard, events, svc, mgr, watchdog, published>>
    BY <1>23 DEF PublisherStarts
  <2>2. VersionInv'
    BY <2>1 DEF IInv, VersionInv, LastUpdateIsCurrent, NoUpdate, Current, UpToDate
  <2> QED
    BY <2>1, <2>2 DEF IInv, TypeOK, EventType, PublishedToAll, AtSelect, Validating
<1> QED
  BY <1>3, <1>4, <1>5, <1>6, <1>7, <1>8, <1>9, <1>10, <1>11, <1>12, <1>13, <1>14, <1>15,
     <1>16, <1>17, <1>18, <1>19, <1>20, <1>21, <1>22, <1>23
  DEF Next, System

\* The manager, its events and what it published stay in step (manager.run).
THEOREM Invariance == Spec => []IInv
  BY InitIInv, NextIInv, PTL DEF Spec

\* A manager with data and no update to come expects the version of the chain, in
\* whichever order fetchData, its answer and handleUpdate happened, or an earlier
\* one if the last update came before events.Publish was started.
THEOREM ExpectedCurrent == Spec => []ExpectedIsCurrent
<1>1. IInv => ExpectedIsCurrent
  BY DEF IInv, VersionInv, NoUpdate, Current, UpToDate, ExpectedIsCurrent, VersionExpected
<1> QED
  BY <1>1, Invariance, PTL

\* Whenever the manager is at its select, each of its leases was sent the manifest
\* accepted last (emitReceivedEvents).
THEOREM ManifestPublished == Spec => []PublishedToAll
<1>1. IInv => PublishedToAll
  BY DEF IInv
<1> QED
  BY <1>1, Invariance, PTL
=============================================================================
