--------------------------- MODULE ManifestService ---------------------------
(***************************************************************************)
(* How a provider receives the manifest of a deployment                    *)
(* (src/provider/manifest): the service, the manager of one deployment     *)
(* with its leases, the watchdog that closes the bid when no manifest      *)
(* comes, the tenants that submit manifests, and the deployment on the     *)
(* chain.                                                                  *)
(*                                                                         *)
(* A manifest is known by its version, the hash the deployment declares;   *)
(* versions are numbered as the tenant declares them.  Handlers of the     *)
(* manager are one step, except that validateRequests waits for the        *)
(* hostname service once for each request.  When the service waits for a   *)
(* manager or a watchdog, it takes its event later.  Of the chain's events *)
(* it hears once the publisher runs, which is started after the services   *)
(* (provider/cmd/run.go).                                                  *)
(***************************************************************************)
EXTENDS Naturals, Sequences

CONSTANTS
    Leases,         \* of the deployment
    Callers,        \* calls of Submit
    MaxVersion,     \* bound: versions declared
    MaxEvents       \* bound: events under way when the chain makes another

VARIABLES
    version, open,  \* on the chain: Deployment.Version, and whether it is active
    lease,          \* on the chain: "none", "active", "closed"
    publisher,      \* events.Publish was started
    unheard,        \* the last update came before it
    events,         \* the service's subscription
    svc,            \* "start", "loop", "drain", "done"
    mgr,            \* the deployment's manager
    watchdog,       \* the deployment's entry of watchdogs
    call,           \* of each caller: how far it is, and what it submits
    published,      \* by lease, the version of the last ManifestReceived
    swallowed       \* validation has taken the service's request to shut down

chainVars == <<version, open, lease, publisher, unheard>>
vars == <<chainVars, events, svc, mgr, watchdog, call, published, swallowed>>

\* at: "none"; "loop"; "leaving" (after the loop); "done" (at donech).
\* data: the version fetched, 0 before.  versions: the last version received, 0
\* before.  manifest: the last one accepted, 0 before.
NewManager ==
    [at |-> "loop", data |-> 0, versions |-> 0, manifest |-> 0, leases |-> {},
     requests |-> <<>>, pending |-> {}, fetch |-> "none", fetched |-> 0]
NoManager == [NewManager EXCEPT !.at = "none"]

NoWatchdog == [at |-> "none", lease |-> "none"]

Init ==
    /\ version = 1
    /\ open = TRUE
    /\ lease \in [Leases -> {"none", "active"}]
    /\ publisher = FALSE
    /\ unheard = FALSE
    /\ events = <<>>
    /\ svc = "start"
    /\ mgr = NoManager
    /\ watchdog = NoWatchdog
    /\ call = [c \in Callers |-> [at |-> "idle", version |-> 0]]
    /\ published = [l \in Leases |-> 0]
    /\ swallowed = FALSE

-----------------------------------------------------------------------------
(* The chain, once the service has subscribed. *)

Told(news) ==
    events' = IF svc = "loop" /\ publisher THEN Append(events, news) ELSE events

Executes == svc = "loop" /\ Len(events) < MaxEvents

PublisherStarts ==
    /\ svc = "loop"
    /\ ~publisher
    /\ publisher' = TRUE
    /\ UNCHANGED <<version, open, lease, unheard, events, svc, mgr, watchdog, call, published,
                   swallowed>>

\* The bid engine, which the publisher tells of the lease, publishes LeaseWon.
LeaseWon(l) ==
    /\ Executes
    /\ publisher
    /\ open
    /\ lease[l] = "none"
    /\ lease' = [lease EXCEPT ![l] = "active"]
    /\ Told(<<"won", l>>)
    /\ UNCHANGED <<version, open, publisher, unheard, svc, mgr, watchdog, call, published,
                   swallowed>>

UpdateDeployment ==
    /\ Executes
    /\ open
    /\ version < MaxVersion
    /\ version' = version + 1
    /\ unheard' = ~publisher
    /\ Told(<<"updated", version + 1>>)
    /\ UNCHANGED <<open, lease, publisher, svc, mgr, watchdog, call, published, swallowed>>

CloseLease(l) ==
    /\ Executes
    /\ lease[l] = "active"
    /\ lease' = [lease EXCEPT ![l] = "closed"]
    /\ Told(<<"removed", l>>)
    /\ UNCHANGED <<version, open, publisher, unheard, svc, mgr, watchdog, call, published,
                   swallowed>>

\* The leases' own events come after this one and find the manager stopped.
CloseDeployment ==
    /\ Executes
    /\ open
    /\ open' = FALSE
    /\ lease' = [l \in Leases |-> "closed"]
    /\ Told(<<"closed", "">>)
    /\ UNCHANGED <<version, publisher, unheard, svc, mgr, watchdog, call, published, swallowed>>

-----------------------------------------------------------------------------
(* What the manager's handlers share. *)

\* calls, after the callers in who were told what
Answered(calls, who, what) ==
    [c \in Callers |-> IF c \in who THEN [at |-> what, version |-> 0] ELSE calls[c]]

Held(m) == m.pending \union {m.requests[i] : i \in 1..Len(m.requests)}

\* maybeFetchData
Fetching(m) ==
    IF m.data = 0 /\ m.fetch = "none" THEN [m EXCEPT !.fetch = "query"] ELSE m

\* emitReceivedEvents, and the maybeFetchData that follows it
EmitReceivedEvents(m, calls) ==
    \/ /\ m.leases = {}
       /\ mgr' = Fetching([m EXCEPT !.pending = {}, !.requests = <<>>])
       /\ call' = Answered(calls, Held(m), "err")
       /\ UNCHANGED published
    \/ /\ m.leases # {}
       /\ m.data = 0 \/ m.manifest = 0
       /\ mgr' = Fetching(m)
       /\ call' = calls
       /\ UNCHANGED published
    \/ /\ m.leases # {} /\ m.data # 0 /\ m.manifest # 0
       /\ mgr' = [m EXCEPT !.pending = {}]
       /\ call' = Answered(calls, m.pending, "ok")
       /\ published' = [l \in Leases |-> IF l \in m.leases THEN m.manifest ELSE published[l]]

\* A manager with data and requests is in validateRequests, otherwise it is at
\* its select.
Validating == mgr.at = "loop" /\ mgr.data # 0 /\ mgr.requests # <<>>

AtSelect == mgr.at = "loop" /\ ~Validating

VersionExpected == IF mgr.versions # 0 THEN mgr.versions ELSE mgr.data

-----------------------------------------------------------------------------
(* The manager's own steps. *)

\* One request goes through validateRequest.  The last one ends validateRequests:
\* the manifest of the requests that passed is the new one.
Validated(passes) ==
    LET c == Head(mgr.requests)
        last == Len(mgr.requests) = 1
        pending == IF passes THEN mgr.pending \union {c} ELSE mgr.pending
        m == [mgr EXCEPT !.requests = Tail(@), !.pending = pending,
                         !.manifest = IF last /\ pending # {} THEN VersionExpected ELSE @]
        calls == IF passes THEN call ELSE Answered(call, {c}, "err")
    IN  IF last THEN EmitReceivedEvents(m, calls)
        ELSE mgr' = m /\ call' = calls /\ UNCHANGED published

\* A request passes with the version expected, if ValidateManifest and
\* ValidateManifestWithDeployment accept the manifest and its hostnames are free.
ValidateRequest ==
    /\ Validating
    /\ \/ Validated(FALSE)
       \/ call[Head(mgr.requests)].version = VersionExpected /\ Validated(TRUE)
    /\ UNCHANGED <<chainVars, events, svc, watchdog, swallowed>>

\* doFetchData: the chain answers with the version it has then, or fails.
FetchData ==
    /\ mgr.fetch = "query"
    /\ \/ mgr' = [mgr EXCEPT !.fetch = "result", !.fetched = version]
       \/ mgr' = [mgr EXCEPT !.fetch = "failed"]
    /\ UNCHANGED <<chainVars, events, svc, watchdog, call, published, swallowed>>

\* Variant: the requests are kept, unanswered.
FetchFailedSilent ==
    /\ mgr.fetch = "failed"
    /\ mgr' = [mgr EXCEPT !.fetch = "none"]
    /\ UNCHANGED <<call, published>>

FetchFailed ==
    /\ mgr.fetch = "failed"
    /\ mgr' = [mgr EXCEPT !.fetch = "none", !.pending = {}, !.requests = <<>>]
    /\ call' = Answered(call, Held(mgr), "err")
    /\ UNCHANGED published

ReadFetched ==
    /\ AtSelect
    /\ \/ FetchFailed
       \/ /\ mgr.fetch = "result"
          /\ LET m == [mgr EXCEPT !.data = mgr.fetched, !.fetch = "none", !.fetched = 0]
             IN  IF mgr.requests = <<>> THEN EmitReceivedEvents(m, call)
                 ELSE mgr' = m /\ UNCHANGED <<call, published>>
    /\ UNCHANGED <<chainVars, events, svc, watchdog, swallowed>>

\* The end of run: the query is waited for, then the manager is handed to donech.
ManagerLeaves ==
    /\ mgr.at = "leaving"
    /\ mgr.fetch # "query"
    /\ mgr' = [NoManager EXCEPT !.at = "done"]
    /\ UNCHANGED <<chainVars, events, svc, watchdog, call, published, swallowed>>

\* The manager takes a request to shut down, of the service or (StopManager) for the
\* end of the deployment.  The select of its loop leaves the loop; the one of
\* checkHostnamesForManifest only refuses the manifest.
ManagerStops ==
    \/ /\ AtSelect
       /\ mgr' = [NoManager EXCEPT !.at = "leaving", !.fetch = mgr.fetch]
       /\ call' = Answered(call, Held(mgr), "err")
       /\ UNCHANGED <<published, swallowed>>
    \/ /\ Validating
       /\ call[Head(mgr.requests)].version = VersionExpected
       /\ Validated(FALSE)
       /\ swallowed' = (svc = "drain")

\* It takes nothing more: what the service hands it is refused.
Leaving == mgr.at \in {"leaving", "done"}

-----------------------------------------------------------------------------
(* The service.  Where it stops a watchdog that is closing a bid, it waits. *)

\* maybeRemoveWatchdog
Stopped(w) == IF w.at = "timer" THEN [NoWatchdog EXCEPT !.at = "done"] ELSE w
MaybeRemoveWatchdog == watchdog.at # "closing" /\ watchdog' = Stopped(watchdog)

\* managePreExistingLease: each lease starts, or joins, the manager.
Start ==
    /\ svc = "start"
    /\ svc' = "loop"
    /\ LET known == {l \in Leases : lease[l] = "active"}
       IN  mgr' = IF known = {} THEN NoManager
                  ELSE [NewManager EXCEPT !.leases = known, !.fetch = "query"]
    /\ UNCHANGED <<chainVars, events, watchdog, call, published, swallowed>>

\* Variant: the manager publishes only what comes after the lease.
HandleLeaseQuiet(l) ==
    /\ watchdog' = IF watchdog.at = "none" THEN [at |-> "timer", lease |-> l] ELSE watchdog
    /\ \/ mgr.at = "none" /\ mgr' = Fetching([NewManager EXCEPT !.leases = {l}])
       \/ AtSelect /\ mgr' = Fetching([mgr EXCEPT !.leases = @ \union {l}])
       \/ Leaving /\ UNCHANGED mgr
    /\ UNCHANGED <<call, published, swallowed>>

\* handleLease of a new lease
HandleLease(l) ==
    /\ watchdog' = IF watchdog.at = "none" THEN [at |-> "timer", lease |-> l] ELSE watchdog
    /\ \/ /\ mgr.at = "none"
          /\ EmitReceivedEvents([NewManager EXCEPT !.leases = {l}], call)
       \/ /\ AtSelect
          /\ EmitReceivedEvents([mgr EXCEPT !.leases = @ \union {l}], call)
       \/ /\ Leaving
          /\ UNCHANGED <<mgr, call, published>>
    /\ UNCHANGED swallowed

\* Variant: an update that comes before the data is dropped.
HandleUpdateDropped(v) ==
    /\ \/ AtSelect /\ mgr' = [mgr EXCEPT !.data = IF @ = 0 THEN 0 ELSE v]
       \/ mgr.at # "loop" /\ UNCHANGED mgr
    /\ UNCHANGED <<watchdog, call, published, swallowed>>

HandleUpdate(v) ==
    /\ \/ /\ AtSelect
          /\ mgr' = [mgr EXCEPT !.versions = v, !.data = IF @ = 0 THEN 0 ELSE v]
       \/ mgr.at # "loop" /\ UNCHANGED mgr
    /\ UNCHANGED <<watchdog, call, published, swallowed>>

RemoveLease(l) ==
    /\ \/ AtSelect /\ mgr' = [mgr EXCEPT !.leases = @ \ {l}]
       \/ mgr.at # "loop" /\ UNCHANGED mgr
    /\ UNCHANGED <<watchdog, call, published, swallowed>>

StopManager ==
    /\ \/ ManagerStops
       \/ mgr.at # "loop" /\ UNCHANGED <<mgr, call, published, swallowed>>
    /\ UNCHANGED watchdog

ServiceEvent ==
    /\ svc = "loop"
    /\ events # <<>>
    /\ events' = Tail(events)
    /\ LET kind == Head(events)[1]
           arg == Head(events)[2]
       IN  \/ kind = "won" /\ HandleLease(arg)
           \/ kind = "updated" /\ HandleUpdate(arg)
           \/ kind = "removed" /\ RemoveLease(arg)
           \/ kind = "closed" /\ StopManager
    /\ UNCHANGED <<chainVars, svc>>

\* The mreqch case: the manager answers, or handleManifest when it is leaving.
HandleManifest(c) ==
    /\ svc = "loop"
    /\ call[c].at = "send"
    /\ MaybeRemoveWatchdog
    /\ LET calls == [call EXCEPT ![c].at = "wait"]
           m == IF mgr.at = "none" THEN NewManager ELSE mgr
           n == [m EXCEPT !.requests = Append(@, c)]
       IN  \/ /\ mgr.at = "none" \/ AtSelect
              /\ \/ m.data = 0 /\ EmitReceivedEvents(n, calls)
                 \/ m.data # 0 /\ mgr' = n /\ call' = calls /\ UNCHANGED published
           \/ /\ Leaving
              /\ call' = Answered(call, {c}, "err")
              /\ UNCHANGED <<mgr, published>>
    /\ UNCHANGED <<chainVars, events, svc, swallowed>>

\* Variant: managers are removed in the loop only.
ManagerDoneInLoop ==
    /\ svc = "loop"
    /\ mgr.at = "done"
    /\ mgr' = NoManager
    /\ MaybeRemoveWatchdog
    /\ UNCHANGED <<chainVars, events, svc, call, published, swallowed>>

ManagerDone ==
    /\ svc \in {"loop", "drain"}
    /\ mgr.at = "done"
    /\ mgr' = NoManager
    /\ IF svc = "loop" THEN MaybeRemoveWatchdog ELSE UNCHANGED watchdog
    /\ UNCHANGED <<chainVars, events, svc, call, published, swallowed>>

\* watchdogch is read in the loop, and once all managers are gone.
WatchdogDone ==
    /\ svc = "loop" \/ (svc = "drain" /\ mgr.at = "none")
    /\ watchdog.at = "done"
    /\ watchdog' = NoWatchdog
    /\ UNCHANGED <<chainVars, events, svc, mgr, call, published, swallowed>>

Shutdown ==
    /\ svc = "loop"
    /\ svc' = "drain"
    /\ events' = <<>>
    /\ UNCHANGED <<chainVars, mgr, watchdog, call, published, swallowed>>

ServiceDone ==
    /\ svc = "drain"
    /\ mgr.at = "none"
    /\ watchdog.at = "none"
    /\ svc' = "done"
    /\ UNCHANGED <<chainVars, events, mgr, watchdog, call, published, swallowed>>

-----------------------------------------------------------------------------
(* The manager and the watchdog watch the service's ShuttingDown. *)

ManagerShutdown ==
    /\ svc = "drain"
    /\ ~swallowed
    /\ ManagerStops
    /\ UNCHANGED <<chainVars, events, svc, watchdog>>

WatchdogShutdown ==
    /\ svc = "drain"
    /\ watchdog.at = "timer"
    /\ watchdog' = Stopped(watchdog)
    /\ UNCHANGED <<chainVars, events, svc, mgr, call, published, swallowed>>

WatchdogFires ==
    /\ watchdog.at = "timer"
    /\ watchdog' = [watchdog EXCEPT !.at = "closing"]
    /\ UNCHANGED <<chainVars, events, svc, mgr, call, published, swallowed>>

\* Broadcast of MsgCloseBid, which may fail; the chain closes the lease.
WatchdogCloses ==
    /\ watchdog.at = "closing"
    /\ watchdog' = [NoWatchdog EXCEPT !.at = "done"]
    /\ \/ UNCHANGED <<lease, events>>
       \/ /\ lease[watchdog.lease] = "active"
          /\ lease' = [lease EXCEPT ![watchdog.lease] = "closed"]
          /\ Told(<<"removed", watchdog.lease>>)
    /\ UNCHANGED <<version, open, publisher, unheard, svc, mgr, call, published, swallowed>>

-----------------------------------------------------------------------------
(* Submit *)

\* Later calls fail at once.
Submit(c, v) ==
    /\ call[c].at = "idle"
    /\ svc = "loop"
    /\ call' = [call EXCEPT ![c] = [at |-> "send", version |-> v]]
    /\ UNCHANGED <<chainVars, events, svc, mgr, watchdog, published, swallowed>>

\* Before the request is taken ShuttingDown ends the call, after it only Done.
SubmitFails(c) ==
    /\ \/ call[c].at = "send" /\ svc \in {"drain", "done"}
       \/ call[c].at = "wait" /\ svc = "done"
    /\ call' = Answered(call, {c}, "err")
    /\ UNCHANGED <<chainVars, events, svc, mgr, watchdog, published, swallowed>>

-----------------------------------------------------------------------------

System ==
    \/ Start
    \/ ServiceEvent
    \/ \E c \in Callers : HandleManifest(c) \/ SubmitFails(c)
    \/ ManagerDone
    \/ WatchdogDone
    \/ ServiceDone
    \/ ValidateRequest
    \/ FetchData
    \/ ReadFetched
    \/ ManagerLeaves
    \/ ManagerShutdown
    \/ WatchdogShutdown
    \/ WatchdogFires
    \/ WatchdogCloses

Next ==
    \/ System
    \/ Shutdown
    \/ PublisherStarts
    \/ UpdateDeployment
    \/ CloseDeployment
    \/ \E l \in Leases : LeaseWon(l) \/ CloseLease(l)
    \/ \E c \in Callers, v \in 1..MaxVersion : Submit(c, v)

\* Goroutines run, queries and broadcasts return, and timers fire.  What is sent
\* is bounded, so the steps of System run out.
Spec == Init /\ [][Next]_vars /\ WF_vars(System)

-----------------------------------------------------------------------------

\* Every caller is answered: a request the manager holds is always behind a
\* query, a validation or the manager's end, whatever fails or stops meanwhile.
CallersReturn ==
    \A c \in Callers : (call[c].at \in {"send", "wait"}) ~> (call[c].at \in {"ok", "err"})

\* Whichever of a query's answer and the updates came first, a manager that has
\* data and no update to come expects the version the chain declares.  Only if the
\* last update came before the publisher may it expect an earlier one: it had asked
\* by then, and does not ask again (run.go:544, manager.go:225).
ExpectedIsCurrent ==
    mgr.at = "loop" /\ mgr.data # 0
    /\ svc = "loop" /\ (\A i \in 1..Len(events) : events[i][1] # "updated")
        => VersionExpected = version \/ (unheard /\ VersionExpected < version)

\* At its select, the manager has published the last manifest it accepted for
\* every lease it has, those won after the manifest came included.
PublishedToAll ==
    AtSelect /\ mgr.manifest # 0 => \A l \in mgr.leases : published[l] = mgr.manifest

\* The service that shuts down is done in the end, unless the validation of a
\* manifest took its request to the manager (manager.go:369).  If it took the request
\* for the end of the deployment, the service's still comes.
DrainCompletes == (svc = "drain") ~> (svc = "done" \/ swallowed)

\* Of the comment in handleLease: no bid is closed for want of a manifest once
\* the deployment's manifest has been accepted.
WatchdogsSpareServed == watchdog.at = "closing" => mgr.manifest = 0
=============================================================================
