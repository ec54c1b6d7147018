--------------------------- MODULE AttributeCache ---------------------------
(***************************************************************************)
(* The provider's view of what auditors signed for it                      *)
(* (src/provider/bidengine/provider_attributes.go), and its use by the     *)
(* monitors of the orders (order.go, shouldBid): a cache that is filled by *)
(* queries, whose results come back over fetchCh, and emptied by the       *)
(* events of x/audit.                                                      *)
(*                                                                         *)
(* A fetch is in one of three places: the query was not answered yet       *)
(* ("query"), or its result waits for the loop ("result", "error").  The   *)
(* loop never sets inProgress, so several fetches for one auditor may be   *)
(* under way, one for each request that was not answered from the cache.   *)
(* The service subscribes before the publisher of chain events is started  *)
(* (provider/cmd/run.go): changes in between are never heard of.           *)
(***************************************************************************)
EXTENDS ProviderRegistry, FiniteSetsExt

CONSTANTS
    MaxEntries      \* maxEntries, of trimCache

VARIABLES
    pass,           \* "off", "loop", "wait" (at wg.Wait), "done"
    session,        \* the provider's attributes when the service was started
    data,           \* the cache: by auditor, an entry or None
    pending,        \* by auditor, the orders waiting for its fetch
    fetches,        \* the goroutines of maybeStart
    ask             \* by order, how far shouldBid is

cacheVars == <<pass, session, data, pending, fetches, ask>>
vars == <<registryVars, cacheVars>>

\* What a query saw: the record, and the number of changes made to it before.
\* overtaken: the loop has purged the auditor since.
Answer(auditor) ==
    [record |-> signed[auditor], change |-> changes[auditor], overtaken |-> FALSE]

\* shouldBid: auditors it has yet to ask, and what it knows by now.
NotAsked == [at |-> "idle", auditor |-> None, left |-> <<>>, known |-> [a \in {} |-> None]]

Init ==
    /\ RegistryInit
    /\ pass = "off"
    /\ session = None
    /\ data = [a \in Auditors |-> None]
    /\ pending = [a \in Auditors |-> {}]
    /\ fetches = {}
    /\ ask = [o \in Orders |-> NotAsked]

\* The provider is registered when its services are started.
Start ==
    /\ pass = "off"
    /\ provider # None
    /\ pass' = "loop"
    /\ session' = provider
    /\ UNCHANGED <<registryVars, data, pending, fetches, ask>>

\* events.Publish, once all services were started.
PublisherStarts ==
    /\ pass # "off"
    /\ ~publisher
    /\ publisher' = TRUE
    /\ UNCHANGED <<provider, signed, changes, feed, unheard, bid, cacheVars>>

-----------------------------------------------------------------------------
(* shouldBid *)

\* The next auditor that was not asked before, or all of them were.
AskNext(asker) ==
    LET left == SelectSeq(asker.left, LAMBDA a : a \notin DOMAIN asker.known) IN
    IF left = <<>> THEN [asker EXCEPT !.at = "asked", !.left = <<>>, !.auditor = None]
    ELSE [asker EXCEPT !.at = "request", !.left = Tail(left), !.auditor = Head(left)]

\* MatchAttributes; then GetAuditorAttributeSignatures, for one auditor after the
\* other.  (The provider's configuration demands nothing of orders, and the group is
\* valid.)
ShouldBid(o) ==
    LET auditors == Requirements[o].allOf \o Requirements[o].anyOf IN
    /\ pass = "loop"
    /\ ask[o].at = "idle"
    /\ ask' = [ask EXCEPT ![o] = IF MatchAttributes(o, session)
                                 THEN AskNext([@ EXCEPT !.left = auditors])
                                 ELSE [@ EXCEPT !.at = "no"]]
    /\ UNCHANGED <<registryVars, pass, session, data, pending, fetches>>

\* shouldBid returns; what it knew is kept to speak of a decision to bid.
Decided(o, at) == [NotAsked EXCEPT !.at = at, !.known = IF at = "yes" THEN ask[o].known ELSE @]

\* Variant: who signed is not looked at.
DecideOnOwn(o) ==
    /\ ask[o].at = "asked"
    /\ ask' = [ask EXCEPT ![o] = Decided(o, IF MatchAttributes(o, session) THEN "yes" ELSE "no")]
    /\ UNCHANGED <<registryVars, pass, session, data, pending, fetches>>

\* MatchRequirements, when all of them were asked.
Decide(o) ==
    LET known == ask[o].known
        signatures == [a \in Auditors |-> IF a \in DOMAIN known THEN known[a].record ELSE None]
    IN
    /\ ask[o].at = "asked"
    /\ ask' = [ask EXCEPT ![o] =
                   Decided(o, IF MatchRequirements(o, session, signatures) THEN "yes" ELSE "no")]
    /\ UNCHANGED <<registryVars, pass, session, data, pending, fetches>>

\* case <-pass.lc.ShuttingDown(), in either select.
AskShutDown(o) ==
    /\ pass \in {"wait", "done"}
    /\ ask[o].at \in {"request", "waiting"}
    /\ ask' = [ask EXCEPT ![o] = Decided(o, "no")]
    /\ UNCHANGED <<registryVars, pass, session, data, pending, fetches>>

\* The monitor goes on to bid (BidOrder), and the chain accepts.
PlaceBid(o) ==
    /\ ask[o].at = "yes"
    /\ CreateBid(o)
    /\ ask' = [ask EXCEPT ![o] = Decided(o, "placed")]
    /\ UNCHANGED <<pass, session, data, pending, fetches>>

-----------------------------------------------------------------------------
(* The loop. *)

\* What order o receives from successCh.
Answered(o, answer) ==
    LET known == ask[o].known
        auditor == ask[o].auditor
    IN AskNext([ask[o] EXCEPT !.known = [a \in DOMAIN known \cup {auditor} |->
                                             IF a = auditor THEN answer ELSE known[a]]])

\* A fetch for the request of o.
Fetch(o, a) == [by |-> o, auditor |-> a, at |-> "query", answer |-> None]

\* case request := <-pass.requests: addRequest and maybeStart.  How old an entry is
\* decides whether it is used, so both may happen.
Request(o) ==
    LET a == ask[o].auditor IN
    /\ pass = "loop"
    /\ ask[o].at = "request"
    /\ \/ /\ data[a] # None
          /\ ask' = [ask EXCEPT ![o] = Answered(o, data[a])]
          /\ UNCHANGED <<pending, fetches>>
       \/ /\ ask' = [ask EXCEPT ![o].at = "waiting"]
          /\ pending' = [pending EXCEPT ![a] = @ \cup {o}]
          /\ fetches' = fetches \cup {Fetch(o, a)}
    /\ UNCHANGED <<registryVars, pass, session, data>>

\* pass.fetch: the query is answered, or fails.
Query(f) ==
    /\ f.at = "query"
    /\ \E got \in {[f EXCEPT !.at = "result", !.answer = Answer(f.auditor)],
                  [f EXCEPT !.at = "error"]} :
           fetches' = (fetches \ {f}) \cup {got}
    /\ UNCHANGED <<registryVars, pass, session, data, pending, ask>>

EntrySize(entry) == IF entry = None \/ entry.record = None THEN 0 ELSE Cardinality(entry.record)

SizeOf(cache, auditors) == MapThenSumSet(LAMBDA a : EntrySize(cache[a]), auditors)

Without(cache, auditors) == [a \in Auditors |-> IF a \in auditors THEN None ELSE cache[a]]

\* trimCache: entries that expired go, and when the rest is too large, entries in
\* the order of the map until the ones removed make up half of the limit.
TrimCache(cache) ==
    LET present == {a \in Auditors : cache[a] # None}
        fresh == {Without(cache, expired) : expired \in SUBSET present}
        \* the last one removed reaches the target
        removals(c) == {r \in SUBSET {a \in Auditors : c[a] # None} :
                            /\ SizeOf(c, r) >= MaxEntries \div 2
                            /\ \E a \in r : r = {a} \/ SizeOf(c, r \ {a}) < MaxEntries \div 2}
    IN {c \in fresh : SizeOf(c, Auditors) <= MaxEntries}
       \cup UNION {{Without(c, r) : r \in removals(c)} :
                       c \in {c \in fresh : SizeOf(c, Auditors) > MaxEntries}}

\* Variant: the requests of a fetch that failed are forgotten.
ResultForgets(f) ==
    LET a == f.auditor IN
    /\ pass = "loop"
    /\ f \in fetches
    /\ fetches' = fetches \ {f}
    /\ pending' = [pending EXCEPT ![a] = {}]
    /\ \/ /\ f.at = "result"
          /\ data' \in TrimCache([data EXCEPT ![a] = f.answer])
          /\ ask' = [o \in Orders |-> IF o \in pending[a] THEN Answered(o, f.answer) ELSE ask[o]]
       \/ /\ f.at = "error"
          /\ UNCHANGED <<data, ask>>
    /\ UNCHANGED <<registryVars, pass, session>>

\* case result := <-pass.fetchCh: completeAllPending or failAllPending.
Result(f) ==
    LET a == f.auditor IN
    /\ pass = "loop"
    /\ f \in fetches
    /\ fetches' = fetches \ {f}
    /\ pending' = [pending EXCEPT ![a] = {}]
    /\ \/ /\ f.at = "result"
          /\ data' \in TrimCache([data EXCEPT ![a] = f.answer])
          /\ ask' = [o \in Orders |-> IF o \in pending[a] THEN Answered(o, f.answer) ELSE ask[o]]
       \/ /\ f.at = "error"
          /\ ask' = [o \in Orders |-> IF o \in pending[a] THEN Decided(o, "no") ELSE ask[o]]
          /\ UNCHANGED data
    /\ UNCHANGED <<registryVars, pass, session>>

\* Variant: the cache is not purged.
EventIgnored ==
    /\ feed # <<>>
    /\ feed' = Tail(feed)
    /\ UNCHANGED <<provider, signed, changes, publisher, unheard, bid, cacheVars>>

\* case ev := <-pass.sub.Events(): purgeAuditor.
Event ==
    LET a == Head(feed) IN
    /\ feed # <<>>
    /\ feed' = Tail(feed)
    /\ IF pass = "loop"
       THEN /\ data' = [data EXCEPT ![a] = None]
            /\ fetches' = {IF f.auditor = a /\ f.at = "result"
                           THEN [f EXCEPT !.answer.overtaken = TRUE] ELSE f : f \in fetches}
       ELSE UNCHANGED <<data, fetches>>
    /\ UNCHANGED <<provider, signed, changes, publisher, unheard, bid, pass,
                   session, pending, ask>>

\* case <-pass.lc.ShutdownRequest(), and cancel.
ShutDown ==
    /\ pass = "loop"
    /\ pass' = "wait"
    /\ UNCHANGED <<registryVars, session, data, pending, fetches, ask>>

\* pass.wg.Wait returns.
Stop ==
    /\ pass = "wait"
    /\ fetches = {}
    /\ pass' = "done"
    /\ UNCHANGED <<registryVars, session, data, pending, fetches, ask>>

-----------------------------------------------------------------------------
Asking(o) ==
    ShouldBid(o) \/ Decide(o) \/ AskShutDown(o) \/ Request(o)

Working ==
    \/ \E o \in Orders : Asking(o)
    \/ \E f \in fetches : Query(f) \/ Result(f)
    \/ Event \/ Stop

Next ==
    \/ Transaction /\ UNCHANGED cacheVars
    \/ \E o \in Orders : PlaceBid(o)
    \/ Start \/ PublisherStarts \/ ShutDown \/ Working

\* The service's goroutines, and the monitors', run as long as one of them can.
Spec == Init /\ [][Next]_vars /\ WF_vars(Working)

-----------------------------------------------------------------------------
(* Properties *)

\* An entry of the cache is out of date only while the event of the change is on
\* its way, or when it is the result of a query that was answered before the change
\* and delivered after the purge (provider_attributes.go:130 stores it again), or
\* when the change came before the publisher: the entry was fetched by then, for an
\* order of the catch-up, and no event will purge it (run.go:544).
OutdatedForAReason ==
    \A a \in Auditors :
        pass = "loop" /\ data[a] # None /\ data[a].change < changes[a]
            => a \in Elements(feed) \/ data[a].overtaken \/ a \in unheard

\* A decision to bid is one the chain agrees with, unless something it rests on has
\* changed since it was read.
DecisionsAgree ==
    \A o \in Orders :
        /\ ask[o].at = "yes"
        /\ session = provider
        /\ \A a \in DOMAIN ask[o].known : ask[o].known[a].change = changes[a]
        => MatchRequirements(o, provider, signed)

\* Every caller of GetAuditorAttributeSignatures gets an answer, or is told of the
\* shutdown: a fetch is under way for whoever is pending, although results clear
\* the requests of later fetches too.
CallersReturn ==
    \A o \in Orders : ask[o].at \in {"request", "waiting"} ~> ask[o].at \notin {"request", "waiting"}

\* The service stops when told to (provider_attributes_test.go:61 gives it fifteen
\* seconds).
ServiceStops == pass = "wait" ~> pass = "done"
=============================================================================
