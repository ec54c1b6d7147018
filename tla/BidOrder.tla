------------------------------ MODULE BidOrder ------------------------------
(***************************************************************************)
(* One order as a provider fulfils it (src/provider/bidengine/order.go):   *)
(* fetch the group, decide to bid, reserve capacity, price, bid, and wait  *)
(* for a lease.  Every call runs in a goroutine whose result the loop      *)
(* receives; chain events, the bid timeout and a shutdown come in between. *)
(* A provider that was restarted takes up the orders that are open         *)
(* (service.go) and first asks whether it has already bid.                 *)
(*                                                                         *)
(* The chain is reduced to this order, this provider's bid on it, and the  *)
(* transactions that were posted and not yet executed: a broadcast returns *)
(* before its transaction is executed.  Prices, attributes and groups are  *)
(* reduced to the outcomes of the calls that look at them.                 *)
(***************************************************************************)
EXTENDS Integers, Sequences

CONSTANTS
    BidTimeout,     \* TRUE when cfg.BidTimeout is set
    MaxCrashes      \* bound: restarts of the provider

ASSUME OrderParameters ==
    /\ BidTimeout \in BOOLEAN
    /\ MaxCrashes \in Nat

VARIABLES
    phase,       \* of run, see Phases below
    call,        \* the calls in flight and their unread results
    hidden,      \* storedGroupCh # nil: the group's result waits for the bid's
    group,       \* group # nil
    reservation, \* reservation # nil
    bidPlaced,   \* o.bidPlaced
    timer,       \* bidTimeout # nil
    won,
    published,   \* LeaseWon was published: "none", "nil" or "group"
    recovered,   \* the order was taken up after a restart
    events,      \* in the order's subscription
    reserved,    \* the cluster holds capacity for the order
    order,       \* on chain: "open", "active", "closed"
    bid,         \* on chain: "none", "open", "active", "lost", "closed"
    publisher,   \* events.Publish runs: the bus is told of what the chain does
    mempool,     \* transactions of the provider not yet executed
    closeFailed, \* the broadcast of MsgCloseBid failed
    missed,      \* an event came after the query of open orders and before the publisher
    crashes

loopVars == <<hidden, group, reservation, bidPlaced, timer, won, published, recovered>>
chainVars == <<order, bid, publisher>>
historyVars == <<closeFailed, missed, crashes>>
vars == <<phase, call, loopVars, events, reserved, chainVars, mempool, historyVars>>

\* "down", "listed": the provider restarts; "none": it did not find the order
\* open; "unreserve", "close", "drain": after the loop.
Phases == {"down", "listed", "none", "loop", "unreserve", "close", "drain", "done"}

Calls == {"queryBid", "group", "shouldBid", "cluster", "price", "bid"}
NoCalls == [c \in Calls |-> "none"]
Answered(c) == call[c] \in {"ok", "no", "err"}

Init ==
    /\ phase = "loop"
    /\ call = [NoCalls EXCEPT !["group"] = "running"]
    /\ hidden = FALSE
    /\ group = FALSE
    /\ reservation = FALSE
    /\ bidPlaced = FALSE
    /\ timer = FALSE
    /\ won = FALSE
    /\ published = "none"
    /\ recovered = FALSE
    /\ events = <<>>
    /\ reserved = FALSE
    /\ order = "open"
    /\ bid = "none"
    /\ publisher = TRUE
    /\ mempool = <<>>
    /\ closeFailed = FALSE
    /\ missed = FALSE
    /\ crashes = 0

-----------------------------------------------------------------------------
(* The loop. *)

\* break loop, ShutdownInitiated and sub.Close
Exit ==
    /\ phase' = "unreserve"
    /\ events' = <<>>

Stay == UNCHANGED <<phase, events>>

\* case <-o.lc.ShutdownRequest()
Shutdown ==
    /\ phase = "loop"
    /\ Exit
    /\ UNCHANGED <<call, loopVars, reserved, chainVars, mempool, historyVars>>

\* case queryBid := <-queryBidCh
QueryBidResult ==
    /\ phase = "loop"
    /\ Answered("queryBid")
    /\ call' = [call EXCEPT !["queryBid"] = "none"]
    /\ \/ /\ call["queryBid"] = "err"
          /\ Exit
          /\ UNCHANGED <<bidPlaced, hidden>>
       \/ /\ call["queryBid"] # "err"
          /\ bidPlaced' = (bidPlaced \/ call["queryBid"] = "ok")
          /\ hidden' = FALSE
          /\ Stay
    /\ UNCHANGED <<group, reservation, timer, won, published, recovered, reserved,
                   chainVars, mempool, historyVars>>

\* Variant: a lease of another provider is ignored.
EventIgnoresLost ==
    /\ phase = "loop"
    /\ events # <<>>
    /\ \/ Head(events) = "won" /\ Exit /\ won' = TRUE /\ published' = "group"
       \/ Head(events) = "closed" /\ Exit /\ UNCHANGED <<won, published>>
       \/ /\ Head(events) = "lost"
          /\ events' = Tail(events)
          /\ UNCHANGED <<phase, won, published>>
    /\ UNCHANGED <<call, hidden, group, reservation, bidPlaced, timer, recovered, reserved,
                   chainVars, mempool, historyVars>>

\* case ev := <-o.sub.Events()
Event ==
    /\ phase = "loop"
    /\ events # <<>>
    /\ Exit
    /\ \/ /\ Head(events) = "won"
          /\ won' = TRUE
          /\ published' = IF group THEN "group" ELSE "nil"
       \/ /\ Head(events) \in {"lost", "closed"}
          /\ UNCHANGED <<won, published>>
    /\ UNCHANGED <<call, hidden, group, reservation, bidPlaced, timer, recovered, reserved,
                   chainVars, mempool, historyVars>>

\* case result := <-groupch
GroupResult ==
    /\ phase = "loop"
    /\ ~hidden
    /\ Answered("group")
    /\ \/ /\ call["group"] = "err"
          /\ call' = [call EXCEPT !["group"] = "none"]
          /\ Exit
          /\ UNCHANGED group
       \/ /\ call["group"] = "ok"
          /\ call' = [call EXCEPT !["group"] = "none", !["shouldBid"] = "running"]
          /\ group' = TRUE
          /\ Stay
    /\ UNCHANGED <<hidden, reservation, bidPlaced, timer, won, published, recovered,
                   reserved, chainVars, mempool, historyVars>>

\* case result := <-shouldBidCh
ShouldBidResult ==
    /\ phase = "loop"
    /\ Answered("shouldBid")
    /\ \/ /\ call["shouldBid"] # "ok"
          /\ call' = [call EXCEPT !["shouldBid"] = "none"]
          /\ Exit
       \/ /\ call["shouldBid"] = "ok"
          /\ call' = [call EXCEPT !["shouldBid"] = "none", !["cluster"] = "running"]
          /\ Stay
    /\ UNCHANGED <<loopVars, reserved, chainVars, mempool, historyVars>>

\* case result := <-clusterch
ClusterResult ==
    /\ phase = "loop"
    /\ Answered("cluster")
    /\ \/ /\ call["cluster"] = "err"
          /\ call' = [call EXCEPT !["cluster"] = "none"]
          /\ Exit
          /\ UNCHANGED reservation
       \/ /\ call["cluster"] = "ok"
          /\ call' = [call EXCEPT !["cluster"] = "none",
                                  !["price"] = IF bidPlaced THEN "none" ELSE "running"]
          /\ reservation' = TRUE
          /\ Stay
    /\ UNCHANGED <<hidden, group, bidPlaced, timer, won, published, recovered, reserved,
                   chainVars, mempool, historyVars>>

\* case result := <-pricech: an error, too high a price, or a bid
PriceResult ==
    /\ phase = "loop"
    /\ Answered("price")
    /\ \/ /\ call["price"] # "ok"
          /\ call' = [call EXCEPT !["price"] = "none"]
          /\ Exit
       \/ /\ call["price"] = "ok"
          /\ call' = [call EXCEPT !["price"] = "none", !["bid"] = "running"]
          /\ Stay
    /\ UNCHANGED <<loopVars, reserved, chainVars, mempool, historyVars>>

\* case result := <-bidch
BidResult ==
    /\ phase = "loop"
    /\ Answered("bid")
    /\ call' = [call EXCEPT !["bid"] = "none"]
    /\ \/ /\ call["bid"] = "err"
          /\ Exit
          /\ UNCHANGED <<bidPlaced, timer>>
       \/ /\ call["bid"] = "ok"
          /\ bidPlaced' = TRUE
          /\ timer' = BidTimeout
          /\ Stay
    /\ UNCHANGED <<hidden, group, reservation, won, published, recovered, reserved,
                   chainVars, mempool, historyVars>>

\* case <-bidTimeout
Timeout ==
    /\ phase = "loop"
    /\ timer
    /\ Exit
    /\ UNCHANGED <<call, loopVars, reserved, chainVars, mempool, historyVars>>

-----------------------------------------------------------------------------
(* After the loop. *)

\* Variant: a reservation still being made is not waited for.
UnreserveAtOnce ==
    /\ phase = "unreserve"
    /\ reserved' = (IF ~won /\ reservation THEN FALSE ELSE reserved)
    /\ phase' = IF ~won /\ bidPlaced THEN "close" ELSE "drain"
    /\ UNCHANGED <<call, loopVars, events, chainVars, mempool, historyVars>>

\* Variant: a won lease is treated like a lost one.
UnreserveAlways ==
    /\ phase = "unreserve"
    /\ call["cluster"] # "running"
    /\ call' = [call EXCEPT !["cluster"] = "none"]
    /\ reservation' = (reservation \/ call["cluster"] = "ok")
    /\ reserved' = (IF reservation' THEN FALSE ELSE reserved)
    /\ phase' = IF bidPlaced THEN "close" ELSE "drain"
    /\ UNCHANGED <<hidden, group, bidPlaced, timer, won, published, recovered, events,
                   chainVars, mempool, historyVars>>

\* Variant: the bid is not closed.
UnreserveForgetsBid ==
    /\ phase = "unreserve"
    /\ won \/ call["cluster"] # "running"
    /\ reserved' = (won /\ reserved)
    /\ phase' = "drain"
    /\ UNCHANGED <<call, loopVars, events, chainVars, mempool, historyVars>>

\* Unless the lease was won: wait for the reservation in flight and cancel it.
Unreserve ==
    /\ phase = "unreserve"
    /\ \/ /\ won
          /\ phase' = "drain"
          /\ UNCHANGED <<call, reservation, reserved>>
       \/ /\ ~won
          /\ call["cluster"] # "running"
          /\ call' = [call EXCEPT !["cluster"] = "none"]
          /\ reservation' = (reservation \/ call["cluster"] = "ok")
          /\ reserved' = (IF reservation' THEN FALSE ELSE reserved)
          /\ phase' = IF bidPlaced THEN "close" ELSE "drain"
    /\ UNCHANGED <<hidden, group, bidPlaced, timer, won, published, recovered, events,
                   chainVars, mempool, historyVars>>

\* Broadcast of MsgCloseBid
CloseBid ==
    /\ phase = "close"
    /\ phase' = "drain"
    /\ \/ mempool' = Append(mempool, "close") /\ UNCHANGED closeFailed
       \/ mempool' \in {mempool, Append(mempool, "close")} /\ closeFailed' = TRUE
    /\ UNCHANGED <<call, loopVars, events, reserved, chainVars, missed, crashes>>

\* Wait for all runners to complete.
Drain ==
    /\ phase = "drain"
    /\ call["group"] = "running" => hidden
    /\ \A c \in {"cluster", "bid", "price"} : call[c] # "running"
    /\ phase' = "done"
    /\ UNCHANGED <<call, loopVars, events, reserved, chainVars, mempool, historyVars>>

-----------------------------------------------------------------------------
(* The goroutines of the calls. *)

\* A call that changes nothing returns.  The query of the bid finds a bid in any
\* state.
Returns ==
    /\ \E c \in Calls, r \in {"ok", "no", "err"} :
          /\ call[c] = "running"
          /\ \/ c = "queryBid" /\ (r = "ok" => bid # "none") /\ (r = "no" => bid = "none")
             \/ c = "group" /\ r # "no"
             \/ c \in {"shouldBid", "price"}
          /\ call' = [call EXCEPT ![c] = r]
    /\ UNCHANGED <<phase, loopVars, events, reserved, chainVars, mempool, historyVars>>

\* o.cluster.Reserve
ReserveReturns ==
    /\ call["cluster"] = "running"
    /\ \/ call' = [call EXCEPT !["cluster"] = "ok"] /\ reserved' = TRUE
       \/ call' = [call EXCEPT !["cluster"] = "err"] /\ UNCHANGED reserved
    /\ UNCHANGED <<phase, loopVars, events, chainVars, mempool, historyVars>>

\* Broadcast of MsgCreateBid: one that fails may have posted the message.
BidReturns ==
    /\ call["bid"] = "running"
    /\ \/ /\ call' = [call EXCEPT !["bid"] = "ok"]
          /\ mempool' = Append(mempool, "create")
       \/ /\ call' = [call EXCEPT !["bid"] = "err"]
          /\ mempool' \in {mempool, Append(mempool, "create")}
    /\ UNCHANGED <<phase, loopVars, events, reserved, chainVars, historyVars>>

-----------------------------------------------------------------------------
(* The chain. *)

\* The order's subscription has the event, unless there is none yet or any more, or
\* nobody publishes.
Emit(e) ==
    /\ events' = IF phase = "loop" /\ publisher THEN Append(events, e) ELSE events
    /\ missed' = (missed \/ phase = "listed" \/ (phase = "loop" /\ ~publisher))

\* The next transaction of the provider is executed.  MsgCreateBid fails when the
\* order is not open or there is a bid; MsgCloseBid closes a bid, and with it the
\* lease and the order when it was accepted.
Execute ==
    /\ mempool # <<>>
    /\ mempool' = Tail(mempool)
    /\ \/ /\ Head(mempool) = "create"
          /\ bid' = IF order = "open" /\ bid = "none" THEN "open" ELSE bid
          /\ UNCHANGED <<order, events, missed>>
       \/ /\ Head(mempool) = "close"
          /\ bid # "active"
          /\ bid' = IF bid = "open" THEN "closed" ELSE bid
          /\ UNCHANGED <<order, events, missed>>
       \/ /\ Head(mempool) = "close"
          /\ bid = "active"
          /\ bid' = "closed"
          /\ order' = "closed"
          /\ Emit("closed")
    /\ UNCHANGED <<phase, call, loopVars, reserved, publisher, closeFailed, crashes>>

\* The tenant takes this bid or another one.
CreateLease ==
    /\ order = "open"
    /\ order' = "active"
    /\ \/ bid = "open" /\ bid' = "active" /\ Emit("won")
       \/ bid' = (IF bid = "open" THEN "lost" ELSE bid) /\ Emit("lost")
    /\ UNCHANGED <<phase, call, loopVars, reserved, publisher, mempool, closeFailed, crashes>>

\* The tenant closes the group or the deployment.
CloseOrder ==
    /\ order # "closed"
    /\ order' = "closed"
    /\ bid' = IF bid \in {"open", "active"} THEN "closed" ELSE bid
    /\ Emit("closed")
    /\ UNCHANGED <<phase, call, loopVars, reserved, publisher, mempool, closeFailed, crashes>>

-----------------------------------------------------------------------------
(* A restart of the provider. *)

Crash ==
    /\ phase \notin {"down", "listed", "none"}
    /\ crashes < MaxCrashes
    /\ crashes' = crashes + 1
    /\ phase' = "down"
    /\ call' = NoCalls
    /\ hidden' = FALSE /\ group' = FALSE /\ reservation' = FALSE /\ bidPlaced' = FALSE
    /\ timer' = FALSE /\ won' = FALSE /\ published' = "none" /\ recovered' = FALSE
    /\ events' = <<>>
    /\ reserved' = FALSE
    /\ publisher' = FALSE
    /\ closeFailed' = FALSE
    /\ UNCHANGED <<order, bid, mempool, missed>>

\* queryExistingOrders
QueryExistingOrders ==
    /\ phase = "down"
    /\ phase' = IF order = "open" THEN "listed" ELSE "none"
    /\ UNCHANGED <<call, loopVars, events, reserved, chainVars, mempool, historyVars>>

\* The service subscribes and creates the catchup order.
CatchUp ==
    /\ phase = "listed"
    /\ phase' = "loop"
    /\ call' = [NoCalls EXCEPT !["group"] = "running", !["queryBid"] = "running"]
    /\ hidden' = TRUE
    /\ recovered' = TRUE
    /\ UNCHANGED <<group, reservation, bidPlaced, timer, won, published, events, reserved,
                   chainVars, mempool, historyVars>>

\* The publisher is started after the services.  What the chain did before is not
\* told to anyone.
PublisherStarts ==
    /\ ~publisher
    /\ phase \notin {"down", "listed"}
    /\ publisher' = TRUE
    /\ UNCHANGED <<phase, call, loopVars, events, reserved, order, bid, mempool, historyVars>>

-----------------------------------------------------------------------------
Next ==
    \/ Shutdown \/ QueryBidResult \/ Event \/ GroupResult \/ ShouldBidResult
    \/ ClusterResult \/ PriceResult \/ BidResult \/ Timeout
    \/ Unreserve \/ CloseBid \/ Drain
    \/ Returns \/ ReserveReturns \/ BidReturns
    \/ Execute \/ CreateLease \/ CloseOrder
    \/ Crash \/ QueryExistingOrders \/ CatchUp \/ PublisherStarts

Spec == Init /\ [][Next]_vars

\* Goroutines run, calls return, the timer fires and the chain executes what was
\* posted.  An event is received in spite of other results: select takes each
\* ready case with positive probability, and the other cases become ready only
\* finitely often.
Fairness ==
    /\ WF_vars(QueryBidResult) /\ WF_vars(Event) /\ WF_vars(GroupResult)
    /\ WF_vars(ShouldBidResult) /\ WF_vars(ClusterResult) /\ WF_vars(PriceResult)
    /\ WF_vars(BidResult) /\ WF_vars(Timeout)
    /\ WF_vars(Unreserve) /\ WF_vars(CloseBid) /\ WF_vars(Drain)
    /\ WF_vars(Returns) /\ WF_vars(ReserveReturns) /\ WF_vars(BidReturns)
    /\ WF_vars(Execute) /\ WF_vars(QueryExistingOrders) /\ WF_vars(CatchUp)

FairSpec == Spec /\ Fairness

-----------------------------------------------------------------------------
(* Properties *)

FlagTypes ==
    /\ hidden \in BOOLEAN /\ group \in BOOLEAN /\ reservation \in BOOLEAN
    /\ bidPlaced \in BOOLEAN /\ timer \in BOOLEAN /\ won \in BOOLEAN
    /\ recovered \in BOOLEAN /\ reserved \in BOOLEAN
    /\ publisher \in BOOLEAN /\ closeFailed \in BOOLEAN /\ missed \in BOOLEAN

QueueTypes ==
    /\ events \in Seq({"won", "lost", "closed"})
    /\ mempool \in Seq({"create", "close"})

StateTypes ==
    /\ phase \in Phases
    /\ published \in {"none", "nil", "group"}
    /\ order \in {"open", "active", "closed"}
    /\ bid \in {"none", "open", "active", "lost", "closed"}
    /\ crashes \in 0..MaxCrashes

\* Every variable has its type.
TypeOK ==
    /\ call \in [Calls -> {"none", "running", "ok", "no", "err"}]
    /\ FlagTypes
    /\ QueueTypes
    /\ StateTypes

\* The loop has one call in flight after the other: no step of the fulfilment is
\* begun before the one it needs has answered.
OneCallAtATime ==
    \A c, d \in Calls \ {"queryBid"} : call[c] # "none" /\ call[d] # "none" => c = d

\* As long as the order waits on a bid it has made itself, the cluster holds the
\* capacity for it.
BidsAreBacked == phase = "loop" /\ bidPlaced /\ ~recovered => reserved

\* Without a restart the other services are told of a won lease with the group
\* they need, and its capacity stays reserved.
WinsAreBacked == won /\ ~recovered => reserved /\ published = "group"

\* An order that ends without a lease leaves no reservation behind, wherever the
\* reservation was when the loop ended.
NothingLeftReserved ==
    phase \in {"close", "drain", "done"} /\ ~won => ~reserved /\ call["cluster"] = "none"

\* A reservation is held exactly as long as a bid may need it: a lease that is won
\* has one, an order that ends without a lease does not.
CapacityFollowsBid == WinsAreBacked /\ NothingLeftReserved

\* Which calls are made under which conditions.
CallOrder ==
    /\ hidden \/ call["queryBid"] # "none" => recovered
    /\ \A c \in {"shouldBid", "cluster", "price", "bid"} : call[c] # "none" => group
    /\ \A c \in {"price", "bid"} : call[c] # "none" /\ phase = "loop" => reserved
    /\ group => call["group"] = "none"

\* Who knows of the capacity the cluster holds.
ReservationKnown ==
    /\ reserved => reservation \/ call["cluster"] = "ok"
    /\ phase = "loop" /\ (reservation \/ call["cluster"] = "ok") => reserved

\* A restart leaves nothing behind.
Idle ==
    phase \in {"down", "listed", "none"} =>
        ~reserved /\ ~reservation /\ ~won /\ ~bidPlaced /\ ~group /\ ~hidden /\ call = NoCalls

\* A new order is bid on only after its reservation, and won only with a bid.
OwnBid ==
    phase = "loop" /\ ~recovered =>
        /\ mempool # <<>> \/ bid # "none" => group /\ reserved
        /\ \A i \in 1..Len(events) : events[i] = "won" => bid # "none"

\* The inductive invariant: the calls of run follow each other in one order, and
\* every reservation the cluster holds is known to the order or about to be.
IInv ==
    /\ TypeOK
    /\ OneCallAtATime
    /\ CallOrder
    /\ ReservationKnown
    /\ Idle
    /\ OwnBid
    /\ BidsAreBacked
    /\ WinsAreBacked
    /\ NothingLeftReserved
    /\ won => phase # "loop"

\* A bid that the order knows of does not outlive it on the chain, even if it was
\* accepted or not yet executed when the loop ended.
BidsWithdrawn ==
    phase = "done" /\ bidPlaced /\ ~won ~>
        \/ bid \notin {"open", "active"} /\ mempool = <<>>
        \/ closeFailed
        \/ phase # "done"

\* An order that is taken or closed on the chain comes to its end on the provider.
\* One whose end was not published, because the publisher of a restarted provider
\* was not there yet, does so too, by a call that fails or by the bid's timeout: it
\* stays only to wait on a bid that the query found, for which run starts no timeout
\* (order.go:184).
OrdersEnd ==
    order # "open" ~> phase \in {"done", "none"} \/ (missed /\ recovered /\ bidPlaced /\ ~timer)
=============================================================================
