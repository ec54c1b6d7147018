----------------------------- MODULE Marketplace -----------------------------
(***************************************************************************)
(* The on-chain marketplace: the message handlers of x/deployment and      *)
(* x/market over their keepers, the escrow keeper and the escrow hooks.    *)
(* Tenants create, fund, pause, start and close deployments and groups;    *)
(* providers bid, withdraw and close bids; tenants accept bids.  Messages  *)
(* arrive in any order and several of them may fall into one block.  A     *)
(* message whose handler returns an error changes nothing, so only the     *)
(* successful ones are steps.                                              *)
(***************************************************************************)
EXTENDS MarketKeepers

CONSTANTS
    Deposits,       \* amounts a tenant may deposit
    BidDeposit,     \* amount a provider deposits with a bid
    MinDeposit,     \* DeploymentMinDeposit
    BidMinDeposit,  \* BidMinDeposit
    Prices,         \* prices providers bid
    OrderPrice,     \* the most a group offers to pay (Order.Price)
    OrderMaxBids,   \* parameter of x/market
    Supply,         \* coins tenants and providers can deposit
    MaxHeight       \* bound: the last block modelled

ASSUME MarketParameters ==
    /\ Deposits \subseteq Nat
    /\ Prices \subseteq Nat
    /\ {BidDeposit, MinDeposit, BidMinDeposit, OrderPrice} \subseteq Nat
    /\ {OrderMaxBids, Supply, MaxHeight} \subseteq Nat

VARIABLES
    deployment, group, order, bid, lease,           \* x/deployment and x/market
    account, payment, module, wallet,               \* x/escrow and the bank
    height,                                         \* block being executed
    reentered                                       \* see MarketKeepers

vars == <<deployment, group, order, bid, lease,
          account, payment, module, wallet, height, reentered>>

Store ==
    [deployment |-> deployment, group |-> group, order |-> order, bid |-> bid,
     lease |-> lease, account |-> account, payment |-> payment, module |-> module,
     wallet |-> wallet, height |-> height, reentered |-> reentered]

\* The handler returns nil and its writes are committed.
Commit(r) ==
    /\ r.err = "none"
    /\ deployment' = r.st.deployment
    /\ group' = r.st.group
    /\ order' = r.st.order
    /\ bid' = r.st.bid
    /\ lease' = r.st.lease
    /\ account' = r.st.account
    /\ payment' = r.st.payment
    /\ module' = r.st.module
    /\ wallet' = r.st.wallet
    /\ reentered' = r.st.reentered
    /\ UNCHANGED height

Init ==
    /\ deployment = [d \in Deployments |-> "none"]
    /\ group = [g \in GroupIDs |-> "none"]
    /\ order = [o \in OrderIDs |-> "none"]
    /\ bid = [b \in BidIDs |-> [state |-> "none", price |-> 0]]
    /\ lease = [l \in BidIDs |-> "none"]
    /\ account = [a \in EscrowAccounts |-> NoAccount]
    /\ payment = [p \in BidIDs |-> NoPayment]
    /\ module = 0
    /\ wallet = Supply
    /\ height = 0
    /\ reentered = FALSE

-----------------------------------------------------------------------------
(* x/deployment/handler *)

\* A deployment with n groups: each group is stored and gets an order, then the
\* deployment's escrow account is created.
MsgCreateDeployment(d, n, deposit) ==
    LET created == [Store EXCEPT
            !.deployment[d] = "active",
            !.group = [g \in GroupIDs |->
                IF g[1] = d /\ g[2] <= n THEN "open" ELSE group[g]],
            !.order = [o \in OrderIDs |->
                IF o[1] = d /\ o[2] <= n /\ o[3] = 1 THEN "open" ELSE order[o]]]
    IN  /\ deployment[d] = "none"
        /\ deposit >= MinDeposit
        /\ Commit(AccountCreate(created, d, deposit))

MsgDepositDeployment(d, amount) ==
    /\ deployment[d] = "active"
    /\ Commit(AccountDeposit(Store, d, amount))

\* "Update state via escrow hooks."
MsgCloseDeployment(d) ==
    /\ deployment[d] = "active"
    /\ Commit(Hooked(AccountClose(Store, d)))

MsgCloseGroup(g) ==
    /\ group[g] # "none"
    /\ ValidateClosable(group[g])
    /\ Commit(Return(OnGroupClosed(OnCloseGroup(Store, g, "closed"), g)))

MsgPauseGroup(g) ==
    /\ group[g] # "none"
    /\ ValidatePausable(group[g])
    /\ Commit(Return(OnGroupClosed(OnPauseGroup(Store, g), g)))

MsgStartGroup(g) ==
    /\ group[g] # "none"
    /\ ValidateStartable(group[g])
    /\ Commit(CreateOrder(OnStartGroup(Store, g), g))

-----------------------------------------------------------------------------
(* x/market/handler *)

\* The provider is registered and its attributes meet the order's
\* requirements: those checks read x/provider and x/audit, which are outside
\* this module (ProviderRegistry).
MsgCreateBid(b, price, deposit) ==
    LET Fund(created) ==
            IF created.err # "none" THEN created
            ELSE AccountCreate(created.st, b, deposit)
    IN  /\ deposit >= BidMinDeposit
        /\ ~ BidCountForOrder(Store, OrderOf(b)) > OrderMaxBids
        /\ order[OrderOf(b)] = "open"
        /\ price # 0
        /\ price <= OrderPrice
        /\ Commit(Fund(CreateBid(Store, b, price)))

\* Variant: the group of a leased bid is not paused.
CloseBidKeepsGroupOpen(b) ==
    LET ended == OnOrderClosed(
                     OnBidClosed(OnLeaseClosed(Store, b, "closed"), b),
                     OrderOf(b))
    IN  \/ /\ bid[b].state = "open"
           /\ Commit(Return(OnBidClosed(Store, b)))
        \/ /\ bid[b].state = "active"
           /\ lease[b] = "active"
           /\ Commit(Return(Hooks(PaymentClose(ended, b))))

\* Variant: the payment is left to the next settlement.
CloseBidKeepsPayment(b) ==
    LET paused == OnPauseGroup(Store, GroupOf(b))
        ended  == OnOrderClosed(
                      OnBidClosed(OnLeaseClosed(paused, b, "closed"), b),
                      OrderOf(b))
    IN  \/ /\ bid[b].state = "open"
           /\ Commit(Return(OnBidClosed(Store, b)))
        \/ /\ bid[b].state = "active"
           /\ lease[b] = "active"
           /\ Commit(Return(ended))

\* A bid that is not leased is closed alone; a leased one ends its lease and
\* order, and pauses the group.  The error of PaymentClose is ignored.
MsgCloseBid(b) ==
    LET paused == OnPauseGroup(Store, GroupOf(b))
        ended  == OnOrderClosed(
                      OnBidClosed(OnLeaseClosed(paused, b, "closed"), b),
                      OrderOf(b))
    IN  \/ /\ bid[b].state = "open"
           /\ Commit(Return(OnBidClosed(Store, b)))
        \/ /\ bid[b].state = "active"
           /\ lease[b] = "active"
           /\ Commit(Return(Hooks(PaymentClose(ended, b))))

MsgWithdrawLease(l) ==
    /\ lease[l] # "none"
    /\ Commit(Hooked(PaymentWithdraw(Store, l)))

\* The bids of the order that lose are marked and their deposits returned.
CloseLosingBids(s, b) ==
    LET Lose(r, i) ==
            LET x == <<b[1], b[2], b[3], i>>
            IN  IF r.err # "none" \/ x = b \/ s.bid[x].state # "open" THEN r
                ELSE Hooked(AccountClose(OnBidLost(r.st, x), x))
    IN  Iterate(Lose, NumProviders, Return(s))

MsgCreateLease(b) ==
    LET Matched(st) == OnBidMatched(OnOrderMatched(CreateLease(st, b), OrderOf(b)), b)
        Match(paid) ==
            IF paid.err # "none" THEN paid ELSE CloseLosingBids(Matched(paid.st), b)
    IN  /\ bid[b].state = "open"
        /\ order[OrderOf(b)] = "open"
        /\ group[GroupOf(b)] = "open"
        /\ Commit(Match(Hooked(PaymentCreate(Store, b, bid[b].price))))

\* The group, when it is still open, goes back to the market with a new order.
MsgCloseLease(l) ==
    LET g     == GroupOf(l)
        ended == OnOrderClosed(
                     OnBidClosed(OnLeaseClosed(Store, l, "closed"), l),
                     OrderOf(l))
        Reorder(paid) ==
            IF paid.err = "none" /\ paid.st.group[g] = "open"
            THEN CreateOrder(paid.st, g) ELSE paid
    IN  /\ order[OrderOf(l)] = "active"
        /\ bid[l].state = "active"
        /\ lease[l] = "active"
        /\ Commit(Reorder(Hooked(PaymentClose(ended, l))))

NextBlock ==
    /\ height < MaxHeight
    /\ height' = height + 1
    /\ UNCHANGED <<deployment, group, order, bid, lease,
                   account, payment, module, wallet, reentered>>

Next ==
    \/ \E d \in Deployments :
          \/ \E n \in GSeqs, x \in Deposits : MsgCreateDeployment(d, n, x)
          \/ \E x \in Deposits : MsgDepositDeployment(d, x)
          \/ MsgCloseDeployment(d)
    \/ \E g \in GroupIDs : MsgCloseGroup(g) \/ MsgPauseGroup(g) \/ MsgStartGroup(g)
    \/ \E b \in BidIDs :
          \/ \E price \in Prices : MsgCreateBid(b, price, BidDeposit)
          \/ MsgCloseBid(b)
          \/ MsgWithdrawLease(b)
          \/ MsgCreateLease(b)
          \/ MsgCloseLease(b)
    \/ NextBlock

Spec == Init /\ [][Next]_vars

-----------------------------------------------------------------------------
(* Properties *)

LiveOrders(g) == {o \in OrdersOfGroup(g) : order[o] \in {"open", "active"}}

\* An open group has exactly one order that is not closed, and a group that is
\* not open has none: however a lease, bid, group or account ends, the handler
\* or the hook leaves the two modules in agreement.
OpenGroupsHaveOneOrder ==
    \A g \in GroupIDs : Cardinality(LiveOrders(g)) = IF group[g] = "open" THEN 1 ELSE 0

\* The three objects of a match stand or fall together: a lease is active exactly
\* while its bid is, its order is then active, and an active order has exactly
\* one lease (CreateLease, CloseBid, CloseLease, OnGroupClosed and the payment
\* hook each update the three objects one after the other).
LeaseBidOrderAgree ==
    /\ \A b \in BidIDs : (lease[b] = "active") <=> (bid[b].state = "active")
    /\ \A o \in OrderIDs :
          Cardinality({b \in BidsOfOrder(o) : lease[b] = "active"})
              = IF order[o] = "active" THEN 1 ELSE 0

\* A provider with an active lease is being paid: the payment is open at the
\* price of the bid, and the account it draws on is open and belongs to an
\* active deployment.
ActiveLeasesArePaid ==
    \A l \in BidIDs : lease[l] = "active" =>
        /\ payment[l].state = "open"
        /\ payment[l].rate = bid[l].price
        /\ account[l[1]].state = "open"
        /\ deployment[l[1]] = "active"

\* A deployment is active only while its escrow account is open, and the
\* deployment of an account that is closed or overdrawn is closed with all its
\* leases: every way an account ends reaches OnEscrowAccountClosed.
DeploymentFollowsAccount ==
    \A d \in Deployments :
        /\ (deployment[d] = "active") => account[d].state = "open"
        /\ account[d].state \in {"closed", "overdrawn"} => deployment[d] = "closed"
        /\ deployment[d] = "closed" => \A l \in BidIDs : l[1] = d => lease[l] # "active"

\* Escrow and market agree on what is running: whatever is active is paid for, and
\* what cannot be paid for any more has ended, by whichever hook or message.
PaidWhileActive == ActiveLeasesArePaid /\ DeploymentFollowsAccount

\* The deposit of a bid stays in escrow while the bid can be matched or is
\* leased, and has gone back to the provider when the bid is lost or closed,
\* although OnBidClosed ignores the error of AccountClose.
BidDepositsReturned ==
    \A b \in BidIDs :
        /\ bid[b].state \in {"open", "active"} =>
              account[b].state = "open" /\ account[b].balance = BidDeposit
        /\ bid[b].state \in {"lost", "closed"} =>
              account[b].state = "closed" /\ account[b].balance = 0

\* A lease that ends takes its payment with it, by whichever message or hook it ends
\* and although CloseBid and OnGroupClosed do not act on the error of PaymentClose:
\* the tenant is not charged for what no longer runs.  Excepted is an account that
\* was settled before in this block: nothing is due to the payment, and a payment
\* to which nothing is due is not stored as closed (paymentWithdraw).
PaymentsEndWithLeases ==
    [][\A l \in BidIDs :
        lease[l] = "active" /\ lease'[l] # "active" =>
            payment'[l].state # "open" \/ account[l[1]].settledAt = height]_vars

\* The payment of a lease that has ended is not open.  The code does not see to that
\* in the excepted case.
EndedLeasesAreNotPaid ==
    \A l \in BidIDs : lease[l] \in {"closed", "insufficient_funds"} => payment[l].state # "open"

\* A hook that runs inside a hook never finds work to do: the recursion
\* AccountClose - OnEscrowAccountClosed - OnGroupClosed - PaymentClose stops
\* after one round, and no settlement is applied twice.
HooksDoNotReenter == ~ reentered

\* The state a lease ends in says why it ended ("LeaseInsufficientFunds denotes
\* state for lease insufficient_funds", lease.proto; hooks.go sets it for an
\* overdrawn payment).
OverdrawnLeasesSaySo ==
    \A l \in BidIDs : payment[l].state = "overdrawn" => lease[l] = "insufficient_funds"
=============================================================================
