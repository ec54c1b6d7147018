---------------------------- MODULE MarketKeepers ----------------------------
(***************************************************************************)
(* The keepers of x/deployment and x/market and the escrow hooks that tie  *)
(* them to x/escrow, as operators on the store of EscrowKeeper extended    *)
(* with                                                                    *)
(*   deployment, group, order, lease   the state of each object;           *)
(*   bid                               its state and its price;            *)
(*   reentered                         set when a hook that runs inside    *)
(*                                     another hook finds work to do.      *)
(*                                                                         *)
(* Closing an escrow account runs OnEscrowAccountClosed, which closes the  *)
(* groups of the deployment, which closes bid accounts and lease payments, *)
(* which runs the hooks again.  TLA+ operators are not recursive, so the   *)
(* recursion is unrolled: Hooks(r) is the store after the hooks that the   *)
(* outcome r of a call made by a handler asks for, InnerHooks(r) after     *)
(* those of a call made by a hook.  InnerHooks does what the code does     *)
(* when every hook returns at one of its early returns, and otherwise sets *)
(* reentered; that this never happens is an invariant of Marketplace, so   *)
(* the unrolling is exact.                                                 *)
(***************************************************************************)
EXTENDS Integers, FiniteSets

CONSTANTS
    Deployments,    \* deployment identifiers
    NumGroups,      \* bound: groups of a deployment
    MaxOrders,      \* bound: orders of a group
    NumProviders    \* providers, numbered in the order of their addresses

ASSUME MarketBounds ==
    /\ NumGroups \in Nat \ {0}
    /\ MaxOrders \in Nat \ {0}
    /\ NumProviders \in Nat \ {0}

GSeqs == 1..NumGroups
OSeqs == 1..MaxOrders
Providers == 1..NumProviders

GroupIDs == Deployments \X GSeqs
OrderIDs == Deployments \X GSeqs \X OSeqs
BidIDs   == Deployments \X GSeqs \X OSeqs \X Providers   \* LeaseIDs as well

GroupOf(o) == <<o[1], o[2]>>
OrderOf(b) == <<b[1], b[2], b[3]>>
OrdersOfGroup(g) == {o \in OrderIDs : GroupOf(o) = g}
BidsOfOrder(o) == {b \in BidIDs : OrderOf(b) = o}

\* A deployment and a bid each have an escrow account; a lease is paid by a
\* payment of its deployment's account, stored under "gseq/oseq/provider".
EscrowAccounts == Deployments \cup BidIDs

PaymentAccount == [l \in BidIDs |-> l[1]]

PaymentKey ==
    [l \in BidIDs |-> (l[2] * (MaxOrders + 1) + l[3]) * (NumProviders + 1) + l[4]]

INSTANCE EscrowKeeper WITH
    AccountIDs <- EscrowAccounts, PaymentIDs <- BidIDs,
    AccountOf <- PaymentAccount, KeyIndex <- PaymentKey

DeploymentStates == {"none", "active", "closed"}
GroupStates == {"none", "open", "paused", "insufficient_funds", "closed"}
OrderStates == {"none", "open", "active", "closed"}
BidStates   == {"none", "open", "active", "lost", "closed"}
LeaseStates == {"none", "active", "insufficient_funds", "closed"}

\* Step(...Step(Step(s, 1), 2)..., n): a loop over the keys 1..n in order.
Iterate(Step(_, _), n, s) ==
    LET f[i \in 0..n] == IF i = 0 THEN s ELSE Step(f[i - 1], i)
    IN  f[n]

-----------------------------------------------------------------------------
(* x/deployment/types: what a group's state allows. *)

ValidateClosable(state) == state # "closed"
ValidatePausable(state) == state \notin {"closed", "paused"}
ValidateStartable(state) == state \notin {"closed", "open"}

-----------------------------------------------------------------------------
(* x/deployment/keeper *)

CloseDeployment(s, d) == [s EXCEPT !.deployment[d] = "closed"]

OnCloseGroup(s, g, state) == [s EXCEPT !.group[g] = state]

OnPauseGroup(s, g) == [s EXCEPT !.group[g] = "paused"]

OnStartGroup(s, g) == [s EXCEPT !.group[g] = "open"]

-----------------------------------------------------------------------------
(* x/market/keeper *)

\* Fails while the group has an order that is not closed.  An order beyond
\* MaxOrders is outside the model, so the call fails there too.
CreateOrder(s, g) ==
    LET existing == {o \in OrdersOfGroup(g) : s.order[o] # "none"}
        oseq == 1 + Cardinality(existing)
    IN  IF \E o \in existing : s.order[o] # "closed" THEN Fail(s, "ErrOrderActive")
        ELSE IF oseq > MaxOrders THEN Fail(s, "bound")
        ELSE Return([s EXCEPT !.order[<<g[1], g[2], oseq>>] = "open"])

CreateBid(s, b, price) ==
    IF s.bid[b].state # "none" THEN Fail(s, "ErrBidExists")
    ELSE Return([s EXCEPT !.bid[b] = [state |-> "open", price |-> price]])

CreateLease(s, b) == [s EXCEPT !.lease[b] = "active"]

OnOrderMatched(s, o) == [s EXCEPT !.order[o] = "active"]

OnBidMatched(s, b) == [s EXCEPT !.bid[b].state = "active"]

OnBidLost(s, b) == [s EXCEPT !.bid[b].state = "lost"]

\* The hooks of a call that is made while hooks run.
InnerHooks(r) ==
    IF \/ \E a \in r.hooks.accounts \cap Deployments : r.st.deployment[a] = "active"
       \/ \E p \in r.hooks.payments : r.st.bid[p].state = "active"
    THEN [r.st EXCEPT !.reentered = TRUE]
    ELSE r.st

\* Variant: the deposit is not returned.
OnBidClosedKeepsDeposit(s, b) ==
    IF s.bid[b].state \in {"closed", "lost"} THEN s
    ELSE [s EXCEPT !.bid[b].state = "closed"]

\* The error of AccountClose is ignored.  The account is not a deployment's and
\* has no payments, so InnerHooks are its hooks when a handler calls, too.
OnBidClosed(s, b) ==
    IF s.bid[b].state \in {"closed", "lost"} THEN s
    ELSE InnerHooks(AccountClose([s EXCEPT !.bid[b].state = "closed"], b))

OnOrderClosed(s, o) == [s EXCEPT !.order[o] = "closed"]

OnLeaseClosed(s, l, state) ==
    IF s.lease[l] \in {"closed", "insufficient_funds"} THEN s
    ELSE [s EXCEPT !.lease[l] = state]

\* The loops of OnGroupClosed: each order of the group is closed, and CloseOne
\* is applied to each of its bids.
OverGroup(s, g, CloseOne(_, _)) ==
    LET CloseOrder(st, oseq) ==
            LET o == <<g[1], g[2], oseq>>
                CloseNth(st1, i) ==
                    IF st1.bid[<<g[1], g[2], oseq, i>>].state = "none" THEN st1
                    ELSE CloseOne(st1, <<g[1], g[2], oseq, i>>)
            IN  IF st.order[o] = "none" THEN st
                ELSE Iterate(CloseNth, NumProviders, OnOrderClosed(st, o))
    IN  Iterate(CloseOrder, MaxOrders, s)

\* Variant: the payment is closed before the bid.
OnGroupClosedByHookPaymentFirst(s, g) ==
    LET CloseBidAndLease(st, b) ==
            IF st.lease[b] = "none" THEN OnBidClosed(st, b)
            ELSE OnBidClosed(InnerHooks(PaymentClose(OnLeaseClosed(st, b, "closed"), b)), b)
    IN  OverGroup(s, g, CloseBidAndLease)

\* OnGroupClosed when a hook calls it.  The error of PaymentClose is only logged.
OnGroupClosedByHook(s, g) ==
    LET CloseLease(st, b) ==
            IF st.lease[b] = "none" THEN st
            ELSE InnerHooks(PaymentClose(OnLeaseClosed(st, b, "closed"), b))
        CloseBidAndLease(st, b) == CloseLease(OnBidClosed(st, b), b)
    IN  OverGroup(s, g, CloseBidAndLease)

BidCountForOrder(s, o) ==
    Cardinality({b \in BidsOfOrder(o) : s.bid[b].state # "none"})

-----------------------------------------------------------------------------
(* x/market/hooks *)

\* Variant: the hook ignores overdrawn accounts.
OnEscrowAccountClosedOnly(s, a, state) ==
    LET CloseGroup(st, gseq) ==
            LET g == <<a, gseq>>
            IN  IF s.group[g] # "none" /\ ValidateClosable(s.group[g])
                THEN OnGroupClosedByHook(OnCloseGroup(st, g, "closed"), g)
                ELSE st
    IN  IF a \notin Deployments \/ state = "overdrawn" THEN s
        ELSE IF s.deployment[a] # "active" THEN s
        ELSE Iterate(CloseGroup, NumGroups, CloseDeployment(s, a))

\* Variant: the hook closes the deployment and not its groups.
OnEscrowAccountClosedNoGroups(s, a, state) ==
    IF a \notin Deployments THEN s
    ELSE IF s.deployment[a] # "active" THEN s
    ELSE CloseDeployment(s, a)

OnEscrowAccountClosed(s, a, state) ==
    LET gstate == IF state = "overdrawn" THEN "insufficient_funds" ELSE "closed"
        CloseGroup(st, gseq) ==
            LET g == <<a, gseq>>
            IN  IF s.group[g] # "none" /\ ValidateClosable(s.group[g])
                THEN OnGroupClosedByHook(OnCloseGroup(st, g, gstate), g)
                ELSE st
    IN  IF a \notin Deployments THEN s
        ELSE IF s.deployment[a] # "active" THEN s
        ELSE Iterate(CloseGroup, NumGroups, CloseDeployment(s, a))

OnEscrowPaymentClosed(s, p, state) ==
    LET lstate == IF state = "overdrawn" THEN "insufficient_funds" ELSE "closed"
    IN  IF s.bid[p].state # "active" THEN s
        ELSE OnLeaseClosed(OnBidClosed(OnOrderClosed(s, OrderOf(p)), p), p, lstate)

\* The account hooks, then the payment hooks in the order of the keys.
Hooks(r) ==
    LET as == r.hooks.accounts
        ps == r.hooks.payments
        afterAccounts ==
            IF as = {} THEN r.st
            ELSE OnEscrowAccountClosed(r.st, CHOOSE a \in as : TRUE, r.hooks.state)
        Nth(i) == CHOOSE p \in ps : Position(ps, p) = i - 1
        PaymentHook(st, i) == OnEscrowPaymentClosed(st, Nth(i), r.hooks.state)
    IN  Iterate(PaymentHook, Cardinality(ps), afterAccounts)

\* The outcome of the call r once its hooks have run.
Hooked(r) == [st |-> Hooks(r), err |-> r.err, hooks |-> NoHooks]

-----------------------------------------------------------------------------
(* x/market/keeper again: OnGroupClosed when a handler calls it *)

\* Variant: the leases of the group are left alone.
OnGroupClosedKeepsLeases(s, g) == OverGroup(s, g, OnBidClosed)

OnGroupClosed(s, g) ==
    LET CloseLease(st, b) ==
            IF st.lease[b] = "none" THEN st
            ELSE Hooks(PaymentClose(OnLeaseClosed(st, b, "closed"), b))
        CloseBidAndLease(st, b) == CloseLease(OnBidClosed(st, b), b)
    IN  OverGroup(s, g, CloseBidAndLease)
=============================================================================
