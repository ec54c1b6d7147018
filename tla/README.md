# TLA+ models of the VirtEngine marketplace

VirtEngine is a marketplace for computing capacity.  Tenants post deployments
on a Cosmos chain, providers bid on their orders, an accepted bid becomes a
lease, and an escrow account of the tenant pays the lease block by block.  Off
the chain each provider runs a service that watches the chain, bids, reserves
cluster capacity, receives manifests and deploys them to Kubernetes.

This directory holds models of that system, the TLC configurations that check
them on small instances, and TLAPS proofs about them.  `PROJECT.json` maps every
definition to the lines of `src/` it models.

## The system

| Part | Where | State | Modelled by |
|---|---|---|---|
| escrow keeper | `x/escrow/keeper` | accounts, payments, coins of the module | `EscrowKeeper`, `Escrow` |
| deployment module | `x/deployment` | deployments, groups | `MarketKeepers`, `Marketplace` |
| market module | `x/market` | orders, bids, leases | `MarketKeepers`, `Marketplace` |
| escrow hooks | `x/market/hooks`, `app/app_configure.go` | none; tie the three above | `MarketKeepers` |
| provider and audit modules | `x/provider`, `x/audit` | a provider's own and signed attributes | `ProviderRegistry` |
| bid engine | `provider/bidengine/service.go`, `order.go` | one event loop, and one per order | `BidService`, `BidOrder` |
| attribute cache | `provider/bidengine/provider_attributes.go` | cache, requests, fetches in flight | `AttributeCache` |
| inventory | `provider/cluster/inventory.go` | reservations, port counter, view of the cluster | `Inventory` |
| cluster service, hostnames | `provider/cluster/service.go`, `hostname.go` | managers by lease, owners of hostnames | `ClusterService` |
| deployment manager, monitor, withdrawals | `provider/cluster/manager.go`, `monitor.go`, `lease_withdraw.go` | one set of goroutines per lease | `DeploymentManager` |
| Kubernetes client | `provider/cluster/kube` | none; the objects in the cluster | `KubeClient` (what it writes) |
| manifest service | `provider/manifest` | one manager per deployment, watchdogs | `ManifestService` |
| broadcaster | `client/broadcaster` | account sequence number, calls | `Broadcaster`, `AtMostOnce` |
| event bus, chain events | `pubsub`, `events` | a tree of subscriptions and their buffers | `Bus`, `EventLog`, `BidService` |
| certificates, gateway, CLI, SDL, generated code | `x/cert`, `provider/gateway`, `deploy`, `sdl`, `cmd`, `pkg` | see Not modelled | no |

How they interact: a handler of `x/deployment` or `x/market` runs inside one
transaction and calls its keeper and the escrow keeper.  Ending an escrow account
or payment calls the hooks, which call the other keepers, which may end further
accounts and payments.  A handler that returns an error, or panics, changes
nothing.  Several transactions run in one block, at the same height.

A provider follows the chain's events, which a publisher puts on the provider's
event bus.  The bid engine starts one loop for each order, with a clone of its own
subscription; the loop asks the attribute cache whether the provider may serve the
order and the inventory for capacity, broadcasts a bid, and publishes a won lease on
the bus.  The manifest service waits for the tenant's manifest of the lease, compares
it with the version the deployment declares and publishes it; its watchdog closes the
bid when none comes.  The cluster service starts a deployment manager for the
manifest, which reserves hostnames, writes the workload to Kubernetes and starts a
monitor, which closes the lease if the deployment does not come up.  All transactions
go through the broadcaster.

## Modules

### EscrowKeeper

`x/escrow/keeper/keeper.go` as operators from a store to an outcome: the store
the call leaves behind and `err`, which is `"none"` when the call returns nil.
One operator per method (`AccountCreate`, `AccountDeposit`, `AccountSettle`,
`AccountClose`, `PaymentCreate`, `PaymentWithdraw`, `PaymentClose`), one for
`doAccountSettle` and one for each step of the settlement arithmetic: full
blocks, shares weighted by rate, even shares with one more coin for the first
payments in key order.  `AccountWithdraw` and `PaymentsWithdraw` return without
storing the object when its balance is zero, as the code does.

The bank is external: coins move or the call fails.  Denominations, owners and
addresses are left out; the rates of an account's payments are in its
denomination (`PaymentCreate` checks it).  A panic of the coin arithmetic is an
`err`, since both revert the transaction; `SettlementNeverFails` shows that
neither occurs.  An outcome also names the hooks the call runs: the accounts and
payments it has ended and their new state.  `Escrow` runs none; `Marketplace` runs
those of the market.

Definitions named `...Without...`, `...Keeps...`, `...Only` and the like, marked
"Variant" in their comment, are plausible wrong versions of the definition that
follows them.  Nothing uses them except the mutants of `PROJECT.json`.

### Escrow

The keeper on its own: one action per method, `NextBlock`, and a history
variable `closed` with the identifiers on which a close has returned nil.

### MarketKeepers and Marketplace

`MarketKeepers` has the keepers of `x/deployment` and `x/market` and the hooks.
`Marketplace` has one action per message: `MsgCreateDeployment`,
`MsgDepositDeployment`, `MsgCloseDeployment`, `MsgCloseGroup`, `MsgPauseGroup`,
`MsgStartGroup`, `MsgCreateBid`, `MsgCloseBid`, `MsgWithdrawLease`,
`MsgCreateLease`, `MsgCloseLease`, and `NextBlock`.  An action is the whole
handler, with the hooks and the hooks' own calls.  `MsgUpdateDeployment` only
replaces a version hash and is in `ManifestService`, where that hash matters; the
attribute checks of `MsgCreateBid` are in `ProviderRegistry`.

The hooks are recursive in the code.  The model unrolls them once: `Hooks` are
those of a call made by a handler and `InnerHooks` those of a call made by a
hook.  `InnerHooks` does what the code does if every hook leaves at an early
return, and otherwise sets `reentered`; the invariant `HooksDoNotReenter` shows
that the unrolling is exact.

### Inventory

The goroutine of `inventory.go` that owns the reservations.  Its actions are the
cases of the loop's `select` (`Reserve`, `Unreserve`, `Status`, `DeploymentEvent`,
`PollTick`, `CheckResult`, shutdown and `Drain`); the environment moves pods, posts
deployment events, and answers or fails a check.  CPU, memory and storage are one
unit, because they are subtracted alike and one failure fails the allocation.  The
port counter is unsigned with range `UintRange`.

### Broadcaster and AtMostOnce

`Broadcaster` is the loop of `serial.go`, its sync goroutine, and a node that may
lose answers, drop what is not in a block, and serve another client of the same
key.  `AtMostOnce` is what its callers rely on; `Broadcaster` implements it with
`answer` mapped to what each caller has been told.

### DeploymentManager

One manager with its loop, the operation it has in flight (`runch`), its monitor,
and its withdrawals.  An operation is started, then reads `dm.mgroup`, then changes
the cluster and returns: the read is a step of its own because the code reads the
field from another goroutine than the one that writes it.  Monitors and withdrawals that were
replaced and have not ended are counted (`drains`, `withdrawals`).

### BidOrder

One order: `phase` is where `run` is, `call` which calls are in flight and what
they have returned, and the actions of the loop are the cases of its `select`.
After the loop come `Unreserve`, `CloseBid` and `Drain`, in the order of the code.
The chain is the order, the provider's bid, and a queue of posted transactions: a
broadcast returns before its transaction is executed, and may fail after posting.
A crash loses the provider's state; `QueryExistingOrders` and `CatchUp` are the two
halves of the service's start, with the gap between query and subscription, and
`PublisherStarts` ends the one between subscription and the first event.  `missed` is
history: the order's end came in one of the two gaps.

### EventLog, Bus and BidService

`Bus` is `pubsub/bus.go`: every node of the tree is the same loop, the root or a
subscriber.  Channels are unbuffered, so an exchange between two loops is one step,
and a loop that is in the middle of handing out an event (`todo`) takes part in
nothing else.  `EventLog` is what a subscriber is promised: the events published since
it subscribed, in order; a clone starts where the cloned one stands.  `log`, `from` and
`seen` are history variables that map `Bus` to it.

`BidService` puts the bid engine on the bus: the chain that creates and ends orders,
the publisher that may start late and miss events, the service with its start, its
loop and its drain, and a monitor per order, reduced to when it subscribes, reads,
leaves and closes.  What a monitor does in between is `BidOrder`.

### ProviderRegistry and AttributeCache

`ProviderRegistry` has one provider on the chain: `CreateProvider`, `UpdateProvider`,
the auditors' `SignProviderAttributes` and `DeleteProviderAttributes`, and those checks
of `CreateBid`, `CreateLease` and `CloseBid` that concern attributes, with
`MatchRequirements` of `x/deployment/types`.

The publisher of chain events starts after the services have subscribed and may have
queried (`provider/cmd/run.go:543`); until then nobody is told of a change
(`publisher`, `unheard`).

`AttributeCache` extends it with the provider's cache of what auditors signed and the
`shouldBid` of the orders that use it.  A fetch is a query that is answered at some
moment and a result that reaches the loop later.  Whether an entry has expired is a
nondeterministic choice.  `change` and `overtaken` in an answer are history: how many
changes it has seen, and whether the loop has purged the auditor since.

### ClusterService

The cluster service with a manager per lease and the hostname service.  Of a manager
only the steps the others see are kept.  The service's event loop waits for a manager
that is in `ReserveHostnames`, which is the same as taking the event later.  `Killed`
loses everything but the chain and what is in Kubernetes; `NewService` starts again
from that.  The hostname service watches the context itself, so it may be gone before
the cluster service notices (`HostnamesShutDown`): requests are then refused and releases
dropped.  A manager releases names only after it has read that they were granted.
`early` and `failed` are history: leases whose teardown came before their
hostnames were granted, and leases whose manager gave up.

### ManifestService

One deployment with its leases: the service's loop, the manager with its requests,
its query of the deployment, and its validation of one request after the other, the
watchdog and the callers of `Submit`.  A manifest is its version.  The manager's
`stoptimer` is left out: `maybeScheduleStop` starts it only if there is one already,
so there never is.  As in `AttributeCache`, what the chain does before the publisher
starts is heard by nobody (`publisher`, and `unheard` for updates of the version).
`swallowed` is history: the service's request to shut down was taken by the wait for
the hostname check instead of by the manager's loop.

### KubeClient

`Deploy` as the sequence of calls it makes to Kubernetes, which depends on the
manifest's services and their exposes.  A call succeeds, or fails with or without its
effect; the provider may be killed between two.  A teardown that fails leaves the
namespace as it is.  Of an object what is kept is its
kind, its name, its service label, the manifest it was built from and the node ports
the cluster gave it.  A port is its position in the manifest and its number, which is
what the builder makes its name of.

The modules of the provider's services take from the lifecycle library (external)
that a shutdown request is received by the loop it is addressed to and that
`ShuttingDown` is closed from `ShutdownInitiated` on.

### EscrowProofs, BroadcasterProofs, DeploymentManagerProofs, KubeClientProofs, BidOrderProofs, BusProofs, ClusterServiceProofs, ManifestServiceProofs

The theorems, see below.

## Runs

| Run | Instance | Shows |
|---|---|---|
| `escrow_one_account` | 1 account, 3 payments, rates 0..2, 2 deposits of 2 coins, 3 blocks | coins are conserved, payments get what they are due and equal ones the same, an overdrawn account is settled completely, a settlement never fails; the invariant of the proofs |
| `market_one_group` | 1 group, 2 orders, 2 providers, 3 blocks | deployment, group, order, bid, lease, account and payment agree after every message; a payment ends with its lease |
| `inventory` | 1 node, 1 deployed order and 1 that asks, 3 ports, 1 event in flight | the port counter is exact, grants on a current view fit, calls return |
| `broadcaster` | 2 calls, sequences 0..4 | at most one post per call, corrections are right, callers return, `AtMostOnce` is implemented |
| `bid_order` | 1 order, bid timeout, 1 restart | capacity backs every bid and is given back, known bids are withdrawn, orders end |
| `bid_service` | 2 orders, their monitors, the service and the bus; 1 event under way | every subscriber reads the log in order, orders are taken up and followed to their end, the drain completes |
| `attributes` | 2 auditors, 2 orders, 1 change by an auditor before or after the publisher starts, updates of the provider | outdated entries have a known cause, decisions agree with the chain, callers return |
| `cluster_service` | 2 leases of 2 deployments with a hostname in common, 2 manifests, 1 restart | reservations and hostnames belong to whoever uses them and are given back, manifests run, the drain completes |
| `deployment_manager` | 3 manifests, monitor gives up after 2 failures | the last manifest is deployed, the monitor is patient, teardown and shutdown end |
| `kube` | 3 manifests of 2 services each, 3 node ports | a successful deploy leaves what its manifest asks for, whatever failed before; what runs is recorded; updates do not interrupt |
| `manifest` | 1 deployment, 2 leases, 2 callers, 2 versions, 2 events under way | the version expected is the chain's, every lease gets the manifest, callers return, the drain completes |
| `manifest_watchdog` | as `manifest`, 1 event under way | violated, see Findings |

Properties that say two things (`BooksBalance`, `PaidAsDue`, `PaidWhileActive`,
`PortsAccounted`, `CapacityFollowsBid`, `OrdersAreFollowed`, `ManagerEnds`,
`UpdatesKeepServing`) have two mutants.

Bounds.  Three payments are the fewest for which both distribution steps of an
overdrawn settlement leave a remainder that has to be spread over some but not
all of them.  Two deposits of two coins against rates up to 2 give balances that
pay the blocks exactly, nearly, and not at all, within three blocks, and a deposit
before or after the account ran dry.  In the marketplace two
orders per group let a group return to the market once; with price 2 and deposit
4 the account is overdrawn in the third block, before or after any other
message; the deployment's and the bids' accounts are several accounts of one
module, which is where an operation on one could touch another.  `OrderMaxBids` is
1, and the handler refuses a bid when there are more than that already
(`x/market/handler/server.go`), so both providers may bid and the refusal, which
changes nothing, does not occur.  `MaxSeq` 4 leaves room for two
own transactions, two of the other client, and a dropped mempool.  Three manifests
are a first one, one that arrives during its deploy, and one that replaces the
pending one; `MaxRetries` 1 (40 in the code) is the smallest value with a retry.  One
crash gives an order with a bid on the chain that the provider does not know of.

Two orders are enough for a monitor that is cloned while another one reads or closes;
`BusProofs` has any number.  With one change by an auditor a query is answered before
it, between it and its event, or after both, and two orders make two fetches of one
auditor overlap; a limit of two attributes (50000 in the code) makes the cache
overflow.  One of the orders asks for all, the other for any of its auditors.  Two
leases compete for a hostname, and one of the manifests may be an update.  Two callers
put a second request behind one that is validated, and two versions a query on either
side of an update; a second lease comes after the manifest.  The three Kubernetes
manifests drop a service, add one without exposes, add a node port and drop one so
that the next moves up, turn a local service into a global one and bring a dropped
one back.
Deadlock is not checked: at the last block, with every object closed, no call
succeeds, and every service may end.

Fairness.  Nothing on the chain happens by itself: an account is settled only when
someone sends a message, so no liveness is claimed of it and no fairness assumed.
Off the chain weak fairness stands for goroutines that run, timers that fire, and
calls (Kubernetes, queries, broadcasts) that return, with a result or an error.  In
the modules of the services it is weak fairness of all those steps together: some
goroutine runs as long as one can.  That is enough because what they are sent is
bounded, so their steps run out.  `BidService` does not assume that the attribute
service comes to its end (see `ServiceStops` below): the drain and the closing of the
bus are claimed separately.
Requests from outside (updates, teardowns, shutdowns, leases) are never assumed.
Stronger assumptions are stated where they are made.  A `select` chooses among
ready cases at random, so a case that is ready again and again is taken
(`Receive` in `Broadcaster`, `Reserve` and a finished check in `Inventory`).
`Inventory` also assumes that checks do not fail for ever (`SF_vars(CheckReturns)`):
if they did, the code would refuse to reserve for ever, and means to.

## Findings

`WatchdogsSpareServed` (run `manifest_watchdog`): the comment in `handleLease`
(`provider/manifest/service.go:334`) says that a watchdog is created if "a manifest has
not been received yet".  The code creates one for every new lease of a deployment
that has none, so the second lease of a deployment whose manifest was accepted, and
was published to that lease at once, is closed when no further manifest is submitted.

### Further configurations

These configurations are not among the runs of `PROJECT.json`; each can be given to
TLC with the module named.  All but the first end in a violation.

| Configuration | Module | Property | Shows |
|---|---|---|---|
| `MCMarketplaceGroups.cfg` | `MCMarketplace` | `OpenGroupsHaveOneOrder`, `PaidWhileActive` | holds: two groups that share an account end consistently when it is overdrawn |
| `MCEscrowGenesis.cfg` | `MCEscrow` | `OpenPaymentsHaveOpenAccounts` | closing an account in the block in which it was settled leaves its payments open, because `doAccountSettle` returns no payments then (`x/escrow/keeper/keeper.go:352`); genesis validation ("ensure state is in sync with payment", `x/escrow/genesis.go:41`) refuses that state |
| `MCEscrowClosed.cfg` | `MCEscrow` | `ClosedIsClosed` | closing an account or a payment whose balance is zero returns nil and does not store the new state (`keeper.go:475`, `:496`); the tests say "no deposits after closed" and "can't withdraw from a closed payment" (`keeper_test.go:43`, `:127`) |
| `MCMarketplaceOverdrawn.cfg` | `MCMarketplace` | `OverdrawnLeasesSaySo` | a lease that ran out of money ends as `closed`, never as `insufficient_funds`, because the account hook closes it first (`x/market/hooks/hooks.go:84`) |
| `MCMarketplacePayments.cfg` | `MCMarketplace` | `EndedLeasesAreNotPaid` | a lease that ends in a block in which its account was settled already, for example by `MsgWithdrawLease`, leaves its payment open: nothing is due to it then, and `paymentWithdraw` stores nothing.  The tenant goes on paying.  `PaymentsEndWithLeases` is the same claim for all other blocks |
| `MCInventoryOvercommit.cfg` | `MCInventory` | `ReservationsFitCluster` | the inventory combines a sample of the cluster with allocated flags of another moment, so a reservation can be neither in the sample nor subtracted from it, and its capacity is promised twice (`inventory.go:383`).  `GrantsFit`, which the `inventory` run finds true, is the same claim for samples taken after the allocated reservations' pods had started |
| `MCInventoryStatus.cfg` | `MCInventory` | `ReservationsKeepTheirSize` | a status query adds the resources of a reservation up into its first resource, because `ResourceUnits.Add` does not copy (`types/resource.go:44`) |
| `MCAttributeCacheStop.cfg` | `MCAttributeCache` | `ServiceStops` | the attribute service that is shut down with a fetch in flight does not stop: its loop waits for the fetch (`provider_attributes.go:95`), and the fetch for a reader of `fetchCh` (`:212`).  The bid engine waits for it in turn |
| `MCClusterServiceTeardown.cfg` | `MCClusterService` | `ClosedLeasesUnreserved` | a lease that is closed before its manager has read the answer of the hostname service is deployed all the same, because `startDeploy` overwrites the state (`cluster/manager.go:132`), and keeps its reservation |
| `MCClusterServiceNames.cfg` | `MCClusterService` | `SharedNamesAreHeld` | of two leases of one deployment with a hostname in common the first that ends releases it for both (`cluster/hostname.go:180`).  One manifest cannot name a hostname twice (`validation/manifest.go:130`), but the groups may come from two versions of it |
| `MCKubeClientPorts.cfg` | `MCKubeClient` | `PortNumbersStay` | a port that moves up in its service's list, because one before it was dropped, gets another node port: the position is part of the name by which `serviceBuilder.update` finds the old one (`kube/builder.go:427`, `:484`) |

Met while modelling and left as hazards in `PROJECT.json`: a bid whose broadcast is
in flight when its order shuts down is not closed by the order; the wait for the
hostname check can take the manager's shutdown request; what happens on the chain
between the services' subscriptions and the start of the publisher is never told to
them; the error of a network policy is lost.  The properties of
`BidOrder`, `AttributeCache`, `DeploymentManager`, `ManifestService` and `KubeClient`
say exactly where their claims stop for these reasons.  A recovered order with a bid
that is no longer open waits without a timer, and a lease that was won but has no
manifest yet is not reserved again after a restart; no line of the repository says
what should happen.

## Proofs

### Escrow

`EscrowProofs` proves, for every set of accounts, finite set of payments, and
every amount, rate, supply and number of blocks:

* `Invariance`: `Spec => []IInv`;
* `TypeCorrect`: `Spec => []TypeOK`;
* `OverdrawnFinal`: `Spec => []OverdrawnIsFinal`;
* `PaymentsFollow`: `Spec => []PaymentsFollowAccount`;
* `EndStatesFinal`: `Spec => EndStatesAreFinal`.

Assumptions: `EscrowIdentifiers` (payments are finitely many, each draws on one
account, keys differ) and `EscrowBounds` (amounts and rates are naturals).

The argument.  Neither `OverdrawnIsFinal` nor `PaymentsFollowAccount` is
inductive.  An open payment of an overdrawn account would be settled against it,
and a payment closed with coins left would contradict the first; so `IInv` adds
that only open payments are owed anything, that an open payment's account is not
overdrawn, and that no account was settled in the future (which makes the number
of blocks to pay a natural).  `Good(s, t)` says that `t` is a coherent store
reached from `s` without leaving an end state; it is transitive, each keeper
operation has a lemma that it is good, and all of them rest on
`DoAccountSettleFacts`.

### Broadcaster

`BroadcasterProofs` proves, for any set of calls and any first sequence number:
`AtMostOnePost`, `OneRetrySuffices`, `Rewinds`, and `Refinement`
(`Spec => KeepsPromise`).  The invariant adds to the properties what the loop knows
of the transaction it is serving: it was accepted if the answer is nil, and not
accepted if there is no answer yet or the node refused it (a lost answer leaves it
open), so a retry, which follows only a mismatch, is of a transaction that was
not accepted; and after a mismatch the node still expects what it said unless
somebody else has disturbed it.  For the refinement, a step that moves callers
between states that are no answers changes nothing in `AtMostOnce`.

### Deployment manager

`DeploymentManagerProofs` proves, for any number of manifests and retries,
`NoUnexpectedResult`, `LastManifestDeployed`, `MonitorCurrent`,
`CloseAfterFailures` and `OneOperation`.  `LatestDeployed` is not inductive: what
the cluster gets is decided when the operation reads `dm.mgroup`, long before the
state becomes `deploy-complete`.  `DeployReads` carries it over: in state
`deploy-active` an operation that has read a manifest has read the current one,
because an update during the deploy moves the state to `deploy-pending`.
`AttemptsCount` ties the monitor's counter to the failures it has seen.

### Kubernetes client

`KubeClientProofs` proves, for any sequence of manifests, with failures and crashes
between any two calls, `WorkloadsRecorded`, `UpdatesServe` and, under `NamesApart`,
`DeployedAsAsked`.  The assumption `KubeParameters` gives the manifests their type.
`RecordInv` says what an update relies on: an object is the only one of its kind and
name, the record is among the calls still to make before any object is applied or has
been written already, and nothing is newer than the record.
`DeployedMatches` says nothing during a Deploy, so `Progress` carries it over: each
object the manifest asks for is in the cluster or will be applied by one of the calls
that are left, and each kind has been cleaned up or will be; a call that succeeds moves
one thing from the second part to the first, and undoes nothing because no two calls
write the same object.  Without calls left this is `DeployedMatches`.  TLC has checked
the inductive invariant `IInv` on the instance of the run `kube`.

`NamesApart` is where names could collide: the node port service of a service is called
like it, with "-np" at the end.  If a manifest had a service of that name with a local
port, the two would overwrite each other; the code does not exclude it.  The other two
theorems do not need it.

### Bid order

`BidOrderProofs` proves, for any number of restarts, with and without a bid timeout,
`OneCall`, `BidsBacked` and `CapacityFollows`.  The invariant says
which call may be in flight when (`CallOrder`), that the order or the unread
answer of `Reserve` knows of every reservation the cluster holds
(`ReservationKnown`), that a restart leaves nothing behind (`Idle`), and that a new
order's bid is on the chain only after its reservation (`OwnBid`).  The last one is
what makes a lease that arrives before the answer to the bid safe.

### Event bus

`BusProofs` proves, for any set of subscribers and events, `BusImplements`
(`BusSpec => Promise!Spec`), and from it, for any set of orders, `BidServicePromise`
(`Spec => KeepsPromise` of `BidService`).  The invariant `BusInv` says where every node
stands: what a subscriber has read and what is in its buffer is the log from its
`from` on, up to its parent's end, or up to one event before it while the parent has
still to visit it; and the event the parent hands out is the one it is short of.  It
holds level by level, so a clone inherits its parent's end with its buffer.  Nodes
that are stopping promise nothing, and neither does what hangs below them.

### Cluster service

`ClusterServiceProofs` proves, for any leases, names, blocked names, manifests and
restarts, `ManagersBacked`: a lease with a manager has a reservation.  The invariant
`IInv` adds the types of events, managers and reservations, and that a manager holds
hostnames only between their grant and its end.
`HostnamesHeld` is about any leases of any deployments: a name that no two leases of
one deployment share is its deployment's from the grant until the manager releases it,
and while both services run no name is in use without such a manager.  Shared names
are left out because `doRelease` gives a name back without looking at who else uses
it.  `NamesInv` adds to `IInv` and the property that a name is used by the deployment
of a lease or by nobody, and that there are no managers and no names in use while the
service starts, which makes new ones for what it finds.  The assumption
`DeploymentsNamed` says that "nobody" is not a deployment.

### Manifest service

`ManifestServiceProofs` proves, for any leases, callers and versions,
`ExpectedCurrent` and `ManifestPublished`.  `ExpectedIsCurrent` is not inductive: it
says nothing while an update is under way or the data is still being fetched.
`LastUpdateIsCurrent` says that the last update under way carries the chain's
version, so the manager that takes it is up to date; `Current` says that without one
the manager's last update, otherwise its data, otherwise the answer on its way to it is
the chain's version, or an earlier one if the last update was not published
(`UpToDate`).  The exception ends with the next update that is published.  For `PublishedToAll`, `Sane` adds that a manager with a manifest
has data, and that one that waits for data has none yet.

### Model-checked only

Everything about sums of coins (`BooksBalance`, `PaidAsDue`, `SettlementNeverFails`),
which needs induction over sets of payments; the liveness properties, which are
outside the prover's logic; the properties of `Marketplace`, `Inventory` and
`AttributeCache`.

The run of `Escrow` checks the inductive invariant itself.

## Not modelled

Of some 119,000 lines of Go under `src/`, about 36,000 are protocol buffer code
(`*.pb.go`, `*.pb.gw.go`), 3,000 mocks and the generated Kubernetes client
(`pkg/client`), and 46,000 tests and test utilities.  Of the 34,000 that are left, most
are input and output or a translation of data:

* command lines, queries, REST and gRPC routes, configuration (`cmd`, `x/*/client`,
  `client`, `provider/gateway`, `provider/cmd`), which hold no state;
* encodings, keys, messages and their `ValidateBasic` (`x/*/types`, `types`);
* the SDL parser and the deployment tool (`sdl`, `deploy`), the cross-validation of a
  manifest against its deployment (`validation`) and prices (`provider/bidengine/pricing.go`):
  functions of one input, whose outcomes the models take nondeterministically;
* the contents of the Kubernetes objects (`kube/builder.go`), and what only reads
  from the cluster: logs, events, status, node inventory;
* `x/cert`: a certificate is created valid and may be revoked, and nothing else
  depends on the order of these steps;
* application wiring (`app`), simulation, tests and test utilities.

* how the provider's services are put together and shut down
  (`provider/service.go`, `balance_checker.go`): each service's own start and drain is
  in its module.

So the mapped lines are a small part of the repository: parts with state that several
actors change.  Covering a third of all lines would take nearly every hand-written
one, the translations and the command lines included.

## Plan

1. Abstract specification of the escrow account (a balance that is paid down)
   refined by `Escrow`; refinement of a lease's life cycle by `Marketplace`.
2. Proofs: the port counter of the inventory, agreement of lease, bid and order.
3. `ManifestService` and `ClusterService` on `Bus`, as `BidService` is.
4. Pure operators: prices, manifest validation against the deployment's groups.
