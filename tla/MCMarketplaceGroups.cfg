\* Two groups of one deployment share its escrow account.
CONSTANTS
    d1 = d1
    Deployments = {d1}
    NumGroups = 2
    MaxOrders = 2
    NumProviders = 1
    Deposits = {3}
    BidDeposit = 1
    MinDeposit = 2
    BidMinDeposit = 1
    Prices = {2}
    OrderPrice = 2
    OrderMaxBids = 1
    Supply = 5
    MaxHeight = 2
SPECIFICATION Spec
INVARIANTS
    OpenGroupsHaveOneOrder
    PaidWhileActive
CHECK_DEADLOCK FALSE
