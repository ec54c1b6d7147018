\* A lease that ends in the block of a settlement keeps its payment (violated).
CONSTANTS
    d1 = d1
    Deployments = {d1}
    NumGroups = 1
    MaxOrders = 2
    NumProviders = 2
    Deposits = {4}
    BidDeposit = 1
    MinDeposit = 2
    BidMinDeposit = 1
    Prices = {2}
    OrderPrice = 2
    OrderMaxBids = 1
    Supply = 9
    MaxHeight = 3
SPECIFICATION Spec
INVARIANT
    EndedLeasesAreNotPaid
CHECK_DEADLOCK FALSE
