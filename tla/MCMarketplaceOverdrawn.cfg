\* OverdrawnLeasesSaySo only: the code violates it.
CONSTANTS
    d1 = d1
    Deployments = {d1}
    NumGroups = 1
    MaxOrders = 2
    NumProviders = 2
    Deposits = {4}
    BidDeposit = 1
    MinDeposit = 2
    BidMinDeposit = 1
    Prices = {2}
    OrderPrice = 2
    OrderMaxBids = 1
    Supply = 9
    MaxHeight = 3
SPECIFICATION Spec
INVARIANT
    OverdrawnLeasesSaySo
CHECK_DEADLOCK FALSE
