\* One order, a bid timeout and one restart of the provider.
CONSTANTS
    BidTimeout = TRUE
    MaxCrashes = 1
SPECIFICATION FairSpec
INVARIANTS
    CapacityFollowsBid
PROPERTIES
    BidsWithdrawn
    OrdersEnd
CHECK_DEADLOCK FALSE
