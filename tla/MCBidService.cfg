\* Two orders created while the publisher, the bid engine and the bus start and stop.
SPECIFICATION FairSpec
CONSTANTS
    o1 = o1
    o2 = o2
    Orders = {o1, o2}
    Service = "service"
    MaxFeed = 1
    Root = "bus"
    Subscribers = {o1, o2, "service"}
    Events <- MCEvents
PROPERTIES
    KeepsPromise
    OrdersAreFollowed
    DrainCompletes
CHECK_DEADLOCK FALSE
